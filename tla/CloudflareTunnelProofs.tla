----------------------- MODULE CloudflareTunnelProofs -----------------------
(***************************************************************************)
(* DoneStaysDone of CloudflareTunnel for any number of scripts, hostnames  *)
(* and tunnels.  The invariant that carries it is about the copies: where  *)
(* a script is about to write its copy of a document, the copy agrees with *)
(* everything promised of that document, but for the calls that have ended *)
(* since it was read and for what had been overwritten by then.            *)
(***************************************************************************)
EXTENDS CloudflareTunnel, TLAPS

Places == {"list", "create", "idle", "record", "delete", "read", "write"}
InCallPlaces == {"record", "delete", "read", "write"}

TypeOK ==
  /\ tunnels \subseteq Tunnels
  /\ dns \in [Hostnames -> Tunnels \cup {NoRecord, Other}]
  /\ ingress \in [Tunnels -> SUBSET Hostnames]
  /\ tunnel \in [Managers -> Tunnels \cup {NoRecord}]
  /\ at \in [Managers -> Places]
  /\ adding \in [Managers -> BOOLEAN]
  /\ host \in [Managers -> Hostnames \cup {NoHost}]
  /\ copy \in [Managers -> SUBSET Hostnames]
  /\ alone \in [Managers -> BOOLEAN]
  /\ added \subseteq Hostnames
  /\ removed \subseteq Hostnames \X Tunnels
  /\ unseen \in [Managers -> SUBSET Hostnames]
  /\ overwritten \subseteq Hostnames

\* A script has a hostname exactly in a call, and then it has a tunnel.
Working ==
  \A m \in Managers :
    /\ at[m] \in InCallPlaces => host[m] \in Hostnames
    /\ at[m] \notin InCallPlaces => host[m] = NoHost
    /\ at[m] \notin {"list", "create"} => tunnel[m] \in tunnels

\* Nothing is promised of the hostname of a call.
Unpromised ==
  \A m \in Managers : host[m] \notin added /\ \A r \in removed : r[1] # host[m]

\* Where no other call for the hostname was seen, the record is as this call
\* has left it.
RecordIsMine ==
  \A m \in Managers : alone[m] =>
    /\ at[m] = "delete" => dns[host[m]] = tunnel[m] /\ ~adding[m]
    /\ at[m] = "record" => adding[m]
    /\ at[m] \in {"read", "write"} =>
         dns[host[m]] \in (IF adding[m] THEN {tunnel[m]} ELSE {NoRecord, Other})

\* Two calls for one hostname have seen each other.
AloneIsAlone ==
  \A m, o \in Managers : m # o /\ alone[m] /\ host[m] \in Hostnames => host[o] # host[m]

\* A copy about to be written has what is promised of the document and has not come
\* after it.
CopyIsGood ==
  \A m \in Managers : at[m] = "write" =>
    /\ \A h \in added : dns[h] = tunnel[m] => h \in copy[m] \cup unseen[m] \cup overwritten
    /\ \A r \in removed : r[2] = tunnel[m] =>
         r[1] \notin copy[m] \/ r[1] \in unseen[m] \cup overwritten

Inv == /\ TypeOK /\ Working /\ Unpromised /\ RecordIsMine /\ AloneIsAlone /\ CopyIsGood
       /\ DoneStaysDone
-----------------------------------------------------------------------------
\* At the start nobody works and nothing is promised.
LEMMA InitInv == Init => Inv
<1> SUFFICES ASSUME Init PROVE Inv
  OBVIOUS
<1>1. TypeOK
  <2>1. dns \in [Hostnames -> Tunnels \cup {NoRecord, Other}]
    BY DEF Init
  <2> QED
    BY <2>1 DEF Init, TypeOK, Places
<1>2. Working /\ Unpromised /\ RecordIsMine /\ CopyIsGood
  BY DEF Init, Working, Unpromised, RecordIsMine, CopyIsGood, InCallPlaces
<1>3. AloneIsAlone /\ DoneStaysDone
  BY NoHostAssumption DEF Init, AloneIsAlone, DoneStaysDone
<1> QED
  BY <1>1, <1>2, <1>3 DEF Inv

\* The constructor touches neither records nor documents.
LEMMA ConstructorInv ==
  ASSUME Inv, NEW m \in Managers, ListTunnels(m) \/ CreateTunnel(m)
  PROVE  Inv'
<1> USE DEF Inv, Goto, cloud, history
<1>1. TypeOK' /\ Working'
  BY DEF TypeOK, Working, Places, InCallPlaces, ListTunnels, CreateTunnel
<1>2. Unpromised' /\ AloneIsAlone'
  BY DEF Unpromised, AloneIsAlone, ListTunnels, CreateTunnel
<1>3. RecordIsMine' /\ CopyIsGood'
  <2>1. /\ at'[m] \in {"idle", "create"}
        /\ \A o \in Managers \ {m} : at'[o] = at[o] /\ tunnel'[o] = tunnel[o]
        /\ UNCHANGED <<dns, adding, host, copy, alone, history>>
    BY DEF TypeOK, ListTunnels, CreateTunnel
  <2>2. \A o \in Managers : at'[o] \in {"record", "delete", "read", "write"} => o # m
    BY <2>1
  <2> QED
    BY <2>1, <2>2 DEF RecordIsMine, CopyIsGood
<1>4. DoneStaysDone'
  BY DEF TypeOK, DoneStaysDone, ListTunnels, CreateTunnel
<1> QED
  BY <1>1, <1>2, <1>3, <1>4

\* A new call takes back what was promised of its hostname.
LEMMA CallInv ==
  ASSUME Inv, NEW m \in Managers, NEW h \in Hostnames, NEW adds \in BOOLEAN, Call(m, h, adds)
  PROVE  Inv'
<1> USE DEF Inv, Call, Goto, cloud, history
<1>1. TypeOK' /\ Working'
  BY DEF TypeOK, Working, Places, InCallPlaces
<1>2. Unpromised'
  BY NoHostAssumption DEF TypeOK, Unpromised
<1>3. AloneIsAlone'
  BY DEF TypeOK, AloneIsAlone
<1>4. RecordIsMine'
  BY DEF TypeOK, RecordIsMine
<1>5. CopyIsGood' /\ DoneStaysDone'
  BY DEF TypeOK, CopyIsGood, DoneStaysDone
<1> QED
  BY <1>1, <1>2, <1>3, <1>4, <1>5

\* The requests before the write: the record of a hostname of which nothing is
\* promised, and a copy that is fresh.
LEMMA RequestInv ==
  ASSUME Inv, NEW m \in Managers, CreateRecord(m) \/ DeleteRecord(m) \/ GetConfig(m)
  PROVE  Inv'
<1> USE DEF Inv, Goto, InCall
<1>1. TypeOK' /\ Working'
  BY DEF TypeOK, Working, Places, InCallPlaces, CreateRecord, DeleteRecord, GetConfig
<1>2. Unpromised' /\ AloneIsAlone'
  BY DEF Unpromised, AloneIsAlone, CreateRecord, DeleteRecord, GetConfig
<1>3. RecordIsMine'
  <2>1. CASE CreateRecord(m) \/ DeleteRecord(m)
    <3>1. at' = [at EXCEPT ![m] = "read"] /\ host[m] \in Hostnames
      BY <2>1 DEF Working, InCallPlaces, CreateRecord, DeleteRecord
    <3>2. ASSUME NEW o \in Managers \ {m}, alone[o]
          PROVE  /\ at'[o] = at[o]
                 /\ at[o] \in InCallPlaces => dns'[host[o]] = dns[host[o]]
      <4>1. at[o] \in InCallPlaces => host[o] \in Hostnames /\ host[o] # host[m]
        BY <3>1, <3>2 DEF Working, AloneIsAlone
      <4> QED
        BY <2>1, <3>1, <4>1 DEF TypeOK, CreateRecord, DeleteRecord
    <3>3. alone[m] => dns'[host[m]] \in (IF adding[m] THEN {tunnel[m]} ELSE {NoRecord, Other})
      <4>1. CASE CreateRecord(m)
        BY <3>1, <4>1 DEF TypeOK, RecordIsMine, CreateRecord
      <4>2. CASE DeleteRecord(m)
        BY <3>1, <4>2 DEF TypeOK, RecordIsMine, DeleteRecord
      <4> QED
        BY <2>1, <4>1, <4>2
    <3>4. ASSUME NEW o \in Managers \ {m}, alone[o]
          PROVE  /\ at'[o] = "delete" => dns'[host[o]] = tunnel[o] /\ ~adding[o]
                 /\ at'[o] = "record" => adding[o]
                 /\ at'[o] \in {"read", "write"} =>
                      dns'[host[o]] \in (IF adding[o] THEN {tunnel[o]} ELSE {NoRecord, Other})
      BY <3>2, <3>4 DEF RecordIsMine, InCallPlaces
    <3>5. at'[m] = "read"
      BY <3>1 DEF TypeOK
    <3>6. UNCHANGED <<tunnel, adding, host, alone>>
      BY <2>1 DEF CreateRecord, DeleteRecord
    <3>7. ASSUME NEW o \in Managers, alone[o]
          PROVE  /\ at'[o] = "delete" => dns'[host[o]] = tunnel[o] /\ ~adding[o]
                 /\ at'[o] = "record" => adding[o]
                 /\ at'[o] \in {"read", "write"} =>
                      dns'[host[o]] \in (IF adding[o] THEN {tunnel[o]} ELSE {NoRecord, Other})
      BY <3>3, <3>4, <3>5, <3>7
    <3> QED
      BY <3>6, <3>7 DEF RecordIsMine
  <2>3. CASE GetConfig(m)
    BY <2>3 DEF TypeOK, RecordIsMine, GetConfig
  <2> QED
    BY <2>1, <2>3
<1>4. CopyIsGood' /\ DoneStaysDone'
  <2>1. CASE CreateRecord(m) \/ DeleteRecord(m)
    <3>1. \A h \in Hostnames : h # host[m] => dns'[h] = dns[h]
      BY <2>1 DEF TypeOK, CreateRecord, DeleteRecord
    <3> QED
      BY <2>1, <3>1 DEF TypeOK, Unpromised, CopyIsGood, DoneStaysDone,
                        CreateRecord, DeleteRecord
  <2>2. CASE GetConfig(m)
    BY <2>2 DEF TypeOK, Working, InCallPlaces, CopyIsGood, DoneStaysDone, GetConfig
  <2> QED
    BY <2>1, <2>2
<1> QED
  BY <1>1, <1>2, <1>3, <1>4

\* A document that is written has what is promised of it, unless its writer had not
\* seen the call that is overwritten.
LEMMA WriteKeepsPromises ==
  ASSUME Inv, NEW m \in Managers, Put(m, NewIngress(m))
  PROVE  /\ ingress' \in [Tunnels -> SUBSET Hostnames]
         /\ \A h \in added :
              \E t \in tunnels : dns[h] = t /\ (h \in ingress'[t] \/ h \in overwritten')
         /\ \A r \in removed :
              dns[r[1]] \notin Tunnels /\ (r[1] \notin ingress'[r[2]] \/ r[1] \in overwritten')
         /\ adding[m] => host[m] \in ingress'[tunnel[m]]
         /\ ~adding[m] => host[m] \notin ingress'[tunnel[m]]
<1> USE DEF Inv
<1>1. /\ host[m] \in Hostnames /\ tunnel[m] \in tunnels /\ tunnel[m] \in Tunnels
      /\ NewIngress(m) \in SUBSET Hostnames
      /\ ingress' = [ingress EXCEPT ![tunnel[m]] = NewIngress(m)]
      /\ overwritten' = overwritten \cup unseen[m]
  BY DEF TypeOK, Working, InCallPlaces, Put, NewIngress
<1>2. ASSUME NEW h \in added
      PROVE  \E t \in tunnels : dns[h] = t /\ (h \in ingress'[t] \/ h \in overwritten')
  <2>1. PICK t \in tunnels : dns[h] = t /\ (h \in ingress[t] \/ h \in overwritten)
    BY <1>2 DEF DoneStaysDone
  <2>2. t = tunnel[m] => h \in NewIngress(m) \cup overwritten'
    BY <1>1, <2>1 DEF Put, CopyIsGood, Unpromised, NewIngress
  <2>3. h \in ingress'[t] \/ h \in overwritten'
    BY <1>1, <2>1, <2>2 DEF TypeOK
  <2> QED
    BY <2>1, <2>3
<1>3. ASSUME NEW r \in removed
      PROVE  dns[r[1]] \notin Tunnels /\ (r[1] \notin ingress'[r[2]] \/ r[1] \in overwritten')
  <2>1. /\ dns[r[1]] \notin Tunnels /\ r[2] \in Tunnels
        /\ r[1] \notin ingress[r[2]] \/ r[1] \in overwritten
    BY <1>3 DEF TypeOK, DoneStaysDone
  <2>2. r[2] = tunnel[m] => r[1] \notin NewIngress(m) \/ r[1] \in overwritten'
    BY <1>1, <1>3 DEF Put, CopyIsGood, Unpromised, NewIngress
  <2> QED
    BY <1>1, <2>1, <2>2 DEF TypeOK
<1>4. /\ adding[m] => host[m] \in ingress'[tunnel[m]]
      /\ ~adding[m] => host[m] \notin ingress'[tunnel[m]]
  BY <1>1 DEF TypeOK, NewIngress
<1> QED
  BY <1>1, <1>2, <1>3, <1>4 DEF TypeOK

\* A call returns: its promise is of a record no other call has changed and a
\* document it has just written, and the copies of other scripts have not seen it.
LEMMA UpdateInv ==
  ASSUME Inv, NEW m \in Managers, UpdateConfig(m)
  PROVE  Inv'
<1> USE DEF Inv
<1> DEFINE done == IF alone[m] THEN {host[m]} ELSE {}
<1>1. /\ Put(m, NewIngress(m)) /\ Return(m)
      /\ added' = IF adding[m] THEN added \cup done ELSE added
      /\ removed' = IF adding[m] THEN removed ELSE removed \cup (done \X {tunnel[m]})
      /\ unseen' = [o \in Managers |->
                      IF o = m THEN {}
                      ELSE IF at[o] = "write" /\ tunnel[o] = tunnel[m]
                           THEN unseen[o] \cup {host[m]} ELSE unseen[o]]
  BY DEF UpdateConfig, Succeed
<1>2. /\ at[m] = "write" /\ host[m] \in Hostnames /\ tunnel[m] \in tunnels
      /\ done \subseteq {host[m]} /\ UNCHANGED <<tunnels, dns, tunnel>>
      /\ overwritten' = overwritten \cup unseen[m]
  BY <1>1 DEF Put, Working, InCallPlaces
<1>3. done # {} => dns[host[m]] \in (IF adding[m] THEN {tunnel[m]} ELSE {NoRecord, Other})
  BY <1>2 DEF RecordIsMine
<1>4. \A o \in Managers \ {m} : host[o] \notin done
  BY <1>2 DEF AloneIsAlone
<1> HIDE DEF done
<1>5. TypeOK'
  <2>1. unseen' \in [Managers -> SUBSET Hostnames] /\ overwritten' \subseteq Hostnames
    BY <1>1, <1>2 DEF TypeOK
  <2>2. UNCHANGED <<tunnels, dns, tunnel>>
    BY <1>2
  <2> QED
    BY <1>1, <1>2, <2>1, <2>2, WriteKeepsPromises DEF TypeOK, Return, Goto, Places
<1>6. Working'
  BY <1>1, <1>2 DEF TypeOK, Working, Return, Goto, InCallPlaces
<1>7. AloneIsAlone'
  BY <1>1, NoHostAssumption DEF TypeOK, AloneIsAlone, Return
<1>8. RecordIsMine'
  BY <1>1, <1>2 DEF TypeOK, RecordIsMine, Return, Goto
<1>9. Unpromised'
  <2>1. \A o \in Managers : host'[o] \notin added' /\ host'[o] \notin done
    BY <1>1, <1>2, <1>4, NoHostAssumption DEF TypeOK, Return, Unpromised
  <2>2. \A o \in Managers, r \in removed : host'[o] # r[1]
    BY <1>1, NoHostAssumption DEF TypeOK, Return, Unpromised
  <2> QED
    BY <1>1, <2>1, <2>2 DEF Unpromised
<1>10. CopyIsGood'
  <2> SUFFICES ASSUME NEW o \in Managers, at'[o] = "write"
               PROVE  /\ \A h \in added' : dns[h] = tunnel[o] =>
                           h \in copy'[o] \cup unseen'[o] \cup overwritten'
                      /\ \A r \in removed' : r[2] = tunnel[o] =>
                           r[1] \notin copy'[o] \/ r[1] \in unseen'[o] \cup overwritten'
    BY <1>2 DEF CopyIsGood
  <2>1. /\ o # m /\ at[o] = "write" /\ copy'[o] = copy[o] /\ unseen[o] \subseteq unseen'[o]
        /\ tunnel[o] = tunnel[m] => host[m] \in unseen'[o]
    BY <1>1 DEF TypeOK, Return, Goto
  <2>2. adding[m] /\ done # {} => dns[host[m]] = tunnel[m]
    BY <1>3
  <2>3. ASSUME NEW h \in added', dns[h] = tunnel[o]
        PROVE  h \in copy'[o] \cup unseen'[o] \cup overwritten'
    <3>1. CASE h \in added
      BY <1>2, <2>1, <2>3, <3>1 DEF CopyIsGood
    <3>2. CASE h \notin added
      <4>1. adding[m] /\ done # {} /\ h = host[m]
        BY <1>1, <1>2, <2>3, <3>2
      <4> QED
        BY <2>1, <2>2, <2>3, <4>1
    <3> QED
      BY <3>1, <3>2
  <2>4. ASSUME NEW r \in removed', r[2] = tunnel[o]
        PROVE  r[1] \notin copy'[o] \/ r[1] \in unseen'[o] \cup overwritten'
    <3>1. CASE r \in removed
      BY <1>2, <2>1, <2>4, <3>1 DEF CopyIsGood
    <3>2. CASE r \notin removed
      <4>1. r[1] = host[m] /\ r[2] = tunnel[m]
        BY <1>1, <1>2, <2>4, <3>2
      <4> QED
        BY <2>1, <2>4, <4>1
    <3> QED
      BY <3>1, <3>2
  <2> QED
    BY <2>3, <2>4
<1>11. DoneStaysDone'
  <2>1. ASSUME NEW h \in added'
        PROVE  \E t \in tunnels : dns[h] = t /\ (h \in ingress'[t] \/ h \in overwritten')
    <3>1. CASE h \in added
      BY <1>1, <3>1, WriteKeepsPromises
    <3>2. CASE h \notin added
      <4>1. adding[m] /\ done # {} /\ h = host[m]
        BY <1>1, <1>2, <2>1, <3>2
      <4> QED
        BY <1>1, <1>2, <1>3, <4>1, WriteKeepsPromises
    <3> QED
      BY <3>1, <3>2
  <2>2. ASSUME NEW r \in removed'
        PROVE  dns[r[1]] \notin Tunnels /\ (r[1] \notin ingress'[r[2]] \/ r[1] \in overwritten')
    <3>1. CASE r \in removed
      BY <1>1, <3>1, WriteKeepsPromises
    <3>2. CASE r \notin removed
      <4>1. ~adding[m] /\ done # {} /\ r[1] = host[m] /\ r[2] = tunnel[m]
        BY <1>1, <1>2, <2>2, <3>2
      <4> QED
        BY <1>1, <1>3, <4>1, WriteKeepsPromises, RecordsAssumption
    <3> QED
      BY <3>1, <3>2
  <2> QED
    BY <1>2, <2>1, <2>2 DEF DoneStaysDone
<1> QED
  BY <1>5, <1>6, <1>7, <1>8, <1>9, <1>10, <1>11

\* A write without an answer, and a call that raises, promise nothing.
LEMMA FailureInv ==
  ASSUME Inv, NEW m \in Managers, UpdateUnanswered(m) \/ Raise(m)
  PROVE  Inv'
<1> USE DEF Inv
<1>1. CASE UpdateUnanswered(m)
  <2>1. /\ Put(m, NewIngress(m))
        /\ UNCHANGED <<at, adding, host, copy, alone, added, removed, unseen>>
        /\ UNCHANGED <<tunnels, dns, tunnel>> /\ overwritten' = overwritten \cup unseen[m]
    BY <1>1 DEF UpdateUnanswered, Put
  <2>2. TypeOK' /\ DoneStaysDone'
    BY <2>1, WriteKeepsPromises DEF TypeOK, DoneStaysDone
  <2>3. CopyIsGood'
    BY <2>1 DEF CopyIsGood
  <2> QED
    BY <2>1, <2>2, <2>3 DEF Working, Unpromised, RecordIsMine, AloneIsAlone
<1>2. CASE Raise(m)
  <2>1. TypeOK' /\ Working'
    BY <1>2 DEF Raise, Return, Goto, cloud, TypeOK, Working, Places, InCallPlaces
  <2>2. Unpromised' /\ AloneIsAlone'
    BY <1>2, NoHostAssumption DEF Raise, Return, cloud, TypeOK, Unpromised, AloneIsAlone
  <2>3. RecordIsMine' /\ CopyIsGood' /\ DoneStaysDone'
    BY <1>2 DEF Raise, Return, Goto, cloud, TypeOK, RecordIsMine, CopyIsGood, DoneStaysDone
  <2> QED
    BY <2>1, <2>2, <2>3
<1> QED
  BY <1>1, <1>2

-----------------------------------------------------------------------------
\* What a completed call has done stays done until the next call for that
\* hostname, with any number of scripts.  Its record stays whatever the others do,
\* and its rule is only lost to a script that had read the document before the
\* call's write and writes it after; of two calls for one hostname at the same time
\* nothing is promised.
THEOREM DoneIsKept == Spec => []DoneStaysDone
<1>1. Inv /\ [Next]_vars => Inv'
  <2> SUFFICES ASSUME Inv, [Next]_vars PROVE Inv'
    OBVIOUS
  <2>1. CASE Next
    BY <2>1, ConstructorInv, CallInv, RequestInv, UpdateInv, FailureInv DEF Next
  <2>2. CASE UNCHANGED vars
    BY <2>2 DEF vars, cloud, history, Inv, TypeOK, Working, Unpromised, RecordIsMine, AloneIsAlone,
                CopyIsGood, DoneStaysDone
  <2> QED
    BY <2>1, <2>2
<1>2. Inv => DoneStaysDone
  BY DEF Inv
<1> QED
  BY InitInv, <1>1, <1>2, PTL DEF Spec
=============================================================================
