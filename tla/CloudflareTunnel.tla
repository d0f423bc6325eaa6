-------------------------- MODULE CloudflareTunnel --------------------------
(***************************************************************************)
(* cloudflare/CloudflareTunnelManager.py: scripts that publish hostnames   *)
(* through a Cloudflare tunnel.  A hostname needs a CNAME record and a     *)
(* rule in the tunnel's ingress document.  The document is read, changed   *)
(* and written back whole, with no version, by whoever runs the script.    *)
(*                                                                         *)
(* Of the ingress only the set of hostnames matters: every write puts the  *)
(* catch-all rule last, and a removal drops all rules of its hostname.     *)
(* Cloudflare itself is external: it refuses a second record for a name.   *)
(***************************************************************************)

CONSTANTS
  Managers,        \* running instances of the script
  Hostnames,
  Tunnels,         \* ids Cloudflare may give to tunnels
  NoRecord, Other, \* a name with no record, or one that points elsewhere
  NoHost           \* no hostname

ASSUME RecordsAssumption == {NoRecord, Other} \cap Tunnels = {} /\ NoRecord # Other
ASSUME NoHostAssumption == NoHost \notin Hostnames

VARIABLES
  tunnels,   \* Cloudflare: the tunnels of the name both look for
  dns,       \* Cloudflare: the CNAME record of each hostname
  ingress,   \* Cloudflare: the hostnames each tunnel has a rule for
  tunnel,    \* self.tunnel_id of a manager, NoRecord before the constructor ends
  at,        \* the next request of a manager
  adding,    \* whether its call is add_tunnel; else remove_tunnel
  host,      \* the hostname of its call
  copy,      \* the ingress it has read
  alone,     \* history: no other call for its hostname ran beside its call
  added,     \* history: the hostnames whose last call was an add that ended well
  removed,   \* history: the same of removals, with the tunnel of the call
  unseen,    \* history: the hostnames whose calls have ended since it read its copy
  overwritten \* history: the hostnames whose rule a copy that had not seen it has replaced

history == <<added, removed, unseen, overwritten>>
cloud == <<tunnels, dns, ingress>>
vars == <<cloud, tunnel, at, adding, host, copy, alone, history>>

Goto(m, place) == at' = [at EXCEPT ![m] = place]

\* The call of m ends, well or with an exception.
Return(m) ==
  /\ Goto(m, "idle")
  /\ adding' = [adding EXCEPT ![m] = FALSE]
  /\ host' = [host EXCEPT ![m] = NoHost]
  /\ copy' = [copy EXCEPT ![m] = {}]
  /\ alone' = [alone EXCEPT ![m] = TRUE]

InCall == UNCHANGED <<tunnels, tunnel, adding, host, alone, added, removed, overwritten>>

-----------------------------------------------------------------------------
\* __init__: the tunnel of that name is looked up, and created if there is none.
ListTunnels(m) ==
  /\ at[m] = "list"
  /\ \/ \E t \in tunnels : tunnel' = [tunnel EXCEPT ![m] = t] /\ Goto(m, "idle")
     \/ tunnels = {} /\ Goto(m, "create") /\ UNCHANGED tunnel
  /\ UNCHANGED <<cloud, adding, host, copy, alone, history>>

CreateTunnel(m) ==
  /\ at[m] = "create"
  /\ \E t \in Tunnels \ tunnels :
       /\ tunnels' = tunnels \cup {t}
       /\ tunnel' = [tunnel EXCEPT ![m] = t]
  /\ Goto(m, "idle")
  /\ UNCHANGED <<dns, ingress, adding, host, copy, alone, history>>

\* A call begins with _get_tunnel_id_by_hostname, and raises if the hostname
\* belongs to another tunnel (add) or does not belong to this one (remove).
Call(m, h, adds) ==
  /\ at[m] = "idle"
  /\ IF adds THEN dns[h] \notin Tunnels \ {tunnel[m]} ELSE dns[h] = tunnel[m]
  /\ adding' = [adding EXCEPT ![m] = adds]
  /\ host' = [host EXCEPT ![m] = h]
  /\ Goto(m, IF adds THEN "record" ELSE "delete")
  /\ LET same == {o \in Managers \ {m} : host[o] = h} IN
       alone' = [o \in Managers |-> IF o = m THEN same = {} ELSE alone[o] /\ o \notin same]
  /\ added' = added \ {h} /\ removed' = removed \ ({h} \X Tunnels)
  /\ unseen' = [o \in Managers |-> unseen[o] \ {h}] /\ overwritten' = overwritten \ {h}
  /\ UNCHANGED <<cloud, tunnel, copy>>

\* _create_dns_record; Cloudflare refuses it if the name has a record.
CreateRecord(m) ==
  /\ at[m] = "record"
  /\ dns[host[m]] = NoRecord
  /\ dns' = [dns EXCEPT ![host[m]] = tunnel[m]]
  /\ Goto(m, "read")
  /\ InCall /\ UNCHANGED <<ingress, copy, unseen>>

\* The records are listed again and the one of this tunnel is deleted.
DeleteRecord(m) ==
  /\ at[m] = "delete"
  /\ dns' = IF dns[host[m]] = tunnel[m] THEN [dns EXCEPT ![host[m]] = NoRecord] ELSE dns
  /\ Goto(m, "read")
  /\ InCall /\ UNCHANGED <<ingress, copy, unseen>>

\* get_config.
GetConfig(m) ==
  /\ at[m] = "read"
  /\ copy' = [copy EXCEPT ![m] = ingress[tunnel[m]]]
  /\ unseen' = [unseen EXCEPT ![m] = {}]
  /\ Goto(m, "write")
  /\ InCall /\ UNCHANGED <<dns, ingress>>

NewIngress(m) == IF adding[m] THEN copy[m] \cup {host[m]} ELSE copy[m] \ {host[m]}

\* update_config: the document is written ...
Put(m, document) ==
  /\ at[m] = "write"
  /\ ingress' = [ingress EXCEPT ![tunnel[m]] = document]
  /\ overwritten' = overwritten \cup unseen[m]
  /\ UNCHANGED <<tunnels, dns, tunnel>>

\* The call has done what it was to do; other copies of the document miss it.
Succeed(m) ==
  /\ LET done == IF alone[m] THEN {host[m]} ELSE {} IN
       /\ added' = IF adding[m] THEN added \cup done ELSE added
       /\ removed' = IF adding[m] THEN removed ELSE removed \cup (done \X {tunnel[m]})
  /\ unseen' = [o \in Managers |->
                  IF o = m THEN {}
                  ELSE IF at[o] = "write" /\ tunnel[o] = tunnel[m] THEN unseen[o] \cup {host[m]}
                  ELSE unseen[o]]
  /\ Return(m)

\* Seeded fault: written with the rule of the call alone.
UpdateConfigForgets(m) == Put(m, IF adding[m] THEN {host[m]} ELSE {}) /\ Succeed(m)

\* ... and the call returns ...
UpdateConfig(m) == Put(m, NewIngress(m)) /\ Succeed(m)

\* ... or there is no answer, and _req_with_retry will write it again.
UpdateUnanswered(m) ==
  /\ Put(m, NewIngress(m))
  /\ UNCHANGED <<at, adding, host, copy, alone, added, removed, unseen>>

\* A request raises and the call with it; what came before it stays.
Raise(m) ==
  /\ at[m] \in {"record", "delete", "read", "write"}
  /\ unseen' = [unseen EXCEPT ![m] = {}]
  /\ Return(m)
  /\ UNCHANGED <<cloud, tunnel, added, removed, overwritten>>

-----------------------------------------------------------------------------
Init ==
  /\ tunnels \in SUBSET Tunnels /\ \A t, u \in tunnels : t = u
  /\ dns \in [Hostnames -> {NoRecord, Other}]
  /\ ingress = [t \in Tunnels |-> {}]
  /\ tunnel = [m \in Managers |-> NoRecord]
  /\ at = [m \in Managers |-> "list"]
  /\ adding = [m \in Managers |-> FALSE]
  /\ host = [m \in Managers |-> NoHost]
  /\ copy = [m \in Managers |-> {}]
  /\ alone = [m \in Managers |-> TRUE]
  /\ added = {} /\ removed = {}
  /\ unseen = [m \in Managers |-> {}] /\ overwritten = {}

Next ==
  \E m \in Managers :
    \/ ListTunnels(m) \/ CreateTunnel(m)
    \/ \E h \in Hostnames, adds \in BOOLEAN : Call(m, h, adds)
    \/ CreateRecord(m) \/ DeleteRecord(m) \/ GetConfig(m)
    \/ UpdateConfig(m) \/ UpdateUnanswered(m) \/ Raise(m)

Spec == Init /\ [][Next]_vars

-----------------------------------------------------------------------------
\* What a completed call has done stays done until the next call for that
\* hostname, whatever calls run, race, fail or are retried meanwhile: the record
\* for good, and the rule unless an instance that had read the document before the
\* call wrote it writes it afterwards, which nothing in the code prevents
\* (CloudflareTunnelManager.py:123).  Nothing is said of two calls for the same
\* hostname that overlap.
DoneStaysDone ==
  /\ \A h \in added : \E t \in tunnels : dns[h] = t /\ (h \in ingress[t] \/ h \in overwritten)
  /\ \A r \in removed :
       dns[r[1]] \notin Tunnels /\ (r[1] \notin ingress[r[2]] \/ r[1] \in overwritten)
=============================================================================
