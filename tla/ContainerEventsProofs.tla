------------------------ MODULE ContainerEventsProofs ------------------------
(***************************************************************************)
(* PendingComes, NoneDeadServed and Converged of ContainerEvents for any   *)
(* containers, networks and timers: the first whatever Docker does, the    *)
(* second if it is quiet before the subscription, the third if its         *)
(* requests succeed and the proxy's own container stays healthy as well.   *)
(*                                                                         *)
(* A handler acts on the state Docker has when it runs, not on that of its *)
(* event, so a late "healthy" event can register a container that is dead  *)
(* or unhealthy by then.  That does no lasting harm because the order of   *)
(* events is kept: the event that tells of the later change is still on    *)
(* its way, behind the late one.                                           *)
(***************************************************************************)
EXTENDS ContainerEvents, Functions, FiniteSetTheorems, SequenceTheorems, TLAPS

EventTypes == {"start", "die", "healthy", "unhealthy", "connect", "disconnect"}
DockerEvents == [type : EventTypes, id : Containers \cup {Self}, net : Nets \cup {NoNet}]
Activations == [type : {"activate"}, id : Containers, gen : {1}, timer : Timers]
Rescans == [type : {"rescan"}, id : {Self}, net : {NoNet}]
Commands == DockerEvents \cup Activations \cup Rescans

TypeOK ==
  /\ env \in [grace : BOOLEAN, fails : BOOLEAN, settled : BOOLEAN, nets : SUBSET Nets]
  /\ checked \subseteq Containers /\ running \subseteq Containers
  /\ nets \in [Containers -> SUBSET Nets]
  /\ health \in [Containers -> {"starting", "healthy", "unhealthy"}]
  /\ stream \in Seq(DockerEvents)
  /\ queue \in Seq(Commands)
  /\ pendingTimers \in [Containers -> Timers \cup {NoTimer}]
  /\ pendingGens \in [Containers -> {0, 1}]
  /\ armed \subseteq Activations
  /\ route \in [Containers -> Nets \cup {NoNet}]

\* A pending activation of c waits for its timer or is queued.
Coming == armed \cup Range(queue)
Comes(c) ==
  \E a \in Coming : a.type = "activate" /\ a.id = c /\ a.timer = pendingTimers[c]

\* The dicts have the same keys, no timer is the timer of two containers, each
\* has its command under way, and only containers without a health check have one.
Pending ==
  /\ \A c \in Containers : pendingTimers[c] = NoTimer <=> pendingGens[c] = 0
  /\ \A c, d \in Containers :
       pendingTimers[c] = pendingTimers[d] /\ pendingTimers[c] # NoTimer => c = d
  /\ \A c \in Containers : pendingTimers[c] # NoTimer => Comes(c)
  /\ \A c \in checked : pendingGens[c] = 0

PendingInv == TypeOK /\ Pending

\* The events after which c is not eligible, and those after which it may be.
DownOf(c) == {e \in DockerEvents : e.id = c /\ e.type \in {"die", "unhealthy"}}
HealthyOf(c) == {e \in DockerEvents : e.id = c /\ e.type = "healthy"}

\* An element of q is in X; an element of q is in H and none in X follows it.
Meets(q, X) == \E i \in 1..Len(q) : q[i] \in X
EndsWith(q, H, X) ==
  \E i \in 1..Len(q) : q[i] \in H /\ \A j \in i+1..Len(q) : q[j] \notin X

\* Of a container that is not eligible: no "healthy" event is the last to come,
\* and if it is registered then the news of its end is still to come.
DownIsToldOf(c) ==
  /\ ~EndsWith(stream, HealthyOf(c), DownOf(c))
  /\ EndsWith(queue, HealthyOf(c), DownOf(c)) => Meets(stream, DownOf(c))
  /\ Served(c) => Meets(queue, DownOf(c)) \/ Meets(stream, DownOf(c))

Told == \A c \in Containers : ~Eligible(c) => DownIsToldOf(c)

Inv == PendingInv /\ Told
-----------------------------------------------------------------------------
\* What the elements of a queue are after one has been put at its end, or taken
\* from its front.
LEMMA AppendRange ==
  ASSUME NEW S, NEW q \in Seq(S), NEW e \in S
  PROVE  Append(q, e) \in Seq(S) /\ Range(Append(q, e)) = Range(q) \cup {e}
<1>1. Append(q, e) \in Seq(S)
  BY AppendProperties
<1>2. Range(Append(q, e)) = {Append(q, e)[i] : i \in 1..Len(Append(q, e))}
  BY <1>1, RangeEquality
<1>3. Range(q) = {q[i] : i \in 1..Len(q)}
  BY RangeEquality
<1>4. Len(q) \in Nat
  BY LenProperties
<1> QED
  BY <1>1, <1>2, <1>3, <1>4, AppendProperties

LEMMA TailRange ==
  ASSUME NEW S, NEW q \in Seq(S), q # <<>>
  PROVE  /\ Tail(q) \in Seq(S) /\ Head(q) \in S
         /\ Range(q) = {Head(q)} \cup Range(Tail(q))
<1>1. Tail(q) \in Seq(S) /\ Head(q) \in S /\ Head(q) = q[1]
  BY HeadTailProperties
<1>2. Range(q) = {q[i] : i \in 1..Len(q)}
  BY RangeEquality
<1>3. Range(Tail(q)) = {Tail(q)[i] : i \in 1..Len(Tail(q))}
  BY <1>1, RangeEquality
<1>4. Len(q) \in Nat \ {0}
  BY LenProperties, EmptySeq
<1>5. Len(Tail(q)) = Len(q) - 1 /\ \A i \in 1..Len(Tail(q)) : Tail(q)[i] = q[i + 1]
  BY HeadTailProperties
<1>6. ASSUME NEW i \in 1..Len(q), i # 1
      PROVE  q[i] \in Range(Tail(q))
  <2>1. i - 1 \in 1..Len(Tail(q)) /\ (i - 1) + 1 = i
    BY <1>4, <1>5, <1>6
  <2>2. Tail(q)[i - 1] = q[i]
    BY <2>1, <1>5
  <2> QED
    BY <2>1, <2>2, <1>3
<1>7. ASSUME NEW i \in 1..Len(Tail(q))
      PROVE  Tail(q)[i] \in Range(q)
  <2>1. i + 1 \in 1..Len(q)
    BY <1>4, <1>5
  <2> QED
    BY <2>1, <1>2, <1>5
<1>8. q[1] \in Range(q)
  BY <1>2, <1>4
<1>9. Range(q) \subseteq {Head(q)} \cup Range(Tail(q))
  BY <1>1, <1>2, <1>6
<1>10. {Head(q)} \cup Range(Tail(q)) \subseteq Range(q)
  BY <1>1, <1>3, <1>7, <1>8
<1> QED
  BY <1>1, <1>9, <1>10

\* Meets and EndsWith for what a queue becomes: joined to another one, ...
LEMMA MeetsConcat ==
  ASSUME NEW S, NEW q \in Seq(S), NEW r \in Seq(S), NEW X
  PROVE  Meets(q \o r, X) <=> Meets(q, X) \/ Meets(r, X)
<1>1. /\ Len(q) \in Nat /\ Len(r) \in Nat /\ Len(q \o r) = Len(q) + Len(r)
      /\ \A i \in 1..Len(q) + Len(r) :
           (q \o r)[i] = IF i <= Len(q) THEN q[i] ELSE r[i - Len(q)]
  BY ConcatProperties, LenProperties
<1>2. ASSUME Meets(q, X) PROVE Meets(q \o r, X)
  <2>1. PICK i \in 1..Len(q) : q[i] \in X
    BY <1>2 DEF Meets
  <2>2. i \in 1..Len(q \o r) /\ (q \o r)[i] = q[i]
    BY <1>1
  <2> QED
    BY <2>1, <2>2 DEF Meets
<1>3. ASSUME Meets(r, X) PROVE Meets(q \o r, X)
  <2>1. PICK i \in 1..Len(r) : r[i] \in X
    BY <1>3 DEF Meets
  <2>2. i + Len(q) \in 1..Len(q \o r) /\ ~(i + Len(q) <= Len(q)) /\ (i + Len(q)) - Len(q) = i
    BY <1>1
  <2>3. (q \o r)[i + Len(q)] = r[i]
    BY <1>1, <2>2
  <2> QED
    BY <2>1, <2>2, <2>3 DEF Meets
<1>4. ASSUME Meets(q \o r, X), ~Meets(q, X) PROVE Meets(r, X)
  <2>1. PICK i \in 1..Len(q \o r) : (q \o r)[i] \in X
    BY <1>4 DEF Meets
  <2>2. ~(i <= Len(q))
    BY <1>1, <1>4, <2>1 DEF Meets
  <2>3. i - Len(q) \in 1..Len(r) /\ (q \o r)[i] = r[i - Len(q)]
    BY <1>1, <2>2
  <2> QED
    BY <2>1, <2>3 DEF Meets
<1> QED
  BY <1>2, <1>3, <1>4

LEMMA EndsConcat ==
  ASSUME NEW S, NEW q \in Seq(S), NEW r \in Seq(S), NEW H, NEW X, EndsWith(q \o r, H, X)
  PROVE  (EndsWith(q, H, X) /\ ~Meets(r, X)) \/ EndsWith(r, H, X)
<1>1. /\ Len(q) \in Nat /\ Len(r) \in Nat /\ Len(q \o r) = Len(q) + Len(r)
      /\ \A i \in 1..Len(q) + Len(r) :
           (q \o r)[i] = IF i <= Len(q) THEN q[i] ELSE r[i - Len(q)]
  BY ConcatProperties, LenProperties
<1>2. PICK i \in 1..Len(q \o r) :
        (q \o r)[i] \in H /\ \A j \in i+1..Len(q \o r) : (q \o r)[j] \notin X
  BY DEF EndsWith
<1>3. \A k \in 1..Len(r) : k + Len(q) \in 1..Len(q \o r) /\ (q \o r)[k + Len(q)] = r[k]
  <2> TAKE k \in 1..Len(r)
  <2>1. k + Len(q) \in 1..Len(q) + Len(r) /\ ~(k + Len(q) <= Len(q)) /\ (k + Len(q)) - Len(q) = k
    BY <1>1
  <2> QED
    BY <1>1, <2>1
<1>4. CASE i <= Len(q)
  <2>1. i \in 1..Len(q) /\ q[i] \in H
    BY <1>1, <1>2, <1>4
  <2>2. ASSUME NEW j \in i+1..Len(q) PROVE q[j] \notin X
    <3>1. j \in i+1..Len(q \o r) /\ (q \o r)[j] = q[j]
      BY <1>1, <2>1
    <3> QED
      BY <1>2, <3>1
  <2>3. ASSUME NEW k \in 1..Len(r) PROVE r[k] \notin X
    <3>1. k + Len(q) \in i+1..Len(q \o r)
      BY <1>1, <1>4
    <3> QED
      BY <1>2, <1>3, <3>1
  <2> QED
    BY <2>1, <2>2, <2>3 DEF EndsWith, Meets
<1>5. CASE ~(i <= Len(q))
  <2>1. i - Len(q) \in 1..Len(r) /\ (i - Len(q)) + Len(q) = i
    BY <1>1, <1>5
  <2>2. r[i - Len(q)] \in H
    BY <1>2, <1>3, <2>1
  <2>3. ASSUME NEW k \in (i - Len(q))+1..Len(r) PROVE r[k] \notin X
    <3>1. k \in 1..Len(r) /\ k + Len(q) \in i+1..Len(q \o r)
      BY <1>1, <2>1
    <3> QED
      BY <1>2, <1>3, <3>1
  <2> QED
    BY <2>1, <2>2, <2>3 DEF EndsWith
<1> QED
  BY <1>4, <1>5

LEMMA EndsMeets ==
  ASSUME NEW q, NEW H, NEW X, EndsWith(q, H, X)
  PROVE  Meets(q, H)
<1> QED
  BY DEF EndsWith, Meets

LEMMA MeetsOne ==
  ASSUME NEW e, NEW X
  PROVE  Meets(<<e>>, X) <=> e \in X
<1> QED
  BY DEF Meets

LEMMA MeetsEmpty == ASSUME NEW X PROVE ~Meets(<<>>, X)
<1> QED
  BY DEF Meets

\* ... with one more element, and without its first.
LEMMA AppendedOne ==
  ASSUME NEW S, NEW q \in Seq(S), NEW e \in S, NEW H, NEW X
  PROVE  /\ Meets(Append(q, e), X) <=> Meets(q, X) \/ e \in X
         /\ EndsWith(Append(q, e), H, X) => (EndsWith(q, H, X) /\ e \notin X) \/ e \in H
<1> DEFINE r == <<e>>
<1>1. Append(q, e) = q \o r /\ r \in Seq(S)
  BY AppendIsConcat
<1>2. /\ Meets(r, X) <=> e \in X
      /\ EndsWith(r, H, X) => e \in H
  BY MeetsOne, EndsMeets
<1> HIDE DEF r
<1>3. Meets(q \o r, X) <=> Meets(q, X) \/ Meets(r, X)
  BY <1>1, MeetsConcat
<1>4. EndsWith(q \o r, H, X) => (EndsWith(q, H, X) /\ ~Meets(r, X)) \/ EndsWith(r, H, X)
  BY <1>1, EndsConcat
<1> QED
  BY <1>1, <1>2, <1>3, <1>4

LEMMA TakenHead ==
  ASSUME NEW S, NEW q \in Seq(S), q # <<>>, NEW H, NEW X
  PROVE  /\ Meets(q, X) <=> Head(q) \in X \/ Meets(Tail(q), X)
         /\ EndsWith(Tail(q), H, X) => EndsWith(q, H, X)
         /\ Head(q) \in H /\ ~Meets(Tail(q), X) => EndsWith(q, H, X)
<1>1. /\ Tail(q) \in Seq(S) /\ Head(q) = q[1]
      /\ Len(q) \in Nat \ {0} /\ Len(Tail(q)) = Len(q) - 1
      /\ \A i \in 1..Len(Tail(q)) : Tail(q)[i] = q[i + 1]
  BY HeadTailProperties, EmptySeq
<1>2. ASSUME NEW j \in 2..Len(q) PROVE j - 1 \in 1..Len(Tail(q)) /\ Tail(q)[j - 1] = q[j]
  <2>1. j - 1 \in 1..Len(Tail(q)) /\ (j - 1) + 1 = j
    BY <1>1
  <2> QED
    BY <1>1, <2>1
<1>3. ASSUME Meets(q, X) PROVE Head(q) \in X \/ Meets(Tail(q), X)
  <2>1. PICK i \in 1..Len(q) : q[i] \in X
    BY <1>3 DEF Meets
  <2>2. CASE i = 1
    BY <1>1, <2>1, <2>2
  <2>3. CASE i # 1
    <3>1. i \in 2..Len(q)
      BY <1>1, <2>3
    <3> QED
      BY <1>2, <2>1, <3>1 DEF Meets
  <2> QED
    BY <2>2, <2>3
<1>4. ASSUME Head(q) \in X PROVE Meets(q, X)
  BY <1>1, <1>4 DEF Meets
<1>5. ASSUME Meets(Tail(q), X) PROVE Meets(q, X)
  <2>1. PICK i \in 1..Len(Tail(q)) : Tail(q)[i] \in X
    BY <1>5 DEF Meets
  <2>2. i + 1 \in 1..Len(q)
    BY <1>1
  <2> QED
    BY <1>1, <2>1, <2>2 DEF Meets
<1>6. ASSUME EndsWith(Tail(q), H, X) PROVE EndsWith(q, H, X)
  <2>1. PICK i \in 1..Len(Tail(q)) :
          Tail(q)[i] \in H /\ \A j \in i+1..Len(Tail(q)) : Tail(q)[j] \notin X
    BY <1>6 DEF EndsWith
  <2>2. i + 1 \in 1..Len(q) /\ q[i + 1] \in H
    BY <1>1, <2>1
  <2>3. ASSUME NEW j \in (i+1)+1..Len(q) PROVE q[j] \notin X
    <3>1. j \in 2..Len(q) /\ j - 1 \in i+1..Len(Tail(q))
      BY <1>1, <2>1
    <3> QED
      BY <1>2, <2>1, <3>1
  <2> QED
    BY <2>2, <2>3 DEF EndsWith
<1>7. ASSUME Head(q) \in H, ~Meets(Tail(q), X) PROVE EndsWith(q, H, X)
  <2>1. 1 \in 1..Len(q) /\ q[1] \in H
    BY <1>1, <1>7
  <2>2. ASSUME NEW j \in 1+1..Len(q) PROVE q[j] \notin X
    <3>1. j \in 2..Len(q)
      OBVIOUS
    <3> QED
      BY <1>2, <1>7, <3>1 DEF Meets
  <2> QED
    BY <2>1, <2>2 DEF EndsWith
<1> QED
  BY <1>3, <1>4, <1>5, <1>6, <1>7

-----------------------------------------------------------------------------
\* Docker's events are events, whatever order SetToSeq gives the networks.
LEMMA NetEventsType ==
  ASSUME NEW type \in EventTypes, NEW c \in Containers, NEW ns \in SUBSET Nets
  PROVE  NetEvents(type, c, ns) \in Seq({e \in DockerEvents : e.type = type /\ e.id = c})
<1>1. IsFiniteSet(ns)
  BY NetsAssumption, FS_Subset
<1>2. Cardinality(ns) \in Nat /\ ExistsBijection(1..Cardinality(ns), ns)
  BY <1>1, FS_CardinalityType
<1>3. SetToSeq(ns) \in [1..Cardinality(ns) -> ns]
  <2>1. \E f \in [1..Cardinality(ns) -> ns] : IsInjective(f)
    BY <1>2 DEF ExistsBijection, Bijection, Injection
  <2> QED
    BY <2>1 DEF SetToSeq
<1>4. \A i \in 1..Cardinality(ns) :
        Event(type, c, SetToSeq(ns)[i]) \in {e \in DockerEvents : e.type = type /\ e.id = c}
  BY <1>3 DEF Event, DockerEvents
<1>5. NetEvents(type, c, ns)
        \in [1..Cardinality(ns) -> {e \in DockerEvents : e.type = type /\ e.id = c}]
  BY <1>4 DEF NetEvents
<1> QED
  BY <1>2, <1>5, IsASeq

\* The dispatcher takes a command.
LEMMA CommandTaken ==
  ASSUME TypeOK, NEW type, NEW id, Take(type, id)
  PROVE  /\ queue' \in Seq(Commands) /\ queue # <<>> /\ queue' = Tail(queue)
         /\ Head(queue) \in Commands /\ Head(queue).type = type /\ Head(queue).id = id
         /\ Range(queue) = {Head(queue)} \cup Range(queue')
         /\ UNCHANGED <<checked, running, health, nets, stream>>
<1>1. queue' = Tail(queue) /\ queue # <<>> /\ Head(queue).type = type /\ Head(queue).id = id
  BY DEF Take
<1>2. /\ Tail(queue) \in Seq(Commands) /\ Head(queue) \in Commands
      /\ Range(queue) = {Head(queue)} \cup Range(Tail(queue))
  BY <1>1, TailRange DEF TypeOK
<1> QED
  BY <1>1, <1>2 DEF Take, docker

\* Commands are told apart by their type.
LEMMA CommandTypes ==
  ASSUME NEW a \in Commands
  PROVE  /\ a.type \in EventTypes => a \in DockerEvents
         /\ a.type = "activate" => a \in Activations
         /\ \A c \in Containers : /\ a \in HealthyOf(c) => a.type = "healthy" /\ a.id = c
                                  /\ a \in DownOf(c) => a.type \in {"die", "unhealthy"} /\ a.id = c
<1> QED
  BY DEF Commands, DockerEvents, Activations, Rescans, EventTypes, HealthyOf, DownOf
-----------------------------------------------------------------------------
\* At the start the listener waits for nothing and only the eligible containers
\* are registered.
LEMMA InitInv == Init => Inv
<1> SUFFICES ASSUME Init PROVE Inv
  OBVIOUS
<1>1. stream \in Seq(DockerEvents) /\ queue \in Seq(Commands)
  BY EmptySeq DEF Init
<1>2. env \in [grace : BOOLEAN, fails : BOOLEAN, settled : BOOLEAN, nets : SUBSET Nets]
  BY SwitchesAssumption DEF Init
<1>3. TypeOK
  BY <1>1, <1>2 DEF Init, TypeOK
<1>4. Pending
  BY <1>3 DEF Init, Pending, TypeOK
<1>5. Told
  <2> SUFFICES ASSUME NEW c \in Containers, ~Eligible(c) PROVE DownIsToldOf(c)
    BY DEF Told
  <2>1. ~Served(c)
    BY DEF Init, Served
  <2>2. stream = <<>> /\ queue = <<>>
    BY DEF Init
  <2>3. ~Meets(<<>>, HealthyOf(c)) /\ ~EndsWith(<<>>, HealthyOf(c), DownOf(c))
    BY MeetsEmpty, EndsMeets
  <2> QED
    BY <2>1, <2>2, <2>3 DEF DownIsToldOf
<1> QED
  BY <1>3, <1>4, <1>5 DEF Inv, PendingInv
-----------------------------------------------------------------------------
\* What a change of Docker's leaves of the invariant: the listener is not
\* touched, and the news of a container that stops being eligible comes last.
LEMMA EmitTypes ==
  ASSUME TypeOK, NEW events \in Seq(DockerEvents), Emit(events), env' = env,
         running' \subseteq Containers, nets' \in [Containers -> SUBSET Nets],
         health' \in [Containers -> {"starting", "healthy", "unhealthy"}]
  PROVE  TypeOK'
<1>1. stream' \in Seq(DockerEvents)
  <2>1. stream \o events \in Seq(DockerEvents)
    BY ConcatProperties DEF TypeOK
  <2> QED
    BY <2>1 DEF Emit, TypeOK
<1>2. UNCHANGED <<checked, queue, pendingTimers, pendingGens, armed, route>>
  BY DEF Emit, listener, pendingVars, server
<1> QED
  BY <1>1, <1>2 DEF TypeOK

LEMMA PendingKept ==
  ASSUME Pending, UNCHANGED <<checked, queue, pendingTimers, pendingGens, armed>>
  PROVE  Pending'
<1> QED
  BY DEF Pending, Comes, Coming

LEMMA EmitTold ==
  ASSUME TypeOK, Told, QuietStart, NEW events \in Seq(DockerEvents), Emit(events),
         \A c \in Containers : ~Eligible(c)' =>
           \/ ~Eligible(c) /\ ~Meets(events, HealthyOf(c))
           \/ Meets(events, DownOf(c)) /\ ~Meets(events, HealthyOf(c))
  PROVE  Told'
<1> SUFFICES ASSUME NEW c \in Containers, ~Eligible(c)' PROVE DownIsToldOf(c)'
  BY DEF Told
<1> DEFINE H == HealthyOf(c)
           D == DownOf(c)
<1>1. stream' = stream \o events /\ UNCHANGED <<queue, route>>
  BY DEF Emit, listener, server
<1>2. stream \in Seq(DockerEvents)
  BY DEF TypeOK
<1>3. Meets(stream', D) <=> Meets(stream, D) \/ Meets(events, D)
  BY <1>1, <1>2, MeetsConcat
<1>4. EndsWith(stream', H, D) => (EndsWith(stream, H, D) /\ ~Meets(events, D)) \/ EndsWith(events, H, D)
  BY <1>1, <1>2, EndsConcat
<1>5. ~EndsWith(events, H, D)
  BY EndsMeets
<1>6. H' = H /\ D' = D
  BY DEF HealthyOf, DownOf
<1>7. Served(c)' <=> Served(c)
  BY <1>1 DEF Served
<1> HIDE DEF H, D
<1>8. CASE Meets(events, D)
  BY <1>1, <1>3, <1>4, <1>5, <1>6, <1>8 DEF DownIsToldOf, H, D
<1>9. CASE ~Meets(events, D)
  <2>1. ~Eligible(c) /\ DownIsToldOf(c)
    BY <1>9 DEF Told, D
  <2> QED
    BY <2>1, <1>1, <1>3, <1>4, <1>5, <1>6, <1>7 DEF DownIsToldOf, H, D
<1> QED
  BY <1>8, <1>9

LEMMA EmitStep ==
  ASSUME PendingInv, NEW events \in Seq(DockerEvents), Emit(events), env' = env,
         running' \subseteq Containers, nets' \in [Containers -> SUBSET Nets],
         health' \in [Containers -> {"starting", "healthy", "unhealthy"}],
         \A c \in Containers : ~Eligible(c)' =>
           /\ ~Meets(events, HealthyOf(c))
           /\ ~Eligible(c) \/ Meets(events, DownOf(c))
  PROVE  PendingInv' /\ (QuietStart /\ Told => Told')
<1>1. TypeOK'
  BY EmitTypes DEF PendingInv
<1>2. UNCHANGED <<checked, queue, pendingTimers, pendingGens, armed>>
  BY DEF Emit, listener, pendingVars
<1>3. Pending'
  BY <1>2, PendingKept DEF PendingInv
<1>4. QuietStart /\ Told => Told'
  BY EmitTold DEF PendingInv
<1> QED
  BY <1>1, <1>3, <1>4 DEF PendingInv

LEMMA NetEventsQuiet ==
  ASSUME NEW type \in {"connect", "disconnect"}, NEW c \in Containers, NEW ns \in SUBSET Nets
  PROVE  /\ NetEvents(type, c, ns) \in Seq(DockerEvents)
         /\ \A d \in Containers : /\ ~Meets(NetEvents(type, c, ns), HealthyOf(d))
                                  /\ ~Meets(NetEvents(type, c, ns), DownOf(d))
         /\ \A e \in Range(NetEvents(type, c, ns)) : e.type = type /\ e.id = c
<1> DEFINE q == NetEvents(type, c, ns)
           S == {e \in DockerEvents : e.type = type /\ e.id = c}
<1>1. q \in Seq(S)
  BY NetEventsType DEF EventTypes
<1> HIDE DEF q
<1>2. q \in [1..Len(q) -> S]
  BY <1>1, LenProperties
<1>3. Len(q) \in Nat /\ q \in [1..Len(q) -> DockerEvents]
  BY <1>1, <1>2, LenProperties
<1>4. q \in Seq(DockerEvents)
  BY <1>3, IsASeq
<1>5. \A d \in Containers : ~Meets(q, HealthyOf(d)) /\ ~Meets(q, DownOf(d))
  BY <1>2 DEF Meets, HealthyOf, DownOf
<1>6. \A e \in Range(q) : e \in S
  BY <1>1, RangeOfSeq
<1> QED
  BY <1>4, <1>5, <1>6 DEF q

\* A single event.
LEMMA OneEvent ==
  ASSUME NEW type \in EventTypes, NEW c \in Containers \cup {Self}, NEW n \in Nets \cup {NoNet}
  PROVE  /\ Event(type, c, n) \in DockerEvents /\ <<Event(type, c, n)>> \in Seq(DockerEvents)
         /\ \A d \in Containers :
              /\ Meets(<<Event(type, c, n)>>, HealthyOf(d)) <=> type = "healthy" /\ d = c
              /\ Meets(<<Event(type, c, n)>>, DownOf(d)) <=> type \in {"die", "unhealthy"} /\ d = c
<1>1. /\ Event(type, c, n) \in DockerEvents
      /\ Event(type, c, n).type = type /\ Event(type, c, n).id = c
  BY DEF Event, DockerEvents
<1>2. <<Event(type, c, n)>> \in Seq(DockerEvents)
  BY <1>1
<1> QED
  BY <1>1, <1>2, MeetsOne DEF HealthyOf, DownOf

\* The changes of Docker.
LEMMA StartStep ==
  ASSUME PendingInv, NEW c \in Containers, DockerStart(c), env' = env
  PROVE  PendingInv' /\ (QuietStart /\ Told => Told')
<1> DEFINE ns == NetEvents("connect", c, nets[c])
           one == <<Event("start", c, NoNet)>>
<1>1. nets[c] \in SUBSET Nets
  BY DEF PendingInv, TypeOK
<1>2. /\ ns \in Seq(DockerEvents) /\ one \in Seq(DockerEvents) /\ Event("start", c, NoNet) \in DockerEvents
      /\ \A d \in Containers : ~Meets(ns, HealthyOf(d)) /\ ~Meets(one, HealthyOf(d))
  BY <1>1, NetEventsQuiet, OneEvent DEF EventTypes
<1>3. /\ Append(ns, Event("start", c, NoNet)) = ns \o one
      /\ ns \o one \in Seq(DockerEvents)
  <2> HIDE DEF ns
  <2>1. Append(ns, Event("start", c, NoNet)) = ns \o one
    BY <1>2, AppendIsConcat
  <2>2. ns \o one \in Seq(DockerEvents)
    BY <1>2, ConcatProperties
  <2> QED
    BY <2>1, <2>2
<1>4. Emit(ns \o one)
  BY <1>3 DEF DockerStart
<1> HIDE DEF ns, one
<1>5. \A d \in Containers : ~Meets(ns \o one, HealthyOf(d))
  BY <1>2, MeetsConcat
<1>6. /\ running' \subseteq Containers /\ nets' \in [Containers -> SUBSET Nets]
      /\ health' \in [Containers -> {"starting", "healthy", "unhealthy"}]
  BY DEF DockerStart, PendingInv, TypeOK
<1>7. \A d \in Containers : ~Eligible(d)' => ~Eligible(d)
  <2> TAKE d \in Containers
  <2>1. CASE d = c
    BY <2>1 DEF DockerStart, Eligible
  <2>2. CASE d # c
    BY <1>4, <2>2 DEF DockerStart, Eligible, Emit, PendingInv, TypeOK
  <2> QED
    BY <2>1, <2>2
<1> QED
  BY <1>3, <1>4, <1>5, <1>6, <1>7, EmitStep

LEMMA DieStep ==
  ASSUME PendingInv, NEW c \in Containers, DockerDie(c), env' = env
  PROVE  PendingInv' /\ (QuietStart /\ Told => Told')
<1> DEFINE ns == NetEvents("disconnect", c, nets[c])
           one == <<Event("die", c, NoNet)>>
<1>1. nets[c] \in SUBSET Nets
  BY DEF PendingInv, TypeOK
<1>2. /\ ns \in Seq(DockerEvents) /\ one \in Seq(DockerEvents)
      /\ \A d \in Containers : ~Meets(ns, HealthyOf(d)) /\ ~Meets(one, HealthyOf(d))
      /\ Meets(one, DownOf(c))
  BY <1>1, NetEventsQuiet, OneEvent DEF EventTypes
<1>3. Emit(one \o ns)
  BY DEF DockerDie
<1> HIDE DEF ns, one
<1>4. one \o ns \in Seq(DockerEvents)
  BY <1>2, ConcatProperties
<1>5. /\ \A d \in Containers : ~Meets(one \o ns, HealthyOf(d))
      /\ Meets(one \o ns, DownOf(c))
  BY <1>2, MeetsConcat
<1>6. /\ running' \subseteq Containers /\ nets' \in [Containers -> SUBSET Nets]
      /\ health' \in [Containers -> {"starting", "healthy", "unhealthy"}]
  BY DEF DockerDie, PendingInv, TypeOK
<1>7. \A d \in Containers \ {c} : ~Eligible(d)' => ~Eligible(d)
  BY <1>3 DEF DockerDie, Eligible, Emit
<1>8. \A d \in Containers : ~Eligible(d)' => ~Eligible(d) \/ Meets(one \o ns, DownOf(d))
  BY <1>5, <1>7
<1> QED
  BY <1>3, <1>4, <1>5, <1>6, <1>8, EmitStep

LEMMA HealthStep ==
  ASSUME PendingInv, NEW c \in Containers, NEW status \in {"healthy", "unhealthy"},
         DockerHealth(c, status), env' = env
  PROVE  PendingInv' /\ (QuietStart /\ Told => Told')
<1> DEFINE one == <<Event(status, c, NoNet)>>
<1>1. /\ one \in Seq(DockerEvents)
      /\ \A d \in Containers : /\ Meets(one, HealthyOf(d)) <=> status = "healthy" /\ d = c
                               /\ Meets(one, DownOf(d)) <=> status \in {"die", "unhealthy"} /\ d = c
  <2>1. status \in EventTypes
    BY DEF EventTypes
  <2> QED
    BY <2>1, OneEvent
<1>2. Emit(one)
  BY DEF DockerHealth
<1> HIDE DEF one
<1>3. /\ running' \subseteq Containers /\ nets' \in [Containers -> SUBSET Nets]
      /\ health' \in [Containers -> {"starting", "healthy", "unhealthy"}]
  BY DEF DockerHealth, PendingInv, TypeOK
<1>4. \A d \in Containers \ {c} : ~Eligible(d)' => ~Eligible(d)
  BY <1>2 DEF DockerHealth, Eligible, Emit, PendingInv, TypeOK
<1>5. status = "healthy" => Eligible(c)'
  BY <1>2 DEF DockerHealth, Eligible, Emit, PendingInv, TypeOK
<1>6. \A d \in Containers : ~Eligible(d)' =>
        /\ ~Meets(one, HealthyOf(d))
        /\ ~Eligible(d) \/ Meets(one, DownOf(d))
  <2> SUFFICES ASSUME NEW d \in Containers, ~Eligible(d)'
               PROVE  ~Meets(one, HealthyOf(d)) /\ (~Eligible(d) \/ Meets(one, DownOf(d)))
    OBVIOUS
  <2>1. CASE d = c
    BY <1>1, <1>5, <2>1
  <2>2. CASE d # c
    BY <1>1, <1>4, <2>2
  <2> QED
    BY <2>1, <2>2
<1> QED
  BY <1>1, <1>2, <1>3, <1>6, EmitStep

\* Networks and the proxy's own health: nobody's eligibility changes.
LEMMA NetworkStep ==
  ASSUME PendingInv, env' = env,
         \/ \E c \in Containers, n \in env.nets : DockerConnect(c, n) \/ DockerDisconnect(c, n)
         \/ \E n \in env.nets : ProxyMoves(n)
         \/ ProxyHealth
  PROVE  PendingInv' /\ (QuietStart /\ Told => Told')
<1>1. env.nets \subseteq Nets
  BY DEF PendingInv, TypeOK
<1>2. /\ UNCHANGED <<running, health>>
      /\ nets' \in [Containers -> SUBSET Nets]
  <2>1. CASE \E c \in Containers, n \in env.nets : DockerConnect(c, n) \/ DockerDisconnect(c, n)
    <3>1. PICK c \in Containers, n \in Nets : DockerConnect(c, n) \/ DockerDisconnect(c, n)
      BY <1>1, <2>1
    <3>2. nets' \in {[nets EXCEPT ![c] = @ \cup {n}], [nets EXCEPT ![c] = @ \ {n}]}
      BY <3>1 DEF DockerConnect, DockerDisconnect
    <3>3. nets' \in [Containers -> SUBSET Nets]
      BY <3>2 DEF PendingInv, TypeOK
    <3> QED
      BY <3>1, <3>3 DEF DockerConnect, DockerDisconnect
  <2>2. CASE ProxyHealth \/ \E n \in env.nets : ProxyMoves(n)
    BY <2>2 DEF ProxyMoves, ProxyHealth, PendingInv, TypeOK
  <2> QED
    BY <2>1, <2>2
<1>3. PICK events \in Seq(DockerEvents) :
        Emit(events) /\ \A d \in Containers : ~Meets(events, HealthyOf(d))
  <2>1. CASE ProxyHealth
    <3>1. <<>> \in Seq(DockerEvents) /\ \A d \in Containers : ~Meets(<<>>, HealthyOf(d))
      BY EmptySeq, MeetsEmpty
    <3> QED
      BY <2>1, <3>1 DEF ProxyHealth
  <2>2. CASE ~ProxyHealth
    <3>1. PICK type \in {"connect", "disconnect"}, c \in Containers \cup {Self}, n \in Nets :
            Emit(<<Event(type, c, n)>>)
      BY <1>1, <2>2 DEF DockerConnect, DockerDisconnect, ProxyMoves
    <3>2. /\ <<Event(type, c, n)>> \in Seq(DockerEvents)
          /\ \A d \in Containers : ~Meets(<<Event(type, c, n)>>, HealthyOf(d))
      <4>1. type \in EventTypes /\ type # "healthy"
        BY DEF EventTypes
      <4> QED
        BY <4>1, OneEvent
    <3> QED
      BY <3>1, <3>2
  <2> QED
    BY <2>1, <2>2
<1>4. \A d \in Containers : ~Eligible(d)' => ~Eligible(d)
  BY <1>2, <1>3 DEF Eligible, Emit
<1>5. running' \subseteq Containers /\ health' \in [Containers -> {"starting", "healthy", "unhealthy"}]
  BY <1>2 DEF PendingInv, TypeOK
<1> QED
  BY <1>2, <1>3, <1>4, <1>5, EmitStep
-----------------------------------------------------------------------------
\* What is queued by a timer or by SIGHUP is no news of a container's health.
LEMMA QueuedStep ==
  ASSUME PendingInv, NEW a \in Commands, a.type \notin EventTypes, queue' = Append(queue, a),
         armed' \subseteq armed, armed \subseteq armed' \cup {a},
         UNCHANGED <<env, checked, running, health, nets, stream, pendingTimers, pendingGens, route>>
  PROVE  PendingInv' /\ (Told => Told')
<1> USE DEF PendingInv
<1>1. queue' \in Seq(Commands) /\ Range(queue') = Range(queue) \cup {a}
  BY AppendRange DEF TypeOK
<1>2. TypeOK'
  BY <1>1 DEF TypeOK
<1>3. Pending'
  <2>1. Coming \subseteq Coming'
    BY <1>1 DEF Coming
  <2> QED
    BY <2>1 DEF Pending, Comes
<1>4. ASSUME Told PROVE Told'
  <2> SUFFICES ASSUME NEW c \in Containers, ~Eligible(c)' PROVE DownIsToldOf(c)'
    BY DEF Told
  <2> DEFINE H == HealthyOf(c)
             D == DownOf(c)
  <2>1. DownIsToldOf(c)
    BY <1>4 DEF Told, Eligible
  <2>2. a \notin H /\ a \notin D
    BY DEF HealthyOf, DownOf, EventTypes
  <2> HIDE DEF H, D
  <2>3. queue \in Seq(Commands)
    BY DEF TypeOK
  <2>4. EndsWith(Append(queue, a), H, D) => EndsWith(queue, H, D)
    BY <2>2, <2>3, AppendedOne
  <2>5. Meets(queue, D) => Meets(Append(queue, a), D)
    BY <2>3, AppendedOne
  <2>6. H' = H /\ D' = D
    BY DEF H, D, HealthyOf, DownOf
  <2> QED
    BY <2>1, <2>4, <2>5, <2>6 DEF DownIsToldOf, H, D, Served
<1> QED
  BY <1>2, <1>3, <1>4

LEMMA SighupStep ==
  ASSUME PendingInv, Sighup, env' = env
  PROVE  PendingInv' /\ (Told => Told')
<1>1. Event("rescan", Self, NoNet) \in Commands /\ Event("rescan", Self, NoNet).type \notin EventTypes
  BY DEF Event, Commands, Rescans, EventTypes
<1>2. /\ queue' = Append(queue, Event("rescan", Self, NoNet))
      /\ UNCHANGED <<checked, running, health, nets, stream, pendingTimers, pendingGens, armed, route>>
  BY DEF Sighup, pendingVars, server
<1> QED
  BY <1>1, <1>2, QueuedStep

LEMMA FireStep ==
  ASSUME PendingInv, NEW t \in Timers, TimerFires(t), env' = env
  PROVE  PendingInv' /\ (Told => Told')
<1>1. PICK a \in armed : queue' = Append(queue, a) /\ armed' = armed \ {a}
  BY DEF TimerFires
<1>2. a \in Commands /\ a.type \notin EventTypes
  BY DEF PendingInv, TypeOK, Commands, Activations, EventTypes
<1>3. UNCHANGED <<checked, running, health, nets, stream, pendingTimers, pendingGens, route>>
  BY DEF TimerFires, docker, server
<1> QED
  BY <1>1, <1>2, <1>3, QueuedStep

\* The listener moves an event to the end of the queue, so its place among the
\* events is kept.
LEMMA ListenStep ==
  ASSUME PendingInv, Listen, env' = env
  PROVE  PendingInv' /\ (Told => Told')
<1> USE DEF PendingInv
<1> DEFINE h == Head(stream)
<1>1. /\ stream # <<>> /\ stream \in Seq(DockerEvents) /\ queue \in Seq(Commands)
      /\ stream' = Tail(stream) /\ queue' = Append(queue, h)
      /\ UNCHANGED <<checked, running, health, nets, pendingTimers, pendingGens, armed, route>>
  BY DEF Listen, TypeOK, pendingVars, server
<1>2. stream' \in Seq(DockerEvents) /\ h \in DockerEvents /\ h \in Commands
  BY <1>1, TailRange DEF Commands
<1>3. queue' \in Seq(Commands) /\ Range(queue') = Range(queue) \cup {h}
  BY <1>1, <1>2, AppendRange
<1> HIDE DEF h
<1>4. TypeOK'
  BY <1>1, <1>2, <1>3 DEF TypeOK
<1>5. Pending'
  <2>1. Coming \subseteq Coming'
    BY <1>1, <1>3 DEF Coming
  <2> QED
    BY <1>1, <2>1 DEF Pending, Comes
<1>6. ASSUME Told PROVE Told'
  <2> SUFFICES ASSUME NEW c \in Containers, ~Eligible(c)' PROVE DownIsToldOf(c)'
    BY DEF Told
  <2> DEFINE H == HealthyOf(c)
             D == DownOf(c)
  <2>1. DownIsToldOf(c)
    BY <1>1, <1>6 DEF Told, Eligible
  <2> HIDE DEF H, D
  <2>2. /\ Meets(stream, D) <=> h \in D \/ Meets(stream', D)
        /\ EndsWith(stream', H, D) => EndsWith(stream, H, D)
        /\ h \in H /\ ~Meets(stream', D) => EndsWith(stream, H, D)
    BY <1>1, TakenHead DEF h
  <2>3. EndsWith(Append(queue, h), H, D) => (EndsWith(queue, H, D) /\ h \notin D) \/ h \in H
    BY <1>1, <1>2, AppendedOne
  <2>4. Meets(Append(queue, h), D) <=> Meets(queue, D) \/ h \in D
    BY <1>1, <1>2, AppendedOne
  <2>5. H' = H /\ D' = D
    BY DEF H, D, HealthyOf, DownOf
  <2>6. Served(c)' <=> Served(c)
    BY <1>1 DEF Served
  <2> QED
    BY <1>1, <2>1, <2>2, <2>3, <2>4, <2>5, <2>6 DEF DownIsToldOf, H, D
<1> QED
  BY <1>4, <1>5, <1>6
-----------------------------------------------------------------------------
\* The dispatcher takes a command: what remains to be shown of its handler.  A
\* "healthy" event may register a container that is not eligible: if no news of
\* that followed it in the queue, the event would be the last of its kind there.
LEMMA HandlerStep ==
  ASSUME PendingInv, NEW type, NEW id, Take(type, id), env' = env, Pending',
         pendingTimers' \in [Containers -> Timers \cup {NoTimer}],
         pendingGens' \in [Containers -> {0, 1}],
         armed' \subseteq Activations,
         route' \in [Containers -> Nets \cup {NoNet}],
         \A c \in Containers : Served(c)' =>
           \/ Eligible(c)
           \/ Served(c) /\ Head(queue) \notin DownOf(c)
           \/ Head(queue) \in HealthyOf(c)
  PROVE  PendingInv' /\ (Told => Told')
<1> USE DEF PendingInv
<1>1. /\ queue' \in Seq(Commands) /\ queue # <<>> /\ queue' = Tail(queue)
      /\ UNCHANGED <<checked, running, health, nets, stream>>
  BY CommandTaken
<1>2. TypeOK'
  BY <1>1 DEF TypeOK
<1>3. ASSUME Told PROVE Told'
  <2> SUFFICES ASSUME NEW c \in Containers, ~Eligible(c)' PROVE DownIsToldOf(c)'
    BY DEF Told
  <2> DEFINE H == HealthyOf(c)
             D == DownOf(c)
             h == Head(queue)
  <2>1. ~Eligible(c) /\ DownIsToldOf(c)
    BY <1>1, <1>3 DEF Told, Eligible
  <2>2. Served(c)' => (Served(c) /\ h \notin D) \/ h \in H
    BY <2>1
  <2> HIDE DEF H, D
  <2>3. /\ Meets(queue, D) <=> h \in D \/ Meets(queue', D)
        /\ EndsWith(queue', H, D) => EndsWith(queue, H, D)
        /\ h \in H /\ ~Meets(queue', D) => EndsWith(queue, H, D)
    BY <1>1, TakenHead DEF TypeOK
  <2>4. H' = H /\ D' = D
    BY DEF H, D, HealthyOf, DownOf
  <2> QED
    BY <1>1, <2>1, <2>2, <2>3, <2>4 DEF DownIsToldOf, H, D
<1> QED
  BY <1>2, <1>3

\* A command that is no activation and leaves what is pending.
LEMMA PendingSame ==
  ASSUME PendingInv, NEW type, NEW id, Take(type, id), type # "activate", UNCHANGED pendingVars
  PROVE  /\ Pending'
         /\ pendingTimers' \in [Containers -> Timers \cup {NoTimer}]
         /\ pendingGens' \in [Containers -> {0, 1}]
         /\ armed' \subseteq Activations
<1> USE DEF PendingInv
<1>1. /\ Head(queue).type = type /\ Range(queue) = {Head(queue)} \cup Range(queue')
      /\ checked' = checked
  BY CommandTaken
<1>2. \A a \in Coming : a.type = "activate" => a \in Coming'
  BY <1>1 DEF Coming, pendingVars
<1>3. Pending'
  BY <1>1, <1>2 DEF Pending, Comes, pendingVars
<1> QED
  BY <1>3 DEF TypeOK, pendingVars

\* An entry of c is written; the activations of the other containers stay.
LEMMA PendingWritten ==
  ASSUME PendingInv, NEW c \in Containers, NEW t \in Timers \cup {NoTimer}, NEW g \in {0, 1},
         pendingTimers' = [pendingTimers EXCEPT ![c] = t],
         pendingGens' = [pendingGens EXCEPT ![c] = g],
         checked' = checked,
         t = NoTimer <=> g = 0,
         t # NoTimer => /\ \E a \in Coming' : a.type = "activate" /\ a.id = c /\ a.timer = t
                        /\ \A d \in Containers : pendingTimers[d] # t
                        /\ c \notin checked,
         \A a \in Coming : a.type = "activate" /\ a.id # c /\ a.timer # pendingTimers[c] => a \in Coming'
  PROVE  /\ Pending'
         /\ pendingTimers' \in [Containers -> Timers \cup {NoTimer}]
         /\ pendingGens' \in [Containers -> {0, 1}]
<1> USE DEF PendingInv
<1>1. ASSUME NEW d \in Containers, pendingTimers'[d] # NoTimer
      PROVE  Comes(d)'
  <2>1. CASE d = c
    BY <1>1, <2>1 DEF TypeOK, Comes
  <2>2. CASE d # c
    <3>1. pendingTimers'[d] = pendingTimers[d]
      BY <2>2 DEF TypeOK
    <3>2. PICK a \in Coming : a.type = "activate" /\ a.id = d /\ a.timer = pendingTimers[d]
      BY <1>1, <3>1 DEF Pending, Comes
    <3>3. a.timer # pendingTimers[c]
      BY <1>1, <2>2, <3>1, <3>2 DEF Pending
    <3> QED
      BY <2>2, <3>1, <3>2, <3>3 DEF Comes
  <2> QED
    BY <2>1, <2>2
<1>2. \A d \in Containers : pendingTimers'[d] = NoTimer <=> pendingGens'[d] = 0
  BY DEF TypeOK, Pending
<1>3. \A d, e \in Containers :
        pendingTimers'[d] = pendingTimers'[e] /\ pendingTimers'[d] # NoTimer => d = e
  BY DEF TypeOK, Pending
<1>4. \A d \in checked' : pendingGens'[d] = 0
  BY DEF TypeOK, Pending
<1> QED
  BY <1>1, <1>2, <1>3, <1>4 DEF Pending, TypeOK

LEMMA PendingCleared ==
  ASSUME PendingInv, NEW c \in Containers, NEW type, Take(type, c), type # "activate", ClearPending(c)
  PROVE  /\ Pending'
         /\ pendingTimers' \in [Containers -> Timers \cup {NoTimer}]
         /\ pendingGens' \in [Containers -> {0, 1}]
         /\ armed' \subseteq Activations
<1>1. /\ Head(queue).type = type /\ Range(queue) = {Head(queue)} \cup Range(queue')
      /\ checked' = checked
  BY CommandTaken DEF PendingInv
<1>2. \A a \in Coming : a.type = "activate" /\ a.id # c /\ a.timer # pendingTimers[c] => a \in Coming'
  BY <1>1 DEF Coming, ClearPending
<1>3. /\ pendingTimers' = [pendingTimers EXCEPT ![c] = NoTimer]
      /\ pendingGens' = [pendingGens EXCEPT ![c] = 0]
      /\ armed' \subseteq armed
  BY DEF ClearPending
<1> QED
  BY <1>1, <1>2, <1>3, PendingWritten DEF PendingInv, TypeOK

LEMMA PendingScheduled ==
  ASSUME PendingInv, NEW c \in Containers, NEW type, Take(type, c), type # "activate",
         c \notin checked, ScheduleActivation(c)
  PROVE  /\ Pending'
         /\ pendingTimers' \in [Containers -> Timers \cup {NoTimer}]
         /\ pendingGens' \in [Containers -> {0, 1}]
         /\ armed' \subseteq Activations
<1> USE DEF PendingInv
<1>1. /\ Head(queue).type = type /\ Range(queue) = {Head(queue)} \cup Range(queue')
      /\ checked' = checked
  BY CommandTaken
<1>2. PICK t \in FreeTimers :
        /\ pendingTimers' = [pendingTimers EXCEPT ![c] = t]
        /\ pendingGens' = [pendingGens EXCEPT ![c] = 1]
        /\ armed' = {a \in armed : a.timer # pendingTimers[c]} \cup {Activate(c, 1, t)}
  <2>1. PICK t \in FreeTimers :
          /\ pendingTimers' = [pendingTimers EXCEPT ![c] = t]
          /\ pendingGens' = [[pendingGens EXCEPT ![c] = 0] EXCEPT ![c] = [pendingGens EXCEPT ![c] = 0][c] + 1]
          /\ armed' = {a \in armed : a.timer # pendingTimers[c]}
                        \cup {Activate(c, [pendingGens EXCEPT ![c] = 0][c] + 1, t)}
    BY DEF ScheduleActivation
  <2>2. [pendingGens EXCEPT ![c] = 0][c] + 1 = 1
    BY DEF TypeOK
  <2>3. [[pendingGens EXCEPT ![c] = 0] EXCEPT ![c] = 1] = [pendingGens EXCEPT ![c] = 1]
    BY DEF TypeOK
  <2> QED
    BY <2>1, <2>2, <2>3
<1>3. t \in Timers /\ t # NoTimer /\ \A d \in Containers : pendingTimers[d] # t
  <2>1. t \in Timers /\ t \notin Range(pendingTimers)
    BY DEF FreeTimers
  <2>2. \A d \in Containers : pendingTimers[d] \in Range(pendingTimers)
    BY DEF Range, TypeOK
  <2> QED
    BY <2>1, <2>2, AbsentAssumption
<1>4. PICK new \in Activations : /\ new = Activate(c, 1, t)
                                 /\ new.type = "activate" /\ new.id = c /\ new.timer = t
  <2>1. /\ Activate(c, 1, t) \in Activations /\ Activate(c, 1, t).type = "activate"
        /\ Activate(c, 1, t).id = c /\ Activate(c, 1, t).timer = t
    BY <1>3 DEF Activate, Activations
  <2> QED
    BY <2>1
<1>5. \A a \in Coming : a.type = "activate" /\ a.id # c /\ a.timer # pendingTimers[c] => a \in Coming'
  BY <1>1, <1>2 DEF Coming
<1>6. \E a \in Coming' : a.type = "activate" /\ a.id = c /\ a.timer = t
  BY <1>2, <1>4 DEF Coming
<1>7. armed' \subseteq Activations
  BY <1>2, <1>4 DEF TypeOK
<1>8. t \in Timers \cup {NoTimer} /\ 1 \in {0, 1} /\ (t = NoTimer <=> 1 = 0)
  BY <1>3
<1>9. /\ pendingTimers' = [pendingTimers EXCEPT ![c] = t]
      /\ pendingGens' = [pendingGens EXCEPT ![c] = 1]
      /\ \A d \in Containers : pendingTimers[d] # t
  BY <1>2, <1>3
<1>10. /\ Pending'
       /\ pendingTimers' \in [Containers -> Timers \cup {NoTimer}]
       /\ pendingGens' \in [Containers -> {0, 1}]
  <2>1. checked' = checked /\ TypeOK /\ Pending /\ PendingInv
    BY <1>1
  <2> HIDE DEF PendingInv
  <2> QED
    BY <1>5, <1>6, <1>8, <1>9, <2>1, PendingWritten, Zenon
<1> QED
  BY <1>7, <1>10
-----------------------------------------------------------------------------
\* What the handlers do to the registrations.
Registers(c, n) == route' = [route EXCEPT ![c] = n]

LEMMA RegistersStep ==
  ASSUME TypeOK, NEW c \in Containers, NEW n \in Nets \cup {NoNet}, Registers(c, n)
  PROVE  /\ route' \in [Containers -> Nets \cup {NoNet}]
         /\ \A d \in Containers \ {c} : Served(d)' <=> Served(d)
         /\ Served(c)' <=> n # NoNet
<1> QED
  BY DEF TypeOK, Registers, Served

LEMMA UpdateStep ==
  ASSUME TypeOK, NEW c \in Containers, NEW replace, UpdateBackend(c, replace)
  PROVE  \E n \in Nets \cup {NoNet} : Registers(c, n)
<1>1. route[c] \in Nets \cup {NoNet} /\ Fresh(c, networks) \subseteq Nets \cup {NoNet}
  BY DEF TypeOK, Fresh, Addressed
<1> QED
  BY <1>1 DEF UpdateBackend, Registers

\* An activation registers a running container or changes nothing.
LEMMA ActivateStep ==
  ASSUME TypeOK, NEW c \in Containers, ActivateIfRunning(c)
  PROVE  /\ route' \in [Containers -> Nets \cup {NoNet}]
         /\ \A d \in Containers : Served(d)' => Served(d) \/ (d = c /\ c \in running)
<1>1. CASE c \in running /\ UpdateBackend(c, FALSE)
  <2>1. PICK n \in Nets \cup {NoNet} : Registers(c, n)
    BY <1>1, UpdateStep
  <2> QED
    BY <1>1, <2>1, RegistersStep
<1>2. CASE UNCHANGED route
  BY <1>2 DEF TypeOK, Served
<1> QED
  BY <1>1, <1>2 DEF ActivateIfRunning

\* A rescan registers eligible containers only.
LEMMA RescanAllStep ==
  ASSUME TypeOK, NEW ns, RescanAll(ns)
  PROVE  /\ route' \in [Containers -> Nets \cup {NoNet}]
         /\ \A d \in Containers : Served(d)' => Eligible(d)
<1> QED
  BY DEF RescanAll, Served, TypeOK
-----------------------------------------------------------------------------
\* The handlers.  What the head of the queue is for containers other than its own:
LEMMA HeadOf ==
  ASSUME TypeOK, NEW type, NEW id, Take(type, id), NEW d \in Containers
  PROVE  /\ Head(queue) \in DownOf(d) <=> type \in {"die", "unhealthy"} /\ id = d
         /\ Head(queue) \in HealthyOf(d) <=> type = "healthy" /\ id = d
<1>1. Head(queue) \in Commands /\ Head(queue).type = type /\ Head(queue).id = id
  BY CommandTaken
<1>2. type \in EventTypes => Head(queue) \in DockerEvents
  BY <1>1, CommandTypes
<1> QED
  BY <1>1, <1>2, CommandTypes DEF DownOf, HealthyOf, EventTypes

LEMMA HandleStartStep ==
  ASSUME PendingInv, NEW c \in Containers, HandleStart(c), env' = env
  PROVE  PendingInv' /\ (Told => Told')
<1> USE DEF PendingInv
<1>1. Take("start", c)
  BY DEF HandleStart
<1>2. /\ route' \in [Containers -> Nets \cup {NoNet}]
      /\ \A d \in Containers : Served(d)' => Served(d) \/ Eligible(d)
  <2>1. CASE UNCHANGED route
    BY <2>1 DEF TypeOK, Served
  <2>2. CASE ActivateIfRunning(c) /\ (c \in running => Eligible(c))
    BY <2>2, ActivateStep
  <2> QED
    BY <2>1, <2>2 DEF HandleStart, Eligible
<1>3. /\ Pending'
      /\ pendingTimers' \in [Containers -> Timers \cup {NoTimer}]
      /\ pendingGens' \in [Containers -> {0, 1}]
      /\ armed' \subseteq Activations
  <2>1. CASE UNCHANGED pendingVars
    BY <1>1, <2>1, PendingSame
  <2>2. CASE c \notin checked /\ ScheduleActivation(c)
    BY <1>1, <2>2, PendingScheduled
  <2> QED
    BY <2>1, <2>2 DEF HandleStart
<1>4. \A d \in Containers : Head(queue) \notin DownOf(d)
  BY <1>1, HeadOf
<1> QED
  BY <1>1, <1>2, <1>3, <1>4, HandlerStep

LEMMA HandleDieStep ==
  ASSUME PendingInv, NEW c \in Containers, HandleDie(c), env' = env
  PROVE  PendingInv' /\ (Told => Told')
<1> USE DEF PendingInv
<1>1. Take("die", c) /\ ClearPending(c) /\ Registers(c, NoNet)
  BY DEF HandleDie, RemoveBackend, Registers
<1>2. /\ Pending'
      /\ pendingTimers' \in [Containers -> Timers \cup {NoTimer}]
      /\ pendingGens' \in [Containers -> {0, 1}]
      /\ armed' \subseteq Activations
  BY <1>1, PendingCleared
<1>3. /\ route' \in [Containers -> Nets \cup {NoNet}]
      /\ \A d \in Containers : Served(d)' => Served(d) /\ d # c
  BY <1>1, RegistersStep
<1>4. \A d \in Containers \ {c} : Head(queue) \notin DownOf(d)
  BY <1>1, HeadOf
<1> QED
  BY <1>1, <1>2, <1>3, <1>4, HandlerStep

LEMMA HandleUnhealthyStep ==
  ASSUME PendingInv, NEW c \in Containers, HandleUnhealthy(c), env' = env
  PROVE  PendingInv' /\ (Told => Told')
<1> USE DEF PendingInv
<1>1. Take("unhealthy", c) /\ UNCHANGED pendingVars /\ Registers(c, NoNet)
  BY DEF HandleUnhealthy, RemoveBackend, Registers, pendingVars
<1>2. /\ Pending'
      /\ pendingTimers' \in [Containers -> Timers \cup {NoTimer}]
      /\ pendingGens' \in [Containers -> {0, 1}]
      /\ armed' \subseteq Activations
  BY <1>1, PendingSame
<1>3. /\ route' \in [Containers -> Nets \cup {NoNet}]
      /\ \A d \in Containers : Served(d)' => Served(d) /\ d # c
  BY <1>1, RegistersStep
<1>4. \A d \in Containers \ {c} : Head(queue) \notin DownOf(d)
  BY <1>1, HeadOf
<1> QED
  BY <1>1, <1>2, <1>3, <1>4, HandlerStep

LEMMA HandleHealthyStep ==
  ASSUME PendingInv, NEW c \in Containers, HandleHealthy(c), env' = env
  PROVE  PendingInv' /\ (Told => Told')
<1> USE DEF PendingInv
<1>1. Take("healthy", c) /\ ClearPending(c) /\ ActivateIfRunning(c)
  BY DEF HandleHealthy
<1>2. /\ Pending'
      /\ pendingTimers' \in [Containers -> Timers \cup {NoTimer}]
      /\ pendingGens' \in [Containers -> {0, 1}]
      /\ armed' \subseteq Activations
  BY <1>1, PendingCleared
<1>3. /\ route' \in [Containers -> Nets \cup {NoNet}]
      /\ \A d \in Containers : Served(d)' => Served(d) \/ d = c
  BY <1>1, ActivateStep
<1>4. /\ \A d \in Containers : Head(queue) \notin DownOf(d)
      /\ Head(queue) \in HealthyOf(c)
  BY <1>1, HeadOf
<1> QED
  BY <1>1, <1>2, <1>3, <1>4, HandlerStep

LEMMA HandleActivateStep ==
  ASSUME PendingInv, NEW c \in Containers, HandleActivate(c), env' = env
  PROVE  PendingInv' /\ (Told => Told')
<1> USE DEF PendingInv
<1>1. Take("activate", c) /\ armed' = armed
  BY DEF HandleActivate
<1>2. PICK a \in Activations : a = Head(queue) /\ a.id = c
  BY <1>1, CommandTaken, CommandTypes
<1>3. Range(queue) = {a} \cup Range(queue') /\ checked' = checked
  BY <1>1, <1>2, CommandTaken
<1>4. \A d \in Containers : Head(queue) \notin DownOf(d)
  BY <1>1, HeadOf
<1>5. CASE Accepted(c)
  <2>1. /\ pendingTimers' = [pendingTimers EXCEPT ![c] = NoTimer]
        /\ pendingGens' = [pendingGens EXCEPT ![c] = 0]
        /\ ActivateIfRunning(c)
    BY <1>5 DEF HandleActivate
  <2>2. \A b \in Coming : b.type = "activate" /\ b.id # c /\ b.timer # pendingTimers[c] => b \in Coming'
    BY <1>1, <1>2, <1>3 DEF Coming
  <2>3. /\ Pending'
        /\ pendingTimers' \in [Containers -> Timers \cup {NoTimer}]
        /\ pendingGens' \in [Containers -> {0, 1}]
    BY <1>3, <2>1, <2>2, PendingWritten
  <2>4. c \notin checked
    BY <1>2, <1>5 DEF Accepted, Activations, Pending
  <2>5. /\ route' \in [Containers -> Nets \cup {NoNet}]
        /\ \A d \in Containers : Served(d)' => Served(d) \/ Eligible(d)
    BY <2>1, <2>4, ActivateStep DEF Eligible
  <2>6. armed' \subseteq Activations
    BY <1>1 DEF TypeOK
  <2> QED
    BY <1>1, <1>4, <2>3, <2>5, <2>6, HandlerStep
<1>6. CASE ~Accepted(c)
  <2>1. UNCHANGED <<pendingTimers, pendingGens, route>>
    BY <1>6 DEF HandleActivate
  <2>2. pendingTimers[c] = NoTimer
    BY <1>2, <1>6 DEF Accepted, Activations, Pending, TypeOK
  <2>3. Pending'
    <3>1. ASSUME NEW d \in Containers, pendingTimers[d] # NoTimer PROVE Comes(d)'
      BY <1>1, <1>2, <1>3, <2>1, <2>2, <3>1 DEF Pending, Comes, Coming
    <3> QED
      BY <1>3, <2>1, <3>1 DEF Pending
  <2>4. /\ pendingTimers' \in [Containers -> Timers \cup {NoTimer}]
        /\ pendingGens' \in [Containers -> {0, 1}]
        /\ armed' \subseteq Activations
        /\ route' \in [Containers -> Nets \cup {NoNet}]
    BY <1>1, <2>1 DEF TypeOK
  <2>5. \A d \in Containers : Served(d)' <=> Served(d)
    BY <2>1 DEF Served
  <2> QED
    BY <1>1, <1>4, <2>3, <2>4, <2>5, HandlerStep
<1> QED
  BY <1>5, <1>6

\* Networks, the proxy's own networks, and a rescan.
LEMMA HandleNetworkStep ==
  ASSUME PendingInv, env' = env,
         HandleSelf \/ HandleRescan \/ \E c \in Containers : HandleConnect(c) \/ HandleDisconnect(c)
  PROVE  PendingInv' /\ (Told => Told')
<1> USE DEF PendingInv
<1>1. PICK type \in {"connect", "disconnect", "rescan"}, id \in Containers \cup {Self} :
        Take(type, id) /\ UNCHANGED pendingVars
  BY DEF HandleSelf, HandleRescan, HandleConnect, HandleDisconnect, pendingVars
<1>2. /\ Pending'
      /\ pendingTimers' \in [Containers -> Timers \cup {NoTimer}]
      /\ pendingGens' \in [Containers -> {0, 1}]
      /\ armed' \subseteq Activations
  BY <1>1, PendingSame
<1>3. \A d \in Containers : Head(queue) \notin DownOf(d)
  BY <1>1, HeadOf
<1>4. /\ route' \in [Containers -> Nets \cup {NoNet}]
      /\ \A d \in Containers : Served(d)' => Served(d) \/ Eligible(d)
  <2>1. CASE UNCHANGED route
    BY <2>1 DEF TypeOK, Served
  <2>2. CASE RescanAll(networks) \/ RescanAll(networks')
    BY <2>2, RescanAllStep
  <2>3. CASE \E c \in Containers : UpdateBackend(c, TRUE) /\ (Eligible(c) \/ Served(c))
    <3>1. PICK c \in Containers : UpdateBackend(c, TRUE) /\ (Eligible(c) \/ Served(c))
      BY <2>3
    <3>2. PICK n \in Nets \cup {NoNet} : Registers(c, n)
      BY <3>1, UpdateStep
    <3> QED
      BY <3>1, <3>2, RegistersStep
  <2> QED
    BY <2>1, <2>2, <2>3
       DEF HandleSelf, HandleRescan, HandleConnect, HandleDisconnect, ForwardConnect, server
<1> QED
  BY <1>1, <1>2, <1>3, <1>4, HandlerStep
-----------------------------------------------------------------------------
LEMMA NothingStep ==
  ASSUME PendingInv,
         UNCHANGED <<env, checked, running, health, nets, stream, queue, pendingTimers, pendingGens, armed, route>>
  PROVE  PendingInv' /\ (Told => Told')
<1>1. TypeOK'
  BY DEF PendingInv, TypeOK
<1>2. Pending'
  BY PendingKept DEF PendingInv
<1>3. \A c \in Containers : (Eligible(c)' <=> Eligible(c)) /\ (Served(c)' <=> Served(c))
  BY DEF Eligible, Served
<1>4. \A c \in Containers : HealthyOf(c)' = HealthyOf(c) /\ DownOf(c)' = DownOf(c)
  BY DEF HealthyOf, DownOf
<1>5. ASSUME Told PROVE Told'
  <2> SUFFICES ASSUME NEW c \in Containers, ~Eligible(c)' PROVE DownIsToldOf(c)'
    BY DEF Told
  <2>1. DownIsToldOf(c)
    BY <1>3, <1>5 DEF Told
  <2> QED
    BY <1>3, <1>4, <2>1 DEF DownIsToldOf
<1> QED
  BY <1>1, <1>2, <1>5 DEF PendingInv

\* Every step keeps the first part; if Docker is quiet before the subscription,
\* every step keeps the second.
LEMMA NextStep ==
  ASSUME PendingInv, [Next]_vars
  PROVE  PendingInv' /\ (QuietStart /\ Told => Told')
<1>1. CASE DockerChanges /\ env' = env
  BY <1>1, StartStep, DieStep, HealthStep, NetworkStep, SighupStep DEF DockerChanges
<1>2. CASE Subscribe /\ env' = env
  <2>1. UNCHANGED <<env, checked, running, health, nets, stream, queue, pendingTimers, pendingGens, armed, route>>
    BY <1>2 DEF Subscribe, listener, pendingVars, server
  <2> QED
    BY <2>1, NothingStep
<1>3. CASE (Listen \/ \E t \in Timers : TimerFires(t)) /\ env' = env
  BY <1>3, ListenStep, FireStep
<1>4. CASE Dispatch /\ env' = env
  BY <1>4, HandleStartStep, HandleDieStep, HandleUnhealthyStep, HandleHealthyStep, HandleActivateStep,
     HandleNetworkStep DEF Dispatch
<1>5. CASE UNCHANGED vars
  <2>1. UNCHANGED <<env, checked, running, health, nets, stream, queue, pendingTimers, pendingGens, armed, route>>
    BY <1>5 DEF vars, docker, listener, pendingVars, server
  <2> QED
    BY <2>1, NothingStep
<1> QED
  BY <1>1, <1>2, <1>3, <1>4, <1>5 DEF Next

\* A pending activation comes: whatever was cancelled, fired late or queued
\* twice, a container whose start is held back has a timer or a command that
\* ends the wait.
THEOREM ActivationsCome == Spec => []PendingComes
<1>1. Init => PendingInv
  BY InitInv DEF Inv
<1>2. PendingInv /\ [Next]_vars => PendingInv'
  BY NextStep
<1>3. PendingInv => PendingComes
  <2> SUFFICES ASSUME PendingInv, NEW c \in Containers, pendingTimers[c] # NoTimer
               PROVE  \E a \in armed \cup Range(queue) :
                        a.type = "activate" /\ a.id = c /\ a.gen = pendingGens[c]
    BY DEF PendingComes, PendingInv, Pending
  <2>1. PICK a \in Coming : a.type = "activate" /\ a.id = c
    BY DEF PendingInv, Pending, Comes
  <2>2. a \in Commands
    BY RangeOfSeq DEF PendingInv, TypeOK, Coming, Commands
  <2>3. a.gen = 1
    BY <2>1, <2>2, CommandTypes DEF Activations
  <2>4. pendingGens[c] = 1
    BY DEF PendingInv, TypeOK, Pending
  <2> QED
    BY <2>1, <2>3, <2>4 DEF Coming
<1> QED
  BY <1>1, <1>2, <1>3, PTL DEF Spec

\* If nothing changes between the first rescan and the subscription to events: when
\* all events are handled, no container is registered that is dead or unhealthy, however late or failing the handlers' questions to Docker were.
THEOREM DeadNotServed == ASSUME QuietStart PROVE Spec => []NoneDeadServed
<1>1. Init => Inv
  BY InitInv
<1>2. Inv /\ [Next]_vars => Inv'
  BY NextStep DEF Inv
<1>3. Inv => NoneDeadServed
  <2> SUFFICES ASSUME Inv, Quiet, NEW c \in Containers, Served(c), ~Eligible(c)
               PROVE  FALSE
    BY DEF NoneDeadServed
  <2>1. Meets(<<>>, DownOf(c))
    BY DEF Inv, Told, DownIsToldOf, Quiet
  <2> QED
    BY <2>1, MeetsEmpty
<1> QED
  BY <1>1, <1>2, <1>3, PTL DEF Spec
-----------------------------------------------------------------------------
(***************************************************************************)
(* Convergence.  Whatever is not as it should be has a cause that is still *)
(* under way: an event, or a pending activation.  A handler that consumes  *)
(* the event repairs what it stands for, unless Docker has changed since;  *)
(* then a later event is under way, because news is never overtaken by     *)
(* what it corrects.                                                       *)
(***************************************************************************)
AnyNet == Nets \cup {NoNet}
Of(type, id, ns) == {e \in DockerEvents : e.type = type /\ e.id = id /\ e.net \in ns}

\* An event is under way.
Under == Range(queue) \cup Range(stream)
Way(type, id, ns) == \E e \in Under : e.type = type /\ e.id = id /\ e.net \in ns

\* What an event says of the state, and what it corrects: that a container runs,
\* that it is healthy, and which networks the proxy is attached to.
News(new, old, id, ns) == [new |-> Of(new, id, ns), old |-> Of(old, id, ns)]
NewsOf(runs, status, attached) ==
  {News("start", "die", c, AnyNet) : c \in runs}
    \cup {News("healthy", "unhealthy", c, AnyNet) : c \in {d \in Containers : status[d] = "healthy"}}
    \cup {News("connect", "disconnect", Self, {n}) : n \in attached}
    \cup {News("disconnect", "connect", Self, {n}) : n \in Nets \ attached}

\* In q, followed by s, no event of old is the last of both.
Corrected(q, s, news) ==
  /\ ~EndsWith(s, news.old, news.new)
  /\ EndsWith(q, news.old, news.new) => Meets(s, news.new)

InOrder(q, s, all) == \A news \in all : Corrected(q, s, news)

\* An address of c on n is asked for.
Awaited(c, n) ==
  \/ Way("start", c, AnyNet) \/ Way("healthy", c, AnyNet) \/ Way("connect", c, {n})
  \/ pendingTimers[c] # NoTimer

Settles(c) ==
  /\ route[c] \in networks \cup {NoNet}
  /\ Served(c) /\ c \notin running => Way("die", c, AnyNet)
  /\ Served(c) /\ route[c] \notin nets[c] =>
       Way("die", c, AnyNet) \/ Way("disconnect", c, {route[c]})
  /\ Eligible(c) /\ ~Served(c) => \A n \in nets[c] \cap networks : Awaited(c, n)
  /\ c \in running \ started => Way("start", c, AnyNet)
  /\ c \in waiting => c \in checked
  /\ c \in waiting \cap running /\ health[c] = "healthy" => Way("healthy", c, AnyNet)
  /\ Way("unhealthy", c, AnyNet) => c \in checked

NetsSettle ==
  /\ joined \subseteq Nets /\ networks \subseteq Nets
  /\ proxyHealthy /\ Self \in started
  /\ ~Way("connect", Self, {NoNet})
  /\ \A n \in joined \ networks : Way("connect", Self, {n})
  /\ \A n \in networks \ joined : Way("disconnect", Self, {n})

Settling ==
  Smooth => /\ InOrder(queue, stream, NewsOf(running, health, joined))
            /\ \A c \in Containers : Settles(c)
            /\ NetsSettle
-----------------------------------------------------------------------------
\* Order, after each motion of the two queues.
LEMMA MeetsRange ==
  ASSUME NEW S, NEW q \in Seq(S), NEW X
  PROVE  Meets(q, X) <=> \E e \in Range(q) : e \in X
<1>1. Range(q) = {q[i] : i \in 1..Len(q)}
  BY RangeEquality
<1> QED
  BY <1>1 DEF Meets

\* Events are sent: what is corrected now was, or is by one of them.
LEMMA OrderEmit ==
  ASSUME NEW s \in Seq(DockerEvents), NEW r \in Seq(DockerEvents), NEW q, NEW all, NEW now,
         InOrder(q, s, all),
         \A news \in now : /\ ~\E e \in Range(r) : e \in news.old
                           /\ news \in all \/ \E e \in Range(r) : e \in news.new
  PROVE  InOrder(q, s \o r, now)
<1> SUFFICES ASSUME NEW news \in now PROVE Corrected(q, s \o r, news)
  BY DEF InOrder
<1> DEFINE H == news.old
           X == news.new
<1>1. ~Meets(r, H) /\ (news \in all \/ Meets(r, X))
  BY MeetsRange
<1>2. ~EndsWith(r, H, X)
  BY <1>1, EndsMeets
<1>3. Meets(s \o r, X) <=> Meets(s, X) \/ Meets(r, X)
  BY MeetsConcat
<1>4. EndsWith(s \o r, H, X) => (EndsWith(s, H, X) /\ ~Meets(r, X)) \/ EndsWith(r, H, X)
  BY EndsConcat
<1>5. CASE Meets(r, X)
  BY <1>2, <1>3, <1>4, <1>5 DEF Corrected
<1>6. CASE news \in all
  BY <1>2, <1>3, <1>4, <1>6 DEF Corrected, InOrder
<1> QED
  BY <1>1, <1>5, <1>6

\* A command that is no event is queued.
LEMMA OrderQueued ==
  ASSUME NEW q \in Seq(Commands), NEW a \in Commands, NEW s, NEW all, InOrder(q, s, all),
         \A news \in all : a \notin news.old
  PROVE  InOrder(Append(q, a), s, all)
<1> SUFFICES ASSUME NEW news \in all PROVE Corrected(Append(q, a), s, news)
  BY DEF InOrder
<1>1. EndsWith(Append(q, a), news.old, news.new) => EndsWith(q, news.old, news.new)
  BY AppendedOne
<1> QED
  BY <1>1 DEF Corrected, InOrder

\* The listener moves the first event of s to the end of q.
LEMMA OrderListen ==
  ASSUME NEW q \in Seq(Commands), NEW s \in Seq(DockerEvents), s # <<>>, NEW all, InOrder(q, s, all)
  PROVE  InOrder(Append(q, Head(s)), Tail(s), all)
<1> SUFFICES ASSUME NEW news \in all PROVE Corrected(Append(q, Head(s)), Tail(s), news)
  BY DEF InOrder
<1> DEFINE H == news.old
           X == news.new
           h == Head(s)
<1>1. h \in Commands
  BY TailRange DEF Commands
<1>2. /\ Meets(s, X) <=> h \in X \/ Meets(Tail(s), X)
      /\ EndsWith(Tail(s), H, X) => EndsWith(s, H, X)
      /\ h \in H /\ ~Meets(Tail(s), X) => EndsWith(s, H, X)
  BY TakenHead
<1> HIDE DEF h
<1>3. EndsWith(Append(q, h), H, X) => (EndsWith(q, H, X) /\ h \notin X) \/ h \in H
  BY <1>1, AppendedOne
<1> QED
  BY <1>2, <1>3 DEF Corrected, InOrder, h

\* The dispatcher takes the first command of q: if it is what some news
\* corrects, that news is still under way.
LEMMA OrderTaken ==
  ASSUME NEW q \in Seq(Commands), q # <<>>, NEW s \in Seq(DockerEvents), NEW all, InOrder(q, s, all)
  PROVE  /\ InOrder(Tail(q), s, all)
         /\ \A news \in all : Head(q) \in news.old =>
              \E e \in Range(Tail(q)) \cup Range(s) : e \in news.new
<1>1. ASSUME NEW news \in all
      PROVE  /\ Corrected(Tail(q), s, news)
             /\ Head(q) \in news.old => Meets(Tail(q), news.new) \/ Meets(s, news.new)
  <2> DEFINE H == news.old
             X == news.new
  <2>1. /\ EndsWith(Tail(q), H, X) => EndsWith(q, H, X)
        /\ Head(q) \in H /\ ~Meets(Tail(q), X) => EndsWith(q, H, X)
    BY TakenHead
  <2> QED
    BY <2>1 DEF Corrected, InOrder
<1>2. Tail(q) \in Seq(Commands)
  BY TailRange
<1> QED
  BY <1>1, <1>2, MeetsRange DEF InOrder

\* What is news of c is news of nothing else.
LEMMA NewsFacts ==
  ASSUME TypeOK
  PROVE  /\ \A c \in running : News("start", "die", c, AnyNet) \in NewsOf(running, health, joined)
         /\ \A c \in Containers : health[c] = "healthy" =>
              News("healthy", "unhealthy", c, AnyNet) \in NewsOf(running, health, joined)
         /\ \A n \in joined : News("connect", "disconnect", Self, {n}) \in NewsOf(running, health, joined)
         /\ \A n \in Nets \ joined : News("disconnect", "connect", Self, {n}) \in NewsOf(running, health, joined)
         /\ \A news \in NewsOf(running, health, joined) : news.old \subseteq DockerEvents
<1>1. \A new, old, id, ns : News(new, old, id, ns).old \subseteq DockerEvents
  BY DEF News, Of
<1> QED
  BY <1>1 DEF NewsOf
-----------------------------------------------------------------------------
\* What is under way, after each motion.
LEMMA UnderSent ==
  ASSUME TypeOK, QuietStart, NEW events \in Seq(DockerEvents), Emit(events)
  PROVE  /\ Under' = Under \cup Range(events) /\ stream' = stream \o events
         /\ UNCHANGED <<queue, route, networks, checked, started, waiting, pendingTimers>>
<1>1. stream' = stream \o events /\ UNCHANGED <<queue, route, networks, checked, started, waiting, pendingTimers>>
  BY DEF Emit, listener, server, pendingVars
<1>2. Range(stream \o events) = Range(stream) \cup Range(events)
  BY RangeConcatenation DEF TypeOK
<1> QED
  BY <1>1, <1>2 DEF Under

LEMMA UnderTaken ==
  ASSUME TypeOK, NEW type, NEW id, Take(type, id)
  PROVE  /\ Under = Under' \cup {Head(queue)} /\ queue' = Tail(queue) /\ queue # <<>>
         /\ Head(queue).type = type /\ Head(queue).id = id
         /\ type \in EventTypes => Head(queue) \in DockerEvents
         /\ UNCHANGED <<checked, running, health, nets, joined, proxyHealthy, stream>>
<1>1. UNCHANGED <<checked, running, health, nets, joined, proxyHealthy, stream>>
  BY DEF Take, docker
<1>2. type \in EventTypes => Head(queue) \in DockerEvents
  BY CommandTaken, CommandTypes
<1> QED
  BY <1>1, <1>2, CommandTaken DEF Under

\* A container that a change of Docker's leaves as it is, or tells of.
LEMMA SettlesSent ==
  ASSUME NEW d \in Containers, Settles(d), Under \subseteq Under',
         UNCHANGED <<checked, route, networks, pendingTimers, started, waiting>>,
         \A e \in Under' : e.type = "unhealthy" /\ e.id = d => e \in Under \/ d \in checked,
         d \in running' => d \in running \/ Way("start", d, AnyNet)',
         d \in running => d \in running' \/ Way("die", d, AnyNet)',
         Eligible(d)' => Eligible(d) \/ Way("start", d, AnyNet)' \/ Way("healthy", d, AnyNet)',
         d \in running' /\ d \in checked /\ health'[d] = "healthy" =>
           (d \in running /\ health[d] = "healthy") \/ Way("healthy", d, AnyNet)',
         \A n \in nets[d] : n \in nets'[d] \/ Way("disconnect", d, {n})',
         \A n \in nets'[d] : n \in nets[d] \/ Way("connect", d, {n})'
  PROVE  Settles(d)'
<1>1. (Served(d)' <=> Served(d)) /\ route'[d] = route[d]
  BY DEF Served
<1>2. \A type, ns : Way(type, d, ns) => Way(type, d, ns)'
  BY DEF Way
<1>3. /\ route'[d] \in networks' \cup {NoNet}
      /\ d \in waiting' => d \in checked'
      /\ Way("unhealthy", d, AnyNet)' => d \in checked'
  BY DEF Settles, Way
<1>4. Served(d)' /\ d \notin running' => Way("die", d, AnyNet)'
  BY <1>1, <1>2 DEF Settles
<1>5. Served(d)' /\ route'[d] \notin nets'[d] =>
        Way("die", d, AnyNet)' \/ Way("disconnect", d, {route[d]})'
  BY <1>1, <1>2 DEF Settles
<1>6. ASSUME Eligible(d)', ~Served(d)', NEW n \in nets'[d] \cap networks' PROVE Awaited(d, n)'
  <2>1. CASE Way("start", d, AnyNet)' \/ Way("healthy", d, AnyNet)' \/ Way("connect", d, {n})'
    BY <2>1 DEF Awaited
  <2>2. CASE Eligible(d) /\ n \in nets[d]
    <3>1. Awaited(d, n)
      BY <1>1, <1>6, <2>2 DEF Settles
    <3> QED
      BY <1>2, <3>1 DEF Awaited
  <2> QED
    BY <1>6, <2>1, <2>2
<1>7. d \in running' \ started' => Way("start", d, AnyNet)'
  BY <1>2 DEF Settles
<1>8. d \in waiting' \cap running' /\ health'[d] = "healthy" => Way("healthy", d, AnyNet)'
  BY <1>2 DEF Settles
<1> QED
  BY <1>1, <1>3, <1>4, <1>5, <1>6, <1>7, <1>8 DEF Settles

\* A container that a command is not about.
LEMMA SettlesKept ==
  ASSUME NEW d \in Containers, Settles(d),
         UNCHANGED <<checked, running, health, nets, networks>>,
         route'[d] = route[d], pendingTimers'[d] = pendingTimers[d],
         d \in started' <=> d \in started, d \in waiting' <=> d \in waiting,
         \A e \in Under : e.id = d => e \in Under',
         \A e \in Under' : e.type = "unhealthy" => e \in Under
  PROVE  Settles(d)'
<1>1. (Served(d)' <=> Served(d)) /\ (Eligible(d)' <=> Eligible(d))
  BY DEF Served, Eligible
<1>2. \A type, ns : Way(type, d, ns) => Way(type, d, ns)'
  BY DEF Way
<1>3. Way("unhealthy", d, AnyNet)' => Way("unhealthy", d, AnyNet)
  BY DEF Way
<1>4. \A n : Awaited(d, n) => Awaited(d, n)'
  BY <1>2 DEF Awaited
<1> QED
  BY <1>1, <1>2, <1>3, <1>4 DEF Settles
-----------------------------------------------------------------------------
\* Docker changes something and tells of it.
Said(events, type, id, ns) == \E e \in Range(events) : e.type = type /\ e.id = id /\ e.net \in ns

\* The events tell of what they change of a container, and of nothing else.
Tells(events, c) ==
  /\ c \in running' => ~Said(events, "die", c, AnyNet)
  /\ c \in running' \ running => Said(events, "start", c, AnyNet) /\ health'[c] # "healthy"
  /\ c \in running \ running' => Said(events, "die", c, AnyNet)
  /\ health'[c] = "healthy" => ~Said(events, "unhealthy", c, AnyNet)
  /\ health'[c] = "healthy" => health[c] = "healthy" \/ Said(events, "healthy", c, AnyNet)
  /\ Said(events, "unhealthy", c, AnyNet) => c \in checked
  /\ \A n \in nets[c] \ nets'[c] : Said(events, "disconnect", c, {n})
  /\ \A n \in nets'[c] \ nets[c] : Said(events, "connect", c, {n})

\* Nor of the proxy's networks.
TellsNets(events) ==
  /\ joined' \subseteq Nets /\ proxyHealthy' = proxyHealthy
  /\ ~Said(events, "connect", Self, {NoNet})
  /\ \A n \in joined' : ~Said(events, "disconnect", Self, {n})
  /\ \A n \in Nets \ joined' : ~Said(events, "connect", Self, {n})
  /\ \A n \in joined' \ joined : Said(events, "connect", Self, {n})
  /\ \A n \in joined \ joined' : Said(events, "disconnect", Self, {n})

LEMMA OrderSent ==
  ASSUME TypeOK, NEW events \in Seq(DockerEvents), joined \subseteq Nets,
         running' \subseteq Containers,
         InOrder(queue, stream, NewsOf(running, health, joined)),
         \A c \in Containers : Tells(events, c), TellsNets(events)
  PROVE  InOrder(queue, stream \o events, NewsOf(running, health, joined)')
<1> DEFINE all == NewsOf(running, health, joined)
           now == NewsOf(running, health, joined)'
<1>1. /\ events \in Seq(DockerEvents) /\ stream \in Seq(DockerEvents)
      /\ \A e \in Range(events) : e \in DockerEvents
  BY RangeOfSeq DEF TypeOK
<1>2. ASSUME NEW new, NEW old, NEW id, NEW ns, NEW news, news = News(new, old, id, ns)
      PROVE  /\ (\E e \in Range(events) : e \in news.old) <=> Said(events, old, id, ns)
             /\ (\E e \in Range(events) : e \in news.new) <=> Said(events, new, id, ns)
  BY <1>1, <1>2 DEF News, Of, Said
<1>3. ASSUME NEW news \in now
      PROVE  /\ ~\E e \in Range(events) : e \in news.old
             /\ news \in all \/ \E e \in Range(events) : e \in news.new
  <2>1. CASE \E c \in running' : news = News("start", "die", c, AnyNet)
    <3>1. PICK c \in running' : news = News("start", "die", c, AnyNet)
      BY <2>1
    <3>2. ~Said(events, "die", c, AnyNet) /\ (c \in running \/ Said(events, "start", c, AnyNet))
      BY <3>1 DEF Tells
    <3>3. c \in running => news \in all
      BY <3>1 DEF NewsOf
    <3> QED
      BY <1>2, <3>1, <3>2, <3>3
  <2>2. CASE \E c \in Containers : health'[c] = "healthy" /\ news = News("healthy", "unhealthy", c, AnyNet)
    <3>1. PICK c \in Containers : health'[c] = "healthy" /\ news = News("healthy", "unhealthy", c, AnyNet)
      BY <2>2
    <3>2. /\ ~Said(events, "unhealthy", c, AnyNet)
          /\ health[c] = "healthy" \/ Said(events, "healthy", c, AnyNet)
      BY <3>1 DEF Tells
    <3>3. health[c] = "healthy" => news \in all
      BY <3>1 DEF NewsOf
    <3> QED
      BY <1>2, <3>1, <3>2, <3>3
  <2>3. CASE \E n \in joined' : news = News("connect", "disconnect", Self, {n})
    <3>1. PICK n \in joined' : news = News("connect", "disconnect", Self, {n})
      BY <2>3
    <3>2. ~Said(events, "disconnect", Self, {n}) /\ (n \in joined \/ Said(events, "connect", Self, {n}))
      BY <3>1 DEF TellsNets
    <3>3. n \in joined => news \in all
      BY <3>1 DEF NewsOf
    <3> QED
      BY <1>2, <3>1, <3>2, <3>3
  <2>4. CASE \E n \in Nets \ joined' : news = News("disconnect", "connect", Self, {n})
    <3>1. PICK n \in Nets \ joined' : news = News("disconnect", "connect", Self, {n})
      BY <2>4
    <3>2. ~Said(events, "connect", Self, {n}) /\ (n \notin joined \/ Said(events, "disconnect", Self, {n}))
      BY <3>1 DEF TellsNets
    <3>3. n \notin joined => news \in all
      BY <3>1 DEF NewsOf
    <3> QED
      BY <1>2, <3>1, <3>2, <3>3
  <2> QED
    BY <2>1, <2>2, <2>3, <2>4 DEF NewsOf
<1> HIDE DEF all, now
<1>4. InOrder(queue, stream, all)
  BY DEF all
<1>5. InOrder(queue, stream \o events, now)
  BY <1>1, <1>3, <1>4, OrderEmit
<1> QED
  BY <1>5 DEF now

LEMMA SettlesTold ==
  ASSUME TypeOK, QuietStart, NEW events \in Seq(DockerEvents), Emit(events),
         NEW d \in Containers, Settles(d), Tells(events, d)
  PROVE  Settles(d)'
<1>1. /\ Under' = Under \cup Range(events)
      /\ UNCHANGED <<queue, route, networks, checked, started, waiting, pendingTimers>>
  BY UnderSent
<1>2. \A type, ns : Said(events, type, d, ns) => Way(type, d, ns)'
  BY <1>1 DEF Said, Way
<1>3. \A e \in Under' : e.type = "unhealthy" /\ e.id = d => e \in Under \/ d \in checked
  <2> SUFFICES ASSUME NEW e \in Range(events), e.type = "unhealthy", e.id = d PROVE d \in checked
    BY <1>1
  <2>1. e \in DockerEvents
    BY RangeOfSeq
  <2>2. e.net \in AnyNet
    BY <2>1 DEF DockerEvents, AnyNet
  <2> QED
    BY <2>2 DEF Said, Tells
<1>4. /\ d \in running' => d \in running \/ Way("start", d, AnyNet)'
      /\ d \in running => d \in running' \/ Way("die", d, AnyNet)'
      /\ d \in running' /\ d \in checked /\ health'[d] = "healthy" =>
           (d \in running /\ health[d] = "healthy") \/ Way("healthy", d, AnyNet)'
      /\ \A n \in nets[d] : n \in nets'[d] \/ Way("disconnect", d, {n})'
      /\ \A n \in nets'[d] : n \in nets[d] \/ Way("connect", d, {n})'
  BY <1>2 DEF Tells
<1>5. Eligible(d)' => Eligible(d) \/ Way("start", d, AnyNet)' \/ Way("healthy", d, AnyNet)'
  BY <1>1, <1>4 DEF Eligible
<1>6. Under \subseteq Under'
  BY <1>1
<1> QED
  BY <1>1, <1>3, <1>4, <1>5, <1>6, SettlesSent

LEMMA SentStep ==
  ASSUME TypeOK, QuietStart, Smooth, env' = env, Settling, NEW events \in Seq(DockerEvents), Emit(events),
         running' \subseteq Containers,
         \A c \in Containers : Tells(events, c), TellsNets(events)
  PROVE  Settling'
<1>1. /\ InOrder(queue, stream, NewsOf(running, health, joined))
      /\ \A c \in Containers : Settles(c)
      /\ NetsSettle
  BY DEF Settling
<1>2. /\ Under' = Under \cup Range(events) /\ stream' = stream \o events
      /\ UNCHANGED <<queue, networks, started>>
  BY UnderSent
<1>3. InOrder(queue, stream, NewsOf(running, health, joined))'
  BY <1>1, <1>2, OrderSent DEF NetsSettle
<1>4. \A c \in Containers : Settles(c)'
  BY <1>1, SettlesTold
<1>5. NetsSettle'
  <2>1. /\ \A n : Way("connect", Self, {n})' <=>
               Way("connect", Self, {n}) \/ Said(events, "connect", Self, {n})
        /\ \A n : Way("disconnect", Self, {n})' <=>
               Way("disconnect", Self, {n}) \/ Said(events, "disconnect", Self, {n})
    BY <1>2 DEF Way, Said
  <2>2. joined' \subseteq Nets /\ networks' \subseteq Nets /\ proxyHealthy' /\ Self \in started'
    BY <1>1, <1>2 DEF NetsSettle, TellsNets
  <2>3. ~Way("connect", Self, {NoNet})'
    BY <1>1, <2>1 DEF NetsSettle, TellsNets
  <2>4. \A n \in joined' \ networks' : Way("connect", Self, {n})'
    BY <1>1, <1>2, <2>1 DEF NetsSettle, TellsNets
  <2>5. \A n \in networks' \ joined' : Way("disconnect", Self, {n})'
    BY <1>1, <1>2, <2>1 DEF NetsSettle, TellsNets
  <2> QED
    BY <2>2, <2>3, <2>4, <2>5 DEF NetsSettle
<1> QED
  BY <1>3, <1>4, <1>5 DEF Settling
-----------------------------------------------------------------------------
\* The changes of Docker, one by one.
LEMMA RangeOne ==
  ASSUME NEW e
  PROVE  Range(<<e>>) = {e}
<1> QED
  BY DEF Range

\* Events of one container leave what is said of the others and of the proxy.
LEMMA TellsOfOne ==
  ASSUME NEW events, NEW c \in Containers, \A e \in Range(events) : e.id = c,
         UNCHANGED <<joined, proxyHealthy>>, joined \subseteq Nets,
         \A d \in Containers \ {c} : /\ d \in running' <=> d \in running
                                     /\ health'[d] = health[d] /\ nets'[d] = nets[d],
         Tells(events, c)
  PROVE  (\A d \in Containers : Tells(events, d)) /\ TellsNets(events)
<1>1. \A type, d, ns : Said(events, type, d, ns) => d = c
  BY DEF Said
<1>2. \A d \in Containers \ {c} : Tells(events, d)
  BY <1>1 DEF Tells
<1>3. TellsNets(events)
  BY <1>1, ContainersAssumption DEF TellsNets
<1> QED
  BY <1>2, <1>3

LEMMA StartSettles ==
  ASSUME PendingInv, QuietStart, Smooth, env' = env, Settling, NEW c \in Containers, DockerStart(c)
  PROVE  Settling'
<1> DEFINE ns == NetEvents("connect", c, nets[c])
           start == Event("start", c, NoNet)
           events == Append(ns, start)
<1>1. TypeOK /\ nets[c] \in SUBSET Nets
  BY DEF PendingInv, TypeOK
<1>2. /\ ns \in Seq(DockerEvents)
      /\ \A e \in Range(ns) : e.type = "connect" /\ e.id = c
  BY <1>1, NetEventsQuiet
<1>3. start \in DockerEvents /\ start.type = "start" /\ start.id = c /\ start.net \in AnyNet
  BY DEF Event, DockerEvents, EventTypes, AnyNet
<1>4. Emit(events)
  BY DEF DockerStart
<1> HIDE DEF ns, start
<1>5. events \in Seq(DockerEvents) /\ Range(events) = Range(ns) \cup {start}
  BY <1>2, <1>3, AppendRange
<1> HIDE DEF events
<1>6. /\ \A e \in Range(events) : e.id = c /\ e.type \in {"connect", "start"}
      /\ Said(events, "start", c, AnyNet)
  BY <1>2, <1>3, <1>5 DEF Said
<1>7. /\ running' = running \cup {c} /\ health' = [health EXCEPT ![c] = "starting"]
      /\ UNCHANGED <<nets, joined, proxyHealthy>>
  BY DEF DockerStart
<1>8. health'[c] = "starting" /\ \A d \in Containers \ {c} : health'[d] = health[d]
  BY <1>1, <1>7 DEF TypeOK
<1>9. Tells(events, c)
  BY <1>6, <1>7, <1>8 DEF Tells, Said
<1>10. joined \subseteq Nets
  BY DEF Settling, NetsSettle
<1>11. (\A d \in Containers : Tells(events, d)) /\ TellsNets(events)
  BY <1>6, <1>7, <1>8, <1>9, <1>10, TellsOfOne
<1>12. running' \subseteq Containers
  BY <1>1, <1>7 DEF TypeOK
<1> QED
  BY <1>1, <1>4, <1>5, <1>11, <1>12, SentStep

LEMMA DieSettles ==
  ASSUME PendingInv, QuietStart, Smooth, env' = env, Settling, NEW c \in Containers, DockerDie(c)
  PROVE  Settling'
<1> DEFINE ns == NetEvents("disconnect", c, nets[c])
           die == Event("die", c, NoNet)
           one == <<die>>
           events == one \o ns
<1>1. TypeOK /\ nets[c] \in SUBSET Nets
  BY DEF PendingInv, TypeOK
<1>2. /\ ns \in Seq(DockerEvents)
      /\ \A e \in Range(ns) : e.type = "disconnect" /\ e.id = c
  BY <1>1, NetEventsQuiet
<1>3. die \in DockerEvents /\ die.type = "die" /\ die.id = c /\ die.net \in AnyNet
  BY DEF Event, DockerEvents, EventTypes, AnyNet
<1>4. Emit(events)
  BY DEF DockerDie
<1> HIDE DEF ns, die
<1>5. /\ one \in Seq(DockerEvents) /\ Range(one) = {die}
  BY <1>3, RangeOne
<1> HIDE DEF one
<1>6. events \in Seq(DockerEvents) /\ Range(events) = {die} \cup Range(ns)
  <2>1. events \in Seq(DockerEvents)
    BY <1>2, <1>5, ConcatProperties
  <2>2. Range(events) = {die} \cup Range(ns)
    BY <1>2, <1>5, RangeConcatenation
  <2> QED
    BY <2>1, <2>2
<1> HIDE DEF events
<1>7. /\ \A e \in Range(events) : e.id = c /\ e.type \in {"disconnect", "die"}
      /\ Said(events, "die", c, AnyNet)
  BY <1>2, <1>3, <1>6 DEF Said
<1>8. /\ running' = running \ {c}
      /\ UNCHANGED <<health, nets, joined, proxyHealthy>>
  BY DEF DockerDie
<1>9. Tells(events, c)
  BY <1>7, <1>8 DEF Tells, Said
<1>10. joined \subseteq Nets
  BY DEF Settling, NetsSettle
<1>11. (\A d \in Containers : Tells(events, d)) /\ TellsNets(events)
  BY <1>7, <1>8, <1>9, <1>10, TellsOfOne
<1>12. running' \subseteq Containers
  BY <1>1, <1>8 DEF TypeOK
<1> QED
  BY <1>1, <1>4, <1>6, <1>11, <1>12, SentStep

\* A single event of a container.
LEMMA OneTold ==
  ASSUME PendingInv, QuietStart, Smooth, env' = env, Settling,
         NEW type \in EventTypes, NEW c \in Containers \cup {Self}, NEW n \in AnyNet,
         Emit(<<Event(type, c, n)>>), running' = running,
         (\A t, id, ns : Said(<<Event(type, c, n)>>, t, id, ns) <=> t = type /\ id = c /\ n \in ns)
           => TellsNets(<<Event(type, c, n)>>) /\ \A d \in Containers : Tells(<<Event(type, c, n)>>, d)
  PROVE  Settling'
<1> DEFINE one == Event(type, c, n)
           events == <<one>>
<1>1. one \in DockerEvents /\ one.type = type /\ one.id = c /\ one.net = n
  BY DEF Event, DockerEvents, AnyNet
<1>2. events \in Seq(DockerEvents) /\ Range(events) = {one}
  BY <1>1, RangeOne
<1>3. \A t, id, ns : Said(events, t, id, ns) <=> t = type /\ id = c /\ n \in ns
  BY <1>1, <1>2 DEF Said
<1>4. TellsNets(events) /\ \A d \in Containers : Tells(events, d)
  BY <1>3
<1>5. TypeOK /\ running' \subseteq Containers
  BY DEF PendingInv, TypeOK
<1> QED
  BY <1>2, <1>4, <1>5, SentStep

LEMMA HealthSettles ==
  ASSUME PendingInv, QuietStart, Smooth, env' = env, Settling,
         NEW c \in Containers, NEW status \in {"healthy", "unhealthy"}, DockerHealth(c, status)
  PROVE  Settling'
<1> DEFINE events == <<Event(status, c, NoNet)>>
<1>1. Emit(events) /\ status \in EventTypes /\ NoNet \in AnyNet /\ c \in running \cap checked
  BY DEF DockerHealth, EventTypes, AnyNet
<1>2. /\ health' = [health EXCEPT ![c] = status]
      /\ UNCHANGED <<running, nets, joined, proxyHealthy>>
  BY DEF DockerHealth
<1>3. health'[c] = status /\ \A d \in Containers \ {c} : health'[d] = health[d]
  BY <1>2 DEF PendingInv, TypeOK
<1>4. joined \subseteq Nets
  BY DEF Settling, NetsSettle
<1> HIDE DEF events
<1>5. ASSUME \A t, id, ns : Said(events, t, id, ns) <=> t = status /\ id = c /\ NoNet \in ns
      PROVE  TellsNets(events) /\ \A d \in Containers : Tells(events, d)
  <2>1. TellsNets(events)
    BY <1>2, <1>4, <1>5 DEF TellsNets
  <2>2. Tells(events, c)
    BY <1>1, <1>2, <1>3, <1>5 DEF Tells
  <2>3. \A d \in Containers \ {c} : Tells(events, d)
    BY <1>2, <1>3, <1>5 DEF Tells
  <2> QED
    BY <2>1, <2>2, <2>3
<1> QED
  BY <1>1, <1>2, <1>5, OneTold DEF events

LEMMA NetSettles ==
  ASSUME PendingInv, QuietStart, Smooth, env' = env, Settling,
         NEW c \in Containers, NEW n \in Nets, DockerConnect(c, n) \/ DockerDisconnect(c, n)
  PROVE  Settling'
<1>1. PICK type \in {"connect", "disconnect"} :
        /\ Emit(<<Event(type, c, n)>>)
        /\ nets' = [nets EXCEPT ![c] = IF type = "connect" THEN @ \cup {n} ELSE @ \ {n}]
        /\ UNCHANGED <<running, health, joined, proxyHealthy>>
  BY DEF DockerConnect, DockerDisconnect
<1> DEFINE events == <<Event(type, c, n)>>
<1>2. Emit(events) /\ type \in EventTypes /\ n \in AnyNet
  BY <1>1 DEF EventTypes, AnyNet
<1>3. /\ nets'[c] = IF type = "connect" THEN nets[c] \cup {n} ELSE nets[c] \ {n}
      /\ \A d \in Containers \ {c} : nets'[d] = nets[d]
  BY <1>1 DEF PendingInv, TypeOK
<1>4. joined \subseteq Nets
  BY DEF Settling, NetsSettle
<1> HIDE DEF events
<1>5. ASSUME \A t, id, ns : Said(events, t, id, ns) <=> t = type /\ id = c /\ n \in ns
      PROVE  TellsNets(events) /\ \A d \in Containers : Tells(events, d)
  <2>1. TellsNets(events)
    BY <1>1, <1>4, <1>5, ContainersAssumption DEF TellsNets
  <2>2. Tells(events, c)
    BY <1>1, <1>3, <1>5 DEF Tells
  <2>3. \A d \in Containers \ {c} : Tells(events, d)
    BY <1>1, <1>3, <1>5 DEF Tells
  <2> QED
    BY <2>1, <2>2, <2>3
<1> QED
  BY <1>1, <1>2, <1>5, OneTold DEF events

LEMMA ProxySettles ==
  ASSUME PendingInv, QuietStart, Smooth, env' = env, Settling, NEW n \in Nets, ProxyMoves(n)
  PROVE  Settling'
<1>1. PICK type \in {"connect", "disconnect"} :
        /\ Emit(<<Event(type, Self, n)>>)
        /\ type = "connect" => n \notin joined /\ joined' = joined \cup {n}
        /\ type = "disconnect" => n \in joined /\ joined' = joined \ {n}
        /\ UNCHANGED <<running, health, nets, proxyHealthy>>
  BY DEF ProxyMoves
<1> DEFINE events == <<Event(type, Self, n)>>
<1>2. Emit(events) /\ type \in EventTypes /\ n \in AnyNet /\ n # NoNet
  BY <1>1, AbsentAssumption DEF EventTypes, AnyNet
<1>4. joined \subseteq Nets
  BY DEF Settling, NetsSettle
<1> HIDE DEF events
<1>5. ASSUME \A t, id, ns : Said(events, t, id, ns) <=> t = type /\ id = Self /\ n \in ns
      PROVE  TellsNets(events) /\ \A d \in Containers : Tells(events, d)
  <2>1. TellsNets(events)
    BY <1>1, <1>2, <1>4, <1>5 DEF TellsNets
  <2>2. \A d \in Containers : Tells(events, d)
    BY <1>1, <1>5, ContainersAssumption DEF Tells
  <2> QED
    BY <2>1, <2>2
<1> QED
  BY <1>1, <1>2, <1>5, OneTold DEF events

LEMMA DockerSettles ==
  ASSUME PendingInv, QuietStart, Smooth, env' = env, Settling, DockerChanges
  PROVE  Settling' \/ Sighup
<1>1. env.nets \subseteq Nets
  BY DEF PendingInv, TypeOK
<1>2. ~ProxyHealth
  BY DEF ProxyHealth, Smooth
<1> QED
  BY <1>1, <1>2, StartSettles, DieSettles, HealthSettles, NetSettles, ProxySettles DEF DockerChanges
-----------------------------------------------------------------------------
\* A command moves from the stream or from a timer to the queue.
LEMMA MovedStep ==
  ASSUME PendingInv, Smooth, env' = env, Settling,
         UNCHANGED <<checked, running, health, nets, joined, proxyHealthy, started, waiting,
                     pendingTimers, server>>,
         Under \subseteq Under', \A e \in Under' : e \in Under \/ e.type \notin EventTypes,
         InOrder(queue, stream, NewsOf(running, health, joined)) =>
           InOrder(queue', stream', NewsOf(running, health, joined))
  PROVE  Settling'
<1>1. UNCHANGED <<networks, route>>
  BY DEF server
<1>2. InOrder(queue, stream, NewsOf(running, health, joined))'
  BY DEF Settling
<1>3. \A d \in Containers : Settles(d)'
  BY <1>1, SettlesKept DEF Settling, EventTypes
<1>4. NetsSettle'
  <2>1. \A type \in EventTypes : \A n : Way(type, Self, {n})' <=> Way(type, Self, {n})
    BY DEF Way
  <2>2. /\ \A n : Way("connect", Self, {n})' <=> Way("connect", Self, {n})
        /\ \A n : Way("disconnect", Self, {n})' <=> Way("disconnect", Self, {n})
    BY <2>1 DEF EventTypes
  <2>3. NetsSettle
    BY DEF Settling
  <2> QED
    BY <1>1, <2>2, <2>3 DEF NetsSettle
<1> QED
  BY <1>2, <1>3, <1>4 DEF Settling

LEMMA ListenSettles ==
  ASSUME PendingInv, Smooth, env' = env, Settling, Listen
  PROVE  Settling'
<1>1. /\ stream # <<>> /\ queue' = Append(queue, Head(stream)) /\ stream' = Tail(stream)
      /\ UNCHANGED <<checked, running, health, nets, joined, proxyHealthy, started, waiting,
                     pendingTimers, server>>
  BY DEF Listen, pendingVars
<1>2. queue \in Seq(Commands) /\ stream \in Seq(DockerEvents)
  BY DEF PendingInv, TypeOK
<1>3. Head(stream) \in Commands /\ Range(stream) = {Head(stream)} \cup Range(Tail(stream))
  BY <1>1, <1>2, TailRange DEF Commands
<1>4. Range(Append(queue, Head(stream))) = Range(queue) \cup {Head(stream)}
  BY <1>2, <1>3, AppendRange
<1>5. Under' = Under
  BY <1>1, <1>3, <1>4 DEF Under
<1>6. InOrder(queue, stream, NewsOf(running, health, joined)) =>
        InOrder(queue', stream', NewsOf(running, health, joined))
  BY <1>1, <1>2, OrderListen
<1> QED
  BY <1>1, <1>5, <1>6, MovedStep

\* A timer's command or a rescan is queued.
LEMMA QueuedSettles ==
  ASSUME PendingInv, Smooth, env' = env, Settling, NEW a \in Commands, a.type \notin EventTypes,
         queue' = Append(queue, a),
         UNCHANGED <<checked, running, health, nets, joined, proxyHealthy, started, waiting,
                     pendingTimers, server, stream>>
  PROVE  Settling'
<1>1. queue \in Seq(Commands) /\ TypeOK
  BY DEF PendingInv, TypeOK
<1>2. Range(queue') = Range(queue) \cup {a}
  BY <1>1, AppendRange
<1>3. Under' = Under \cup {a}
  BY <1>2 DEF Under
<1>4. \A news \in NewsOf(running, health, joined) : a \notin news.old
  <2>1. a \notin DockerEvents
    BY DEF DockerEvents
  <2> QED
    BY <1>1, <2>1, NewsFacts
<1>5. InOrder(queue, stream, NewsOf(running, health, joined)) =>
        InOrder(queue', stream', NewsOf(running, health, joined))
  BY <1>1, <1>4, OrderQueued
<1> QED
  BY <1>3, <1>5, MovedStep

LEMMA FireSettles ==
  ASSUME PendingInv, Smooth, env' = env, Settling, (\E t \in Timers : TimerFires(t)) \/ Sighup
  PROVE  Settling'
<1>1. CASE \E t \in Timers : TimerFires(t)
  <2>1. PICK a \in armed : queue' = Append(queue, a)
    BY <1>1 DEF TimerFires
  <2>2. a \in Commands /\ a.type \notin EventTypes
    BY DEF PendingInv, TypeOK, Commands, Activations, EventTypes
  <2>3. UNCHANGED <<checked, running, health, nets, joined, proxyHealthy, started, waiting,
                    pendingTimers, server, stream>>
    BY <1>1 DEF TimerFires, docker
  <2> QED
    BY <2>1, <2>2, <2>3, QueuedSettles
<1>2. CASE Sighup
  <2> DEFINE a == Event("rescan", Self, NoNet)
  <2>1. a \in Commands /\ a.type \notin EventTypes
    BY DEF Commands, Rescans, Event, EventTypes
  <2>2. /\ queue' = Append(queue, a)
        /\ UNCHANGED <<checked, running, health, nets, joined, proxyHealthy, started, waiting,
                       pendingTimers, server, stream>>
    BY <1>2 DEF Sighup, pendingVars
  <2> QED
    BY <2>1, <2>2, QueuedSettles
<1> QED
  BY <1>1, <1>2
-----------------------------------------------------------------------------
\* A handler takes a command of c's: only c has to settle again.
Rest(c) ==
  /\ UNCHANGED networks /\ (Self \in started' <=> Self \in started)
  /\ \A d \in Containers \ {c} :
       /\ route'[d] = route[d] /\ pendingTimers'[d] = pendingTimers[d]
       /\ d \in started' <=> d \in started
       /\ d \in waiting' <=> d \in waiting

LEMMA TakenOrder ==
  ASSUME TypeOK, Smooth, env' = env, Settling, NEW type, NEW id, Take(type, id)
  PROVE  /\ InOrder(queue, stream, NewsOf(running, health, joined))'
         /\ \A news \in NewsOf(running, health, joined) : Head(queue) \in news.old =>
              \E e \in Under' : e \in news.new
<1>1. /\ InOrder(queue, stream, NewsOf(running, health, joined))
      /\ queue \in Seq(Commands) /\ stream \in Seq(DockerEvents)
  BY DEF Settling, TypeOK
<1>2. queue # <<>> /\ queue' = Tail(queue) /\ UNCHANGED <<stream, running, health, joined>>
  BY UnderTaken
<1>3. /\ InOrder(queue', stream, NewsOf(running, health, joined))
      /\ \A news \in NewsOf(running, health, joined) : Head(queue) \in news.old =>
           \E e \in Range(queue') \cup Range(stream) : e \in news.new
  BY <1>1, <1>2, OrderTaken
<1>4. InOrder(queue, stream, NewsOf(running, health, joined))'
  BY <1>2, <1>3
<1> QED
  BY <1>2, <1>3, <1>4 DEF Under

\* Other events stay under way.
LEMMA StillUnder ==
  ASSUME TypeOK, NEW type, NEW id, Take(type, id)
  PROVE  /\ \A t, d, ns : Way(t, d, ns)' => Way(t, d, ns)
         /\ \A t, d, ns : Way(t, d, ns) /\ (t # type \/ d # id \/ Head(queue).net \notin ns) => Way(t, d, ns)'
<1>1. Under = Under' \cup {Head(queue)} /\ Head(queue).type = type /\ Head(queue).id = id
  BY UnderTaken
<1> QED
  BY <1>1 DEF Way

LEMMA TakenStep ==
  ASSUME PendingInv, Smooth, env' = env, Settling, NEW type, NEW c \in Containers, Take(type, c),
         Rest(c), Settles(c)'
  PROVE  Settling'
<1>1. TypeOK /\ NetsSettle /\ \A d \in Containers : Settles(d)
  BY DEF PendingInv, Settling
<1>2. InOrder(queue, stream, NewsOf(running, health, joined))'
  BY <1>1, TakenOrder
<1>3. /\ Under = Under' \cup {Head(queue)} /\ Head(queue).id = c
      /\ UNCHANGED <<checked, running, health, nets, joined, proxyHealthy>>
  BY <1>1, UnderTaken
<1>4. ASSUME NEW d \in Containers \ {c} PROVE Settles(d)'
  <2>1. \A e \in Under : e.id = d => e \in Under'
    BY <1>3
  <2>2. \A e \in Under' : e.type = "unhealthy" => e \in Under
    BY <1>3
  <2> QED
    BY <1>1, <1>3, <2>1, <2>2, SettlesKept DEF Rest
<1>5. NetsSettle'
  <2>1. /\ \A n : Way("connect", Self, {n})' <=> Way("connect", Self, {n})
        /\ \A n : Way("disconnect", Self, {n})' <=> Way("disconnect", Self, {n})
    BY <1>3, ContainersAssumption DEF Way
  <2> QED
    BY <1>1, <1>3, <2>1 DEF NetsSettle, Rest
<1> QED
  BY <1>2, <1>4, <1>5 DEF Settling

\* The address is one c has now, or c has none on the proxy's networks.
LEMMA FreshSettles ==
  ASSUME NEW c \in Containers, NEW n, n \in Fresh(c, networks)
  PROVE  /\ n \in networks \cup {NoNet}
         /\ n # NoNet => c \in running /\ n \in nets[c]
         /\ n = NoNet /\ c \in running /\ networks \subseteq Nets => nets[c] \cap networks = {}
<1> QED
  BY AbsentAssumption DEF Fresh, Addressed

\* What _activate_backend_if_running leaves of c when Docker answers.
LEMMA Activated ==
  ASSUME TypeOK, Smooth, networks \subseteq Nets, NEW c \in Containers, ActivateIfRunning(c)
  PROVE  /\ \A d \in Containers \ {c} : route'[d] = route[d]
         /\ \/ route'[c] = route[c] /\ (c \in running => Served(c))
            \/ route'[c] \in Fresh(c, networks)
<1>1. CASE c \in running /\ UpdateBackend(c, FALSE)
  BY <1>1 DEF UpdateBackend, TypeOK
<1>2. CASE c \notin running /\ UNCHANGED route
  BY <1>2
<1> QED
  BY <1>1, <1>2 DEF ActivateIfRunning, MayRaise, Smooth

\* The part of Settles about c's address, and the part about its start.
Routed(c) ==
  /\ route[c] \in networks \cup {NoNet}
  /\ Served(c) /\ c \notin running => Way("die", c, AnyNet)
  /\ Served(c) /\ route[c] \notin nets[c] =>
       Way("die", c, AnyNet) \/ Way("disconnect", c, {route[c]})
  /\ Eligible(c) /\ ~Served(c) => \A n \in nets[c] \cap networks : Awaited(c, n)

LEMMA FreshRouted ==
  ASSUME NEW c \in Containers, networks' \subseteq Nets, route'[c] \in Fresh(c, networks'),
         UNCHANGED <<running, nets>>
  PROVE  Routed(c)'
<1>1. /\ route'[c] \in networks' \cup {NoNet}
      /\ route'[c] # NoNet => c \in running /\ route'[c] \in nets[c]
      /\ route'[c] = NoNet /\ c \in running => nets[c] \cap networks' = {}
  BY AbsentAssumption DEF Fresh, Addressed
<1> QED
  BY <1>1 DEF Routed, Served, Eligible

LEMMA SameRouted ==
  ASSUME NEW c \in Containers, Routed(c), UNCHANGED <<running, nets, networks, checked, health>>,
         route'[c] = route[c],
         Way("die", c, AnyNet) => Way("die", c, AnyNet)',
         Way("disconnect", c, {route[c]}) => Way("disconnect", c, {route[c]})',
         Eligible(c) /\ ~Served(c) => \A n \in nets[c] \cap networks : Awaited(c, n)'
  PROVE  Routed(c)'
<1>1. (Served(c)' <=> Served(c)) /\ (Eligible(c)' <=> Eligible(c))
  BY DEF Served, Eligible
<1> QED
  BY <1>1 DEF Routed

\* What a handler of c's need not look at.
LEMMA StartedSettles ==
  ASSUME TypeOK, NEW c \in Containers, Settles(c), NEW type, Take(type, c), Routed(c)',
         c \in running \ started' => Way("start", c, AnyNet)',
         c \in waiting' => c \in checked,
         c \in waiting' \cap running /\ health[c] = "healthy" => Way("healthy", c, AnyNet)'
  PROVE  Settles(c)'
<1>1. UNCHANGED <<checked, running, health>>
  BY UnderTaken
<1>2. Way("unhealthy", c, AnyNet)' => c \in checked'
  BY <1>1, StillUnder DEF Settles
<1> QED
  BY <1>1, <1>2 DEF Settles, Routed

LEMMA StartHandled ==
  ASSUME PendingInv, Smooth, env' = env, Settling, NEW c \in Containers, HandleStart(c)
  PROVE  Settling'
<1>1. /\ Take("start", c) /\ TypeOK /\ Settles(c) /\ networks \subseteq Nets
      /\ UNCHANGED networks /\ started' = started \cup {c}
      /\ UNCHANGED <<checked, running, health, nets>>
  BY UnderTaken DEF HandleStart, PendingInv, Settling, NetsSettle
<1>2. \A t, ns : Way(t, c, ns) /\ t # "start" => Way(t, c, ns)'
  BY <1>1, StillUnder
<1>3. Routed(c)
  BY <1>1 DEF Settles, Routed
<1>4. CASE c \notin running /\ UNCHANGED <<waiting, pendingVars, route>>
  <2>1. Routed(c)'
    BY <1>1, <1>2, <1>3, <1>4, SameRouted DEF Eligible
  <2>2. Settles(c)'
    BY <1>1, <1>4, <2>1, StartedSettles DEF Settles
  <2>3. Rest(c)
    BY <1>1, <1>4, ContainersAssumption DEF Rest, pendingVars
  <2> QED
    BY <1>1, <2>2, <2>3, TakenStep
<1>5. CASE ActivateIfRunning(c) /\ UNCHANGED <<waiting, pendingVars>>
  <2>1. /\ \A d \in Containers \ {c} : route'[d] = route[d]
        /\ \/ route'[c] = route[c] /\ (c \in running => Served(c))
           \/ route'[c] \in Fresh(c, networks)
    BY <1>1, <1>5, Activated
  <2>2. Routed(c)'
    <3>1. CASE route'[c] = route[c] /\ (c \in running => Served(c))
      BY <1>1, <1>2, <1>3, <3>1, SameRouted DEF Eligible
    <3>2. CASE route'[c] \in Fresh(c, networks)
      BY <1>1, <3>2, FreshRouted
    <3> QED
      BY <2>1, <3>1, <3>2
  <2>3. Settles(c)'
    BY <1>1, <1>2, <1>5, <2>2, StartedSettles DEF Settles
  <2>4. Rest(c)
    BY <1>1, <1>5, <2>1, ContainersAssumption DEF Rest, pendingVars
  <2> QED
    BY <1>1, <2>3, <2>4, TakenStep
<1>6. CASE /\ c \in checked /\ health[c] # "healthy" /\ waiting' = waiting \cup {c}
           /\ UNCHANGED <<pendingVars, route>>
  <2>1. Routed(c)'
    BY <1>1, <1>2, <1>3, <1>6, SameRouted DEF Eligible
  <2>2. Settles(c)'
    BY <1>1, <1>6, <2>1, StartedSettles DEF Settles
  <2>3. Rest(c)
    BY <1>1, <1>6, ContainersAssumption DEF Rest, pendingVars
  <2> QED
    BY <1>1, <2>2, <2>3, TakenStep
<1>7. CASE c \notin checked /\ ScheduleActivation(c) /\ UNCHANGED route
  <2>1. PICK t \in FreeTimers :
          pendingTimers' = [pendingTimers EXCEPT ![c] = t] /\ waiting' = waiting \ {c}
    BY <1>7 DEF ScheduleActivation
  <2>2. pendingTimers'[c] # NoTimer /\ \A d \in Containers \ {c} : pendingTimers'[d] = pendingTimers[d]
    BY <1>1, <2>1, AbsentAssumption DEF FreeTimers, TypeOK
  <2>3. Routed(c)'
    BY <1>1, <1>2, <1>3, <1>7, <2>2, SameRouted DEF Awaited
  <2>4. Settles(c)'
    BY <1>1, <2>1, <2>3, StartedSettles
  <2>5. Rest(c)
    BY <1>1, <1>7, <2>1, <2>2, ContainersAssumption DEF Rest
  <2> QED
    BY <1>1, <2>4, <2>5, TakenStep
<1> QED
  BY <1>4, <1>5, <1>6, <1>7 DEF HandleStart, MayRaise, Smooth

\* News of c that the head of the queue contradicts is still to come.
LEMMA NewsBehind ==
  ASSUME TypeOK, Smooth, env' = env, Settling, NEW c \in Containers
  PROVE  /\ Take("die", c) /\ c \in running => Way("start", c, AnyNet)'
         /\ Take("unhealthy", c) /\ health[c] = "healthy" => Way("healthy", c, AnyNet)'
<1>1. ASSUME Take("die", c), c \in running PROVE Way("start", c, AnyNet)'
  <2>1. Head(queue) \in DockerEvents /\ Head(queue).type = "die" /\ Head(queue).id = c
    BY <1>1, UnderTaken DEF EventTypes
  <2>2. Head(queue) \in News("start", "die", c, AnyNet).old
    BY <2>1 DEF News, Of, DockerEvents, AnyNet
  <2>3. \E e \in Under' : e \in News("start", "die", c, AnyNet).new
    BY <1>1, <2>2, TakenOrder, NewsFacts
  <2> QED
    BY <2>3 DEF News, Of, Way
<1>2. ASSUME Take("unhealthy", c), health[c] = "healthy" PROVE Way("healthy", c, AnyNet)'
  <2>1. Head(queue) \in DockerEvents /\ Head(queue).type = "unhealthy" /\ Head(queue).id = c
    BY <1>2, UnderTaken DEF EventTypes
  <2>2. Head(queue) \in News("healthy", "unhealthy", c, AnyNet).old
    BY <2>1 DEF News, Of, DockerEvents, AnyNet
  <2>3. \E e \in Under' : e \in News("healthy", "unhealthy", c, AnyNet).new
    BY <1>2, <2>2, TakenOrder, NewsFacts
  <2> QED
    BY <2>3 DEF News, Of, Way
<1> QED
  BY <1>1, <1>2

LEMMA NoRoute ==
  ASSUME TypeOK, NEW c \in Containers, RemoveBackend(c)
  PROVE  route'[c] = NoNet /\ \A d \in Containers \ {c} : route'[d] = route[d]
<1> QED
  BY DEF RemoveBackend, TypeOK

LEMMA ClearedRest ==
  ASSUME TypeOK, NEW c \in Containers, ClearPending(c)
  PROVE  /\ pendingTimers'[c] = NoTimer /\ waiting' = waiting \ {c}
         /\ \A d \in Containers \ {c} : pendingTimers'[d] = pendingTimers[d]
<1> QED
  BY DEF ClearPending, TypeOK

LEMMA DieHandled ==
  ASSUME PendingInv, Smooth, env' = env, Settling, NEW c \in Containers, HandleDie(c)
  PROVE  Settling'
<1>1. /\ Take("die", c) /\ TypeOK /\ Settles(c) /\ UNCHANGED networks /\ started' = started \ {c}
      /\ UNCHANGED <<checked, running, health, nets>> /\ RemoveBackend(c) /\ ClearPending(c)
  BY UnderTaken DEF HandleDie, PendingInv, Settling
<1>2. /\ route'[c] = NoNet /\ \A d \in Containers \ {c} : route'[d] = route[d]
      /\ waiting' = waiting \ {c} /\ \A d \in Containers \ {c} : pendingTimers'[d] = pendingTimers[d]
  BY <1>1, NoRoute, ClearedRest
<1>3. c \in running => Way("start", c, AnyNet)'
  BY <1>1, NewsBehind
<1>4. Routed(c)'
  BY <1>1, <1>2, <1>3 DEF Routed, Served, Eligible, Awaited
<1>5. Settles(c)'
  BY <1>1, <1>2, <1>3, <1>4, StartedSettles
<1>6. Rest(c)
  BY <1>1, <1>2, ContainersAssumption DEF Rest
<1> QED
  BY <1>1, <1>5, <1>6, TakenStep

LEMMA UnhealthyHandled ==
  ASSUME PendingInv, Smooth, env' = env, Settling, NEW c \in Containers, HandleUnhealthy(c)
  PROVE  Settling'
<1>1. /\ Take("unhealthy", c) /\ TypeOK /\ Settles(c)
      /\ UNCHANGED <<networks, started, waiting, pendingTimers>>
      /\ UNCHANGED <<checked, running, health, nets>> /\ RemoveBackend(c)
  BY UnderTaken DEF HandleUnhealthy, PendingInv, Settling, pendingVars
<1>2. route'[c] = NoNet /\ \A d \in Containers \ {c} : route'[d] = route[d]
  BY <1>1, NoRoute
<1>3. \A t, ns : Way(t, c, ns) /\ t # "unhealthy" => Way(t, c, ns)'
  BY <1>1, StillUnder
<1>4. c \in checked
  <2>1. Head(queue) \in Under /\ Head(queue) \in DockerEvents
        /\ Head(queue).type = "unhealthy" /\ Head(queue).id = c
    BY <1>1, UnderTaken DEF EventTypes
  <2>2. Head(queue).net \in AnyNet
    BY <2>1 DEF DockerEvents, AnyNet
  <2> QED
    BY <1>1, <2>1, <2>2 DEF Settles, Way
<1>5. Eligible(c) => Way("healthy", c, AnyNet)'
  BY <1>1, <1>4, NewsBehind DEF Eligible
<1>6. Routed(c)'
  BY <1>1, <1>2, <1>5 DEF Routed, Served, Eligible, Awaited
<1>7. Settles(c)'
  BY <1>1, <1>3, <1>6, StartedSettles DEF Settles
<1>8. Rest(c)
  BY <1>1, <1>2 DEF Rest
<1> QED
  BY <1>1, <1>7, <1>8, TakenStep

LEMMA HealthyHandled ==
  ASSUME PendingInv, Smooth, env' = env, Settling, NEW c \in Containers, HandleHealthy(c)
  PROVE  Settling'
<1>1. /\ Take("healthy", c) /\ TypeOK /\ Settles(c) /\ networks \subseteq Nets
      /\ UNCHANGED <<networks, started>>
      /\ UNCHANGED <<checked, running, health, nets>> /\ ClearPending(c) /\ ActivateIfRunning(c)
  BY UnderTaken DEF HandleHealthy, PendingInv, Settling, NetsSettle
<1>2. /\ \A d \in Containers \ {c} : route'[d] = route[d]
      /\ \/ route'[c] = route[c] /\ (c \in running => Served(c))
         \/ route'[c] \in Fresh(c, networks)
      /\ waiting' = waiting \ {c} /\ \A d \in Containers \ {c} : pendingTimers'[d] = pendingTimers[d]
  BY <1>1, Activated, ClearedRest
<1>3. \A t, ns : Way(t, c, ns) /\ t # "healthy" => Way(t, c, ns)'
  BY <1>1, StillUnder
<1>4. Routed(c)'
  <2>1. CASE route'[c] = route[c] /\ (c \in running => Served(c))
    <3>1. Routed(c)
      BY <1>1 DEF Settles, Routed
    <3> QED
      BY <1>1, <1>3, <2>1, <3>1, SameRouted DEF Eligible
  <2>2. CASE route'[c] \in Fresh(c, networks)
    BY <1>1, <2>2, FreshRouted
  <2> QED
    BY <1>2, <2>1, <2>2
<1>5. Settles(c)'
  BY <1>1, <1>2, <1>3, <1>4, StartedSettles DEF Settles
<1>6. Rest(c)
  BY <1>1, <1>2 DEF Rest
<1> QED
  BY <1>1, <1>5, <1>6, TakenStep

LEMMA ActivateHandled ==
  ASSUME PendingInv, Smooth, env' = env, Settling, NEW c \in Containers, HandleActivate(c)
  PROVE  Settling'
<1>1. /\ Take("activate", c) /\ TypeOK /\ Settles(c) /\ networks \subseteq Nets
      /\ UNCHANGED <<networks, started, waiting>>
      /\ UNCHANGED <<checked, running, health, nets>>
  BY UnderTaken DEF HandleActivate, PendingInv, Settling, NetsSettle
<1>2. \A t, ns : Way(t, c, ns) /\ t # "activate" => Way(t, c, ns)'
  BY <1>1, StillUnder
<1>3. Routed(c)
  BY <1>1 DEF Settles, Routed
<1>4. /\ Routed(c)' /\ \A d \in Containers \ {c} : route'[d] = route[d]
      /\ \A d \in Containers \ {c} : pendingTimers'[d] = pendingTimers[d]
  <2>1. CASE pendingTimers' = [pendingTimers EXCEPT ![c] = NoTimer] /\ ActivateIfRunning(c)
    <3>1. /\ \A d \in Containers \ {c} : route'[d] = route[d]
          /\ \/ route'[c] = route[c] /\ (c \in running => Served(c))
             \/ route'[c] \in Fresh(c, networks)
      BY <1>1, <2>1, Activated
    <3>2. Routed(c)'
      <4>1. CASE route'[c] = route[c] /\ (c \in running => Served(c))
        BY <1>1, <1>2, <1>3, <4>1, SameRouted DEF Eligible
      <4>2. CASE route'[c] \in Fresh(c, networks)
        BY <1>1, <4>2, FreshRouted
      <4> QED
        BY <3>1, <4>1, <4>2
    <3>3. \A d \in Containers \ {c} : pendingTimers'[d] = pendingTimers[d]
      BY <1>1, <2>1 DEF TypeOK
    <3> QED
      BY <3>1, <3>2, <3>3
  <2>2. CASE UNCHANGED <<pendingTimers, route>>
    <3>1. \A n : Awaited(c, n) => Awaited(c, n)'
      BY <1>2, <2>2 DEF Awaited
    <3>2. Eligible(c) /\ ~Served(c) => \A n \in nets[c] \cap networks : Awaited(c, n)'
      BY <1>3, <3>1 DEF Routed
    <3> QED
      BY <1>1, <1>2, <1>3, <2>2, <3>2, SameRouted
  <2> QED
    BY <2>1, <2>2 DEF HandleActivate
<1>5. Settles(c)'
  BY <1>1, <1>2, <1>4, StartedSettles DEF Settles
<1>6. Rest(c)
  BY <1>1, <1>4 DEF Rest
<1> QED
  BY <1>1, <1>5, <1>6, TakenStep

\* connect and disconnect of a container write a fresh address, or leave the one
\* there is.
LEMMA NetHandled ==
  ASSUME PendingInv, Smooth, env' = env, Settling,
         NEW type \in {"connect", "disconnect"}, NEW c \in Containers, Take(type, c),
         UNCHANGED <<started, waiting, pendingVars, networks>>,
         \/ UpdateBackend(c, TRUE)
         \/ /\ UNCHANGED route
            /\ Way("disconnect", c, {route[c]}) => Way("die", c, AnyNet) \/ Way("disconnect", c, {route[c]})'
                 \/ ~Served(c) \/ route[c] \in nets[c]
            /\ Eligible(c) /\ ~Served(c) => \A n \in nets[c] \cap networks : Awaited(c, n)'
  PROVE  Settling'
<1>1. /\ TypeOK /\ Settles(c) /\ networks \subseteq Nets /\ Routed(c)
      /\ UNCHANGED <<checked, running, health, nets>>
  BY UnderTaken DEF PendingInv, Settling, NetsSettle, Settles, Routed
<1>2. \A t, ns : Way(t, c, ns) /\ t # type => Way(t, c, ns)'
  BY <1>1, StillUnder
<1>3. Routed(c)' /\ \A d \in Containers \ {c} : route'[d] = route[d]
  <2>1. CASE UpdateBackend(c, TRUE)
    <3>1. route'[c] \in Fresh(c, networks) /\ \A d \in Containers \ {c} : route'[d] = route[d]
      BY <1>1, <2>1 DEF UpdateBackend, TypeOK
    <3> QED
      BY <1>1, <3>1, FreshRouted
  <2>2. CASE ~UpdateBackend(c, TRUE)
    <3>1. /\ UNCHANGED route
          /\ Way("disconnect", c, {route[c]}) => Way("die", c, AnyNet) \/ Way("disconnect", c, {route[c]})'
               \/ ~Served(c) \/ route[c] \in nets[c]
          /\ Eligible(c) /\ ~Served(c) => \A n \in nets[c] \cap networks : Awaited(c, n)'
      BY <2>2
    <3>2. Way("die", c, AnyNet) => Way("die", c, AnyNet)'
      BY <1>2
    <3>3. (Served(c)' <=> Served(c)) /\ (Eligible(c)' <=> Eligible(c))
      BY <1>1, <3>1 DEF Served, Eligible
    <3> QED
      BY <1>1, <3>1, <3>2, <3>3 DEF Routed
  <2> QED
    BY <2>1, <2>2
<1>4. Settles(c)'
  BY <1>1, <1>2, <1>3, StartedSettles DEF Settles
<1>5. Rest(c)
  BY <1>3 DEF Rest, pendingVars
<1> QED
  BY <1>1, <1>4, <1>5, TakenStep

\* A connect that is not forwarded comes too early, and what it is too early for
\* is still to come.
LEMMA ConnectHandled ==
  ASSUME PendingInv, Smooth, env' = env, Settling, NEW c \in Containers, HandleConnect(c)
  PROVE  Settling'
<1>1. /\ Take("connect", c) /\ TypeOK /\ Settles(c)
      /\ UNCHANGED <<started, waiting, pendingVars, networks>>
  BY DEF HandleConnect, PendingInv, Settling
<1>2. /\ \A t, ns : Way(t, c, ns) /\ t # "connect" => Way(t, c, ns)'
      /\ \A ns : Way("connect", c, ns) /\ Head(queue).net \notin ns => Way("connect", c, ns)'
  BY <1>1, StillUnder
<1>3. CASE UpdateBackend(c, TRUE)
  BY <1>1, <1>3, NetHandled
<1>4. CASE /\ ~ForwardConnect(c) \/ Head(queue).net \notin networks \/ c \notin running
           /\ UNCHANGED route
  <2>1. ASSUME Eligible(c), ~Served(c), NEW n \in nets[c] \cap networks PROVE Awaited(c, n)'
    <3>1. Awaited(c, n) /\ pendingTimers' = pendingTimers
      BY <1>1, <2>1 DEF Settles, pendingVars
    <3>2. CASE n # Head(queue).net
      BY <1>2, <3>1, <3>2 DEF Awaited
    <3>3. CASE n = Head(queue).net
      <4>1. c \in running /\ (c \notin started \/ pendingTimers[c] # NoTimer \/ c \in waiting)
        BY <1>4, <2>1, <3>3 DEF ForwardConnect, PendingStartup, Eligible
      <4>2. c \notin started => Way("start", c, AnyNet)
        BY <1>1, <4>1 DEF Settles
      <4>3. c \in waiting => Way("healthy", c, AnyNet)
        BY <1>1, <2>1, <4>1 DEF Settles, Eligible
      <4> QED
        BY <1>2, <3>1, <4>1, <4>2, <4>3 DEF Awaited
    <3> QED
      BY <3>2, <3>3
  <2>2. Way("disconnect", c, {route[c]}) => Way("disconnect", c, {route[c]})'
    BY <1>2, <1>4
  <2>3. Eligible(c) /\ ~Served(c) => \A n \in nets[c] \cap networks : Awaited(c, n)'
    BY <2>1
  <2>4. UNCHANGED route
    BY <1>4
  <2> QED
    BY <1>1, <2>2, <2>3, <2>4, NetHandled
<1> QED
  BY <1>3, <1>4 DEF HandleConnect, MayRaise, Smooth

LEMMA DisconnectHandled ==
  ASSUME PendingInv, Smooth, env' = env, Settling, NEW c \in Containers, HandleDisconnect(c)
  PROVE  Settling'
<1>1. /\ Take("disconnect", c) /\ TypeOK /\ Settles(c)
      /\ UNCHANGED <<started, waiting, pendingVars, networks>>
  BY DEF HandleDisconnect, PendingInv, Settling
<1>2. /\ \A t, ns : Way(t, c, ns) /\ t # "disconnect" => Way(t, c, ns)'
      /\ \A ns : Way("disconnect", c, ns) /\ Head(queue).net \notin ns => Way("disconnect", c, ns)'
  BY <1>1, StillUnder
<1>3. CASE UpdateBackend(c, TRUE)
  BY <1>1, <1>3, NetHandled
<1>4. CASE /\ ~(Head(queue).net \in networks /\ Served(c)) \/ c \notin running
           /\ UNCHANGED route
  <2>1. ASSUME Eligible(c), ~Served(c), NEW n \in nets[c] \cap networks PROVE Awaited(c, n)'
    <3>1. Awaited(c, n) /\ pendingTimers' = pendingTimers
      BY <1>1, <2>1 DEF Settles, pendingVars
    <3> QED
      BY <1>2, <3>1 DEF Awaited
  <2>2. Way("disconnect", c, {route[c]}) =>
          Way("die", c, AnyNet) \/ Way("disconnect", c, {route[c]})' \/ ~Served(c)
    <3>1. CASE Head(queue).net # route[c]
      <4>1. Head(queue).net \notin {route[c]}
        BY <3>1
      <4> QED
        BY <1>2, <1>4, <4>1
    <3>2. CASE Head(queue).net = route[c] /\ Served(c)
      <4>1. c \notin running
        BY <1>1, <1>4, <3>2 DEF Settles, Served
      <4> QED
        BY <1>1, <3>2, <4>1 DEF Settles
    <3> QED
      BY <3>1, <3>2
  <2> QED
    BY <1>1, <1>4, <2>1, <2>2, NetHandled
<1> QED
  BY <1>3, <1>4 DEF HandleDisconnect, MayRaise, Smooth
-----------------------------------------------------------------------------
\* A rescan gives every container a fresh address.
LEMMA RescanSettles ==
  ASSUME PendingInv, Smooth, env' = env, Settling, NEW type, Take(type, Self),
         UNCHANGED <<started, waiting, pendingVars>>,
         networks' \subseteq Nets, RescanAll(networks')
  PROVE  \A c \in Containers : Settles(c)'
<1> SUFFICES ASSUME NEW c \in Containers PROVE Settles(c)'
  OBVIOUS
<1>1. TypeOK /\ Settles(c) /\ UNCHANGED <<checked, running, health, nets>>
  BY UnderTaken DEF PendingInv, Settling
<1>2. route'[c] \in IF Eligible(c) THEN Fresh(c, networks') ELSE {NoNet}
  BY DEF RescanAll, Smooth
<1>3. \A t, ns : Way(t, c, ns) => Way(t, c, ns)'
  BY <1>1, StillUnder, ContainersAssumption
<1>4. Routed(c)'
  <2>1. CASE Eligible(c)
    BY <1>1, <1>2, <2>1, FreshRouted
  <2>2. CASE ~Eligible(c)
    BY <1>1, <1>2, <2>2 DEF Routed, Served, Eligible
  <2> QED
    BY <2>1, <2>2
<1>5. Way("unhealthy", c, AnyNet)' => c \in checked
  BY <1>1, StillUnder DEF Settles
<1> QED
  BY <1>1, <1>3, <1>4, <1>5 DEF Settles, Routed

\* The proxy's own command leaves the containers as they are.
LEMMA OthersSettle ==
  ASSUME PendingInv, Smooth, env' = env, Settling, NEW type, Take(type, Self),
         UNCHANGED <<started, waiting, pendingVars, server>>
  PROVE  \A c \in Containers : Settles(c)'
<1> SUFFICES ASSUME NEW c \in Containers PROVE Settles(c)'
  OBVIOUS
<1>1. /\ TypeOK /\ Settles(c) /\ UNCHANGED <<checked, running, health, nets>>
      /\ Under = Under' \cup {Head(queue)} /\ Head(queue).id = Self
  BY UnderTaken DEF PendingInv, Settling
<1>2. /\ \A e \in Under : e.id = c => e \in Under'
      /\ \A e \in Under' : e.type = "unhealthy" => e \in Under
  BY <1>1, ContainersAssumption
<1>3. UNCHANGED <<networks, route, pendingTimers>>
  BY DEF server, pendingVars
<1> QED
  BY <1>1, <1>2, <1>3, SettlesKept

\* A network the proxy has left, or joined again, since the event was sent is
\* told of behind it.
LEMMA NetsBehind ==
  ASSUME TypeOK, Smooth, env' = env, Settling, NEW n \in Nets
  PROVE  /\ Take("connect", Self) /\ Head(queue).net = n /\ n \notin joined =>
              Way("disconnect", Self, {n})'
         /\ Take("disconnect", Self) /\ Head(queue).net = n /\ n \in joined =>
              Way("connect", Self, {n})'
<1>1. ASSUME Take("connect", Self), Head(queue).net = n, n \notin joined
      PROVE  Way("disconnect", Self, {n})'
  <2>1. Head(queue) \in DockerEvents /\ Head(queue).type = "connect" /\ Head(queue).id = Self
    BY <1>1, UnderTaken DEF EventTypes
  <2>2. Head(queue) \in News("disconnect", "connect", Self, {n}).old
    BY <1>1, <2>1 DEF News, Of
  <2>3. \E e \in Under' : e \in News("disconnect", "connect", Self, {n}).new
    BY <1>1, <2>2, TakenOrder, NewsFacts
  <2> QED
    BY <2>3 DEF News, Of, Way
<1>2. ASSUME Take("disconnect", Self), Head(queue).net = n, n \in joined
      PROVE  Way("connect", Self, {n})'
  <2>1. Head(queue) \in DockerEvents /\ Head(queue).type = "disconnect" /\ Head(queue).id = Self
    BY <1>2, UnderTaken DEF EventTypes
  <2>2. Head(queue) \in News("connect", "disconnect", Self, {n}).old
    BY <1>2, <2>1 DEF News, Of
  <2>3. \E e \in Under' : e \in News("connect", "disconnect", Self, {n}).new
    BY <1>2, <2>2, TakenOrder, NewsFacts
  <2> QED
    BY <2>3 DEF News, Of, Way
<1> QED
  BY <1>1, <1>2

LEMMA SelfHandled ==
  ASSUME PendingInv, Smooth, env' = env, Settling, HandleSelf
  PROVE  Settling'
<1>0. PICK m : m = Head(queue).net
  OBVIOUS
<1>1. /\ TypeOK /\ NetsSettle /\ UNCHANGED <<started, waiting, pendingVars>>
      /\ Self \in started' /\ ~env.fails
  BY DEF PendingInv, Settling, NetsSettle, HandleSelf, Smooth
<1>2. PICK type \in {"connect", "disconnect"} :
        /\ Take(type, Self)
        /\ \/ /\ type = "connect" /\ m \notin networks
              /\ networks' = networks \cup {m} /\ RescanAll(networks')
           \/ /\ type = "disconnect" /\ m \in networks
              /\ networks' = networks \ {m} /\ RescanAll(networks')
           \/ /\ type = "connect" <=> m \in networks
              /\ UNCHANGED server
  BY <1>0, <1>1 DEF HandleSelf, NetsSettle
<1>3. /\ InOrder(queue, stream, NewsOf(running, health, joined))'
      /\ UNCHANGED <<joined, proxyHealthy>>
  BY <1>1, <1>2, TakenOrder, UnderTaken
<1>4. /\ \A t, n : Way(t, Self, {n})' => Way(t, Self, {n})
      /\ \A t, n : Way(t, Self, {n}) /\ (t # type \/ m # n) => Way(t, Self, {n})'
  BY <1>0, <1>1, <1>2, StillUnder
<1>5. type = "connect" => m \in Nets
  <2> SUFFICES ASSUME type = "connect" PROVE m \in Nets
    OBVIOUS
  <2>1. /\ Head(queue) \in DockerEvents /\ Head(queue) \in Under
        /\ Head(queue).type = "connect" /\ Head(queue).id = Self
    BY <1>1, <1>2, UnderTaken DEF EventTypes
  <2>2. m \in Nets \cup {NoNet}
    BY <1>0, <2>1 DEF DockerEvents
  <2>3. m # NoNet
    BY <1>0, <1>1, <2>1 DEF NetsSettle, Way
  <2> QED
    BY <2>2, <2>3
<1>6. joined \subseteq Nets /\ networks \subseteq Nets /\ networks' \subseteq Nets
  BY <1>1, <1>2, <1>5 DEF NetsSettle, server
<1>7. /\ type = "connect" /\ m \in Nets \ joined => Way("disconnect", Self, {m})'
      /\ type = "disconnect" /\ m \in joined => Way("connect", Self, {m})'
  BY <1>0, <1>1, <1>2, <1>6, NetsBehind
<1>8. ASSUME NEW n \in joined \ networks' PROVE Way("connect", Self, {n})'
  <2>1. CASE n \in networks
    BY <1>2, <1>7, <1>8, <2>1 DEF server
  <2>2. CASE n \notin networks
    <3>1. Way("connect", Self, {n})
      BY <1>1, <1>8, <2>2 DEF NetsSettle
    <3>2. type = "connect" => m # n
      BY <1>2, <1>8, <2>2
    <3> QED
      BY <1>4, <3>1, <3>2
  <2> QED
    BY <2>1, <2>2
<1>9. ASSUME NEW n \in networks' \ joined PROVE Way("disconnect", Self, {n})'
  <2>1. CASE n \notin networks
    BY <1>2, <1>6, <1>7, <1>9, <2>1 DEF server
  <2>2. CASE n \in networks
    <3>1. Way("disconnect", Self, {n})
      BY <1>1, <1>9, <2>2 DEF NetsSettle
    <3>2. type = "disconnect" => m # n
      BY <1>2, <1>9, <2>2
    <3> QED
      BY <1>4, <3>1, <3>2
  <2> QED
    BY <2>1, <2>2
<1>10. NetsSettle'
  <2>1. ~Way("connect", Self, {NoNet})'
    BY <1>1, <1>4 DEF NetsSettle
  <2>2. proxyHealthy' /\ Self \in started'
    BY <1>1, <1>3 DEF NetsSettle
  <2>3. joined' = joined
    BY <1>3
  <2> QED
    BY <1>6, <1>8, <1>9, <2>1, <2>2, <2>3 DEF NetsSettle
<1>11. \A c \in Containers : Settles(c)'
  BY <1>1, <1>2, <1>6, RescanSettles, OthersSettle
<1> QED
  BY <1>3, <1>10, <1>11 DEF Settling

LEMMA RescanHandled ==
  ASSUME PendingInv, Smooth, env' = env, Settling, HandleRescan
  PROVE  Settling'
<1>1. /\ TypeOK /\ NetsSettle /\ Take("rescan", Self) /\ UNCHANGED <<started, waiting, pendingVars, networks>>
      /\ RescanAll(networks')
  BY DEF PendingInv, Settling, HandleRescan
<1>2. /\ InOrder(queue, stream, NewsOf(running, health, joined))'
      /\ UNCHANGED <<joined, proxyHealthy>>
  BY <1>1, TakenOrder, UnderTaken
<1>3. \A c \in Containers : Settles(c)'
  BY <1>1, RescanSettles DEF NetsSettle
<1>4. NetsSettle'
  <2>1. /\ \A n : Way("connect", Self, {n})' <=> Way("connect", Self, {n})
        /\ \A n : Way("disconnect", Self, {n})' <=> Way("disconnect", Self, {n})
    BY <1>1, StillUnder
  <2> QED
    BY <1>1, <1>2, <2>1 DEF NetsSettle
<1> QED
  BY <1>2, <1>3, <1>4 DEF Settling
-----------------------------------------------------------------------------
LEMMA InitSettling == Init => Settling
<1> SUFFICES ASSUME Init, Smooth PROVE Settling
  BY DEF Settling
<1>1. /\ queue = <<>> /\ stream = <<>> /\ networks = joined /\ joined \subseteq Nets
      /\ proxyHealthy /\ started = running \cup {Self} /\ waiting = {}
  BY SwitchesAssumption DEF Init, Smooth
<1>2. Under = {}
  BY <1>1, EmptySeq DEF Under, Range
<1>3. \A type, id, ns : ~Way(type, id, ns)
  BY <1>2 DEF Way
<1>4. InOrder(queue, stream, NewsOf(running, health, joined))
  <2>1. \A H, X : ~Meets(<<>>, H) /\ ~EndsWith(<<>>, H, X)
    BY MeetsEmpty, EndsMeets
  <2> QED
    BY <1>1, <2>1 DEF InOrder, Corrected
<1>5. ASSUME NEW c \in Containers PROVE Settles(c)
  <2>1. route[c] \in IF Eligible(c) THEN Fresh(c, networks) ELSE {NoNet}
    BY DEF Init
  <2>2. Routed(c)
    <3>1. CASE Eligible(c)
      <4>1. /\ route[c] \in networks \cup {NoNet}
            /\ route[c] # NoNet => c \in running /\ route[c] \in nets[c]
            /\ route[c] = NoNet => nets[c] \cap networks = {}
        BY <1>1, <2>1, <3>1, FreshSettles DEF Eligible
      <4> QED
        BY <4>1 DEF Routed, Served
    <3>2. CASE ~Eligible(c)
      BY <2>1, <3>2 DEF Routed, Served
    <3> QED
      BY <3>1, <3>2
  <2> QED
    BY <1>1, <1>3, <2>2 DEF Settles, Routed
<1>6. NetsSettle
  BY <1>1, <1>3 DEF NetsSettle
<1> QED
  BY <1>4, <1>5, <1>6 DEF Settling

LEMMA SettlingStep ==
  ASSUME PendingInv, QuietStart, Settling, [Next]_vars
  PROVE  Settling'
<1>1. env' = env
  BY DEF Next, vars
<1>2. CASE ~Smooth
  BY <1>1, <1>2 DEF Settling, Smooth
<1>3. CASE Smooth /\ Next
  <2>1. CASE DockerChanges
    BY <1>1, <1>3, <2>1, DockerSettles, FireSettles
  <2>2. CASE Subscribe
    <3>1. UNCHANGED <<checked, running, health, nets, joined, proxyHealthy, started, waiting,
                      pendingTimers, server, queue, stream>>
      BY <2>2 DEF Subscribe, listener, pendingVars
    <3>2. Under' = Under
      BY <3>1 DEF Under
    <3> QED
      BY <1>1, <1>3, <3>1, <3>2, MovedStep
  <2>3. CASE Listen \/ \E t \in Timers : TimerFires(t)
    BY <1>1, <1>3, <2>3, ListenSettles, FireSettles
  <2>4. CASE Dispatch
    BY <1>1, <1>3, <2>4, StartHandled, DieHandled, HealthyHandled, UnhealthyHandled, ActivateHandled,
       ConnectHandled, DisconnectHandled, SelfHandled, RescanHandled DEF Dispatch
  <2> QED
    BY <1>3, <2>1, <2>2, <2>3, <2>4 DEF Next
<1>4. CASE Smooth /\ UNCHANGED vars
  <2>1. UNCHANGED <<checked, running, health, nets, joined, proxyHealthy, started, waiting,
                    pendingTimers, server, queue, stream>>
    BY <1>4 DEF vars, docker, listener, pendingVars
  <2>2. Under' = Under
    BY <2>1 DEF Under
  <2> QED
    BY <1>1, <1>4, <2>1, <2>2, MovedStep
<1> QED
  BY <1>2, <1>3, <1>4

\* If nothing changes between the first rescan and the subscription, requests
\* succeed and the proxy's own container stays healthy (Smooth, in Converged):
\* when all events are handled, every container that runs, is healthy if it is
\* checked and shares a network with the proxy is registered with an address it
\* has now, and no other container is: whatever Docker did, in whatever order the
\* threads and the timers met it.
THEOREM AllConverge == ASSUME QuietStart PROVE Spec => []Converged
<1>1. Init => Inv /\ Settling
  BY InitInv, InitSettling
<1>2. Inv /\ Settling /\ [Next]_vars => (Inv /\ Settling)'
  BY NextStep, SettlingStep DEF Inv
<1>3. Inv /\ Settling => Converged
  <2> SUFFICES ASSUME Inv, Settling, Quiet, Smooth, NEW c \in Containers
               PROVE  route[c] \in IF Eligible(c) THEN Fresh(c, joined) ELSE {NoNet}
    BY DEF Converged
  <2>1. Coming = {} /\ Under = {}
    BY EmptySeq DEF Quiet, Coming, Under, Range
  <2>2. \A type, id, ns : ~Way(type, id, ns)
    BY <2>1 DEF Way
  <2>3. pendingTimers[c] = NoTimer
    BY <2>1 DEF Inv, PendingInv, Pending, Comes
  <2>4. Settles(c) /\ networks = joined
    BY <2>2 DEF Settling, NetsSettle
  <2>5. CASE ~Eligible(c)
    <3>1. ~Served(c)
      BY <2>5, MeetsEmpty DEF Inv, Told, DownIsToldOf, Quiet
    <3> QED
      BY <2>5, <3>1 DEF Served
  <2>6. CASE Eligible(c) /\ Served(c)
    <3>1. route[c] \in nets[c] \cap joined /\ c \in running
      BY <2>2, <2>4, <2>6 DEF Settles, Served, Eligible
    <3> QED
      BY <2>6, <3>1 DEF Fresh, Addressed
  <2>7. CASE Eligible(c) /\ ~Served(c)
    <3>1. \A n : ~Awaited(c, n)
      BY <2>2, <2>3 DEF Awaited
    <3>2. nets[c] \cap joined = {} /\ c \in running
      BY <2>4, <2>7, <3>1 DEF Settles, Eligible
    <3> QED
      BY <2>7, <3>2 DEF Fresh, Addressed, Served
  <2> QED
    BY <2>5, <2>6, <2>7
<1> QED
  BY <1>1, <1>2, <1>3, PTL DEF Spec
=============================================================================
