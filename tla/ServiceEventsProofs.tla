------------------------- MODULE ServiceEventsProofs -------------------------
(***************************************************************************)
(* The safety invariants of ServiceEvents for any services, timers and     *)
(* number of attempts.                                                     *)
(*                                                                         *)
(* The argument is about what is in flight: the events on their way from   *)
(* Swarm to the dispatcher.  As long as one of a service is in flight,     *)
(* nothing is claimed of the service; when none is, the last one has left  *)
(* the service registered as it is, pending, or given up.                  *)
(***************************************************************************)
EXTENDS ServiceEvents, Functions, SequenceTheorems, TLAPS

EventTypes == {"create", "update", "remove"}
Events == [type : EventTypes, id : Services]
Upserts == [type : {"upsert"}, id : Services, attempt : 1..MaxAttempts, gen : {1}, timer : Timers]
Rescans == {[type |-> "rescan"]}
Commands == Events \cup Upserts \cup Rescans

TypeOK ==
  /\ alive \subseteq Services /\ gone \subseteq Services /\ vip \subseteq alive
  /\ version \in [Services -> Nat] /\ registered \in [Services -> Nat]
  /\ stream \in Seq(Events)
  /\ queue \in Seq(Commands)
  /\ pendingTimers \in [Services -> Timers \cup {NoTimer}]
  /\ pendingGens \in [Services -> {0, 1}]
  /\ armed \subseteq Upserts
  /\ givenUp \subseteq Services

\* A pending upsert of s waits for its timer or is queued.
Coming == armed \cup Range(queue)
Comes(s) ==
  \E a \in Coming : a.type = "upsert" /\ a.id = s /\ a.timer = pendingTimers[s]

\* The dicts have the same keys, no timer is the timer of two services, and
\* each has its upsert under way.
Pending ==
  /\ \A s \in Services : pendingTimers[s] = NoTimer <=> pendingGens[s] = 0
  /\ \A s, u \in Services :
       pendingTimers[s] = pendingTimers[u] /\ pendingTimers[s] # NoTimer => s = u
  /\ \A s \in Services : pendingTimers[s] # NoTimer => Comes(s)

InFlight == Range(stream) \cup Range(queue)
NoEvent(s) == \A x \in EventTypes : Event(x, s) \notin InFlight

\* A service is removed for good, and only then is its removal in flight.
Removals ==
  /\ alive \cap gone = {}
  /\ \A s \in Services : Event("remove", s) \in InFlight => s \in gone

\* Once its removal has been handled, a service is not registered.
RemovedNotServed ==
  \A s \in gone : Event("remove", s) \notin InFlight => registered[s] = 0

\* Nothing more is to be heard of a service that is registered as it is or not
\* there, unless an upsert is pending.
UpToDate(s) ==
  \/ Reachable(s) /\ registered[s] = version[s]
  \/ s \notin alive /\ registered[s] = 0
Followed ==
  \A s \in Services \ givenUp : NoEvent(s) => pendingGens[s] = 1 \/ UpToDate(s)

Inv == TypeOK /\ Pending /\ Removals /\ RemovedNotServed /\ Followed
-----------------------------------------------------------------------------
\* What the elements of a queue are when it is empty, and after an element has
\* been put at its end or taken from its front.
LEMMA EmptyRange == Range(<<>>) = {}
<1>1. Range(<<>>) = {<<>>[i] : i \in 1..Len(<<>>)}
  BY EmptySeq, RangeEquality
<1>2. 1..Len(<<>>) = {}
  BY EmptySeq
<1> QED
  BY <1>1, <1>2

LEMMA AppendRange ==
  ASSUME NEW S, NEW q \in Seq(S), NEW e \in S
  PROVE  Append(q, e) \in Seq(S) /\ Range(Append(q, e)) = Range(q) \cup {e}
<1>1. Append(q, e) \in Seq(S)
  BY AppendProperties
<1>2. Range(Append(q, e)) = {Append(q, e)[i] : i \in 1..Len(Append(q, e))}
  BY <1>1, RangeEquality
<1>3. Range(q) = {q[i] : i \in 1..Len(q)}
  BY RangeEquality
<1>4. Len(q) \in Nat
  BY LenProperties
<1> QED
  BY <1>1, <1>2, <1>3, <1>4, AppendProperties

LEMMA TailRange ==
  ASSUME NEW S, NEW q \in Seq(S), q # <<>>
  PROVE  /\ Tail(q) \in Seq(S) /\ Head(q) \in S
         /\ Range(q) = {Head(q)} \cup Range(Tail(q))
<1>1. Tail(q) \in Seq(S) /\ Head(q) \in S /\ Head(q) = q[1]
  BY HeadTailProperties
<1>2. Range(q) = {q[i] : i \in 1..Len(q)}
  BY RangeEquality
<1>3. Range(Tail(q)) = {Tail(q)[i] : i \in 1..Len(Tail(q))}
  BY <1>1, RangeEquality
<1>4. Len(q) \in Nat \ {0}
  BY LenProperties, EmptySeq
<1>5. Len(Tail(q)) = Len(q) - 1 /\ \A i \in 1..Len(Tail(q)) : Tail(q)[i] = q[i + 1]
  BY HeadTailProperties
<1>6. ASSUME NEW i \in 1..Len(q), i # 1
      PROVE  q[i] \in Range(Tail(q))
  <2>1. i - 1 \in 1..Len(Tail(q)) /\ (i - 1) + 1 = i
    BY <1>4, <1>5, <1>6
  <2>2. Tail(q)[i - 1] = q[i]
    BY <2>1, <1>5
  <2> QED
    BY <2>1, <2>2, <1>3
<1>7. ASSUME NEW i \in 1..Len(Tail(q))
      PROVE  Tail(q)[i] \in Range(q)
  <2>1. i + 1 \in 1..Len(q)
    BY <1>4, <1>5
  <2> QED
    BY <2>1, <1>2, <1>5
<1>8. q[1] \in Range(q)
  BY <1>2, <1>4
<1>9. Range(q) \subseteq {Head(q)} \cup Range(Tail(q))
  BY <1>1, <1>2, <1>6
<1>10. {Head(q)} \cup Range(Tail(q)) \subseteq Range(q)
  BY <1>1, <1>3, <1>7, <1>8
<1> QED
  BY <1>1, <1>9, <1>10

LEMMA ExtendRange ==
  ASSUME NEW S, NEW q \in Seq(S), NEW e \in S
  PROVE  q \o <<e>> \in Seq(S) /\ Range(q \o <<e>>) = Range(q) \cup {e}
<1>1. q \o <<e>> = Append(q, e)
  BY AppendIsConcat
<1>2. Append(q, e) \in Seq(S) /\ Range(Append(q, e)) = Range(q) \cup {e}
  BY AppendRange
<1> QED
  BY <1>1, <1>2

-----------------------------------------------------------------------------
\* Swarm sends an event.
LEMMA EventSent ==
  ASSUME TypeOK, NEW e \in Events, Emit(<<e>>)
  PROVE  stream' \in Seq(Events) /\ InFlight' = InFlight \cup {e}
<1>1. stream' = stream \o <<e>> /\ queue' = queue
  BY DEF Emit
<1>2. stream \o <<e>> \in Seq(Events) /\ Range(stream \o <<e>>) = Range(stream) \cup {e}
  BY ExtendRange DEF TypeOK
<1> QED
  BY <1>1, <1>2 DEF InFlight

\* The dispatcher takes a command.
LEMMA CommandTaken ==
  ASSUME TypeOK, NEW type, Take(type)
  PROVE  /\ queue' \in Seq(Commands) /\ Head(queue) \in Commands /\ Head(queue).type = type
         /\ Range(queue) = {Head(queue)} \cup Range(queue')
         /\ InFlight = {Head(queue)} \cup InFlight'
<1>1. queue' = Tail(queue) /\ queue # <<>> /\ stream' = stream /\ Head(queue).type = type
  BY DEF Take, swarm
<1>2. /\ Tail(queue) \in Seq(Commands) /\ Head(queue) \in Commands
      /\ Range(queue) = {Head(queue)} \cup Range(Tail(queue))
  BY <1>1, TailRange DEF TypeOK
<1> QED
  BY <1>1, <1>2 DEF InFlight

\* What is in flight tells the handlers' commands apart by their type.
LEMMA CommandTypes ==
  ASSUME NEW a \in Commands
  PROVE  /\ a.type \in EventTypes => a \in Events
         /\ a.type = "upsert" => a \in Upserts
         /\ a.type \notin EventTypes => \A x \in EventTypes, s \in Services : a # Event(x, s)
<1> QED
  BY DEF Commands, Events, Upserts, Rescans, EventTypes, Event

LEMMA EventOf ==
  ASSUME NEW a \in Events
  PROVE  a = Event(a.type, a.id)
<1> QED
  BY DEF Events, Event

LEMMA NewTimerIsFree ==
  ASSUME TypeOK, FreeTimers # {}
  PROVE  NewTimer \in Timers /\ \A s \in Services : pendingTimers[s] # NewTimer
<1>1. NewTimer \in FreeTimers
  BY DEF NewTimer
<1> QED
  BY <1>1 DEF FreeTimers
-----------------------------------------------------------------------------
\* At the start nothing is there.
LEMMA InitInv == Init => Inv
<1> SUFFICES ASSUME Init PROVE Inv
  OBVIOUS
<1>1. stream \in Seq(Events) /\ queue \in Seq(Commands)
  BY EmptySeq DEF Init
<1>2. TypeOK
  BY <1>1 DEF Init, TypeOK
<1>3. Removals
  <2>1. InFlight = {}
    BY EmptyRange DEF Init, InFlight
  <2> QED
    BY <2>1 DEF Init, Removals
<1> QED
  BY <1>2, <1>3 DEF Inv, Init, Pending, RemovedNotServed, Followed, UpToDate

\* Pending speaks of the listener only: what Swarm does leaves it alone.
LEMMA PendingKept ==
  ASSUME Pending, UNCHANGED <<pendingVars, queue>>
  PROVE  Pending'
<1> QED
  BY DEF Pending, pendingVars, Comes, Coming

\* What Swarm does is told by an event of the service.
LEMMA SwarmStep ==
  ASSUME Inv, NEW s \in Services, SwarmCreate(s) \/ SwarmUpdate(s) \/ SwarmRemove(s)
  PROVE  Inv'
<1> USE DEF Inv
<1>1. PICK x \in EventTypes :
        /\ Emit(<<Event(x, s)>>)
        /\ x = "remove" => SwarmRemove(s)
        /\ x # "remove" => gone' = gone
  BY DEF SwarmCreate, SwarmUpdate, SwarmRemove, EventTypes
<1>2. stream' \in Seq(Events) /\ InFlight' = InFlight \cup {Event(x, s)}
  <2>1. Event(x, s) \in Events
    BY DEF Event, Events
  <2> QED
    BY <1>1, <2>1, EventSent
<1>3. UNCHANGED <<queue, pendingVars, registered, givenUp>>
  BY <1>1 DEF Emit
<1>4. TypeOK'
  <2>1. UNCHANGED <<queue, pendingTimers, pendingGens, armed, registered, givenUp>>
    BY <1>3 DEF pendingVars
  <2>2. /\ alive' \subseteq Services /\ gone' \subseteq Services /\ vip' \subseteq alive'
        /\ version' \in [Services -> Nat]
    BY DEF TypeOK, SwarmCreate, SwarmUpdate, SwarmRemove
  <2> QED
    BY <1>2, <2>1, <2>2 DEF TypeOK
<1>5. Pending'
  BY <1>3, PendingKept
<1>6. Removals'
  <2>1. alive' \cap gone' = {} /\ gone \subseteq gone'
    BY DEF Removals, SwarmCreate, SwarmUpdate, SwarmRemove
  <2>2. ASSUME NEW u \in Services, Event("remove", u) = Event(x, s)
        PROVE  u \in gone'
    BY <1>1, <2>2 DEF Event, SwarmRemove
  <2> QED
    BY <1>2, <2>1, <2>2 DEF Removals
<1>7. RemovedNotServed'
  <2>1. gone' = gone \/ (x = "remove" /\ gone' = gone \cup {s})
    BY <1>1 DEF SwarmRemove
  <2> QED
    BY <1>2, <1>3, <2>1 DEF RemovedNotServed
<1>8. Followed'
  <2> SUFFICES ASSUME NEW u \in Services \ givenUp, NoEvent(u)'
               PROVE  pendingGens'[u] = 1 \/ UpToDate(u)'
    BY <1>3 DEF Followed
  <2>1. u # s /\ NoEvent(u)
    BY <1>2 DEF NoEvent
  <2>2. /\ u \in alive' <=> u \in alive
        /\ u \in vip' <=> u \in vip
        /\ version'[u] = version[u]
    BY <2>1 DEF SwarmCreate, SwarmUpdate, SwarmRemove, TypeOK
  <2> QED
    BY <1>3, <2>1, <2>2 DEF Followed, UpToDate, Reachable, pendingVars
<1> QED
  BY <1>4, <1>5, <1>6, <1>7, <1>8

\* A virtual IP comes without an event: a service that was registered as it is
\* had one, or is not there.
LEMMA AssignStep ==
  ASSUME Inv, NEW s \in Services, SwarmAssign(s)
  PROVE  Inv'
<1> USE DEF Inv, SwarmAssign
<1>1. TypeOK'
  BY DEF TypeOK, pendingVars
<1>2. Pending'
  BY PendingKept
<1>3. Removals' /\ RemovedNotServed'
  BY DEF Removals, RemovedNotServed, InFlight
<1>4. Followed'
  BY DEF Followed, UpToDate, Reachable, NoEvent, InFlight, pendingVars
<1> QED
  BY <1>1, <1>2, <1>3, <1>4

\* What only adds commands other than events to the queue, with nothing taken
\* from what is coming, or moves an event from the stream to the queue, changes
\* nothing.
LEMMA QueueStep ==
  ASSUME Inv, UNCHANGED <<alive, gone, version, vip, registered, givenUp, pendingTimers, pendingGens>>,
         stream' \in Seq(Events), queue' \in Seq(Commands), armed' \subseteq Upserts,
         Coming \subseteq Coming',
         \A x \in EventTypes, s \in Services : Event(x, s) \in InFlight' <=> Event(x, s) \in InFlight
  PROVE  Inv'
<1> USE DEF Inv
<1>1. TypeOK'
  BY DEF TypeOK
<1>2. Pending'
  BY DEF Pending, Comes
<1>3. Removals' /\ RemovedNotServed'
  <2>1. \A s \in Services : Event("remove", s) \in InFlight' <=> Event("remove", s) \in InFlight
    BY DEF EventTypes
  <2> QED
    BY <2>1 DEF Removals, RemovedNotServed, TypeOK
<1>4. Followed'
  BY DEF Followed, UpToDate, Reachable, NoEvent
<1> QED
  BY <1>1, <1>2, <1>3, <1>4

LEMMA SighupStep == ASSUME Inv, Sighup PROVE Inv'
<1> DEFINE r == [type |-> "rescan"]
<1>1. r \in Commands
  BY DEF Commands, Rescans
<1>2. queue' \in Seq(Commands) /\ Range(queue') = Range(queue) \cup {r}
  BY <1>1, AppendRange DEF Sighup, Inv, TypeOK
<1>3. \A x \in EventTypes, s \in Services : r # Event(x, s)
  BY DEF Event, EventTypes
<1> HIDE DEF r
<1> QED
  BY <1>2, <1>3, QueueStep DEF Sighup, Inv, TypeOK, pendingVars, Coming, InFlight

LEMMA ListenStep == ASSUME Inv, Listen PROVE Inv'
<1>1. /\ Tail(stream) \in Seq(Events) /\ Head(stream) \in Events
      /\ Range(stream) = {Head(stream)} \cup Range(Tail(stream))
  BY TailRange DEF Listen, Inv, TypeOK
<1>2. queue' \in Seq(Commands) /\ Range(queue') = Range(queue) \cup {Head(stream)}
  <2>1. Head(stream) \in Commands
    BY <1>1 DEF Commands
  <2> QED
    BY <2>1, AppendRange DEF Listen, Inv, TypeOK
<1> QED
  BY <1>1, <1>2, QueueStep DEF Listen, Inv, TypeOK, pendingVars, Coming, InFlight

LEMMA FireStep == ASSUME Inv, NEW t \in Timers, TimerFires(t) PROVE Inv'
<1>1. PICK a \in armed : armed' = armed \ {a} /\ queue' = Append(queue, a)
  BY DEF TimerFires
<1>2. a \in Upserts /\ a \in Commands
  BY DEF Inv, TypeOK, Commands
<1>3. queue' \in Seq(Commands) /\ Range(queue') = Range(queue) \cup {a}
  BY <1>1, <1>2, AppendRange DEF Inv, TypeOK
<1>4. \A x \in EventTypes, s \in Services : a # Event(x, s)
  BY <1>2, CommandTypes DEF Upserts, EventTypes
<1> QED
  BY <1>1, <1>3, <1>4, QueueStep DEF TimerFires, Inv, TypeOK, swarm, Coming, InFlight
-----------------------------------------------------------------------------
\* An entry of s is written; the upserts of the other services stay.
LEMMA PendingWritten ==
  ASSUME TypeOK, Pending, NEW s \in Services, NEW t \in Timers \cup {NoTimer}, NEW g \in {0, 1},
         pendingTimers' = [pendingTimers EXCEPT ![s] = t],
         pendingGens' = [pendingGens EXCEPT ![s] = g],
         t = NoTimer <=> g = 0,
         t # NoTimer => /\ \E a \in Coming' : a.type = "upsert" /\ a.id = s /\ a.timer = t
                        /\ \A u \in Services : pendingTimers[u] # t,
         \A a \in Coming : a.type = "upsert" /\ a.id # s /\ a.timer # pendingTimers[s] => a \in Coming'
  PROVE  Pending'
<1>1. ASSUME NEW u \in Services, pendingTimers'[u] # NoTimer
      PROVE  Comes(u)'
  <2>1. CASE u = s
    BY <1>1, <2>1 DEF TypeOK, Comes
  <2>2. CASE u # s
    <3>1. pendingTimers'[u] = pendingTimers[u]
      BY <2>2 DEF TypeOK
    <3>2. PICK a \in Coming : a.type = "upsert" /\ a.id = u /\ a.timer = pendingTimers[u]
      BY <1>1, <3>1 DEF Pending, Comes
    <3>3. a.timer # pendingTimers[s]
      BY <1>1, <2>2, <3>1, <3>2 DEF Pending
    <3> QED
      BY <2>2, <3>1, <3>2, <3>3 DEF Comes
  <2> QED
    BY <2>1, <2>2
<1>2. \A u \in Services : pendingTimers'[u] = NoTimer <=> pendingGens'[u] = 0
  BY DEF TypeOK, Pending
<1>3. \A u, v \in Services :
        pendingTimers'[u] = pendingTimers'[v] /\ pendingTimers'[u] # NoTimer => u = v
  BY DEF TypeOK, Pending
<1> QED
  BY <1>1, <1>2, <1>3 DEF Pending

\* The dispatcher takes a command: what remains to be shown of its handler.
LEMMA HandlerStep ==
  ASSUME Inv, NEW type, Take(type), TypeOK', Pending',
         \A u \in gone : registered[u] = 0 \/ Head(queue) = Event("remove", u) => registered'[u] = 0,
         \A u \in Services \ givenUp' :
           \/ pendingGens'[u] = 1
           \/ UpToDate(u)'
           \/ /\ u \notin givenUp /\ UNCHANGED pendingGens[u]
              /\ UNCHANGED registered[u] \/ (UpToDate(u) => UpToDate(u)')
              /\ \A x \in EventTypes : Head(queue) # Event(x, u)
  PROVE  Inv'
<1> USE DEF Inv
<1>1. /\ InFlight = {Head(queue)} \cup InFlight'
      /\ UNCHANGED <<alive, gone, version, vip, stream>>
  BY CommandTaken DEF Take, swarm
<1>2. Removals'
  BY <1>1 DEF Removals
<1>3. RemovedNotServed'
  BY <1>1 DEF RemovedNotServed
<1>4. Followed'
  <2> SUFFICES ASSUME NEW u \in Services \ givenUp', NoEvent(u)', pendingGens'[u] # 1, ~UpToDate(u)'
               PROVE  FALSE
    BY DEF Followed
  <2>1. /\ u \notin givenUp /\ UNCHANGED pendingGens[u] /\ NoEvent(u)
        /\ UNCHANGED registered[u] \/ (UpToDate(u) => UpToDate(u)')
    BY <1>1 DEF NoEvent
  <2> QED
    BY <1>1, <2>1 DEF Followed, UpToDate, Reachable
<1> QED
  BY <1>2, <1>3, <1>4

LEMMA UpsertEventStep ==
  ASSUME Inv, NEW s \in Services, HandleUpsertEvent(s)
  PROVE  Inv'
<1> USE DEF Inv
<1> DEFINE c == Head(queue)
<1>1. PICK x \in {"create", "update"} : Take(x)
  BY DEF HandleUpsertEvent
<1>2. /\ queue' \in Seq(Commands) /\ c = Event(x, s)
      /\ Range(queue) = {c} \cup Range(queue')
  <2>1. /\ queue' \in Seq(Commands) /\ c \in Commands /\ c.type = x
        /\ Range(queue) = {c} \cup Range(queue')
    BY <1>1, CommandTaken
  <2>2. c \in Events
    BY <2>1, CommandTypes DEF EventTypes
  <2> QED
    BY <2>1, <2>2, EventOf DEF HandleUpsertEvent
<1> HIDE DEF c
<1>3. PICK t \in Timers : t = NewTimer /\ \A u \in Services : pendingTimers[u] # t
  BY NewTimerIsFree DEF HandleUpsertEvent, ScheduleUpsert
<1> DEFINE new == Upsert(s, 1, 1, t)
<1>4. /\ new \in Upserts /\ new.type = "upsert" /\ new.id = s /\ new.timer = t
      /\ armed' = {a \in armed : a.timer # pendingTimers[s]} \cup {new}
  BY <1>3, AttemptsAssumption DEF HandleUpsertEvent, ScheduleUpsert, Upsert, Upserts
<1> HIDE DEF new
<1>5. /\ pendingTimers' = [pendingTimers EXCEPT ![s] = t]
      /\ pendingGens' = [pendingGens EXCEPT ![s] = 1]
      /\ registered' = registered /\ givenUp' = givenUp \ {s}
      /\ UNCHANGED <<alive, gone, version, vip, stream>>
  BY <1>1, <1>3 DEF HandleUpsertEvent, ScheduleUpsert, Take, swarm
<1>6. TypeOK'
  BY <1>2, <1>3, <1>4, <1>5 DEF TypeOK
<1>7. Pending'
  <2>1. \E a \in Coming' : a.type = "upsert" /\ a.id = s /\ a.timer = t
    BY <1>4 DEF Coming
  <2>2. ASSUME NEW a \in Coming, a.type = "upsert", a.timer # pendingTimers[s]
        PROVE  a \in Coming'
    <3>1. a # c
      BY <1>2, <2>2 DEF Event
    <3> QED
      BY <1>2, <1>4, <2>2, <3>1 DEF Coming
  <2>3. t # NoTimer /\ \A u \in Services : pendingTimers[u] # t
    BY <1>3, TimersAssumption
  <2>4. \A a \in Coming : a.type = "upsert" /\ a.id # s /\ a.timer # pendingTimers[s] => a \in Coming'
    BY <2>2
  <2>5. t \in Timers \cup {NoTimer} /\ 1 \in {0, 1} /\ (t = NoTimer <=> 1 = 0)
    BY <2>3
  <2> QED
    BY <1>5, <2>1, <2>3, <2>4, <2>5, PendingWritten, Zenon
<1>8. \A u \in gone : registered[u] = 0 \/ c = Event("remove", u) => registered'[u] = 0
  BY <1>2, <1>5 DEF Event
<1>9. \A u \in Services \ {s} : /\ pendingGens'[u] = pendingGens[u]
                                /\ \A y \in EventTypes : c # Event(y, u)
  BY <1>2, <1>5 DEF TypeOK, Event
<1>10. pendingGens'[s] = 1
  BY <1>5 DEF TypeOK
<1> QED
  BY <1>1, <1>5, <1>6, <1>7, <1>8, <1>9, <1>10, HandlerStep DEF c

LEMMA RemoveStep ==
  ASSUME Inv, NEW s \in Services, HandleRemove(s)
  PROVE  Inv'
<1> USE DEF Inv
<1> DEFINE c == Head(queue)
<1>1. Take("remove")
  BY DEF HandleRemove
<1>2. /\ queue' \in Seq(Commands) /\ c = Event("remove", s)
      /\ Range(queue) = {c} \cup Range(queue')
      /\ InFlight = {c} \cup InFlight'
  <2>1. /\ queue' \in Seq(Commands) /\ c \in Commands /\ c.type = "remove"
        /\ Range(queue) = {c} \cup Range(queue')
        /\ InFlight = {c} \cup InFlight'
    BY <1>1, CommandTaken
  <2>2. c \in Events
    BY <2>1, CommandTypes DEF EventTypes
  <2> QED
    BY <2>1, <2>2, EventOf DEF HandleRemove
<1> HIDE DEF c
<1>3. s \in gone /\ s \notin alive
  BY <1>2 DEF Removals
<1>4. /\ armed' = {a \in armed : a.timer # pendingTimers[s]}
      /\ pendingTimers' = [pendingTimers EXCEPT ![s] = NoTimer]
      /\ pendingGens' = [pendingGens EXCEPT ![s] = 0]
      /\ registered' = [registered EXCEPT ![s] = 0] /\ givenUp' = givenUp \ {s}
      /\ UNCHANGED <<alive, gone, version, vip, stream>>
  BY <1>1 DEF HandleRemove, Cancel, Take, swarm
<1>5. TypeOK'
  BY <1>2, <1>4 DEF TypeOK
<1>6. Pending'
  <2>1. ASSUME NEW a \in Coming, a.type = "upsert", a.timer # pendingTimers[s]
        PROVE  a \in Coming'
    <3>1. a # c
      BY <1>2, <2>1 DEF Event
    <3> QED
      BY <1>2, <1>4, <2>1, <3>1 DEF Coming
  <2> QED
    BY <1>4, <2>1, PendingWritten
<1>7. \A u \in gone : registered[u] = 0 \/ c = Event("remove", u) => registered'[u] = 0
  BY <1>2, <1>4 DEF Event, TypeOK
<1>8. \A u \in Services \ {s} : /\ UNCHANGED <<pendingGens[u], registered[u]>>
                                /\ \A y \in EventTypes : c # Event(y, u)
  BY <1>2, <1>4 DEF TypeOK, Event
<1>9. UpToDate(s)'
  BY <1>3, <1>4 DEF UpToDate, TypeOK
<1> QED
  BY <1>1, <1>4, <1>5, <1>6, <1>7, <1>8, <1>9, HandlerStep DEF c

\* The upsert a handler takes is one of a service's, and no event.
LEMMA UpsertTaken ==
  ASSUME Inv, Take("upsert")
  PROVE  /\ queue' \in Seq(Commands) /\ Head(queue) \in Upserts
         /\ Range(queue) = {Head(queue)} \cup Range(queue')
         /\ UNCHANGED <<alive, gone, version, vip, stream>>
         /\ \A x \in EventTypes, u \in Services : Head(queue) # Event(x, u)
<1>1. /\ queue' \in Seq(Commands) /\ Head(queue) \in Commands /\ Head(queue).type = "upsert"
      /\ Range(queue) = {Head(queue)} \cup Range(queue')
  BY CommandTaken DEF Inv
<1> QED
  BY <1>1, CommandTypes DEF Take, swarm, EventTypes

LEMMA StaleStep == ASSUME Inv, HandleStale PROVE Inv'
<1> USE DEF Inv
<1> DEFINE c == Head(queue)
<1>1. Take("upsert") /\ pendingGens[c.id] # c.gen /\ UNCHANGED <<pendingVars, registered, givenUp>>
  BY DEF HandleStale, Accepted
<1>2. /\ queue' \in Seq(Commands) /\ c \in Upserts
      /\ Range(queue) = {c} \cup Range(queue')
      /\ UNCHANGED <<alive, gone, version, vip, stream>>
      /\ \A x \in EventTypes, u \in Services : c # Event(x, u)
  BY <1>1, UpsertTaken
<1> HIDE DEF c
<1>3. UNCHANGED <<pendingTimers, pendingGens, armed>>
  BY <1>1 DEF pendingVars
<1>4. TypeOK'
  BY <1>1, <1>2, <1>3 DEF TypeOK
<1>5. pendingGens[c.id] = 0 /\ pendingTimers[c.id] = NoTimer /\ c.id \in Services
  BY <1>1, <1>2 DEF TypeOK, Upserts, Pending
<1>6. Pending'
  <2>1. ASSUME NEW u \in Services, pendingTimers[u] # NoTimer
        PROVE  Comes(u)'
    BY <1>2, <1>3, <1>5, <2>1 DEF Pending, Comes, Coming
  <2> QED
    BY <1>3, <2>1 DEF Pending
<1>7. \A u \in gone : registered[u] = 0 \/ c = Event("remove", u) => registered'[u] = 0
  BY <1>1, <1>2 DEF TypeOK, EventTypes
<1>8. \A u \in Services : UNCHANGED <<pendingGens[u], registered[u]>>
  BY <1>1, <1>3
<1> QED
  BY <1>1, <1>2, <1>4, <1>6, <1>7, <1>8, HandlerStep DEF c

\* An upsert that is accepted and popped leaves its service as it is or given up.
LEMMA PoppedStep ==
  ASSUME Inv, Take("upsert"), NEW c \in Upserts, c = Head(queue), Pop(c.id),
         registered' \in [Services -> Nat], givenUp' \in {givenUp, givenUp \cup {c.id}},
         \A u \in Services \ {c.id} : registered'[u] = registered[u],
         \A u \in gone : registered[u] = 0 => registered'[u] = 0,
         c.id \in givenUp' \/ UpToDate(c.id)'
  PROVE  Inv'
<1> USE DEF Inv
<1>1. /\ queue' \in Seq(Commands)
      /\ Range(queue) = {c} \cup Range(queue')
      /\ UNCHANGED <<alive, gone, version, vip, stream>>
      /\ \A x \in EventTypes, u \in Services : c # Event(x, u)
  BY UpsertTaken
<1>2. PICK s \in Services : s = c.id
  BY DEF Upserts
<1>3. /\ pendingTimers' = [pendingTimers EXCEPT ![s] = NoTimer]
      /\ pendingGens' = [pendingGens EXCEPT ![s] = 0]
      /\ armed' = armed
  BY <1>2 DEF Pop
<1>4. TypeOK'
  BY <1>1, <1>2, <1>3 DEF TypeOK
<1>5. Pending'
  <2>1. \A a \in Coming : a.type = "upsert" /\ a.id # s /\ a.timer # pendingTimers[s] => a \in Coming'
    BY <1>1, <1>2, <1>3 DEF Coming
  <2> QED
    BY <1>3, <2>1, PendingWritten
<1>6. \A u \in Services \ {s} : UNCHANGED <<pendingGens[u], registered[u]>>
  BY <1>2, <1>3 DEF TypeOK
<1>7. \A u \in gone : registered[u] = 0 \/ c = Event("remove", u) => registered'[u] = 0
  BY <1>1 DEF TypeOK, EventTypes
<1>8. \A u \in Services \ givenUp' : u \notin givenUp /\ (u # s \/ UpToDate(u)')
  BY <1>2
<1> QED
  BY <1>1, <1>4, <1>5, <1>6, <1>7, <1>8, HandlerStep

LEMMA UpsertStep == ASSUME Inv, HandleUpsert PROVE Inv'
<1> USE DEF Inv
<1>1. Take("upsert")
  BY DEF HandleUpsert
<1>2. PICK c \in Upserts : c = Head(queue)
  BY <1>1, UpsertTaken
<1>3. PICK s \in Services : s = c.id
  BY DEF Upserts
<1>4. /\ ~MustRetry(c) /\ Pop(s)
      /\ s \in alive => UpdateBackend(s)
      /\ s \notin alive => registered' = registered
      /\ GiveUp(c, ~Reachable(s) /\ c.attempt = MaxAttempts)
  BY <1>2, <1>3 DEF HandleUpsert
<1>5. UNCHANGED <<alive, gone, version, vip, stream>>
  BY <1>1, UpsertTaken
<1>6. /\ registered' \in [Services -> Nat]
      /\ \A u \in Services \ {s} : registered'[u] = registered[u]
      /\ \A u \in gone : registered[u] = 0 => registered'[u] = 0
  <2>1. CASE s \in alive
    <3>1. registered' = [registered EXCEPT ![s] = IF s \in vip THEN version[s] ELSE 0]
      BY <1>4, <2>1 DEF UpdateBackend
    <3>2. s \notin gone
      BY <2>1 DEF Removals
    <3> QED
      BY <3>1, <3>2 DEF TypeOK
  <2>2. CASE s \notin alive
    BY <1>4, <2>2 DEF TypeOK
  <2> QED
    BY <2>1, <2>2
<1>7. givenUp' \in {givenUp, givenUp \cup {s}}
  BY <1>3, <1>4 DEF GiveUp
<1>8. s \in givenUp' \/ UpToDate(s)'
  <2>1. CASE Reachable(s)
    <3>1. registered'[s] = version[s]
      BY <1>4, <2>1 DEF Reachable, UpdateBackend, TypeOK
    <3> QED
      BY <1>5, <2>1, <3>1 DEF UpToDate, Reachable
  <2>2. CASE ~Reachable(s)
    <3>1. c.attempt = MaxAttempts
      BY <1>3, <1>4, <2>2, AttemptsAssumption DEF MustRetry, Upserts
    <3> QED
      BY <1>3, <1>4, <2>2, <3>1 DEF GiveUp
  <2> QED
    BY <2>1, <2>2
<1> QED
  BY <1>1, <1>2, <1>3, <1>4, <1>6, <1>7, <1>8, PoppedStep

LEMMA FailsStep == ASSUME Inv, UpsertFails PROVE Inv'
<1>1. Take("upsert") /\ registered' = registered
  BY DEF UpsertFails
<1>2. PICK c \in Upserts : c = Head(queue)
  BY <1>1, UpsertTaken
<1>3. Pop(c.id) /\ givenUp' = givenUp \cup {c.id}
  BY <1>2 DEF UpsertFails, GiveUp
<1> QED
  BY <1>1, <1>2, <1>3, PoppedStep DEF Inv, TypeOK

LEMMA RetryStep == ASSUME Inv, HandleRetry PROVE Inv'
<1> USE DEF Inv
<1>1. Take("upsert") /\ FreeTimers # {} /\ registered' = registered
  BY DEF HandleRetry
<1>2. PICK c \in Upserts : c = Head(queue)
  BY <1>1, UpsertTaken
<1>3. PICK s \in Services : s = c.id
  BY DEF Upserts
<1>4. PICK t \in Timers : t = NewTimer /\ \A u \in Services : pendingTimers[u] # t
  BY <1>1, NewTimerIsFree
<1>5. PICK new \in Upserts : /\ new.type = "upsert" /\ new.id = s /\ new.timer = t
                             /\ new = Upsert(s, c.attempt + 1, 1, t)
  <2>1. c.attempt + 1 \in 1..MaxAttempts
    BY <1>2, AttemptsAssumption DEF HandleRetry, MustRetry, Upserts
  <2> QED
    BY <2>1 DEF Upsert, Upserts
<1>6. /\ armed' = armed \cup {new}
      /\ pendingTimers' = [pendingTimers EXCEPT ![s] = t]
      /\ pendingGens' = [pendingGens EXCEPT ![s] = 1]
      /\ givenUp' \in {givenUp, givenUp \cup {s}}
  BY <1>2, <1>3, <1>4, <1>5 DEF HandleRetry, GiveUp
<1>7. /\ queue' \in Seq(Commands)
      /\ Range(queue) = {c} \cup Range(queue')
      /\ UNCHANGED <<alive, gone, version, vip, stream>>
      /\ \A x \in EventTypes, u \in Services : c # Event(x, u)
  BY <1>1, <1>2, UpsertTaken
<1>8. TypeOK'
  BY <1>1, <1>6, <1>7 DEF TypeOK
<1>9. Pending'
  <2>1. \E a \in Coming' : a.type = "upsert" /\ a.id = s /\ a.timer = t
    BY <1>5, <1>6 DEF Coming
  <2>2. \A a \in Coming : a.type = "upsert" /\ a.id # s /\ a.timer # pendingTimers[s] => a \in Coming'
    BY <1>3, <1>6, <1>7 DEF Coming
  <2>3. t # NoTimer /\ \A u \in Services : pendingTimers[u] # t
    BY <1>4, TimersAssumption
  <2>4. t \in Timers \cup {NoTimer} /\ 1 \in {0, 1} /\ (t = NoTimer <=> 1 = 0)
    BY <2>3
  <2> QED
    BY <1>6, <2>1, <2>2, <2>3, <2>4, PendingWritten, Zenon
<1>10. \A u \in Services \ {s} : pendingGens'[u] = pendingGens[u] /\ registered'[u] = registered[u]
  BY <1>1, <1>6 DEF TypeOK
<1>11. pendingGens'[s] = 1
  BY <1>6 DEF TypeOK
<1>12. \A u \in gone : registered[u] = 0 \/ c = Event("remove", u) => registered'[u] = 0
  BY <1>1, <1>7 DEF TypeOK, EventTypes
<1>13. \A u \in Services \ givenUp' : u \notin givenUp
  BY <1>6
<1> QED
  BY <1>1, <1>2, <1>7, <1>8, <1>9, <1>10, <1>11, <1>12, <1>13, HandlerStep

LEMMA RescanStep == ASSUME Inv, HandleRescan PROVE Inv'
<1> USE DEF Inv
<1>1. Take("rescan") /\ UNCHANGED pendingVars
  BY DEF HandleRescan
<1>2. /\ queue' \in Seq(Commands) /\ Head(queue) \in Commands /\ Head(queue).type = "rescan"
      /\ Range(queue) = {Head(queue)} \cup Range(queue')
  BY <1>1, CommandTaken
<1>3. UNCHANGED <<alive, gone, version, vip, stream, pendingTimers, pendingGens, armed>>
  BY <1>1 DEF Take, swarm, pendingVars
<1>4. /\ registered' \in [Services -> Nat] /\ givenUp' \subseteq Services
      /\ \A u \in gone : registered'[u] = 0
      /\ \A u \in Services \ givenUp' : u \notin givenUp /\ (UpToDate(u) => UpToDate(u)')
  <2>1. CASE /\ registered' = [s \in Services |-> IF Reachable(s) THEN version[s] ELSE 0]
             /\ UNCHANGED givenUp
    BY <1>3, <2>1 DEF TypeOK, Removals, UpToDate, Reachable
  <2>2. CASE /\ registered' = [s \in Services |-> 0]
             /\ givenUp' = givenUp \cup alive
    BY <1>3, <2>2 DEF TypeOK, UpToDate, Reachable
  <2> QED
    BY <2>1, <2>2 DEF HandleRescan
<1>5. TypeOK'
  BY <1>2, <1>3, <1>4 DEF TypeOK
<1>6. Pending'
  <2>1. ASSUME NEW u \in Services, Comes(u) PROVE Comes(u)'
    BY <1>2, <1>3, <2>1 DEF Comes, Coming
  <2> QED
    BY <1>3, <2>1 DEF Pending
<1>7. \A x \in EventTypes, u \in Services : Head(queue) # Event(x, u)
  BY <1>2, CommandTypes DEF EventTypes
<1> QED
  BY <1>1, <1>3, <1>4, <1>5, <1>6, <1>7, HandlerStep
-----------------------------------------------------------------------------
\* Every step keeps the invariant.
LEMMA NextInv == ASSUME Inv, [Next]_vars PROVE Inv'
<1>1. CASE Next
  <2>1. CASE \E s \in Services : SwarmCreate(s) \/ SwarmUpdate(s) \/ SwarmRemove(s) \/ SwarmAssign(s)
    BY <2>1, SwarmStep, AssignStep
  <2>2. CASE Sighup \/ Listen \/ \E t \in Timers : TimerFires(t)
    BY <2>2, SighupStep, ListenStep, FireStep
  <2>3. CASE \E s \in Services : HandleUpsertEvent(s) \/ HandleRemove(s)
    BY <2>3, UpsertEventStep, RemoveStep
  <2>4. CASE HandleStale \/ HandleUpsert \/ HandleRetry \/ UpsertFails \/ HandleRescan
    BY <2>4, StaleStep, UpsertStep, RetryStep, FailsStep, RescanStep
  <2> QED
    BY <1>1, <2>1, <2>2, <2>3, <2>4 DEF Next, Dispatch
<1>2. CASE UNCHANGED vars
  BY <1>2, QueueStep DEF vars, swarm, pendingVars, Inv, TypeOK, Coming, InFlight
<1> QED
  BY <1>1, <1>2

LEMMA SpecInv == Spec => []Inv
<1> QED
  BY InitInv, NextInv, PTL DEF Spec

\* A pending upsert comes: no cancelled, late or repeated timer makes the
\* listener wait for a command that nothing will queue.
THEOREM UpsertsCome == Spec => []PendingComes
<1>1. Inv => PendingComes
  <2> SUFFICES ASSUME Inv, NEW s \in Services, pendingTimers[s] # NoTimer
               PROVE  \E a \in armed \cup Range(queue) :
                        a.type = "upsert" /\ a.id = s /\ a.gen = pendingGens[s]
    BY DEF PendingComes, Inv, Pending
  <2>1. PICK a \in Coming : a.type = "upsert" /\ a.id = s
    BY DEF Inv, Pending, Comes
  <2>2. a \in Commands
    BY RangeOfSeq DEF Inv, TypeOK, Coming, Commands
  <2>3. a.gen = 1
    BY <2>1, <2>2, CommandTypes DEF Upserts
  <2>4. pendingGens[s] = 1
    BY DEF Inv, TypeOK, Pending
  <2> QED
    BY <2>1, <2>3, <2>4 DEF Coming
<1> QED
  BY <1>1, SpecInv, PTL

\* When all is handled, nothing is in flight, so nothing is pending either.
LEMMA QuietIsEmpty ==
  ASSUME Inv, Quiet
  PROVE  InFlight = {} /\ \A s \in Services : pendingGens[s] = 0
<1>1. Coming = {} /\ InFlight = {}
  BY EmptyRange DEF Quiet, Coming, InFlight
<1> QED
  BY <1>1 DEF Inv, Pending, Comes

\* When all is handled, the reachable services are registered as they are and
\* no other is, but for those that have been given up.
THEOREM Converges == Spec => []ServicesConverged
<1>1. Inv => ServicesConverged
  <2> SUFFICES ASSUME Inv, Quiet, NEW s \in Services \ givenUp
               PROVE  registered[s] = IF Reachable(s) THEN version[s] ELSE 0
    BY DEF ServicesConverged
  <2>1. NoEvent(s) /\ pendingGens[s] = 0
    BY QuietIsEmpty DEF NoEvent
  <2>2. UpToDate(s)
    BY <2>1 DEF Inv, Followed
  <2> QED
    BY <2>2 DEF UpToDate, Reachable
<1> QED
  BY <1>1, SpecInv, PTL

\* Whatever was pending, queued or given up when a service was removed, it is
\* not registered once its removal has been handled.
THEOREM RemovedStaysAway == Spec => []NoneRemovedServed
<1>1. Inv => NoneRemovedServed
  BY QuietIsEmpty DEF NoneRemovedServed, Inv, RemovedNotServed
<1> QED
  BY <1>1, SpecInv, PTL
=============================================================================
