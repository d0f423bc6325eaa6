---------------------------- MODULE ServiceEvents ----------------------------
(***************************************************************************)
(* nginx_proxy/DockerEventListener.py for Swarm services (DOCKER_SWARM     *)
(* enable, prefer-local or strict): every create or update event arms a    *)
(* timer, whose command asks Swarm for the service and registers it, or    *)
(* tries again later when the service or its virtual IP is not there yet.  *)
(* Delays are left out: an armed timer may fire at any time.               *)
(***************************************************************************)
EXTENDS Integers, Sequences, FiniteSets, SequencesExt

CONSTANTS
  Services,
  Timers, NoTimer,   \* threading.Timer objects; one is reused once it is forgotten
  MaxAttempts,       \* SERVICE_EVENT_MAX_ATTEMPTS
  SwarmFails,   \* BOOLEAN: a request to Swarm may raise
  MaxChanges,   \* bound on the changes Swarm makes
  MaxEvents     \* bound on the events and commands under way

ASSUME TimersAssumption == NoTimer \notin Timers
ASSUME AttemptsAssumption == MaxAttempts \in Nat \ {0}
ASSUME SwitchesAssumption == SwarmFails \in BOOLEAN
ASSUME BoundsAssumption == MaxChanges \in Nat /\ MaxEvents \in Nat

VARIABLES
  \* Swarm
  alive, gone,    \* the services there are, and those there were: ids never return
  version,        \* the version of a service's specification
  vip,            \* the services with a virtual IP on a known network
  stream,         \* events sent and not read yet
  changes,        \* how many changes Swarm has made
  \* DockerEventListener
  queue,          \* _command_queue
  pendingTimers,  \* _pending_service_timers, NoTimer where absent
  pendingGens,    \* _pending_service_generations, 0 where absent
  armed,          \* the timers that wait, with the command each will queue
  \* WebServer
  registered,     \* the version a service is registered with, 0 if it is not
  \* history: the services whose last event has been given up (see GiveUp)
  givenUp

swarm == <<alive, gone, version, vip, stream, changes>>
pendingVars == <<pendingTimers, pendingGens, armed>>
vars == <<swarm, queue, pendingVars, registered, givenUp>>

Event(type, s) == [type |-> type, id |-> s]

\* ProcessServiceUpsert(service_id, action, attempt, generation), with the
\* timer that queued it; the action is only logged.
Upsert(s, attempt, gen, t) ==
  [type |-> "upsert", id |-> s, attempt |-> attempt, gen |-> gen, timer |-> t]

Reachable(s) == s \in alive /\ s \in vip

-----------------------------------------------------------------------------
\* Swarm, as the handlers meet it.
Emit(events) ==
  /\ changes < MaxChanges
  /\ Len(stream) + Len(queue) + Len(events) <= MaxEvents
  /\ stream' = stream \o events /\ changes' = changes + 1
  /\ UNCHANGED <<queue, pendingVars, registered, givenUp>>

SwarmCreate(s) ==
  /\ s \notin alive \cup gone
  /\ alive' = alive \cup {s}
  /\ version' = [version EXCEPT ![s] = 1]
  /\ vip' \in {vip, vip \cup {s}}
  /\ Emit(<<Event("create", s)>>)
  /\ UNCHANGED gone

\* An update may move the service to a network where it has no address yet.
SwarmUpdate(s) ==
  /\ s \in alive
  /\ version' = [version EXCEPT ![s] = @ + 1]
  /\ vip' \in {vip, vip \ {s}}
  /\ Emit(<<Event("update", s)>>)
  /\ UNCHANGED <<alive, gone>>

SwarmRemove(s) ==
  /\ s \in alive
  /\ alive' = alive \ {s} /\ gone' = gone \cup {s} /\ vip' = vip \ {s}
  /\ Emit(<<Event("remove", s)>>)
  /\ UNCHANGED version

\* No event tells of a virtual IP.
SwarmAssign(s) ==
  /\ s \in alive \ vip
  /\ vip' = vip \cup {s}
  /\ UNCHANGED <<alive, gone, version, stream, changes, queue, pendingVars, registered, givenUp>>

Sighup ==
  /\ changes < MaxChanges /\ Len(stream) + Len(queue) < MaxEvents
  /\ changes' = changes + 1
  /\ queue' = Append(queue, [type |-> "rescan"])
  /\ UNCHANGED <<alive, gone, version, vip, stream, pendingVars, registered, givenUp>>

-----------------------------------------------------------------------------
\* _listen, in its thread.
Listen ==
  /\ stream # <<>>
  /\ queue' = Append(queue, Head(stream)) /\ stream' = Tail(stream)
  /\ UNCHANGED <<alive, gone, version, vip, changes, pendingVars, registered, givenUp>>

\* A timer thread: process() enqueues its command.
TimerFires(t) ==
  \E a \in armed :
    /\ a.timer = t
    /\ armed' = armed \ {a}
    /\ queue' = Append(queue, a)
    /\ UNCHANGED <<swarm, pendingTimers, pendingGens, registered, givenUp>>

\* A timer object that nothing refers to.
FreeTimers ==
  Timers \ ({pendingTimers[s] : s \in Services} \cup {a.timer : a \in armed}
            \cup {a.timer : a \in {e \in Range(queue) : e.type = "upsert"}})

\* A new timer: they are all alike, so any free one will do.
NewTimer == CHOOSE t \in FreeTimers : TRUE

\* The handlers take the head of the queue.
Take(type) ==
  /\ queue # <<>> /\ Head(queue).type = type
  /\ queue' = Tail(queue)
  /\ UNCHANGED swarm

-----------------------------------------------------------------------------
\* Seeded fault: cancelling forgets the generation but not the timer's entry.
CancelKeepsEntry(s) ==
  /\ armed' = {a \in armed : a.timer # pendingTimers[s]}
  /\ pendingGens' = [pendingGens EXCEPT ![s] = 0]
  /\ pendingTimers' = pendingTimers

\* _cancel_pending_service_processing.
Cancel(s) ==
  /\ armed' = {a \in armed : a.timer # pendingTimers[s]}
  /\ pendingGens' = [pendingGens EXCEPT ![s] = 0]
  /\ pendingTimers' = [pendingTimers EXCEPT ![s] = NoTimer]

\* Seeded fault: the timer is not started.
ScheduleUnstarted(s, attempt) ==
  /\ FreeTimers # {}
  /\ armed' = {a \in armed : a.timer # pendingTimers[s]}
  /\ pendingGens' = [pendingGens EXCEPT ![s] = 1]
  /\ pendingTimers' = [pendingTimers EXCEPT ![s] = NewTimer]

\* _schedule_service_processing: it cancels first, so the generation it finds
\* is always 0.
ScheduleUpsert(s, attempt) ==
  /\ FreeTimers # {}
  /\ LET kept == {a \in armed : a.timer # pendingTimers[s]} IN
       armed' = kept \cup {Upsert(s, attempt, 1, NewTimer)}
  /\ pendingGens' = [pendingGens EXCEPT ![s] = 1]
  /\ pendingTimers' = [pendingTimers EXCEPT ![s] = NewTimer]

\* _process_service_event.
HandleUpsertEvent(s) ==
  /\ Take("create") \/ Take("update")
  /\ Head(queue).id = s
  /\ ScheduleUpsert(s, 1)
  /\ givenUp' = givenUp \ {s}
  /\ UNCHANGED registered

\* Seeded fault: the pending upsert of a removed service is left alone and the
\* service is only removed when nothing is pending.
RemoveWhenIdle(s) ==
  /\ Take("remove") /\ Head(queue).id = s
  /\ UNCHANGED pendingVars
  /\ registered' = IF pendingGens[s] = 0 THEN [registered EXCEPT ![s] = 0] ELSE registered
  /\ givenUp' = givenUp \ {s}

HandleRemove(s) ==
  /\ Take("remove") /\ Head(queue).id = s
  /\ Cancel(s)
  /\ registered' = [registered EXCEPT ![s] = 0]
  /\ givenUp' = givenUp \ {s}

\* update_backend: a service is always registered anew; one that is not
\* reachable any more is removed.
UpdateBackend(s) ==
  registered' = [registered EXCEPT ![s] = IF s \in vip THEN version[s] ELSE 0]

\* _process_scheduled_service_upsert.
Accepted(a) == pendingGens[a.id] = a.gen

HandleStale ==
  /\ Take("upsert") /\ ~Accepted(Head(queue))
  /\ UNCHANGED <<pendingVars, registered, givenUp>>

\* The upsert's entries are popped; the timer they held, if it is another one,
\* goes on.
Pop(s) ==
  /\ pendingTimers' = [pendingTimers EXCEPT ![s] = NoTimer]
  /\ pendingGens' = [pendingGens EXCEPT ![s] = 0]
  /\ UNCHANGED armed

\* Seeded fault: retries are over one attempt early.
RetriesOver(a) == ~Reachable(a.id) /\ a.attempt < MaxAttempts - 1

\* _process_service_upsert: the service is not reachable, and attempts are left.
MustRetry(a) == ~Reachable(a.id) /\ a.attempt < MaxAttempts

\* What ends the handling of a service's last event without its service being
\* registered as it is: the attempts are over, the request raises, or the
\* upsert taken for the event's own was queued for an earlier one.
OwnUpsert(a) == a.timer = pendingTimers[a.id]
GiveUp(a, given) ==
  givenUp' = IF given \/ ~OwnUpsert(a) THEN givenUp \cup {a.id} ELSE givenUp

HandleUpsert ==
  LET a == Head(queue) IN
  /\ Take("upsert") /\ Accepted(a)
  /\ ~MustRetry(a)
  /\ Pop(a.id)
  /\ IF a.id \in alive THEN UpdateBackend(a.id) ELSE UNCHANGED registered
  /\ GiveUp(a, ~Reachable(a.id) /\ a.attempt = MaxAttempts)

\* _retry_service_event.
HandleRetry ==
  LET a == Head(queue) IN
  /\ Take("upsert") /\ Accepted(a)
  /\ MustRetry(a)
  /\ FreeTimers # {}
  /\ armed' = armed \cup {Upsert(a.id, a.attempt + 1, 1, NewTimer)}
  /\ pendingGens' = [pendingGens EXCEPT ![a.id] = 1]
  /\ pendingTimers' = [pendingTimers EXCEPT ![a.id] = NewTimer]
  /\ GiveUp(a, FALSE)
  /\ UNCHANGED registered

\* The request to Swarm raises: it is logged and not tried again.
UpsertFails ==
  /\ SwarmFails
  /\ Take("upsert") /\ Accepted(Head(queue))
  /\ Pop(Head(queue).id)
  /\ GiveUp(Head(queue), TRUE)
  /\ UNCHANGED registered

\* rescan_all_container: all services, from an empty config; a failing list is
\* taken for an empty one.  Nothing pending is cancelled.
HandleRescan ==
  /\ Take("rescan")
  /\ \/ /\ registered' = [s \in Services |-> IF Reachable(s) THEN version[s] ELSE 0]
        /\ UNCHANGED givenUp
     \/ /\ SwarmFails
        /\ registered' = [s \in Services |-> 0]
        /\ givenUp' = givenUp \cup alive
  /\ UNCHANGED pendingVars

-----------------------------------------------------------------------------
Init ==
  /\ alive = {} /\ gone = {} /\ vip = {}
  /\ version = [s \in Services |-> 0]
  /\ stream = <<>> /\ queue = <<>> /\ changes = 0
  /\ pendingTimers = [s \in Services |-> NoTimer]
  /\ pendingGens = [s \in Services |-> 0]
  /\ armed = {}
  /\ registered = [s \in Services |-> 0]
  /\ givenUp = {}

Dispatch ==
  \/ \E s \in Services : HandleUpsertEvent(s) \/ HandleRemove(s)
  \/ HandleStale \/ HandleUpsert \/ HandleRetry \/ UpsertFails \/ HandleRescan

Next ==
  \/ \E s \in Services : SwarmCreate(s) \/ SwarmUpdate(s) \/ SwarmRemove(s) \/ SwarmAssign(s)
  \/ Sighup
  \/ Listen \/ \E t \in Timers : TimerFires(t)
  \/ Dispatch

\* The threads go on, and Swarm assigns the virtual IPs it owes.
Fairness ==
  /\ WF_vars(Listen) /\ WF_vars(Dispatch)
  /\ \A t \in Timers : WF_vars(TimerFires(t))
  /\ \A s \in Services : WF_vars(SwarmAssign(s))

Spec == Init /\ [][Next]_vars
FairSpec == Spec /\ Fairness

-----------------------------------------------------------------------------
\* The two dicts of pending upserts have the same keys, and an upsert that is
\* pending comes: its timer waits, or a command it accepts is queued.
PendingComes ==
  \A s \in Services :
    /\ pendingTimers[s] = NoTimer <=> pendingGens[s] = 0
    /\ pendingTimers[s] # NoTimer =>
         \E a \in armed \cup Range(queue) : a.type = "upsert" /\ a.id = s /\ a.gen = pendingGens[s]

\* Swarm's events have all been handled and no timer waits.
Quiet == stream = <<>> /\ queue = <<>> /\ armed = {}

\* Then exactly the reachable services are registered, with the specification
\* they have now, unless their last event has been given up.
ServicesConverged ==
  Quiet => \A s \in Services \ givenUp :
             registered[s] = IF Reachable(s) THEN version[s] ELSE 0

\* Whatever was queued or armed when a service was removed, it is not served
\* once its events are handled: no late or repeated upsert brings it back.
NoneRemovedServed == Quiet => \A s \in gone : registered[s] = 0

\* A service that keeps its virtual IP and is not given up is served in the end
\* with its last specification, and goes on being served with it.
ServiceEventuallyServed ==
  \A s \in Services :
    <>[](Reachable(s) /\ s \notin givenUp) => <>[](registered[s] = version[s])
=============================================================================
