--------------------------- MODULE ContainerEvents ---------------------------
(***************************************************************************)
(* nginx_proxy/DockerEventListener.py, the part about containers: Docker   *)
(* changes containers and emits events; the listener thread queues them;   *)
(* the dispatcher handles one command after the other, each time reading   *)
(* the state Docker has by then, not the state of the event; timers of the *)
(* start grace period queue commands of their own.                         *)
(*                                                                         *)
(* The server side is what the handlers see of it: the networks the proxy  *)
(* knows and, for every registered container, the network whose address    *)
(* nginx is given.  Every container has a VIRTUAL_HOST nginx accepts       *)
(* (WebServer models the others).  DOCKER_SWARM is "ignore".               *)
(***************************************************************************)
EXTENDS Naturals, Sequences, SequencesExt, FiniteSets, FiniteSetsExt

CONSTANTS
  Containers,   \* the container ids
  Self,         \* the id of the proxy's own container
  Nets, NoNet,
  Timers, NoTimer,   \* threading.Timer objects; one is reused once it is forgotten
  Environments, \* the values env may have
  QuietStart,   \* BOOLEAN: Docker changes nothing before the events are subscribed to
  MaxChanges,   \* bound on the changes Docker makes
  MaxEvents     \* bound on the events and commands under way

ASSUME ContainersAssumption == Self \notin Containers
ASSUME NetsAssumption == IsFiniteSet(Nets)
ASSUME AbsentAssumption == NoNet \notin Nets /\ NoTimer \notin Timers
ASSUME SwitchesAssumption ==
  /\ Environments \subseteq [grace : BOOLEAN, fails : BOOLEAN, settled : BOOLEAN,
                       nets : SUBSET Nets]
  /\ QuietStart \in BOOLEAN
ASSUME BoundsAssumption == MaxChanges \in Nat /\ MaxEvents \in Nat

VARIABLES
  \* Fixed: whether there is a start grace period, whether requests to Docker
  \* may raise, whether the proxy's own container is healthy all along, and the
  \* networks there are.
  env,
  \* Docker
  checked,        \* the containers with a health check: fixed
  running,        \* the running containers
  health,         \* State.Health.Status
  nets,           \* nets[c]: the networks c is attached to when it runs
  joined,         \* the networks the proxy's container is attached to
  proxyHealthy,   \* the health of the proxy's container (its image has a HEALTHCHECK)
  stream,         \* events sent and not read yet
  subscribed,     \* client.events() is connected
  changes,        \* how many changes Docker has made
  \* DockerEventListener
  queue,          \* _command_queue
  started,        \* _started_containers
  waiting,        \* _waiting_for_healthy
  pendingTimers,  \* _pending_backend_timers, NoTimer where absent
  pendingGens,    \* _pending_backend_generations, 0 where absent
  armed,          \* the timers that wait, with the command each will queue
  \* WebServer
  networks,       \* self.networks
  route           \* route[c]: the network of c's registered address, or NoNet

docker == <<checked, running, health, nets, joined, proxyHealthy, stream, subscribed, changes>>
pendingVars == <<pendingTimers, pendingGens, armed>>
listener == <<queue, started, waiting, pendingVars>>
server == <<networks, route>>
vars == <<env, docker, listener, server>>

Event(type, id, net) == [type |-> type, id |-> id, net |-> net]
NetEvents(type, c, ns) == [i \in 1..Cardinality(ns) |-> Event(type, c, SetToSeq(ns)[i])]

\* ActivateBackend(container_id, generation), with the timer that queued it.
Activate(c, gen, t) == [type |-> "activate", id |-> c, gen |-> gen, timer |-> t]

\* What Docker answers of c, and whether c is registered.
Eligible(c) == c \in running /\ (c \in checked => health[c] = "healthy")
Served(c) == route[c] # NoNet
Addressed(c) == IF c \in running THEN nets[c] ELSE {}

-----------------------------------------------------------------------------
\* Docker, as the handlers meet it.
Emit(events) ==
  /\ changes < MaxChanges
  /\ QuietStart => subscribed
  /\ Len(stream) + Len(queue) + Len(events) <= MaxEvents
  /\ stream' = IF subscribed THEN stream \o events ELSE stream
  /\ changes' = changes + 1
  /\ UNCHANGED <<checked, subscribed, listener, server>>

DockerStart(c) ==
  /\ c \notin running
  /\ running' = running \cup {c}
  /\ health' = [health EXCEPT ![c] = "starting"]
  /\ UNCHANGED <<nets, joined, proxyHealthy>>
  /\ Emit(Append(NetEvents("connect", c, nets[c]), Event("start", c, NoNet)))

DockerDie(c) ==
  /\ c \in running
  /\ running' = running \ {c}
  /\ UNCHANGED <<health, nets, joined, proxyHealthy>>
  /\ Emit(<<Event("die", c, NoNet)>> \o NetEvents("disconnect", c, nets[c]))

DockerHealth(c, status) ==
  /\ c \in running \cap checked /\ health[c] # status
  /\ health' = [health EXCEPT ![c] = status]
  /\ UNCHANGED <<running, nets, joined, proxyHealthy>>
  /\ Emit(<<Event(status, c, NoNet)>>)

DockerConnect(c, n) ==
  /\ c \in running /\ n \notin nets[c]
  /\ nets' = [nets EXCEPT ![c] = @ \cup {n}]
  /\ UNCHANGED <<running, health, joined, proxyHealthy>>
  /\ Emit(<<Event("connect", c, n)>>)

DockerDisconnect(c, n) ==
  /\ c \in running /\ n \in nets[c]
  /\ nets' = [nets EXCEPT ![c] = @ \ {n}]
  /\ UNCHANGED <<running, health, joined, proxyHealthy>>
  /\ Emit(<<Event("disconnect", c, n)>>)

ProxyMoves(n) ==
  /\ joined' = IF n \in joined THEN joined \ {n} ELSE joined \cup {n}
  /\ UNCHANGED <<running, health, nets, proxyHealthy>>
  /\ Emit(<<Event(IF n \in joined THEN "disconnect" ELSE "connect", Self, n)>>)

\* The proxy's health check answers otherwise than before; handling its event
\* changes nothing, as the proxy's container has no VIRTUAL_HOST.
ProxyHealth ==
  /\ ~env.settled
  /\ proxyHealthy' = ~proxyHealthy
  /\ UNCHANGED <<running, health, nets, joined>>
  /\ Emit(<<>>)

\* SIGHUP: NginxProxyApp.reload queues RescanAndReload(force, bypass).
Sighup ==
  /\ changes < MaxChanges /\ Len(stream) + Len(queue) < MaxEvents
  /\ changes' = changes + 1
  /\ queue' = Append(queue, Event("rescan", Self, NoNet))
  /\ UNCHANGED <<checked, running, health, nets, joined, proxyHealthy, stream, subscribed>>
  /\ UNCHANGED <<started, waiting, pendingVars, server>>

-----------------------------------------------------------------------------
\* _listen: subscribe, then queue the events in their order.
Subscribe ==
  /\ ~subscribed /\ subscribed' = TRUE
  /\ UNCHANGED <<checked, running, health, nets, joined, proxyHealthy, stream, changes, listener, server>>

Listen ==
  /\ stream # <<>>
  /\ queue' = Append(queue, Head(stream))
  /\ stream' = Tail(stream)
  /\ UNCHANGED <<checked, running, health, nets, joined, proxyHealthy, subscribed, changes>>
  /\ UNCHANGED <<started, waiting, pendingVars, server>>

\* A timer's wait ends: activate() queues its command.
TimerFires(t) ==
  /\ \E a \in armed : /\ a.timer = t
                      /\ queue' = Append(queue, a)
                      /\ armed' = armed \ {a}
  /\ UNCHANGED <<started, waiting, pendingTimers, pendingGens, docker, server>>

FreeTimers ==
  Timers \ ({a.timer : a \in armed} \cup Range(pendingTimers)
            \cup {cmd.timer : cmd \in {x \in Range(queue) : x.type = "activate"}})

-----------------------------------------------------------------------------
\* The dispatcher takes the next command.
Take(type, id) ==
  /\ queue # <<>> /\ Head(queue).type = type /\ Head(queue).id = id
  /\ queue' = Tail(queue)
  /\ UNCHANGED docker

\* A request for container c raises: Docker fails, or c has been removed.
MayRaise(c) == env.fails \/ c \notin running

\* The addresses WebServer may register for c when it knows the networks ns.
Fresh(c, ns) == IF Addressed(c) \cap ns = {} THEN {NoNet} ELSE Addressed(c) \cap ns

\* update_backend(c, replace_existing): an existing backend is kept as it is
\* unless it is replaced.
UpdateBackend(c, replace) ==
  \E r \in IF Served(c) /\ ~replace THEN {route[c]} ELSE Fresh(c, networks) :
    route' = [route EXCEPT ![c] = r]

RemoveBackend(c) == route' = [route EXCEPT ![c] = NoNet]

\* rescan_all_container(bypass_start_grace=True), with the networks ns; when
\* the containers cannot be listed, none is registered.
RescanAll(ns) ==
  \/ route' \in {f \in [Containers -> Nets \cup {NoNet}] :
                   \A c \in Containers :
                     f[c] \in IF Eligible(c) THEN Fresh(c, ns) ELSE {NoNet}}
  \/ env.fails /\ route' = [c \in Containers |-> NoNet]

\* _activate_backend_if_running.
ActivateIfRunning(c) ==
  \/ c \in running /\ UpdateBackend(c, FALSE)
  \/ MayRaise(c) /\ UNCHANGED route

-----------------------------------------------------------------------------
\* Seeded faults, one for each property: a plausible slip in the definition
\* named in PROJECT.json.

\* _cancel_pending_backend_activation cancels the timer and leaves its entries.
ClearKeepsEntry(c) ==
  /\ armed' = {a \in armed : a.timer # pendingTimers[c]}
  /\ waiting' = waiting \ {c}
  /\ UNCHANGED <<pendingTimers, pendingGens>>

\* A timer is created and never started.
ScheduleUnstarted(c) ==
  \E t \in FreeTimers :
    /\ pendingTimers' = [pendingTimers EXCEPT ![c] = t]
    /\ pendingGens' = [pendingGens EXCEPT ![c] = 1]
    /\ armed' = {a \in armed : a.timer # pendingTimers[c]}
    /\ waiting' = waiting \ {c}

-----------------------------------------------------------------------------
\* _clear_pending_startup_state: cancel the timer if it still waits, and forget
\* it, its generation and the wait for "healthy".
ClearPending(c) ==
  /\ pendingTimers' = [pendingTimers EXCEPT ![c] = NoTimer]
  /\ pendingGens' = [pendingGens EXCEPT ![c] = 0]
  /\ armed' = {a \in armed : a.timer # pendingTimers[c]}
  /\ waiting' = waiting \ {c}

\* _schedule_backend_activation: clear, then the next generation and its timer.
ScheduleActivation(c) ==
  LET cleared == [pendingGens EXCEPT ![c] = 0]
      gen == cleared[c] + 1
  IN
  \E t \in FreeTimers :
    /\ pendingTimers' = [pendingTimers EXCEPT ![c] = t]
    /\ pendingGens' = [cleared EXCEPT ![c] = gen]
    /\ armed' = {a \in armed : a.timer # pendingTimers[c]} \cup {Activate(c, gen, t)}
    /\ waiting' = waiting \ {c}

-----------------------------------------------------------------------------
\* More seeded faults.

\* The end of a container nobody saw starting is ignored.
DieOnlyStarted(c) ==
  /\ Take("die", c)
  /\ started' = started \ {c}
  /\ ClearPending(c)
  /\ IF c \in started THEN RemoveBackend(c) ELSE UNCHANGED route
  /\ UNCHANGED networks

\* disconnect calls update_backend without replace_existing.
DisconnectKeeps(c) ==
  /\ Take("disconnect", c)
  /\ UNCHANGED <<started, waiting, pendingVars, networks>>
  /\ IF Head(queue).net \in networks /\ Served(c)
     THEN UpdateBackend(c, FALSE) ELSE UNCHANGED route

-----------------------------------------------------------------------------
\* _process_container_event(start).
HandleStart(c) ==
  /\ Take("start", c)
  /\ started' = started \cup {c}
  /\ UNCHANGED networks
  /\ \/ MayRaise(c) /\ UNCHANGED <<waiting, pendingVars, route>>
     \/ /\ c \in checked /\ health[c] = "healthy"
        /\ ActivateIfRunning(c)
        /\ UNCHANGED <<waiting, pendingVars>>
     \/ /\ c \in checked /\ health[c] # "healthy"
        /\ waiting' = waiting \cup {c}
        /\ UNCHANGED <<pendingVars, route>>
     \/ /\ c \notin checked /\ env.grace
        /\ ScheduleActivation(c)
        /\ UNCHANGED route
     \/ /\ c \notin checked /\ ~env.grace
        /\ ActivateIfRunning(c)
        /\ UNCHANGED <<waiting, pendingVars>>

\* _process_container_event(stop, die, destroy).
HandleDie(c) ==
  /\ Take("die", c)
  /\ started' = started \ {c}
  /\ ClearPending(c)
  /\ RemoveBackend(c)
  /\ UNCHANGED networks

\* _process_container_health_event.
HandleHealthy(c) ==
  /\ Take("healthy", c)
  /\ ClearPending(c)
  /\ ActivateIfRunning(c)
  /\ UNCHANGED <<started, networks>>

HandleUnhealthy(c) ==
  /\ Take("unhealthy", c)
  /\ RemoveBackend(c)
  /\ UNCHANGED <<started, waiting, pendingVars, networks>>

\* _process_backend_activation: only the generation says whether the command
\* is the one of the pending timer.
Accepted(c) == pendingGens[c] = Head(queue).gen

HandleActivate(c) ==
  /\ Take("activate", c)
  /\ UNCHANGED <<started, waiting, armed, networks>>
  /\ IF Accepted(c)
     THEN /\ pendingTimers' = [pendingTimers EXCEPT ![c] = NoTimer]
          /\ pendingGens' = [pendingGens EXCEPT ![c] = 0]
          /\ ActivateIfRunning(c)
     ELSE UNCHANGED <<pendingTimers, pendingGens, route>>

\* _is_pending_startup and _should_forward_network_connect.
PendingStartup(c) == pendingTimers[c] # NoTimer \/ c \in waiting
ForwardConnect(c) == Eligible(c) /\ c \in started /\ ~PendingStartup(c)

\* WebServer.connect and disconnect for a container: only its registration changes.
HandleConnect(c) ==
  /\ Take("connect", c)
  /\ UNCHANGED <<started, waiting, pendingVars, networks>>
  /\ \/ /\ ForwardConnect(c) /\ Head(queue).net \in networks
        /\ UpdateBackend(c, TRUE)
     \/ /\ ~ForwardConnect(c) \/ Head(queue).net \notin networks \/ MayRaise(c)
        /\ UNCHANGED route

HandleDisconnect(c) ==
  /\ Take("disconnect", c)
  /\ UNCHANGED <<started, waiting, pendingVars, networks>>
  /\ LET known == Head(queue).net \in networks /\ Served(c) IN
       \/ known /\ UpdateBackend(c, TRUE)
       \/ (~known \/ MayRaise(c)) /\ UNCHANGED route

\* connect and disconnect of the proxy itself: rescan_and_reload.  A connect is
\* forwarded under the conditions of _should_forward_network_connect.
HandleSelf ==
  /\ UNCHANGED <<started, waiting, pendingVars>>
  /\ \/ /\ Take("connect", Self)
        /\ \/ /\ proxyHealthy /\ Self \in started /\ Head(queue).net \notin networks
              /\ networks' = networks \cup {Head(queue).net}
              /\ RescanAll(networks')
           \/ /\ ~proxyHealthy \/ Self \notin started \/ Head(queue).net \in networks \/ env.fails
              /\ UNCHANGED server
     \/ /\ Take("disconnect", Self)
        /\ IF Head(queue).net \in networks
           THEN /\ networks' = networks \ {Head(queue).net}
                /\ RescanAll(networks')
           ELSE UNCHANGED server

\* RescanAndReload.
HandleRescan ==
  /\ Take("rescan", Self)
  /\ RescanAll(networks)
  /\ UNCHANGED <<started, waiting, pendingVars, networks>>

-----------------------------------------------------------------------------
\* WebServer.__init__ has learnt its networks and scanned the containers, and
\* DockerEventListener.__init__ has loaded the running ones.
Init ==
  /\ env \in Environments
  /\ checked \in SUBSET Containers
  /\ running \in SUBSET Containers
  /\ health \in [Containers -> {"starting", "healthy", "unhealthy"}]
  /\ \A c \in Containers : c \in running \cap checked \/ health[c] = "starting"
  /\ nets \in [Containers -> SUBSET env.nets]
  /\ joined \in SUBSET env.nets /\ networks = joined
  /\ proxyHealthy \in IF env.settled THEN {TRUE} ELSE BOOLEAN
  /\ route \in [Containers -> Nets \cup {NoNet}]
  /\ \A c \in Containers : route[c] \in IF Eligible(c) THEN Fresh(c, networks) ELSE {NoNet}
  /\ stream = <<>> /\ subscribed = FALSE /\ changes = 0
  /\ queue = <<>> /\ waiting = {}
  /\ \/ started = running \cup {Self}
     \/ env.fails /\ started = {}
  /\ pendingTimers = [c \in Containers |-> NoTimer]
  /\ pendingGens = [c \in Containers |-> 0]
  /\ armed = {}

DockerChanges ==
  \/ \E c \in Containers : DockerStart(c) \/ DockerDie(c)
  \/ \E c \in Containers, status \in {"healthy", "unhealthy"} : DockerHealth(c, status)
  \/ \E c \in Containers, n \in env.nets : DockerConnect(c, n) \/ DockerDisconnect(c, n)
  \/ \E n \in env.nets : ProxyMoves(n)
  \/ ProxyHealth \/ Sighup

Dispatch ==
  \/ \E c \in Containers :
       \/ HandleStart(c) \/ HandleDie(c) \/ HandleHealthy(c) \/ HandleUnhealthy(c)
       \/ HandleActivate(c) \/ HandleConnect(c) \/ HandleDisconnect(c)
  \/ HandleSelf \/ HandleRescan

Next ==
  /\ \/ DockerChanges
     \/ Subscribe \/ Listen \/ \E t \in Timers : TimerFires(t)
     \/ Dispatch
  /\ UNCHANGED env

\* The threads go on; Docker does what it likes.
Fairness ==
  /\ WF_vars(Subscribe /\ UNCHANGED env) /\ WF_vars(Listen /\ UNCHANGED env)
  /\ WF_vars(Dispatch /\ UNCHANGED env)
  /\ \A t \in Timers : WF_vars(TimerFires(t) /\ UNCHANGED env)

Spec == Init /\ [][Next]_vars
FairSpec == Spec /\ Fairness

-----------------------------------------------------------------------------
\* The two dicts of pending activations have the same keys, and a pending
\* activation comes: a timer waits for it, or its command is queued.
PendingComes ==
  \A c \in Containers :
    /\ pendingTimers[c] = NoTimer <=> pendingGens[c] = 0
    /\ pendingTimers[c] # NoTimer =>
         \E a \in armed \cup Range(queue) :
           a.type = "activate" /\ a.id = c /\ a.gen = pendingGens[c]

\* Docker's events have all been handled and no timer waits.
Quiet == subscribed /\ stream = <<>> /\ queue = <<>> /\ armed = {}

\* Docker's requests succeed and the proxy hears of its own networks.
Smooth == ~env.fails /\ env.settled

\* Then nginx is given an address for exactly the containers that run, are
\* healthy if they are checked, and share a network with the proxy, and the
\* address is one the container has now.
Converged ==
  Quiet /\ Smooth => \A c \in Containers :
    route[c] \in IF Eligible(c) THEN Fresh(c, joined) ELSE {NoNet}

\* Whatever Docker's requests do, a container that is dead or unhealthy is not
\* served for longer than its event is under way.
NoneDeadServed == Quiet => \A c \in Containers : Served(c) => Eligible(c)

\* A container that stays eligible and reachable is served in the end, and goes
\* on being served.
EventuallyServed ==
  Smooth => \A c \in Containers :
    <>[](Eligible(c) /\ nets[c] \cap joined # {}) => <>[]Served(c)
=============================================================================
