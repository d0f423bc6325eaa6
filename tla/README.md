# nginx-proxy: specifications, model checking and proofs

`nginx-proxy` watches Docker (and Docker Swarm), keeps a table of virtual hosts
built from the environments of the containers and services it finds, renders
that table to an nginx config and has nginx reload it.  This directory holds TLA+
modules of its core logic, the TLC configurations that check them on small
instances, and proofs of the most important invariants.  Paths below are those
of the repository, under `src/`.

- [1. The system](#1-the-system): components, state, operations, interactions
- [2. What is hard about it](#2-what-is-hard-about-it)
- [3. The modules and the code](#3-the-modules-and-the-code)
- [4. The runs](#4-the-runs): what each checks, its bounds, what it shows
- [5. Fairness](#5-fairness)
- [6. The proofs](#6-the-proofs)
- [7. What the specifications found](#7-what-the-specifications-found)
- [8. What is not modelled](#8-what-is-not-modelled)
- [9. Plan](#9-plan)

## 1. The system

| Component | Source | State | Operations |
| :-- | :-- | :-- | :-- |
| Throttler | `nginx_proxy/Throttler.py` | `_last_run`, `_timer`, `_pending_task`, a lock | `throttle(task, immediate)`, `_trigger` (in a timer thread), `shutdown` |
| Nginx | `nginx/Nginx.py` | the managed config file, `last_working_config`, the nginx process | `setup`, `force_start`, `validate_config`, `update_config`, `reload` |
| WebServer | `nginx_proxy/WebServer.py` | `config_data`, `networks`, the Throttler and the Nginx object, the htpasswd files | `update_backend`, `remove_backend`, `rescan_all_container`, `rescan_and_reload`, `reload`, `_do_reload`, `connect`, `disconnect`, static sites, rendering |
| ProxyConfigData, Host, Location | `nginx_proxy/ProxyConfigData.py`, `Host.py`, `Location.py` | `config_map`, `backends`; `container_set`, `locations`, `full_redirect`, `secured`; the backends and merged extras of a location | `add_host`, `remove_backend`, `add_container`, `remove_container`, `update_with_host`, `update_extras` |
| Pre-processors | `nginx_proxy/pre_processors/` | none | environment of a backend to hosts, redirects, static sites, extras |
| Post-processors | `nginx_proxy/post_processors/` | certificates, password files | redirects, TLS ports and certificates, upstreams, basic auth, on a copy of the table |
| DockerEventListener | `nginx_proxy/DockerEventListener.py` | `_command_queue`, `_started_containers`, `_waiting_for_healthy`, the dicts of pending timers and generations | one listener thread a client, the dispatcher thread, one timer thread a delayed activation or service upsert |
| NginxProxyApp | `nginx_proxy/NginxProxyApp.py`, `main.py` | the objects above, `dispatcher_thread`, the signal handlers | `start`, `reload` (SIGHUP), `stop` (SIGTERM), `run_forever`, `cleanup` |
| CloudflareTunnelManager | `cloudflare/CloudflareTunnelManager.py` | `tunnel_id`; at Cloudflare a record per hostname and an ingress document per tunnel | `add_tunnel`, `remove_tunnel`: read, change, write back; a script of its own |

How they interact:

    Docker, Swarm --events--> _listen --put--> _command_queue <--put-- timers, SIGHUP, SSL thread
                                                    |
                                                    v   one command after the other
                                               dispatcher --calls--> WebServer
                                                    asks Docker for the state of *now*
    WebServer: config_data --deepcopy, render--> candidate --> Nginx.validate_config
               reload() --> Throttler --> _do_reload, in the dispatcher or in a timer thread
    _do_reload: config_data --render--> Nginx.update_config --write file, nginx -s reload--> master

    main: start, run_forever <--interrupted by-- SIGHUP: reload, SIGTERM: stop, cleanup
                                                 (in the main thread, wherever it is)

Only the Throttler and the queue have a lock.  `config_data`, the managed file and
`last_working_config` are shared by the dispatcher and the throttler's timer
threads without one.

What makes each component correct:

- *Throttler*: a submitted task, or a later one in its place, runs; not before
  the interval; not after `shutdown`.
- *Nginx*: between calls the file, the record and the process agree; a candidate
  under validation does not show; the answers are true; a killed container comes
  back with a config nginx accepts.
- *WebServer*: every change of `config_data` is published; `config_data` always
  stays something nginx accepts; the credentials files of what nginx serves are
  on the disk; when all is quiet nginx serves `config_data`.
- *The table*: its three records of who serves what agree, and they agree with
  the environments of the registered backends, whatever the order in which
  backends came and went.
- *Rendering*: a redirect is in force, never a circle, and costs no backend; an
  upstream balances over exactly the backends of each location that shares it.
- *DockerEventListener*: when the events are handled, exactly the eligible and
  reachable containers (services) are registered, at an address (with a
  specification) they have now; and a pending activation is never forgotten.
- *NginxProxyApp*: told to end, the process ends, and not before it has stopped
  nginx and the threads that would reload it; a requested reload is not lost.
- *CloudflareTunnelManager*: what a completed call did stays done until the next
  call for its hostname, but for a rule that a stale copy of the document overwrites.

## 2. What is hard about it

1. *Two threads on one file.*  `validate_config` tests its candidate in the live
   file; `update_config` of a timer thread may write the same file meanwhile.
2. *A rendering that is published late.*  Two reloads may overlap; the older
   text may be the one that stays.
3. *Timers that have already fired* when they are cancelled, in the Throttler and
   in the listener, whose generations begin at 1 again after a cancellation.
4. *State of now for an event of then.*  Handlers ask Docker again; the container
   may have died, restarted or moved since its event.
5. *Incremental data.*  The table is changed backend by backend for as long as
   the proxy lives; what is merged on registration must be unmerged on removal.
6. *Partial failures*: a scan, a rendering or a Docker request raises in the
   middle of a command, after `config_data` has changed.
7. *Kills*: the managed file is all that survives, and it may hold a candidate.
8. *Order of the table*: redirects are resolved host by host in the order in
   which the dicts hold them, and an upstream is shared by whoever comes first.
9. *Signal handlers that interrupt the main thread*, another handler included, and
   take locks that are not reentrant; joins with a timeout.
10. *Files that outlive a decision*: a dry run writes the credentials files of a
   candidate next to those of the config in force.
11. *A remote document* without versions, read, changed and written back.

`PROJECT.json` lists every such hazard at its line with the properties that watch it.

## 3. The modules and the code

    Throttler --------+
    Nginx ------------+--> WebServer        (INSTANCE: the timer threads and the dispatcher
      | refines       |       | refines      call the same Throttler and the same Nginx)
    ConfigSlot        |    ConfigPublisher
    ContainerEvents, ServiceEvents           DockerEventListener over an abstract WebServer
    ProxyConfig                              what a content of config_data is made of
      | EXTENDS
    Upstreams                                the upstreams of every such table
    Rendering                                redirects, TLS and server blocks of a table
    AppLifecycle                             main, signals, start and stop of the threads
    CloudflareTunnel                         the script beside the proxy

`MC...` modules instantiate them for TLC.  Theorems are in `ThrottlerProofs`,
`NginxProofs`, `WebServerProofs`, `ContainerEventsProofs`, `ServiceEventsProofs`,
`ProxyConfigProofs`, `AppLifecycleProofs` and `CloudflareTunnelProofs`, which also
hold the type invariants.  `WebServerProofs` uses an instance of `NginxProofs` and
is about Rendering too; `ProxyConfigProofs` is about Upstreams too.

**Throttler.**  `age` is the time since `_last_run`, capped at `Interval`;
`pending` and `timer` are `_pending_task` and `_timer`; `pc[h]` tells where a
thread is: armed (a timer that waits), fired (it waits for the lock), taken (it
left the lock with a task), in (it runs the task).  The critical section of
`throttle` is one step with three disjuncts: `RunNow`, `Schedule`, `Replace`.
`Fire`, `Trigger`, `Begin`, `Finish` are the steps of a timer thread.  A `cancel`
of a timer that has fired changes nothing.  `owed` is a history variable: a task
was submitted and none has begun since.

**Nginx.**  Each file access and each subprocess of `validate_config` and
`update_config` is a step (`Compare`, `ReadPrevious`, `WriteCandidate`,
`TestCandidate`, `RestorePrevious`, `WriteConfig`, `Reload`, `Commit`,
`Rollback`); `op[h]` is the call of thread `h`, its locals and its position.
`MasterReload` is the nginx master re-reading the file after a signal, at once
or later (`MasterDelay`).  `signalled` is the text it was signalled for, and the
history variable `missed` tells that it has read another one; `Followed` is the
condition under which what nginx runs can be compared with the file.  `Crash` kills everything but the file; `Setup` and
`ForceStart` are the boot.  A text is an element of `Configs`; `Valid` are
those nginx accepts.

**ConfigSlot** is what Nginx promises to a caller: each call is one step on the served
config.  An update that is used replaces it whole and answers `TRUE` (`Replace`,
`Confirm`); `FALSE` means that nginx refuses the config or, unless the caller
insisted, that it is served already (`Refuse`); a validation tells what nginx accepts
and changes nothing (`Judge`).  A kill ends the call, and a killed nginx is started
again (`Boot`).  The one step that no caller asks for is `Misread`: while a call is under
way a master that reads late may come to serve another accepted config, until the next
one is used.  `Told`, `CallOf` and `Caller` in Nginx are the refinement mapping: the
config nginx was told to use, and the call as its caller sees it.

**WebServer.**  `configData` is the set of what is registered (rendering is taken
to be injective on it), `job` is the dispatcher's position within a command.
`failures` is chosen once: whether a rendering or a scan may raise.
Each command of the queue is an action (`UpdateBackend`, `RemoveBackend`,
`Rescan`, `ReloadCommand`) that ends where Nginx is called; `UpdateValidated`,
`NextBackend`, `NextStatics`, `StepValidated` continue it; `PublishNow`,
`PublishLater`, `PublishDirect` are the three ways of asking for a reload (run
by the throttler in this thread, left to a timer, or past the throttler as
`_dispatch` does), `BeginReload` and `EndReload` are `_do_reload`.  `TimerBegins` runs the
same `_do_reload` in a timer thread.  `StepRaises`, `ReloadRaises`, `DirectRaises` are
exceptions (`Interrupted`: some of the credentials files are written by then), `Crash`, `BootNginx`, `BootRescan` a restart.  History variables:
`unrendered` (`configData` changed since it was last rendered) and `raced` (two calls
of Nginx overlapped since a forced rescan last began alone).

Of the credentials files (`authFiles`) only that they are there is modelled, for
the backends that ask for one (`Protected`).  Every validation begins with a
`DryRun`, which creates the missing ones and remembers them (`created`, which is
`dry_run_auth_files`); `CleanUp` takes them back when nginx refuses the candidate,
`Keep` does not; a reload writes them all.

**ConfigPublisher** is what WebServer promises: a wanted config that is published
whole, never an older one, and will be published as long as the two differ.

**ContainerEvents.**  Docker is a set of running containers with health, networks
and a stream of events; the listener thread moves events to `queue`, the
dispatcher handles its head with the state Docker has *then*; `armed` are the
timers of the start grace period.  One action per kind of event.  `route` is the
network of the address nginx is given, which is what the handlers are about.
`checked`, chosen once, is the set of containers with a health check.
`env`, chosen once, is the environment: whether there is a start grace period
(`BACKEND_START_GRACE_SECONDS` is not 0), whether requests to Docker may raise, whether the
proxy's own container is healthy all along, and which networks there are.
`QuietStart` says that nothing changes between the first rescan and the
subscription.

**ServiceEvents.**  The same for Swarm services: `HandleUpsertEvent` arms a timer,
whose command is stale (`HandleStale`), succeeds (`HandleUpsert`), is retried
(`HandleRetry`) or raises (`UpsertFails`).  `registered` is the version of the
specification a service is registered with.  The history variable `givenUp` holds
the services whose last event the code has given up: its attempts are spent, or
it was taken for an upsert of an older event (`OwnUpsert`).

**ProxyConfig.**  `cfg` is `config_map` as a function from servers (hostname and
port) to hosts, `index` is `ProxyConfigData.backends`.  `MergeHost`, `MergeLocation`, `RemovedFrom`,
`Merged` are `add_host`, `add_container`, `remove_container` and
`_sync_injected_from_backend_map`; the actions are registration, replacement,
loss of reachability, removal and the steps of a rescan.  What an environment
declares is a constant set of routes and redirects.

**Upstreams** evaluates the upstream post-processor on every table ProxyConfig
reaches: `Key` is `backend_key`, by which locations share an upstream, `Upstreams`
the ones a location may be given (that of whichever location with its key comes
first), `AlignedPort` is `_align_service_backup_ports`, `IsBackup` the rule of
`DOCKER_SWARM=prefer-local`.

**Rendering.** The table has any redirects between its hosts (`declared`), and any of them
use TLS, on any port (`declaredTls`): `https+http://h` does on port 80, `https://h:8443` on
that, and a server on 443 that only a redirect names does not
(`pre_processors/redirect_processor.py:63`). `process_redirection` goes host by host in
every order the table can have (`NoRedirect`, `SameName`, `TargetSeen`, `Follow`), then
`process_ssl_certificates` (`PrepareSsl`) and `_ensure_https_redirects`. `Blocks` are the
server blocks of the template, as names and ports. `Visits` are the hosts a client comes
through that follows the redirects, `Ends` those of them that do not redirect it any more.

**AppLifecycle.**  The main thread is a stack of frames, `run_forever` at its
bottom; a signal puts the frames of its handler on top of whatever is there
(`Interrupt`), even of another handler, and `locked` says whether the interrupted
frame was inside the mutex of the queue or the Throttler's lock.  `Resume` is a
handler that returns; `SysExit` and `CancelRaises` unwind the stack to the `try`
statements of `run_forever` and `_listen` (`Unwound`).  Each statement of `start`,
`stop_dispatcher` and `cleanup` that another thread could notice is a step;
`bound` are the attributes that are not `None`.  Beside main there are the dispatcher
(`disp`), which may hang in a command, the listener threads (`open` are the streams
that have not ended), the Throttler's timers and the renewal thread.  What the
commands do is left to the modules above.

**CloudflareTunnel.**  Any number of instances of the script, each with the id of
its tunnel, its position in a call and the copy of the ingress it has read.  One
request is one step.  A request may raise (`Raise`), or have its effect and no
answer, so that it is sent again (`UpdateUnanswered`).  Cloudflare is external: one record
for a name, documents written whole.  History variables say which hostnames
were last added or removed by a call that no other for the same hostname overlapped
(`added`, `removed`), which of these an instance's copy has not seen (`unseen`), and which
such a copy has overwritten (`overwritten`).

Definitions introduced as "seeded faults" are wrong versions of the definition
that follows them.  No specification uses them: they exist to confirm, by
substituting them, that a property notices the bug they stand for.

## 4. The runs

| Run | Checks | Bounds |
| :-- | :-- | :-- |
| Throttler | no request lost, none starves, own timer on time, shutdown is final | 2 callers, 3 timer threads, interval 2 |
| Nginx | file and record agree at rest; answers are true and nginx runs the record, if the master read in time; every call is one step on what nginx serves and a killed nginx comes back (Nginx implements ConfigSlot) | 1 caller; 4 texts: the default, a short, a good, a bad one; late master, kills |
| WebServerSerial | quiet is consistent; `config_data` stays acceptable to nginx; credentials files in use stay; WebServer implements ConfigPublisher | no timer threads; 2 good (one protected) and 1 refused backend, a static page; crashes; with and without exceptions |
| WebServerTimers | no render lost; what overlapping calls broke, a forced rescan repairs | 1 timer thread; a good and a refused backend |
| Containers | pending activations come; events converge; nothing dead or unhealthy stays served; an eligible container is served in the end | 1 container, with or without a health check, 2 timers, 4 changes; with a grace period, 2 networks and all well, or with none, 1 network, failing requests and an unhealthy proxy |
| Services | pending upserts come; services converge; no removed service comes back; a reachable one is served with its last specification | 2 services, 5 timers, 2 attempts, failing requests, 4 changes |
| ProxyTable | the three records agree, static sites yield, routes, limits and websocket upgrades follow the environments, upstreams serve their locations | 4 backends (one a service with 2 versions, two its local tasks), 2 servers, 2 paths |
| Rendering | no redirect loop, no backend lost, TLS kept, the plain port answers, a redirect is in force | 4 servers of 3 names (`a` on 80 and 443, `b` on 8443, `c` on 80), every set of redirects, every set of servers with TLS, every order |
| AppLifecycle | the process ends when told to; nginx and the threads are stopped first; a requested reload happens | 2 clients, read by main or by threads; 2 signals; a queue of 1 beside the application's own commands |
| CloudflareTunnel | a completed call stays done: its record for good, its rule unless a stale copy overwrites it | 2 instances, 3 hostnames, 2 tunnels, up to symmetry |
| RacePoison | must be violated: `config_data` is always acceptable to nginx (section 7) | 1 timer thread, a good and a refused backend |
| ProxyRedirect | must be violated: a redirect is declared by a registered backend (section 7) | those of ProxyTable |

Why the bounds are enough to be interesting. *Throttler*: three timers are what a stale
timer needs to meet a newer one that a third thread replaces. *Nginx*: two texts would not
tell a rollback from a commit, four do (a bad one, a good one, the default, and a short one,
which `setup` refuses although nginx accepts it). *Containers*: four changes cover start,
death, restart and a second death with an activation pending; every change arms at most one
timer and cancels the one before it, which leaves two alive. The grace period and failing
requests are different environments of one run, since each multiplies the states of the
other. *Services*: five timers are one for each of four changes and one for a retry, so none
is ever missing. *ProxyTable*: the environments overlap on a server and path, so that every
backend leaves a location it shares, once as a service with two local tasks and once with
none. *Rendering*: four servers are a chain, a circle and a name on two ports; with TLS on
80 they need `_prepare_host_for_ssl`, on 8443 the redirect of the plain port, and on both 80
and 443 a name has both to merge. *AppLifecycle*: two signals are a handler inside another
one, of either kind; what events and renewals add to the queue only matters for being before
or after a command of the application. *CloudflareTunnel*: a hostname for each of the two
instances and one whose call has ended. `MaxChanges` and `MaxEvents` bound the environment
only, never a handler. Every safety property of these runs is also proved with no bound
(section 6). WebServerTimers has a single timer thread: a second one exceeds what TLC can
enumerate, and its two properties are proved for any number. The runs of the listener may
stop when the bounded environment has no change left, and AppLifecycle when the process has
ended (or main waits for a lock it holds itself, a known deviation), so they do not check
for deadlock; in all others the model never stops.

Every property of a passing run is violated when the definition `PROJECT.json`
pairs it with is replaced by a seeded fault.

## 5. Fairness

Assumed is what the process's threads do by themselves: a thread inside a call
goes on, a due timer fires, a thread that waits for the throttler's lock gets it
(its critical sections do not block), time passes, the listener reads events, the
dispatcher takes the next command, and nginx's master follows its signals.  All of
it is weak fairness.  Never assumed: that anyone calls `throttle`, that commands
or events come, that a Docker request of ServiceEvents succeeds; `EventuallyServed` of
ContainerEvents is checked where requests succeed, because a failed inspection is
not retried.  Services also assumes that Swarm assigns the addresses it owes
(`SwarmAssign`), at any time: an address that comes after the last attempt leaves its
service in `givenUp`.
In AppLifecycle the main thread, the dispatcher and the Throttler's timers go on
where they can, but a command may hang for ever (`Hang`), and no signal and no end
of a stream has to come.

The liveness properties are `EventuallyServed` of Throttler and of ContainerEvents,
`ServiceEventuallyServed`, `EndsWhenAsked` and `ReloadHappens` of AppLifecycle, and the
two refinements, whose abstract specifications are
fair.  They are model-checked only.

## 6. The proofs

All theorems are checked by TLAPS with no bound on the sets and numbers that the
runs bound.  The statement and the argument of each are in the module; here is
what carries them.

**ThrottlerProofs** proves, for any callers, timer threads, tasks and interval,
`TypeCorrect`, `RequestsNotLost`, `SlotHasTimer`, `OwnTimerNeverEarly` and the action
property `ShutdownIsFinal`.  The inductive invariant is
`TypeOK /\ SlotTimer /\ TimerOnTime /\ NoLostRequest /\ SilentSlot`.
`NoLostRequest` is inductive only together with `SilentSlot` (nothing is
in the slot after a shutdown), because `Shutdown` empties the slot; and
`PendingHasTimer` needs the reverse of itself, that a referenced timer has a task to
run and is armed or fired (`SlotTimer`).  `TimerOnTime` says of the referenced
timer that what it has left to wait is what the interval has left; `_trigger` of
a stale timer would break it if it did not drop the reference.

**NginxProofs** proves for a single caller `FileIsRestored`, `RecordIsServed`,
`AnswerIsTrue` and `SlotImplemented` (each step of Nginx is a step of ConfigSlot or
none).  The invariant is about the stage of the call: where the candidate is, where the
text is that must come back, and which text nginx runs or was last told to (`CallInv`,
`ServedInv`).  For `SlotImplemented` it also says (`Judged`) what has been found out at each
stage: which text nginx tests, that the verdict is nginx's own, that a call commits only what
the reload accepted and rolls back only what nginx refuses.  With two callers these are false.

**WebServerProofs** has four parts.  The first, for any number of timer threads: `RenderNotLost`,
that where nothing raises no change of `config_data` is left unpublished when the
dispatcher is done with a command (`NoLostRender`), and `NginxUsed`, that WebServer
calls Nginx only with contents and only while there is a master, so that every
behaviour of WebServer is one of Nginx.  The invariant of the first relates the dispatcher's
position to `unrendered`: when it is idle or has only begun an update, an unrendered
change has a reload coming (in the slot, or taken by a timer thread); in `_do_reload`
nothing is unrendered; everywhere else the command itself will publish.

The second, without timer threads (`Serial`), and if less of what nginx accepts is accepted
(`Closed`): `AcceptedAreValid`, `CredentialsStay`, `FollowedAgrees` (`QuietIsConsistent` where the master
has read in time) and, with a master that reads when it is told (`~MasterDelay`),
`QuietAgrees` and `PublisherImplemented`.  The invariant takes that of Nginx from
`NginxProofs` through `NginxUsed`'s step simulation, and adds what the one call under way
is for (`Judges`, `Publishes`), that what has been rendered is on record
(`Recorded`), and that every text which may come to be served has its credentials
files outside those the dry run would take back (`Credentials`).  `Closed` is needed because
config_data shrinks without a validation (a rescan begins with nothing, a
removal takes its backend out in place); nginx does accept a config with a server
less.  `Serial` is needed: RacePoison.  For `PublisherImplemented` (each step of WebServer
is a step of ConfigPublisher or none) the same invariant says that nginx is signalled
with the current `config_data` in the file, and that a boot starts it with the empty config.

The third, for any number of timer threads again, kills and a late master:
`RepairsHold`.  Its invariant `RepairInv` says first what holds however calls overlap
(`Placed`): which call of Nginx can be under way at which place of the dispatcher, and
where a forced rescan can be.  Then, where nothing raises and nothing has overlapped since a
forced rescan began between calls (`~raced`): that the one call under way can rely on the
file and a validation answers the truth (`Truthful`), and that either file, record and
nginx agree but for what this call has done to the file (`Settled`), or the forced reload
that will make them agree is still ahead (`Forced`).  The step that counts is the one
where a rescan begins: nothing at all is known of the file then, the record and what nginx
runs, only that no call is under way, and `Alone` has to follow from `Placed`.  `RepairInv` was
checked by TLC before it was proved: on all states of WebServerTimers with kills and a prompt
master, and on twelve million of those with a late one.

The last is about Rendering, for any finite table, any redirects between its hosts and any
order of it: `NoRedirectLoopHolds`, `NoBackendLostHolds`, `TlsKeptHolds`,
`PlainPortAnswersHolds` and `RedirectInForceHolds`.  What a client is promised has to hold
after every host that is processed: every client has an end (`Ends(h) # {}`), and each of its ends
serves the backend and, if it asked for TLS, uses TLS (`AllServed`).  A redirect that comes into
force sends the clients that ended at its host to its target, and the target does not
redirect, because the name of a host that does has been seen (`Redirects`).  So one step lengthens
a path by one host at its end, and no induction over paths is needed: `Visits(h)` is
the least set that holds `h` and is closed under redirects.

**ContainerEventsProofs** proves `ActivationsCome` and, if nothing changes between the first
rescan and the subscription (`QuietStart`), `DeadNotServed` and `AllConverge`.  A handler acts
on the state Docker has when it runs, so a late "healthy" event may register a container
that is dead by then; the invariant is that it is never the last of its kind: the event
that tells of the death is still behind it, because the order of events is kept
(`Told`).  For `AllConverge` the invariant (`Settling`) says of each container and of the
proxy's networks that whatever is not as it should be has a cause still under way: an
event, a timer or its command.  A handler that consumes the cause repairs what it stands
for, unless Docker has changed since; then the later news is behind it (`InOrder`).  That is
also why `_should_forward_network_connect` may drop a connect: a container that is not
started, not eligible or held back is asked for again by what is still to come.
`Settling` was checked by TLC before it was proved.  It assumes that requests succeed and the
proxy's own container stays healthy (`Smooth`), as `Converged` does, and that there are
finitely many networks.

**ServiceEventsProofs** proves `UpsertsCome`, `Converges` and `RemovedStaysAway`.  The invariant
is about what is in flight between Swarm and the dispatcher: of a service with
an event in flight nothing is claimed but that a removal in flight means it is gone; one with none
is up to date, pending or given up.  Different services have different timers.

**ProxyConfigProofs** proves `RecordsAgree`, `StaticsYield`, `RoutesAreDeclared`,
`LimitsAreDeclared`, `UpgradesStay` and `UpstreamsServe`.  What is right about a location depends
on its server, its path and the environments of its own backends only (`LocOK`), so
each operation on a host has a lemma, those on the table follow host by host, and an
action is one or two of them.  That nothing is lost is a separate part (`Present`).
`UpstreamsServe` needs none of it: it follows from the operators of Upstreams for any table,
as only a container is a local task and only a service has one.

**CloudflareTunnelProofs** proves `DoneIsKept` for any number of instances, hostnames and
tunnels.  The invariant: a copy of a document that is about to be written agrees
with everything promised of that document, but for the hostnames it has not seen, and
these are counted when it is written.  The record needs more: Cloudflare refuses a second one
for a name, so only a call for the same hostname can touch it.

**AppLifecycleProofs** proves `NginxIsStopped` and `NothingReloads`, for any clients and any
number of signals and queued commands. Handlers interrupt one another, and each stops what
it finds, so neither property is about one handler. `NothingReloads` says of the renewal
thread that it has ended, and of the dispatcher and the waiting timers that they have, where
the join did not time out; a reload that a timer or the renewal thread is in the middle of
may go on. The invariant is about every frame of the stack, interrupted or not: what must be
gone at the place where it will go on (`Promised`: behind the join the dispatcher is gone or
late, behind the throttler's shutdown no timer waits). A frame put on top keeps what those
below rely on, because nothing but `start` creates a dispatcher or a server, and a frame of
`start` is not returned to after a stop: a handler that stops unwinds the stack (`StartOK`).
The process ends only at the end of main, where no handler is left and nginx has been
stopped by one of them or by main itself (`EndOK`). This invariant too was checked by TLC
first, on all states of the run.

Each proof assumes what its module's `ASSUME`s say of the constants (TLC evaluates them
on every run), and what the theorem states.  The type invariants are in the modules
with the proofs; the runs check the Throttler's.

Only model-checked are the liveness properties (`EventuallyServed` of Throttler and of
ContainerEvents, `ServiceEventuallyServed`, `EndsWhenAsked`, `ReloadHappens`) and what
`ImplementsSlot` and `ImplementsPublisher` say about fairness (that calls are answered, that
a killed nginx comes back, that a wanted config is published); the theorems about these two are
about initial states and steps.  Liveness, `ENABLED` and induction over recursive data are out
of the prover's reach and stay with TLC.  Neither checked nor proved: what a reload is worth
after the master has read too late (`Followed`, section 7), and `RepairedIsConsistent`
where a rendering or a scan raises.

## 7. What the specifications found

Two runs check a statement of a doc or a test, and TLC finds a behaviour of the
code that contradicts it; `PROJECT.json` quotes the lines.

- **RacePoison.** A timer thread overwrites the candidate of `validate_config` before
  nginx tests it; a config nginx refuses gets into `config_data` and every later
  candidate is refused with it.
- **ProxyRedirect.** A full redirect outlives the backend that declared it.

Other behaviours were met while modelling.  The models have them; a condition
of a property, or a parameter of a run, keeps them apart from what is checked,
so that the property says exactly what else holds.

| Known deviation | Code | Kept apart by |
| :-- | :-- | :-- |
| A fired timer that was cancelled runs its successor's task before the interval is over | `Throttler.py:18` | `OwnTimerOnTime` is about the referenced timer |
| `reload` reports success, and the master then reads a later candidate, or the file as a later validation restored it | `Nginx.py:281` | `Followed` in `RunningAtRest`, `TruthfulAnswer`, `RepairedIsConsistent` and the theorem `FollowedAgrees` |
| Of two overlapping reloads the older text stays; a validation restores the file to what it was before a concurrent reload | `WebServer.py:251`, `Nginx.py:101` | `raced` in `RepairedIsConsistent` |
| A removal whose scan of static sites raises is never published | `WebServer.py:318` | `~failures` in `NoLostRender`, `QuietIsConsistent` |
| A static root does not come back when the container in its place loses it by an update | `WebServer.py:424` | `StaticYields` states one direction |
| An activation queued before a death and a restart passes for the new start's, within the grace period | `DockerEventListener.py:404` | no property forbids it |
| A container that starts between the first rescan and the subscription is not noticed | `DockerEventListener.py:239` | `QuietStart` |
| The proxy's own network events are dropped while its own health check is starting | `DockerEventListener.py:533` | `Smooth` (`env.settled`) |
| An upsert queued before a later update passes for that update's, whose retries are lost | `DockerEventListener.py:299` | `givenUp` |
| A virtual IP that comes after the last attempt is not noticed | `DockerEventListener.py:323` | `givenUp` |
| A full redirect from a server that exists already is ignored | `ProxyConfigData.py:29` | no property forbids it |
| A redirect onto a host that redirects itself works or not by the order of the table | `redirect_processor.py:17` | `RedirectInForce` is about targets that do not redirect |
| A redirecting name on two ports is rendered as two blocks on port 80 | `ssl_certificate_processor.py:79` | no property forbids it |
| A dry run that raises leaves the credentials files it created; a reload that nginx refuses leaves those it wrote | `WebServer.py:195` | `CredentialsThere` is about missing files |
| A signal that meets main inside the queue's mutex, or inside the Throttler's lock, makes it wait for a lock it holds itself | `DockerEventListener.py:126`, `Throttler.py:62` | the mark "mishap" |
| The `RuntimeError` of `_cancel_all_timers` is swallowed by `_listen`: a SIGTERM is lost, or the last stop is cut short | `DockerEventListener.py:289` | the mark "mishap" |
| A SIGTERM before `start()` has set the server leaves nginx running | `NginxProxyApp.py:228` | "served" in `ExitStopsNginx` |
| A dispatcher that outlives the 5 s join reloads, and asks for reloads, after nginx was stopped | `DockerEventListener.py:114` | the mark "late" in `StoppedIsSilent` |
| A reload that a timer or the renewal thread is in the middle of goes on after nginx was stopped | `WebServer.py:344`, `Throttler.py:21` | `StoppedIsSilent` is about threads that wait |
| With a second client the end of one event stream leaves the process up and deaf to it | `DockerEventListener.py:209` | `EndsWhenAsked` is about the end of all streams |
| A service's virtual IP that took the port of its local tasks is back on port 80 when the last of them leaves: each rendering works on a copy (`WebServer.py:130`), while `test_service_vip_keeps_inferred_port_after_local_backend_is_removed` processes one object twice | `upstream_processor.py:20` | no property forbids it |
| An upstream that several locations share is sticky if the first of them is | `upstream_processor.py:20` | `UpstreamServes` takes any of them for the first |
| A server on 443 that only a redirect names is not secured | `pre_processors/redirect_processor.py:63` | `TlsKept` is about the hosts that use TLS |
| Of two instances that change one document the later write loses the other's rule | `CloudflareTunnelManager.py:123` | `overwritten` in `DoneStaysDone` |
| An `add_tunnel` that fails after it created the record cannot be repeated: the record exists | `CloudflareTunnelManager.py:120` | `DoneStaysDone` is about completed calls |
| Two instances that find no tunnel create one each | `CloudflareTunnelManager.py:17` | `DoneStaysDone` holds of either |

## 8. What is not modelled

- Text: parsing of `VIRTUAL_HOST`, directives, labels and Docker's answers, the layout of
  the template, error formatting.  The models begin where the text is understood.
- The default server and the other pre-processors that set one extra of a host or a
  location: pure functions of one environment.  Of basic auth only which files exist is
  modelled.
- `Nginx.push_config`, `pop_config`, `verify_domain`: used by tests or command line
  helpers only, and the config parser, which the tests use to read the rendered text.
- Certificates: the renewal thread belongs to an external library (AppLifecycle
  has what it calls and when it ends); the file chosen for a host
  (`_select_ssl_file`) and the self-signed fallback are not modelled.
- `DOCKER_SWARM=prefer-local`: the discovery of tasks beside their service.  What it does
  to the upstreams is in Upstreams.
- Reconnection: the code never reopens an event stream that has ended.  AppLifecycle
  models the end of a stream, and that the process ends with the last.
- `CloudflareTunnelManager.delete_tunnel` and the listings for display.  The script's own
  `__main__` uses `os` without importing it, so its methods are modelled as
  another program would call them.
- The other scripts (getssl, verify, reload, the container's entry point).
- Swarm and containers in one run: ContainerEvents and ServiceEvents share the queue
  but no key of any dict, so they are checked apart.

## 9. Plan

Done: the modules of section 3 and the proofs of section 6.

Left, in this order:

1. `Certificates`: the choice of a certificate file, wildcards and freshness, and the
   self-signed files of a rendering.
2. Larger instances: two containers that share the proxy's networks; two timer threads in
   WebServerTimers with fewer texts.
3. Proofs: what `RepairsHold` leaves of file, record and nginx where something raises.
