------------------------------ MODULE WebServer ------------------------------
(***************************************************************************)
(* nginx_proxy/WebServer.py: from a change of config_data to the config    *)
(* nginx serves.  One thread, the dispatcher (main before it is started),  *)
(* changes config_data, validates candidates and asks for reloads; timer   *)
(* threads of the Throttler run _do_reload on whatever config_data holds   *)
(* when they get to it.  They share config_data, the Throttler and the     *)
(* Nginx object, and only the Throttler has a lock.                        *)
(*                                                                         *)
(* config_data is the set of what is registered in it: backends and static *)
(* sites.  Rendering is injective on it, so the rendered text is the set.  *)
(* It names a credentials file for each backend that asks for one; every   *)
(* rendering writes such files, and a refused candidate takes back those   *)
(* it has created (of a file, only that it is there is modelled).          *)
(***************************************************************************)
EXTENDS Naturals, FiniteSets

CONSTANTS
  Dispatcher,   \* the thread that handles commands
  Timers, NoTask, NoTimer, Interval,          \* see Throttler
  Backends,     \* ids of containers and services
  Roots,        \* the backends whose virtual host takes "/" of the static site's host
  Statics,      \* the static sites and default pages found by a scan
  Protected,    \* the backends with credentials (PROXY_BASIC_AUTH)
  Valid,        \* the contents whose rendering nginx accepts
  Empty, Down, MasterDelay,                   \* see Nginx
  FailureModes, \* the values failures may have
  Crashes       \* TRUE: the container may be killed and restarted

Contents == SUBSET (Backends \cup Statics)
Threads == {Dispatcher} \cup Timers
Tasks == [force : BOOLEAN, validate : BOOLEAN]   \* the lambda of reload()

ASSUME DispatcherAssumption == Dispatcher \notin Timers
ASSUME NoTaskAssumption == NoTask \notin Tasks /\ NoTimer \notin Timers /\ Interval \in Nat
ASSUME BackendsAssumption ==
  Roots \subseteq Backends /\ Protected \subseteq Backends /\ Backends \cap Statics = {}
ASSUME ValidAssumption == Valid \subseteq Contents /\ {} \in Valid
ASSUME TextsAssumption == Empty # Down /\ \A text \in Contents : text # Empty /\ text # Down
ASSUME SwitchesAssumption ==
  FailureModes \subseteq BOOLEAN /\ Crashes \in BOOLEAN /\ MasterDelay \in BOOLEAN

VARIABLES
  failures,     \* fixed: a rendering or a scan of the static sites may raise (OSError)
  configData,   \* self.config_data
  job,          \* what the dispatcher is doing
  authFiles,    \* the backends whose credentials file (htpasswd) is on the disk
  created,      \* dry_run_auth_files of the validation under way
  unrendered,   \* history: config_data changed since _do_reload rendered it last
  raced,        \* history: two calls of Nginx overlapped since the last repair
  age, pending, timer, left, pc, held, owed, stopped,     \* the Throttler
  file, lastWorking, running, signalled, missed, op       \* the Nginx object

T == INSTANCE Throttler WITH Callers <- {Dispatcher}
N == INSTANCE Nginx WITH Configs <- Contents \cup {Empty}, Valid <- Valid \cup {Empty},
                         Short <- {Empty}, Default <- {}

throttlerVars == <<age, pending, timer, left, pc, held, owed, stopped>>
nginxVars == <<file, lastWorking, running, signalled, missed, op>>
disk == <<authFiles, created>>
serverVars == <<configData, job, unrendered, disk>>
vars == <<serverVars, failures, raced, throttlerVars, nginxVars>>

\* The dispatcher's position and what it still has to do: backends to register
\* in a rescan, the candidate under validation, and how it will publish.
NoJob == [at |-> "idle", todo |-> {}, cand |-> {}, how |-> "none",
          task |-> [force |-> FALSE, validate |-> TRUE]]

At(place) == job.at = place
Goto(place) == job' = [job EXCEPT !.at = place]

\* _register_static_sites: a static root is added unless a backend has "/".
WithStatics(data) == IF data \cap Roots = {} THEN data \cup Statics ELSE data

\* register_backend on a copy of config_data, after the removal of a backend of
\* that id; a backend that takes "/" removes the static root.
Candidate(data, b, registers) ==
  IF ~registers THEN data \ {b}
  ELSE (IF b \in Roots THEN data \ Statics ELSE data) \cup {b}

\* self.config_data is set, or changed in place.
Install(data) ==
  /\ configData' = data
  /\ unrendered' = (unrendered \/ data # configData)

-----------------------------------------------------------------------------
\* _validate_config_data: the dry run creates the files that are missing and
\* leaves the others alone, then nginx is asked.
DryRun(cand) ==
  /\ created' = (cand \cap Protected) \ authFiles
  /\ authFiles' = authFiles \cup created'
  /\ N!CallValidate(Dispatcher, cand)

\* Seeded fault: the files of the refused candidate are removed, whoever made them.
CleanUpAll == authFiles' = authFiles \ job.cand /\ created' = {}

\* _cleanup_dry_run_auth_files, of a refused candidate.
CleanUp == authFiles' = authFiles \ created /\ created' = {}

Keep == UNCHANGED authFiles /\ created' = {}

\* A rendering of data raises after it has written some of the files.
Interrupted(data) ==
  /\ \E written \in SUBSET (data \cap Protected) : authFiles' = authFiles \cup written
  /\ UNCHANGED created

\* _do_reload in thread h: render config_data, write the files it names, call
\* update_config.
DoReload(h, task) ==
  /\ unrendered' = FALSE
  /\ authFiles' = authFiles \cup (configData \cap Protected)
  /\ UNCHANGED created
  /\ N!CallUpdate(h, configData, task.force, task.validate)

\* update_backend(b): registers says whether its virtual hosts are reachable.
UpdateBackend(b, registers, replace) ==
  /\ At("idle")
  /\ b \in configData => replace
  /\ registers \/ b \in configData
  /\ LET cand == Candidate(configData, b, registers) IN
       /\ job' = [NoJob EXCEPT !.at = "update", !.cand = cand, !.how = "throttle",
                               !.task.validate = FALSE]
       /\ DryRun(cand)
  /\ UNCHANGED <<configData, unrendered, throttlerVars>>

\* Seeded faults: update_backend keeps a candidate nginx refused, and
\* remove_backend forgets to ask for a reload.
UpdateKeepsRefused ==
  /\ At("update") /\ N!Return(Dispatcher)
  /\ Install(job.cand) /\ Keep
  /\ job' = [job EXCEPT !.at = "publish", !.cand = {}]
  /\ UNCHANGED throttlerVars

RemoveForgetsReload(b) ==
  /\ At("idle") /\ b \in configData
  /\ Install(configData \ {b})
  /\ UNCHANGED <<job, disk, throttlerVars, nginxVars>>

\* _validate_config_data has answered update_backend.
UpdateValidated ==
  /\ At("update") /\ N!Returned(Dispatcher)
  /\ N!Return(Dispatcher)
  /\ IF op[Dispatcher].ok
     THEN Install(job.cand) /\ Keep /\ job' = [job EXCEPT !.at = "publish", !.cand = {}]
     ELSE UNCHANGED <<configData, unrendered>> /\ CleanUp /\ job' = NoJob
  /\ UNCHANGED throttlerVars

\* remove_backend(b): config_data is changed in place, then the static sites
\* are scanned again.
RemoveBackend(b) ==
  /\ At("idle")
  /\ b \in configData
  /\ Install(configData \ {b})
  /\ job' = [NoJob EXCEPT !.at = "next", !.how = "throttle"]
  /\ UNCHANGED <<disk, throttlerVars, nginxVars>>

\* rescan_all_container: the backends found are known before config_data is
\* emptied; how and force tell rescan_and_reload at start ("now"), the
\* RescanAndReload command ("direct") and a change of networks ("throttle").
RescanJob(found, how, force) ==
  [at |-> "next", todo |-> found, cand |-> {}, how |-> how,
   task |-> [force |-> force, validate |-> TRUE]]

Rescan(found, how, force) ==
  /\ At("idle")
  /\ how = "throttle" => ~force
  /\ Install({})
  /\ job' = RescanJob(found, how, force)
  /\ UNCHANGED <<disk, throttlerVars, nginxVars>>

\* The Reload command (the SSL thread has new certificates).
ReloadCommand(force) ==
  /\ At("idle")
  /\ job' = [NoJob EXCEPT !.at = "publish", !.how = "direct", !.task.force = force]
  /\ UNCHANGED <<configData, unrendered, disk, throttlerVars, nginxVars>>

\* rescan_all_container: update_backend(b, reload=False) for the next backend.
NextBackend ==
  /\ At("next")
  /\ \E b \in job.todo :
       LET cand == Candidate(configData, b, TRUE) IN
       /\ job' = [job EXCEPT !.at = "backend", !.todo = @ \ {b}, !.cand = cand]
       /\ DryRun(cand)
  /\ UNCHANGED <<configData, unrendered, throttlerVars>>

\* _register_static_sites, once all backends are registered.
NextStatics ==
  /\ At("next") /\ job.todo = {}
  /\ LET cand == WithStatics(configData) IN
       /\ job' = [job EXCEPT !.at = "statics", !.cand = cand]
       /\ DryRun(cand)
  /\ UNCHANGED <<configData, unrendered, throttlerVars>>

\* _validate_config_data has answered a step of a rescan or a removal.
StepValidated ==
  /\ At("backend") \/ At("statics")
  /\ N!Returned(Dispatcher)
  /\ N!Return(Dispatcher)
  /\ IF op[Dispatcher].ok THEN Install(job.cand) /\ Keep
     ELSE UNCHANGED <<configData, unrendered>> /\ CleanUp
  /\ job' = [job EXCEPT !.at = IF At("backend") THEN "next" ELSE "publish", !.cand = {}]
  /\ UNCHANGED throttlerVars

\* The step raises before it calls Nginx; the dispatcher logs it and goes on.
\* (In the first rescan this ends the process instead: see Crash.)
StepRaises ==
  /\ failures
  /\ At("next") /\ job.how # "now"
  /\ job' = NoJob /\ Interrupted(configData \cup job.todo)
  /\ UNCHANGED <<configData, unrendered, throttlerVars, nginxVars>>

\* reload(): throttle() runs _do_reload in this thread ...
PublishNow ==
  /\ At("publish") /\ job.how \in {"throttle", "now"}
  /\ T!RunNow(Dispatcher, job.task, job.how = "now")
  /\ Goto("taken")
  /\ UNCHANGED <<configData, unrendered, disk, nginxVars>>

\* ... or leaves it to a timer.
PublishLater ==
  /\ At("publish") /\ job.how = "throttle"
  /\ T!Schedule(Dispatcher, job.task) \/ T!Replace(Dispatcher, job.task)
  /\ job' = NoJob
  /\ UNCHANGED <<configData, unrendered, disk, nginxVars>>

\* _dispatch calls _do_reload itself, past the throttler.
PublishDirect ==
  /\ At("publish") /\ job.how = "direct"
  /\ DoReload(Dispatcher, job.task)
  /\ Goto("reload")
  /\ UNCHANGED <<configData, throttlerVars>>

\* throttle() has released its lock and calls the task.
BeginReload ==
  /\ At("taken")
  /\ T!Begin(Dispatcher)
  /\ DoReload(Dispatcher, held[Dispatcher])
  /\ Goto("reload")
  /\ UNCHANGED configData

\* The rendering raises before Nginx is called: the thread has only to end the
\* task, and what it should have published is not rendered.
ReloadRaises(h) ==
  /\ failures
  /\ h = Dispatcher => job.how # "now"
  /\ T!Begin(h)
  /\ job' = IF h = Dispatcher THEN [job EXCEPT !.at = "reload"] ELSE job
  /\ Interrupted(configData)
  /\ UNCHANGED <<configData, unrendered, nginxVars>>

DirectRaises ==
  /\ failures
  /\ At("publish") /\ job.how = "direct"
  /\ job' = NoJob /\ Interrupted(configData)
  /\ UNCHANGED <<configData, unrendered, throttlerVars, nginxVars>>

\* update_config has returned, or the rendering has raised.
Ended(h) == N!Return(h) \/ (N!Idle(h) /\ UNCHANGED nginxVars)

EndReload ==
  /\ At("reload")
  /\ Ended(Dispatcher)
  /\ IF pc[Dispatcher] = "in" THEN T!Finish(Dispatcher) ELSE UNCHANGED throttlerVars
  /\ job' = NoJob
  /\ UNCHANGED <<configData, unrendered, disk>>

\* A timer thread of the throttler: its wait, _trigger, and the task.
TimerFires(t) == (T!Fire(t) \/ T!Trigger(t)) /\ UNCHANGED <<serverVars, nginxVars>>

TimerBegins(t) ==
  /\ T!Begin(t)
  /\ DoReload(t, held[t])
  /\ UNCHANGED <<configData, job>>

TimerEnds(t) ==
  /\ Ended(t)
  /\ T!Finish(t)
  /\ UNCHANGED serverVars

\* A step inside a call of Nginx, the nginx master, and the clock.
NginxStep(h) == N!Step(h) /\ UNCHANGED <<serverVars, throttlerVars>>
MasterReload == N!MasterReload /\ UNCHANGED <<serverVars, throttlerVars>>
Tick == T!Tick /\ UNCHANGED <<serverVars, nginxVars>>

-----------------------------------------------------------------------------
\* The container is killed: only the files survive.
Crash ==
  /\ Crashes
  /\ N!Crash
  /\ T!Restart
  /\ configData' = {} /\ unrendered' = FALSE /\ Keep
  /\ job' = [NoJob EXCEPT !.at = "boot"]

\* WebServer.__init__: nginx.setup ...
BootNginx ==
  /\ At("boot")
  /\ N!Setup(Dispatcher) \/ N!ForceStart(Dispatcher) \/ N!Return(Dispatcher)
  /\ UNCHANGED <<serverVars, throttlerVars>>

\* ... then rescan_and_reload(force=True).
BootRescan(found) ==
  /\ At("boot") /\ running # Down /\ N!Idle(Dispatcher)
  /\ job' = RescanJob(found, "now", TRUE)
  /\ UNCHANGED <<configData, unrendered, disk, throttlerVars, nginxVars>>

Init ==
  /\ failures \in FailureModes
  /\ configData = {} /\ unrendered = FALSE
  /\ authFiles = {} /\ created = {}
  /\ raced = FALSE
  /\ \E found \in SUBSET Backends : job = RescanJob(found, "now", TRUE)
  /\ T!Init
  /\ N!Init

\* The environment's commands, taken from the queue one after the other.
Commands ==
  \/ \E b \in Backends, registers, replace \in BOOLEAN : UpdateBackend(b, registers, replace)
  \/ \E b \in Backends : RemoveBackend(b)
  \/ \E found \in SUBSET Backends, how \in {"direct", "throttle"}, force \in BOOLEAN :
       Rescan(found, how, force)
  \/ \E force \in BOOLEAN : ReloadCommand(force)

\* The dispatcher's own steps while it handles a command.
Dispatch ==
  \/ UpdateValidated \/ NextBackend \/ NextStatics \/ StepValidated \/ StepRaises
  \/ PublishNow \/ PublishLater \/ PublishDirect \/ BeginReload \/ EndReload
  \/ ReloadRaises(Dispatcher) \/ DirectRaises
  \/ BootNginx \/ \E found \in SUBSET Backends : BootRescan(found)

TimerThread(t) == TimerFires(t) \/ TimerBegins(t) \/ ReloadRaises(t) \/ TimerEnds(t)

InCall(o) == {h \in Threads : o[h].at \notin {"none", "returned"}}

\* A forced rescan that starts while no other thread is inside Nginx repairs.
Repairs == (At("idle") \/ At("boot")) /\ job'.at = "next" /\ job'.task.force /\ InCall(op) = {}

Observed ==
  /\ raced' = IF Repairs THEN FALSE ELSE raced \/ Cardinality(InCall(op')) > 1
  /\ UNCHANGED failures

Next ==
  /\ \/ Commands \/ Dispatch
     \/ \E t \in Timers : TimerThread(t)
     \/ \E h \in Threads : NginxStep(h)
     \/ MasterReload \/ Tick \/ Crash
  /\ Observed

\* Threads that can go on do, time passes, nginx follows its signals.  Commands
\* come from outside, and nothing has to fail or crash.
Fairness ==
  /\ WF_vars(Dispatch /\ Observed)
  /\ \A h \in Threads : WF_vars(NginxStep(h) /\ Observed)
  /\ \A t \in Timers : WF_vars(TimerThread(t) /\ Observed)
  /\ WF_vars(MasterReload /\ Observed)
  /\ WF_vars(Tick /\ Observed)

Spec == Init /\ [][Next]_vars
FairSpec == Spec /\ Fairness

-----------------------------------------------------------------------------
\* No change of config_data stays unpublished where nothing raises: when the
\* dispatcher is done with a command and what it left has not been rendered, a
\* reload is pending in the throttler or a timer thread is about to render.
NoLostRender ==
  ~failures /\ At("idle") /\ unrendered =>
    pending # NoTask \/ \E t \in Timers : pc[t] = "taken"

Quiet ==
  /\ At("idle") /\ signalled = Down
  /\ pending = NoTask /\ \A h \in Threads : pc[h] = "out" /\ N!Idle(h)

Consistent == running = configData /\ lastWorking = configData /\ file = configData

\* When nothing is under way, the file, last_working_config and nginx have the
\* same config, whatever raised on the way; where nothing may raise, it is the
\* one that config_data describes.
QuietIsConsistent ==
  Quiet => /\ file = lastWorking /\ running = lastWorking
           /\ ~failures => Consistent

\* Only overlapping calls of Nginx and a master that reads too late can break
\* this, and a forced rescan that starts between calls (SIGHUP, a restart)
\* repairs whatever they broke.
RepairedIsConsistent == Quiet /\ ~raced /\ N!Followed => Consistent

\* The credentials files which the served config names are on the disk, and so
\* are those of the config that a failed update would go back to: no refused
\* candidate, no failure and no restart takes one away.
CredentialsThere ==
  ~raced => \A text \in {running, lastWorking} \ {Down, Empty} :
              text \cap Protected \subseteq authFiles

\* update_backend never keeps a config nginx refuses.
AcceptedIsValid == configData \in Valid

\* With no overlap possible, WebServer is a publisher of config_data, excused
\* from publishing everything where it may raise.
Publisher == INSTANCE ConfigPublisher WITH wanted <- configData, served <- running,
                                           excused <- failures
ImplementsPublisher == Publisher!FairSpec
=============================================================================
