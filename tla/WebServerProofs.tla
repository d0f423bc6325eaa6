--------------------------- MODULE WebServerProofs ---------------------------
(***************************************************************************)
(* Proofs about WebServer, for any interval, any set of backends and static *)
(* sites, with crashes and with renderings that raise.  The first part is   *)
(* about any number of timer threads; the second, from Serial on, is about  *)
(* none, where it takes the invariant of the Nginx object from NginxProofs; *)
(* the third, from Truthful on, is about any number again, and what a       *)
(* forced rescan repairs.  The last is about Rendering, the step of         *)
(* WebServer that makes a text of config_data.                              *)
(***************************************************************************)
EXTENDS WebServer, Rendering, FiniteSetTheorems, SequenceTheorems, TLAPS

\* A reload is on its way: in the slot, or in a timer thread about to render.
ReloadComing == pending # NoTask \/ \E t \in Timers : pc[t] = "taken"

\* The record the dispatcher's position is kept in.
JobShape(j) ==
  /\ j = [at |-> j.at, todo |-> j.todo, cand |-> j.cand, how |-> j.how, task |-> j.task]
  /\ j.task \in Tasks

\* What is known of the dispatcher's position where nothing raises: while it
\* has changed nothing since it was idle, an unrendered change has its reload
\* coming; once it has rendered for a command, nothing is left to render.
PlaceInv ==
  /\ ~failures /\ job.at \in {"idle", "update"} /\ unrendered => ReloadComing
  /\ ~failures /\ job.at = "reload" => ~unrendered
  /\ JobShape(job)
  /\ failures \/ job.how \in {"throttle", "now", "direct"} \/ job.at \in {"idle", "boot"}

PcType == pc \in [Threads -> {"out", "armed", "fired", "taken", "in"}]

IndInv == PcType /\ PlaceInv

USE DispatcherAssumption, NoTaskAssumption, SwitchesAssumption

\* The two records a position starts from have that shape.
LEMMA JobTypes ==
  /\ NoJob.at = "idle" /\ JobShape(NoJob)
  /\ \A found, how, force : force \in BOOLEAN =>
       /\ RescanJob(found, how, force).at = "next"
       /\ RescanJob(found, how, force).how = how
       /\ JobShape(RescanJob(found, how, force))
<1>1. NoJob.at = "idle" /\ JobShape(NoJob)
  BY DEF NoJob, Tasks, JobShape
<1>2. ASSUME NEW found, NEW how, NEW force \in BOOLEAN
      PROVE  /\ RescanJob(found, how, force).at = "next"
             /\ RescanJob(found, how, force).how = how
             /\ JobShape(RescanJob(found, how, force))
  BY <1>2 DEF RescanJob, Tasks, JobShape
<1>. QED
  BY <1>1, <1>2

\* The initial states satisfy the invariant: the first rescan is under way.
LEMMA InitInv == Init => IndInv
<1>. SUFFICES ASSUME Init PROVE IndInv
  OBVIOUS
<1>1. PICK found \in SUBSET Backends : job = RescanJob(found, "now", TRUE)
  BY DEF Init
<1>2. PcType
  BY DEF Init, T!Init, T!Threads, PcType, Threads
<1>3. job.at = "next" /\ job.how = "now" /\ JobShape(job)
  BY <1>1, JobTypes
<1>4. PlaceInv
  BY <1>3 DEF PlaceInv
<1>. QED
  BY <1>2, <1>4 DEF IndInv

\* Every step of the throttler keeps the type of the thread positions.
LEMMA ThrottlerPc ==
  ASSUME PcType,
         \/ \E task, immediate : T!RunNow(Dispatcher, task, immediate)
         \/ \E task : T!Schedule(Dispatcher, task) \/ T!Replace(Dispatcher, task)
         \/ \E t \in Timers : T!Fire(t) \/ T!Trigger(t)
         \/ \E h \in Threads : T!Begin(h) \/ T!Finish(h)
         \/ T!Tick
         \/ T!Restart
         \/ UNCHANGED throttlerVars
  PROVE  PcType'
<1>. USE DEF PcType
<1>1. Timers \subseteq Threads /\ Dispatcher \in Threads /\ T!Threads = Threads
  BY DEF Threads, T!Threads
<1>2. ASSUME NEW task, NEW immediate, T!RunNow(Dispatcher, task, immediate) PROVE PcType'
  BY <1>1, <1>2 DEF T!RunNow, T!Cancelled
<1>3. ASSUME NEW task, T!Schedule(Dispatcher, task) \/ T!Replace(Dispatcher, task) PROVE PcType'
  BY <1>1, <1>3 DEF T!Schedule, T!Replace
<1>4. ASSUME NEW t \in Timers, T!Fire(t) \/ T!Trigger(t) PROVE PcType'
  BY <1>1, <1>4 DEF T!Fire, T!Trigger
<1>5. ASSUME NEW h \in Threads, T!Begin(h) \/ T!Finish(h) PROVE PcType'
  BY <1>1, <1>5 DEF T!Begin, T!Finish
<1>6. CASE T!Tick
  BY <1>6 DEF T!Tick
<1>7. CASE T!Restart
  BY <1>1, <1>7 DEF T!Restart
<1>8. CASE UNCHANGED throttlerVars
  BY <1>8 DEF throttlerVars
<1>. QED
  BY <1>2, <1>3, <1>4, <1>5, <1>6, <1>7, <1>8

\* A command taken from the queue: the dispatcher leaves "idle" with the
\* obligation to publish, or, in update_backend, with nothing changed yet.
LEMMA CommandInv ==
  ASSUME IndInv, Commands, UNCHANGED failures
  PROVE  IndInv'
<1>. USE DEF IndInv
<1>1. UNCHANGED throttlerVars
  BY DEF Commands, UpdateBackend, RemoveBackend, Rescan, ReloadCommand
<1>2. PcType'
  BY <1>1, ThrottlerPc
<1>3. ReloadComing' = ReloadComing
  BY <1>1 DEF ReloadComing, throttlerVars
<1>4. ASSUME NEW b \in Backends, NEW registers \in BOOLEAN, NEW replace \in BOOLEAN,
             UpdateBackend(b, registers, replace)
      PROVE  PlaceInv'
  BY <1>3, <1>4 DEF UpdateBackend, At, PlaceInv, NoJob, Tasks, JobShape
<1>5. ASSUME NEW b \in Backends, RemoveBackend(b) PROVE PlaceInv'
  BY <1>5 DEF RemoveBackend, PlaceInv, NoJob, Tasks, JobShape
<1>6. ASSUME NEW found \in SUBSET Backends, NEW how \in {"direct", "throttle"},
             NEW force \in BOOLEAN, Rescan(found, how, force)
      PROVE  PlaceInv'
  BY <1>6, JobTypes DEF Rescan, PlaceInv
<1>7. ASSUME NEW force \in BOOLEAN, ReloadCommand(force) PROVE PlaceInv'
  BY <1>7 DEF ReloadCommand, PlaceInv, NoJob, Tasks, JobShape
<1>. QED
  BY <1>2, <1>4, <1>5, <1>6, <1>7 DEF Commands

\* A step that raises keeps the types, and there is none without failures.
LEMMA RaisesInv ==
  ASSUME IndInv, UNCHANGED failures,
         StepRaises \/ DirectRaises \/ \E h \in Threads : ReloadRaises(h)
  PROVE  IndInv'
<1>1. failures
  BY DEF StepRaises, DirectRaises, ReloadRaises
<1>2. PcType'
  BY ThrottlerPc DEF StepRaises, DirectRaises, ReloadRaises, IndInv
<1>3. JobShape(job')
  <2>1. CASE StepRaises \/ DirectRaises
    BY <2>1, JobTypes DEF StepRaises, DirectRaises
  <2>2. ASSUME NEW h \in Threads, ReloadRaises(h) PROVE JobShape(job')
    BY <2>2 DEF ReloadRaises, IndInv, PlaceInv, JobShape
  <2>. QED
    BY <2>1, <2>2
<1>. QED
  BY <1>1, <1>2, <1>3 DEF IndInv, PlaceInv

\* A step of the dispatcher that does not raise: it comes back to "idle" only
\* with its change rendered, handed to the throttler, or not made at all.
LEMMA DispatchInv ==
  ASSUME IndInv, UNCHANGED failures, Dispatch,
         ~StepRaises, ~DirectRaises, ~ReloadRaises(Dispatcher)
  PROVE  IndInv'
<1>. USE DEF IndInv
<1>1. Dispatcher \in Threads
  BY DEF Threads
<1>2. PcType'
  <2>1. CASE PublishNow
    BY <2>1, ThrottlerPc DEF PublishNow
  <2>2. CASE PublishLater
    BY <2>2, ThrottlerPc DEF PublishLater
  <2>3. CASE BeginReload
    BY <2>3, <1>1, ThrottlerPc DEF BeginReload
  <2>4. CASE EndReload
    BY <2>4, <1>1, ThrottlerPc DEF EndReload
  <2>5. CASE \/ UpdateValidated \/ NextBackend \/ NextStatics \/ StepValidated
             \/ PublishDirect \/ BootNginx \/ \E found \in SUBSET Backends : BootRescan(found)
    BY <2>5, ThrottlerPc
       DEF UpdateValidated, NextBackend, NextStatics, StepValidated, PublishDirect,
           BootNginx, BootRescan
  <2>. QED
    BY <2>1, <2>2, <2>3, <2>4, <2>5 DEF Dispatch
<1>3. PlaceInv'
  <2>1. CASE UpdateValidated
    <3>1. ReloadComing' = ReloadComing
      BY <2>1 DEF UpdateValidated, ReloadComing, throttlerVars
    <3>. QED
      BY <2>1, <3>1, JobTypes DEF UpdateValidated, PlaceInv, At, JobShape
  <2>2. CASE NextBackend \/ NextStatics
    BY <2>2 DEF NextBackend, NextStatics, PlaceInv, At, JobShape
  <2>9. CASE StepValidated
    <3>1. job'.at \in {"next", "publish"} /\ job'.how = job.how /\ JobShape(job')
      BY <2>9 DEF StepValidated, PlaceInv, JobShape
    <3>2. job.at \in {"backend", "statics"}
      BY <2>9 DEF StepValidated, At
    <3>. QED
      BY <3>1, <3>2 DEF PlaceInv
  <2>3. CASE PublishNow
    BY <2>3 DEF PublishNow, PlaceInv, At, Goto, JobShape
  <2>4. CASE PublishLater
    <3>1. job.task # NoTask
      BY DEF PlaceInv, JobShape
    <3>2. ReloadComing'
      BY <2>4, <3>1 DEF PublishLater, T!Schedule, T!Replace, ReloadComing
    <3>. QED
      BY <2>4, <3>2, JobTypes DEF PublishLater, PlaceInv
  <2>5. CASE PublishDirect \/ BeginReload
    BY <2>5 DEF PublishDirect, BeginReload, DoReload, PlaceInv, At, Goto, JobShape
  <2>6. CASE EndReload
    BY <2>6, JobTypes DEF EndReload, PlaceInv, At
  <2>7. CASE BootNginx
    BY <2>7 DEF BootNginx, PlaceInv, At, serverVars
  <2>8. ASSUME NEW found \in SUBSET Backends, BootRescan(found) PROVE PlaceInv'
    <3>1. job' = RescanJob(found, "now", TRUE)
      BY <2>8 DEF BootRescan
    <3>2. job'.at = "next" /\ job'.how = "now" /\ JobShape(job')
      BY <3>1, JobTypes
    <3>. QED
      BY <3>2 DEF PlaceInv
  <2>. QED
    BY <2>1, <2>2, <2>3, <2>4, <2>5, <2>6, <2>7, <2>8, <2>9 DEF Dispatch
<1>. QED
  BY <1>2, <1>3

\* A step of a timer thread: _trigger moves the pending task to the thread, and
\* only a rendering ends its coming.
LEMMA TimerInv ==
  ASSUME IndInv, UNCHANGED failures, NEW t \in Timers, TimerThread(t), ~ReloadRaises(t)
  PROVE  IndInv'
<1>. USE DEF IndInv
<1>1. t \in Threads /\ t # Dispatcher
  BY DEF Threads
<1>2. PcType'
  BY <1>1, ThrottlerPc DEF TimerThread, TimerFires, TimerBegins, TimerEnds
<1>3. CASE T!Fire(t) /\ UNCHANGED serverVars
  <2>1. ReloadComing => ReloadComing'
    BY <1>1, <1>3 DEF T!Fire, ReloadComing, PcType, Threads
  <2>. QED
    BY <1>2, <1>3, <2>1 DEF PlaceInv, serverVars
<1>4. CASE T!Trigger(t) /\ UNCHANGED serverVars
  <2>1. ReloadComing => ReloadComing'
    BY <1>1, <1>4 DEF T!Trigger, ReloadComing, PcType, Threads
  <2>. QED
    BY <1>2, <1>4, <2>1 DEF PlaceInv, serverVars
<1>5. CASE TimerBegins(t)
  BY <1>2, <1>5 DEF TimerBegins, DoReload, PlaceInv
<1>6. CASE TimerEnds(t)
  <2>1. ReloadComing => ReloadComing'
    BY <1>1, <1>6 DEF TimerEnds, T!Finish, ReloadComing, PcType, Threads
  <2>. QED
    BY <1>2, <1>6, <2>1 DEF TimerEnds, PlaceInv, serverVars
<1>. QED
  BY <1>3, <1>4, <1>5, <1>6 DEF TimerThread, TimerFires

\* Steps inside Nginx, of its master and of the clock change nothing here.
LEMMA OtherInv ==
  ASSUME IndInv, UNCHANGED failures,
         \/ \E h \in Threads : NginxStep(h)
         \/ MasterReload \/ Tick \/ UNCHANGED vars
  PROVE  IndInv'
<1>. USE DEF IndInv
<1>1. UNCHANGED serverVars /\ UNCHANGED <<pc, pending>>
  BY DEF NginxStep, MasterReload, Tick, T!Tick, vars, throttlerVars
<1>. QED
  BY <1>1 DEF PcType, PlaceInv, ReloadComing, serverVars

\* A crash leaves a dispatcher that has to boot and rescan.
LEMMA CrashInv ==
  ASSUME IndInv, UNCHANGED failures, Crash
  PROVE  IndInv'
<1>1. PcType'
  BY ThrottlerPc DEF Crash, IndInv
<1>2. PlaceInv'
  BY DEF Crash, PlaceInv, NoJob, Tasks, JobShape
<1>. QED
  BY <1>1, <1>2 DEF IndInv

LEMMA IndStep == ASSUME IndInv, [Next]_vars PROVE IndInv'
<1>1. UNCHANGED failures
  BY DEF Next, Observed, vars
<1>. QED
  BY <1>1, CommandInv, RaisesInv, DispatchInv, TimerInv, OtherInv, CrashInv
     DEF Next, Threads, Dispatch, TimerThread

\* Every change of config_data is followed by a rendering: none is lost to a
\* stale timer, a throttled call, a concurrent task or a crash, where the
\* rendering itself does not raise.
THEOREM RenderNotLost == Spec => []NoLostRender
<1>1. IndInv /\ [Next]_vars => IndInv'
  BY IndStep
<1>2. IndInv => NoLostRender
  BY DEF IndInv, PlaceInv, ReloadComing, NoLostRender, At
<1>. QED
  BY InitInv, <1>1, <1>2, PTL DEF Spec
-----------------------------------------------------------------------------
\* How WebServer uses Nginx, whatever threads run: it calls it only with the
\* texts of contents, and only while there is a master to tell of a reload.
P == INSTANCE NginxProofs WITH Configs <- Contents \cup {Empty}, Valid <- Valid \cup {Empty},
                               Short <- {Empty}, Default <- {}

TaskTypes ==
  /\ pending \in Tasks \cup {NoTask}
  /\ held \in [Threads -> Tasks \cup {NoTask}]
  /\ \A h \in Threads : pc[h] = "taken" => held[h] # NoTask

ContentTypes ==
  /\ job.todo \subseteq Backends /\ job.cand \in Contents
  /\ configData \in Contents

Booted ==
  /\ At("boot") => \A h \in Threads : pc[h] = "out"
  /\ ~At("boot") => running # Down

Taken == pc[Dispatcher] = "taken" => At("taken")

CallerInv == IndInv /\ TaskTypes /\ ContentTypes /\ Booted /\ Taken

LEMMA CallerInit == Init => CallerInv
<1>. SUFFICES ASSUME Init PROVE CallerInv
  OBVIOUS
<1>1. PICK found \in SUBSET Backends : job = RescanJob(found, "now", TRUE)
  BY DEF Init
<1>2. TaskTypes
  BY DEF Init, T!Init, T!Threads, Threads, TaskTypes
<1>3. ContentTypes
  BY <1>1 DEF Init, RescanJob, ContentTypes, Contents
<1>4. Booted
  BY <1>1, TextsAssumption DEF Init, N!Init, RescanJob, Booted, At, Contents
<1>5. Taken
  BY DEF Init, T!Init, T!Threads, Taken
<1>. QED
  BY <1>2, <1>3, <1>4, <1>5, InitInv DEF CallerInv

\* Every step of the throttler keeps the types of the tasks.
LEMMA ThrottlerTasks ==
  ASSUME PcType, TaskTypes,
         \/ \E task \in Tasks, immediate \in BOOLEAN : T!RunNow(Dispatcher, task, immediate)
         \/ \E task \in Tasks : T!Schedule(Dispatcher, task) \/ T!Replace(Dispatcher, task)
         \/ \E t \in Timers : T!Fire(t) \/ T!Trigger(t)
         \/ \E h \in Threads : T!Begin(h) \/ T!Finish(h)
         \/ T!Tick
         \/ T!Restart
         \/ UNCHANGED throttlerVars
  PROVE  TaskTypes'
<1>. USE DEF PcType, TaskTypes
<1>1. Timers \subseteq Threads /\ Dispatcher \in Threads /\ T!Threads = Threads
  BY DEF Threads, T!Threads
<1>2. ASSUME NEW task \in Tasks, NEW immediate \in BOOLEAN, T!RunNow(Dispatcher, task, immediate) PROVE TaskTypes'
  <2>1. \A h \in Threads : pc'[h] = "taken" => h = Dispatcher \/ pc[h] = "taken"
    BY <1>1, <1>2 DEF T!RunNow, T!Cancelled
  <2>2. pending' = NoTask /\ held' = [held EXCEPT ![Dispatcher] = task]
    BY <1>2 DEF T!RunNow
  <2>. QED
    BY <1>1, <2>1, <2>2
<1>3. ASSUME NEW task \in Tasks, T!Schedule(Dispatcher, task) PROVE TaskTypes'
  BY <1>1, <1>3 DEF T!Schedule
<1>9. ASSUME NEW task \in Tasks, T!Replace(Dispatcher, task) PROVE TaskTypes'
  BY <1>1, <1>9 DEF T!Replace
<1>4. ASSUME NEW t \in Timers, T!Fire(t) \/ T!Trigger(t) PROVE TaskTypes'
  BY <1>1, <1>4 DEF T!Fire, T!Trigger
<1>5. ASSUME NEW h \in Threads, T!Begin(h) \/ T!Finish(h) PROVE TaskTypes'
  BY <1>1, <1>5 DEF T!Begin, T!Finish
<1>6. CASE T!Tick
  BY <1>6 DEF T!Tick
<1>7. CASE T!Restart
  BY <1>1, <1>7 DEF T!Restart
<1>8. CASE UNCHANGED throttlerVars
  BY <1>8 DEF throttlerVars
<1>. QED
  BY <1>2, <1>3, <1>4, <1>5, <1>6, <1>7, <1>8, <1>9

LEMMA CallerTasks == ASSUME CallerInv, [Next]_vars PROVE TaskTypes'
<1>. USE DEF CallerInv, IndInv
<1>1. job.task \in Tasks
  BY DEF PlaceInv, JobShape
<1>2. Dispatcher \in Threads /\ Timers \subseteq Threads
  BY DEF Threads
<1>3. \/ \E task \in Tasks, immediate \in BOOLEAN : T!RunNow(Dispatcher, task, immediate)
      \/ \E task \in Tasks : T!Schedule(Dispatcher, task) \/ T!Replace(Dispatcher, task)
      \/ \E t \in Timers : T!Fire(t) \/ T!Trigger(t)
      \/ \E h \in Threads : T!Begin(h) \/ T!Finish(h)
      \/ T!Tick
      \/ T!Restart
      \/ UNCHANGED throttlerVars
  <2>1. CASE Commands
    BY <2>1 DEF Commands, UpdateBackend, RemoveBackend, Rescan, ReloadCommand
  <2>2. CASE PublishNow
    BY <1>1, <2>2 DEF PublishNow
  <2>3. CASE PublishLater
    BY <1>1, <2>3 DEF PublishLater
  <2>4. CASE BeginReload \/ EndReload \/ ReloadRaises(Dispatcher)
    BY <1>2, <2>4 DEF BeginReload, EndReload, ReloadRaises
  <2>5. CASE \/ UpdateValidated \/ NextBackend \/ NextStatics \/ StepValidated \/ StepRaises
             \/ PublishDirect \/ DirectRaises
             \/ BootNginx \/ \E found \in SUBSET Backends : BootRescan(found)
    BY <2>5 DEF UpdateValidated, NextBackend, NextStatics, StepValidated, StepRaises,
       PublishDirect, DirectRaises, BootNginx, BootRescan
  <2>6. ASSUME NEW t \in Timers, TimerThread(t)
        PROVE  \/ T!Fire(t) \/ T!Trigger(t) \/ T!Begin(t) \/ T!Finish(t)
    BY <2>6 DEF TimerThread, TimerFires, TimerBegins, TimerEnds, ReloadRaises
  <2>7. CASE MasterReload \/ Tick \/ Crash \/ (\E h \in Threads : NginxStep(h)) \/ UNCHANGED vars
    BY <2>7 DEF MasterReload, Tick, Crash, NginxStep, vars
  <2>. QED
    BY <1>2, <2>1, <2>2, <2>3, <2>4, <2>5, <2>6, <2>7 DEF Next, Dispatch
<1>. QED
  BY <1>3, ThrottlerTasks

\* A candidate is a content, and so is one with the static sites.
LEMMA CandidateType ==
  ASSUME NEW data \in Contents, NEW b \in Backends, NEW registers
  PROVE  Candidate(data, b, registers) \in Contents /\ WithStatics(data) \in Contents
<1>. QED
  BY DEF Candidate, WithStatics, Contents

LEMMA CallerContents == ASSUME CallerInv, [Next]_vars PROVE ContentTypes'
<1>. USE DEF CallerInv
<1>1. /\ JobShape(job) /\ job.cand \in Contents /\ configData \in Contents
      /\ job.todo \subseteq Backends
  BY DEF IndInv, PlaceInv, ContentTypes
<1>2. {} \in Contents /\ \A d \in Contents : \A b : d \ {b} \in Contents
  BY DEF Contents
<1>3. NoJob.todo = {} /\ NoJob.cand = {}
  BY DEF NoJob
<1>4. CASE Commands
  <2>1. ASSUME NEW b \in Backends, NEW registers \in BOOLEAN, NEW replace \in BOOLEAN,
               UpdateBackend(b, registers, replace)
        PROVE  ContentTypes'
    <3>1. Candidate(configData, b, registers) \in Contents
      BY <1>1, CandidateType
    <3>. QED
      BY <1>1, <2>1, <3>1 DEF UpdateBackend, NoJob, ContentTypes
  <2>2. ASSUME NEW b \in Backends, RemoveBackend(b) PROVE ContentTypes'
    BY <1>1, <1>2, <2>2 DEF RemoveBackend, Install, NoJob, ContentTypes
  <2>3. ASSUME NEW found \in SUBSET Backends, NEW how \in {"direct", "throttle"},
               NEW force \in BOOLEAN, Rescan(found, how, force)
        PROVE  ContentTypes'
    BY <1>2, <2>3 DEF Rescan, Install, RescanJob, ContentTypes
  <2>4. ASSUME NEW force \in BOOLEAN, ReloadCommand(force) PROVE ContentTypes'
    BY <1>1, <1>2, <2>4 DEF ReloadCommand, NoJob, ContentTypes
  <2>. QED
    BY <1>4, <2>1, <2>2, <2>3, <2>4 DEF Commands
<1>5. CASE UpdateValidated \/ StepValidated
  <2>1. configData' \in {configData, job.cand}
    BY <1>5 DEF UpdateValidated, StepValidated, Install
  <2>2. job'.todo \in {job.todo, {}} /\ job'.cand = {}
    BY <1>1, <1>3, <1>5 DEF UpdateValidated, StepValidated, JobShape
  <2>. QED
    BY <1>1, <1>2, <2>1, <2>2 DEF ContentTypes
<1>6. CASE NextBackend
  <2>1. PICK b \in job.todo :
          job' = [job EXCEPT !.at = "backend", !.todo = @ \ {b}, !.cand = Candidate(configData, b, TRUE)]
    BY <1>6 DEF NextBackend
  <2>2. Candidate(configData, b, TRUE) \in Contents
    BY <1>1, CandidateType
  <2>3. configData' = configData
    BY <1>6 DEF NextBackend
  <2>. QED
    BY <1>1, <2>1, <2>2, <2>3 DEF ContentTypes, JobShape
<1>7. CASE NextStatics
  <2>1. WithStatics(configData) \in Contents
    BY <1>1 DEF WithStatics, Contents
  <2>2. job' = [job EXCEPT !.at = "statics", !.cand = WithStatics(configData)] /\ configData' = configData
    BY <1>7 DEF NextStatics
  <2>. QED
    BY <1>1, <2>1, <2>2 DEF ContentTypes, JobShape
<1>8. CASE \/ StepRaises \/ PublishNow \/ PublishLater \/ PublishDirect \/ BeginReload \/ EndReload
           \/ ReloadRaises(Dispatcher) \/ DirectRaises \/ BootNginx
  <2>1. configData' = configData
    BY <1>8 DEF StepRaises, PublishNow, PublishLater, PublishDirect, BeginReload, EndReload,
       ReloadRaises, DirectRaises, BootNginx, serverVars
  <2>2. job' \in {job, NoJob, [job EXCEPT !.at = "taken"], [job EXCEPT !.at = "reload"]}
    BY <1>8 DEF StepRaises, PublishNow, PublishLater, PublishDirect, BeginReload, EndReload,
       ReloadRaises, DirectRaises, BootNginx, serverVars, Goto
  <2>. QED
    BY <1>1, <1>2, <1>3, <2>1, <2>2 DEF ContentTypes, JobShape
<1>9. ASSUME NEW found \in SUBSET Backends, BootRescan(found) PROVE ContentTypes'
  BY <1>1, <1>2, <1>9 DEF BootRescan, RescanJob, ContentTypes
<1>10. CASE Crash
  BY <1>2, <1>10 DEF Crash, NoJob, ContentTypes
<1>11. CASE \/ \E t \in Timers : TimerThread(t)
            \/ \E h \in Threads : NginxStep(h)
            \/ MasterReload \/ Tick \/ UNCHANGED vars
  <2>1. UNCHANGED <<job, configData>>
    BY <1>11 DEF TimerThread, TimerFires, TimerBegins, TimerEnds, ReloadRaises, NginxStep,
       MasterReload, Tick, vars, serverVars
  <2>. QED
    BY <1>1, <2>1 DEF ContentTypes
<1>. QED
  BY <1>4, <1>5, <1>6, <1>7, <1>8, <1>9, <1>10, <1>11 DEF Next, Dispatch

LEMMA CallerBooted == ASSUME CallerInv, [Next]_vars PROVE Booted'
<1>. USE DEF CallerInv, IndInv, At
<1>1. JobShape(job) /\ Timers \subseteq Threads /\ Dispatcher \in Threads /\ T!Threads = Threads
  BY DEF PlaceInv, Threads, T!Threads
<1>2. Down \notin Valid \cup {Empty}
  BY TextsAssumption, ValidAssumption
<1>3. CASE Commands
  <2>1. /\ job.at = "idle" /\ job'.at # "boot" /\ running' = running
    <3>1. job.at = "idle" /\ running' = running
      BY <1>3 DEF Commands, UpdateBackend, RemoveBackend, Rescan, ReloadCommand, DryRun,
         N!CallValidate, nginxVars
    <3>2. ASSUME NEW found \in SUBSET Backends, NEW how \in {"direct", "throttle"},
                 NEW force \in BOOLEAN, Rescan(found, how, force)
          PROVE  job'.at # "boot"
      BY <3>2, JobTypes DEF Rescan
    <3>3. ASSUME NEW b \in Backends, NEW registers \in BOOLEAN, NEW replace \in BOOLEAN,
                 UpdateBackend(b, registers, replace) \/ RemoveBackend(b)
          PROVE  job'.at # "boot"
      BY <3>3 DEF UpdateBackend, RemoveBackend, NoJob
    <3>4. ASSUME NEW force \in BOOLEAN, ReloadCommand(force) PROVE job'.at # "boot"
      BY <3>4 DEF ReloadCommand, NoJob
    <3>. QED
      BY <1>3, <3>1, <3>2, <3>3, <3>4 DEF Commands
  <2>. QED
    BY <2>1 DEF Booted
<1>4. CASE \/ UpdateValidated \/ NextBackend \/ NextStatics \/ StepValidated \/ StepRaises
           \/ PublishNow \/ PublishLater \/ PublishDirect \/ BeginReload \/ EndReload
           \/ DirectRaises
  <2>1. job.at \in {"update", "next", "backend", "statics", "publish", "taken", "reload"}
    BY <1>4 DEF UpdateValidated, NextBackend, NextStatics, StepValidated, StepRaises,
       PublishNow, PublishLater, PublishDirect, BeginReload, EndReload, DirectRaises
  <2>2. job'.at # "boot"
    <3>1. CASE UpdateValidated \/ NextBackend \/ NextStatics \/ StepValidated \/ StepRaises
      BY <1>1, <3>1, JobTypes DEF UpdateValidated, NextBackend, NextStatics, StepValidated,
         StepRaises, JobShape
    <3>2. CASE \/ PublishNow \/ PublishLater \/ PublishDirect \/ BeginReload \/ EndReload
               \/ DirectRaises
      BY <1>1, <3>2, JobTypes DEF PublishNow, PublishLater, PublishDirect, BeginReload,
         EndReload, DirectRaises, Goto, JobShape
    <3>. QED
      BY <1>4, <3>1, <3>2
  <2>3. running' = running
    BY <1>4 DEF UpdateValidated, NextBackend, NextStatics, StepValidated, StepRaises,
       PublishNow, PublishLater, PublishDirect, BeginReload, EndReload, DirectRaises,
       nginxVars, DryRun, DoReload, Ended, N!CallValidate, N!CallUpdate, N!Return
  <2>. QED
    BY <2>1, <2>2, <2>3 DEF Booted
<1>5. ASSUME NEW h \in Threads, ReloadRaises(h) PROVE Booted'
  <2>1. pc[h] = "taken" /\ running' = running
    BY <1>5 DEF ReloadRaises, T!Begin, nginxVars
  <2>2. job'.at \in {job.at, "reload"}
    BY <1>1, <1>5 DEF ReloadRaises, JobShape
  <2>. QED
    BY <2>1, <2>2 DEF Booted
<1>6. CASE BootNginx
  <2>1. job' = job /\ pc' = pc /\ job.at = "boot"
    BY <1>6 DEF BootNginx, serverVars, throttlerVars
  <2>. QED
    BY <2>1 DEF Booted
<1>7. ASSUME NEW found \in SUBSET Backends, BootRescan(found) PROVE Booted'
  BY <1>7 DEF BootRescan, RescanJob, nginxVars, Booted
<1>8. ASSUME NEW t \in Timers, TimerThread(t), ~ReloadRaises(t) PROVE Booted'
  <2>1. pc[t] # "out" /\ job' = job /\ running' = running
    BY <1>8 DEF TimerThread, TimerFires, TimerBegins, TimerEnds, T!Fire, T!Trigger, T!Begin,
       T!Finish, DoReload, Ended, N!CallUpdate, N!Return, serverVars, nginxVars
  <2>. QED
    BY <1>1, <2>1 DEF Booted
<1>9. CASE MasterReload \/ Tick \/ (\E h \in Threads : NginxStep(h)) \/ UNCHANGED vars
  <2>1. job' = job /\ pc' = pc
    BY <1>9 DEF MasterReload, Tick, T!Tick, NginxStep, vars, serverVars, throttlerVars
  <2>2. running' = running \/ running' \in Valid \cup {Empty}
    BY <1>9 DEF MasterReload, Tick, NginxStep, vars, nginxVars, N!MasterReload, N!Step,
       N!Compare, N!ReadPrevious, N!WriteCandidate, N!TestCandidate, N!RestorePrevious,
       N!WriteConfig, N!Reload, N!Commit, N!Rollback
  <2>. QED
    BY <1>2, <2>1, <2>2 DEF Booted
<1>10. CASE Crash
  BY <1>1, <1>10 DEF Crash, T!Restart, NoJob, Booted
<1>. QED
  BY <1>1, <1>3, <1>4, <1>5, <1>6, <1>7, <1>8, <1>9, <1>10 DEF Next, Dispatch

LEMMA CallerTaken == ASSUME CallerInv, [Next]_vars PROVE Taken'
<1>. USE DEF CallerInv, IndInv, At, Taken
<1>1. /\ JobShape(job) /\ Timers \subseteq Threads /\ Dispatcher \in Threads /\ T!Threads = Threads
      /\ pc \in [Threads -> {"out", "armed", "fired", "taken", "in"}]
  BY DEF PlaceInv, Threads, T!Threads, PcType
<1>2. CASE Commands
  <2>1. pc' = pc /\ job.at = "idle"
    BY <1>2 DEF Commands, UpdateBackend, RemoveBackend, Rescan, ReloadCommand, throttlerVars
  <2>. QED
    BY <2>1
<1>3. CASE \/ UpdateValidated \/ NextBackend \/ NextStatics \/ StepValidated \/ StepRaises
           \/ PublishDirect \/ DirectRaises \/ BootNginx
           \/ \E found \in SUBSET Backends : BootRescan(found)
  <2>1. pc' = pc /\ job.at # "taken"
    BY <1>3 DEF UpdateValidated, NextBackend, NextStatics, StepValidated, StepRaises,
       PublishDirect, DirectRaises, BootNginx, BootRescan, throttlerVars
  <2>. QED
    BY <2>1
<1>4. CASE PublishNow
  BY <1>1, <1>4 DEF PublishNow, Goto, JobShape
<1>5. CASE PublishLater
  <2>1. pc'[Dispatcher] = pc[Dispatcher] \/ pc'[Dispatcher] = "armed"
    BY <1>1, <1>5 DEF PublishLater, T!Schedule, T!Replace
  <2>2. job.at = "publish"
    BY <1>5 DEF PublishLater
  <2>. QED
    BY <2>1, <2>2
<1>6. CASE BeginReload \/ ReloadRaises(Dispatcher)
  BY <1>1, <1>6 DEF BeginReload, ReloadRaises, T!Begin
<1>7. CASE EndReload
  <2>1. pc'[Dispatcher] # "taken"
    BY <1>1, <1>7 DEF EndReload, T!Finish, throttlerVars
  <2>. QED
    BY <2>1
<1>8. ASSUME NEW t \in Timers, TimerThread(t) PROVE Taken'
  <2>1. t # Dispatcher
    OBVIOUS
  <2>2. pc'[Dispatcher] = pc[Dispatcher]
    BY <1>1, <1>8, <2>1 DEF TimerThread, TimerFires, TimerBegins, TimerEnds, ReloadRaises,
       T!Fire, T!Trigger, T!Begin, T!Finish
  <2>3. job' = job
    BY <1>8, <2>1 DEF TimerThread, TimerFires, TimerBegins, TimerEnds, ReloadRaises, serverVars
  <2>. QED
    BY <2>2, <2>3
<1>9. CASE MasterReload \/ Tick \/ (\E h \in Threads : NginxStep(h)) \/ UNCHANGED vars
  <2>1. job' = job /\ pc' = pc
    BY <1>9 DEF MasterReload, Tick, T!Tick, NginxStep, vars, serverVars, throttlerVars
  <2>. QED
    BY <2>1
<1>10. CASE Crash
  BY <1>1, <1>10 DEF Crash, T!Restart
<1>. QED
  BY <1>2, <1>3, <1>4, <1>5, <1>6, <1>7, <1>8, <1>9, <1>10 DEF Next, Dispatch

LEMMA CallerStep == ASSUME CallerInv, [Next]_vars PROVE CallerInv'
<1>1. IndInv'
  BY IndStep DEF CallerInv
<1>. QED
  BY <1>1, CallerTasks, CallerContents, CallerBooted, CallerTaken DEF CallerInv

\* Each step of WebServer is one of Nginx or none.
LEMMA NginxSimulation == ASSUME CallerInv, [Next]_vars PROVE [N!Next]_nginxVars
<1>. USE DEF CallerInv, IndInv, At
<1>1. Dispatcher \in Threads /\ Timers \subseteq Threads
  BY DEF Threads
<1>2. ASSUME NEW cand \in Contents, DryRun(cand), job.at # "boot" PROVE N!Next
  BY <1>1, <1>2 DEF DryRun, N!Next, Booted
<1>3. ASSUME NEW h \in Threads, NEW task \in Tasks, DoReload(h, task), job.at # "boot" PROVE N!Next
  <2>1. task.force \in BOOLEAN /\ task.validate \in BOOLEAN /\ configData \in Contents \cup {Empty}
    BY DEF Tasks, ContentTypes
  <2>. QED
    BY <1>3, <2>1 DEF DoReload, N!Next, Booted
<1>4. ASSUME NEW h \in Threads, pc[h] # "out" PROVE job.at # "boot"
  BY <1>4 DEF Booted
<1>5. CASE Commands
  <2>1. ASSUME NEW b \in Backends, NEW registers \in BOOLEAN, NEW replace \in BOOLEAN,
               UpdateBackend(b, registers, replace)
        PROVE  N!Next
    <3>1. Candidate(configData, b, registers) \in Contents
      BY CandidateType DEF ContentTypes
    <3>. QED
      BY <1>2, <2>1, <3>1 DEF UpdateBackend
  <2>. QED
    BY <1>5, <2>1 DEF Commands, RemoveBackend, Rescan, ReloadCommand
<1>6. CASE UpdateValidated \/ StepValidated
  BY <1>1, <1>6 DEF UpdateValidated, StepValidated, N!Next
<1>7. CASE NextBackend
  <2>1. PICK b \in job.todo : DryRun(Candidate(configData, b, TRUE))
    BY <1>7 DEF NextBackend
  <2>2. Candidate(configData, b, TRUE) \in Contents
    BY CandidateType DEF ContentTypes
  <2>. QED
    BY <1>2, <1>7, <2>1, <2>2 DEF NextBackend
<1>8. CASE NextStatics
  <2>1. WithStatics(configData) \in Contents
    BY DEF ContentTypes, WithStatics, Contents
  <2>. QED
    BY <1>2, <1>8, <2>1 DEF NextStatics
<1>9. CASE StepRaises \/ PublishNow \/ PublishLater \/ DirectRaises \/ \E h \in Threads : ReloadRaises(h)
  BY <1>9 DEF StepRaises, PublishNow, PublishLater, DirectRaises, ReloadRaises
<1>10. CASE PublishDirect
  <2>1. job.task \in Tasks
    BY DEF PlaceInv, JobShape
  <2>. QED
    BY <1>1, <1>3, <1>10, <2>1 DEF PublishDirect
<1>11. CASE BeginReload
  <2>1. held[Dispatcher] \in Tasks /\ pc[Dispatcher] = "taken"
    BY <1>1, <1>11 DEF BeginReload, T!Begin, TaskTypes
  <2>. QED
    BY <1>1, <1>3, <1>11, <2>1 DEF BeginReload
<1>12. CASE EndReload
  BY <1>1, <1>12 DEF EndReload, Ended, N!Next
<1>13. CASE BootNginx
  BY <1>1, <1>13 DEF BootNginx, N!Next
<1>14. CASE \E found \in SUBSET Backends : BootRescan(found)
  BY <1>14 DEF BootRescan
<1>15. ASSUME NEW t \in Timers, TimerBegins(t) PROVE N!Next
  <2>1. held[t] \in Tasks /\ pc[t] = "taken"
    BY <1>1, <1>15 DEF TimerBegins, T!Begin, TaskTypes
  <2>. QED
    BY <1>1, <1>3, <1>4, <1>15, <2>1 DEF TimerBegins
<1>16. ASSUME NEW t \in Timers, TimerFires(t) \/ TimerEnds(t) PROVE [N!Next]_nginxVars
  BY <1>1, <1>16 DEF TimerFires, TimerEnds, Ended, N!Next
<1>17. CASE (\E h \in Threads : NginxStep(h)) \/ MasterReload \/ Tick \/ Crash \/ UNCHANGED vars
  BY <1>17 DEF NginxStep, MasterReload, Tick, Crash, vars, N!Next
<1>. QED
  BY <1>1, <1>5, <1>6, <1>7, <1>8, <1>9, <1>10, <1>11, <1>12, <1>13, <1>14, <1>15, <1>16, <1>17
     DEF Next, Dispatch, TimerThread

\* Whatever commands come and however threads overlap, WebServer calls Nginx as
\* Nginx may be called: what NginxProofs says of any callers holds here, and
\* nginx runs only what it accepts, whole.
THEOREM NginxUsed == Spec => N!Spec
<1>1. Init => N!Init
  BY DEF Init
<1>3. CallerInv /\ [Next]_vars => [N!Next]_(N!nginxVars)
  BY NginxSimulation DEF nginxVars, N!nginxVars
<1>4. CallerInv /\ [Next]_vars => CallerInv'
  BY CallerStep
<1>. QED
  BY <1>1, <1>3, <1>4, CallerInit, PTL DEF Spec, N!Spec
-----------------------------------------------------------------------------
\* Without timer threads the dispatcher is the one caller of Nginx.  Its place
\* then says what its call is about, and with P!Inv the stage of the call says
\* where the file is.
Serial == Timers = {}

\* Less of what nginx accepts is accepted.
Closed == \A data \in Valid : SUBSET data \subseteq Valid

Call == op[Dispatcher]
Validating == job.at \in {"update", "backend", "statics"}

\* Nginx is called only where the dispatcher's place says so, and judges the
\* candidate, or publishes config_data, and nothing else.
Judges ==
  /\ Call.cfg = job.cand /\ ~Call.update
  /\ Call.at \in {"read", "candidate", "test", "restore", "returned"}
  /\ Call.at \in {"test", "restore"} => file = job.cand
  /\ Call.at \in {"restore", "returned"} => (Call.ok <=> job.cand \in Valid)
Publishes ==
  /\ Call.cfg = configData /\ Call.update
  /\ Call.at \notin {"rollback", "start"}
  /\ Call.at = "test" => file = configData
  /\ Call.at = "restore" => Call.ok
  /\ Call.at = "returned" => lastWorking = configData
Called ==
  /\ Validating => Judges
  /\ At("reload") /\ Call.at # "none" => Publishes
  /\ At("reload") /\ ~failures => Call.at # "none"
  /\ ~Validating /\ ~At("reload") /\ ~At("boot") => Call.at = "none"
  /\ At("boot") => Call.at \in {"none", "start", "returned"}

\* Where nothing raises, what has been rendered is on record, but for the first
\* reload of a process.
Recorded ==
  /\ job.how = "now" => ~At("idle") /\ ~At("update")
  /\ ~failures /\ ~unrendered /\ job.how # "now" /\ ~At("boot") /\ ~At("reload") =>
       lastWorking = configData

\* The files that stay whatever becomes of the candidate.
Safe == authFiles \ created
Backed(text, files) == text \in {Down, Empty} \/ text \cap Protected \subseteq files

\* Every text that may come to be served has its files: those of the candidate
\* are there until it is refused, those of the others stay.
Credentials ==
  /\ ~Validating => created = {}
  /\ Backed(lastWorking, Safe) /\ Backed(Call.prev, Safe)
  /\ Backed(Call.cfg, authFiles)
  /\ Backed(file, Safe) \/ (Validating /\ Call.at \in {"test", "restore"})
  /\ Backed(running, Safe) \/ (Validating /\ running = job.cand /\ running \in Valid)

SerialInv == configData \in Valid /\ Called /\ Recorded /\ Credentials

\* WebServer's constants meet what Nginx assumes of its own.
LEMMA SlotAssumptions == P!ConfigsAssumption /\ P!MasterDelayAssumption
  BY TextsAssumption, ValidAssumption, SwitchesAssumption
     DEF P!ConfigsAssumption, P!MasterDelayAssumption, Contents

\* N and P are the same module.
LEMMA SameNginx == (N!Init => P!Init) /\ (N!Next => P!Next)
<1>1. N!Init => P!Init
  BY DEF N!Init, P!Init, N!NoOp, P!NoOp
<1>2. ASSUME NEW h, N!Step(h) PROVE P!Step(h)
  BY <1>2 DEF N!Step, P!Step, N!Compare, P!Compare, N!ReadPrevious, P!ReadPrevious,
     N!WriteCandidate, P!WriteCandidate, N!TestCandidate, P!TestCandidate,
     N!RestorePrevious, P!RestorePrevious, N!WriteConfig, P!WriteConfig, N!Reload, P!Reload,
     N!Commit, P!Commit, N!Rollback, P!Rollback, N!Goto, P!Goto
<1>3. ASSUME NEW h, N!Setup(h) \/ N!ForceStart(h) \/ N!Return(h)
      PROVE  P!Setup(h) \/ P!ForceStart(h) \/ P!Return(h)
  BY <1>3 DEF N!Setup, P!Setup, N!ForceStart, P!ForceStart, N!Return, P!Return, N!NoOp, P!NoOp,
     N!Idle, P!Idle, N!Returned, P!Returned
<1>4. ASSUME NEW h, NEW c, N!CallValidate(h, c) PROVE P!CallValidate(h, c)
  BY <1>4 DEF N!CallValidate, P!CallValidate, N!NoOp, P!NoOp, N!Idle, P!Idle
<1>5. ASSUME NEW h, NEW c, NEW f, NEW v, N!CallUpdate(h, c, f, v) PROVE P!CallUpdate(h, c, f, v)
  BY <1>5 DEF N!CallUpdate, P!CallUpdate, N!NoOp, P!NoOp, N!Idle, P!Idle
<1>6. N!MasterReload \/ N!Crash => P!MasterReload \/ P!Crash
  BY DEF N!MasterReload, P!MasterReload, N!Crash, P!Crash, N!NoOp, P!NoOp
<1>. QED
  BY <1>1, <1>2, <1>3, <1>4, <1>5, <1>6 DEF N!Next, P!Next

\* What is known of the one caller's call.
CallFacts ==
  /\ Threads = {Dispatcher} /\ op \in [Threads -> P!Calls]
  /\ Down \notin Valid \cup {Empty} /\ Empty \notin Contents
  /\ ~At("boot") =>
       /\ running # Down
       /\ Call.at \in {"none", "compare", "read", "candidate", "write", "returned"} =>
            file = lastWorking
       /\ Call.at \in {"reload", "commit"} => file = Call.cfg
       /\ Call.at \in {"candidate", "test", "restore"} => Call.prev = lastWorking

LEMMA CallKnown == ASSUME Serial, CallerInv, P!Inv PROVE CallFacts
<1>1. Threads = {Dispatcher}
  BY DEF Serial, Threads
<1>2. op \in [Threads -> P!Calls] /\ P!CallInv(Dispatcher)
  BY <1>1 DEF P!Inv, P!AnyCallers, P!TypeOK
<1>3. ~At("boot") => running # Down
  BY DEF CallerInv, Booted
<1>4. Down \notin Valid \cup {Empty} /\ Empty \notin Contents
  BY TextsAssumption, ValidAssumption
<1>. QED
  BY <1>1, <1>2, <1>3, <1>4 DEF CallFacts, P!CallInv, Call

\* The effect of each step inside a call.
Same == UNCHANGED <<file, lastWorking, running>>
Effect ==
  \/ /\ Call.at = "compare" /\ Call'.at \in {"returned", "read", "write"}
     /\ Call'.at = "returned" => Call.cfg = lastWorking
     /\ Call'.prev = Call.prev /\ Same
  \/ Call.at = "read" /\ Call'.at = "candidate" /\ Call'.prev = file /\ Same
  \/ /\ Call.at = "candidate" /\ Call'.at = "test" /\ Call'.prev = Call.prev
     /\ file' = Call.cfg /\ UNCHANGED <<lastWorking, running>>
  \/ /\ Call.at = "test" /\ Call'.at = "restore" /\ Call'.prev = Call.prev
     /\ (Call'.ok <=> file \in Valid \cup {Empty}) /\ Same
  \/ /\ Call.at = "restore" /\ Call'.prev = Empty /\ file' = Call.prev /\ Call'.ok = Call.ok
     /\ Call'.at = IF Call.update /\ Call.ok THEN "write" ELSE "returned"
     /\ UNCHANGED <<lastWorking, running>>
  \/ /\ Call.at = "write" /\ Call'.at = "reload" /\ Call'.prev = Call.prev
     /\ file' = Call.cfg /\ UNCHANGED <<lastWorking, running>>
  \/ /\ Call.at = "reload" /\ Call'.prev = Call.prev
     /\ Call'.at = IF running # Down /\ file \in Valid \cup {Empty} THEN "commit" ELSE "rollback"
     /\ running' \in {running, file} /\ UNCHANGED <<file, lastWorking>>
  \/ /\ Call.at = "commit" /\ Call'.at = "returned" /\ Call'.prev = Call.prev
     /\ lastWorking' = Call.cfg /\ UNCHANGED <<file, running>>
  \/ /\ Call.at = "rollback" /\ Call'.at = "returned" /\ Call'.prev = Call.prev
     /\ file' = lastWorking /\ UNCHANGED <<lastWorking, running>>

LEMMA StepEffect ==
  ASSUME Threads = {Dispatcher}, op \in [Threads -> P!Calls], N!Step(Dispatcher)
  PROVE  Effect /\ Call'.cfg = Call.cfg /\ Call'.update = Call.update
<1>. USE DEF Effect, Call, Same, P!Calls, N!Goto
<1>1. CASE N!Compare(Dispatcher)
  BY <1>1 DEF N!Compare
<1>2. CASE N!ReadPrevious(Dispatcher) \/ N!WriteCandidate(Dispatcher)
  BY <1>2 DEF N!ReadPrevious, N!WriteCandidate
<1>3. CASE N!TestCandidate(Dispatcher)
  BY <1>3 DEF N!TestCandidate
<1>4. CASE N!RestorePrevious(Dispatcher)
  BY <1>4 DEF N!RestorePrevious
<1>5. CASE N!WriteConfig(Dispatcher) \/ N!Commit(Dispatcher) \/ N!Rollback(Dispatcher)
  BY <1>5 DEF N!WriteConfig, N!Commit, N!Rollback
<1>6. CASE N!Reload(Dispatcher)
  BY <1>6 DEF N!Reload
<1>. QED
  BY <1>1, <1>2, <1>3, <1>4, <1>5, <1>6 DEF N!Step

All == Serial /\ Closed /\ CallerInv /\ P!Inv /\ SerialInv

\* A step inside the call.
LEMMA NginxStepInv ==
  ASSUME All, NginxStep(Dispatcher), UNCHANGED failures
  PROVE  SerialInv'
<1>1. CallFacts /\ SerialInv
  BY CallKnown DEF All
<1>2. UNCHANGED <<job, configData, unrendered, authFiles, created, failures>>
  BY DEF NginxStep, serverVars, disk
<1>3. Effect /\ Call'.cfg = Call.cfg /\ Call'.update = Call.update
  BY <1>1, StepEffect DEF CallFacts, NginxStep
<1>4. /\ job.cand \in Contents /\ configData \in Contents
      /\ configData \in Valid /\ Empty \notin Contents
  BY <1>1 DEF All, CallerInv, ContentTypes, CallFacts, SerialInv
<1>5. Validating' = Validating /\ At("reload")' = At("reload") /\ At("boot")' = At("boot")
  BY <1>2 DEF Validating, At
<1>6. Validating => ~At("reload") /\ ~At("boot")
  BY DEF Validating, At
<1>7. ~At("boot") => Validating \/ At("reload")
  BY <1>1, <1>3 DEF SerialInv, Called, Effect
<1>8. Validating => Judges'
  <2>. SUFFICES ASSUME Validating PROVE Judges'
    OBVIOUS
  <2>1. Judges
    BY <1>1 DEF SerialInv, Called
  <2>. QED
    BY <1>2, <1>3, <1>4, <2>1 DEF Judges, Effect, Same
<1>9. At("reload") => Publishes'
  <2>. SUFFICES ASSUME At("reload") PROVE Publishes'
    OBVIOUS
  <2>1. Publishes /\ ~At("boot")
    BY <1>1, <1>3 DEF SerialInv, Called, Effect, At
  <2>2. running # Down /\ (Call.at = "reload" => file = Call.cfg)
    BY <1>1, <2>1 DEF CallFacts
  <2>. QED
    BY <1>2, <1>3, <1>4, <2>1, <2>2 DEF Publishes, Effect, Same
<1>10. At("reload") => Call'.at # "none"
  BY <1>3 DEF Effect
<1>11. Called'
  <2>1. ~At("boot")
    BY <1>1, <1>3 DEF SerialInv, Called, Effect
  <2>. QED
    BY <1>2, <1>5, <1>6, <1>7, <1>8, <1>9, <1>10, <2>1 DEF Called
<1>12. Recorded'
  <2>1. Validating => lastWorking' = lastWorking
    BY <1>1, <1>3 DEF SerialInv, Called, Judges, Effect, Same
  <2>. QED
    BY <1>1, <1>2, <1>7, <2>1 DEF Recorded, SerialInv, At
<1>13. Credentials'
  <2>1. Credentials /\ Safe' = Safe
    BY <1>1, <1>2 DEF SerialInv, Safe
  <2>2. CASE Validating
    <3>1. Judges /\ Judges'
      BY <1>1, <1>8, <2>2 DEF SerialInv, Called
    <3>2. running' = running /\ lastWorking' = lastWorking
      BY <1>3, <3>1 DEF Judges, Effect, Same
    <3>3. Backed(Call'.prev, Safe)
      BY <1>3, <2>1, <3>1 DEF Judges, Effect, Credentials, Backed
    <3>4. Backed(file', Safe) \/ Call'.at \in {"test", "restore"}
      BY <1>3, <2>1, <3>1 DEF Judges, Effect, Same, Credentials, Backed
    <3>. QED
      BY <1>2, <1>3, <1>5, <2>1, <2>2, <3>2, <3>3, <3>4 DEF Credentials, Backed
  <2>3. CASE ~Validating
    <3>1. created = {} /\ Safe = authFiles
      BY <2>1, <2>3 DEF Credentials, Safe
    <3>2. Backed(file, Safe) /\ Backed(running, Safe) /\ Backed(Call.cfg, Safe)
          /\ Backed(Call.prev, Safe) /\ Backed(lastWorking, Safe)
      BY <2>1, <2>3, <3>1 DEF Credentials
    <3>3. /\ file' \in {file, Call.cfg, Call.prev, lastWorking}
          /\ running' \in {running, file} /\ lastWorking' \in {lastWorking, Call.cfg}
          /\ Call'.prev \in {Call.prev, file, Empty}
      BY <1>3 DEF Effect, Same
    <3>4. Backed(Empty, Safe)
      BY DEF Backed
    <3>5. /\ Backed(file', Safe) /\ Backed(running', Safe) /\ Backed(lastWorking', Safe)
          /\ Backed(Call'.prev, Safe)
      BY <3>2, <3>3, <3>4
    <3>. QED
      BY <1>2, <1>3, <1>5, <2>1, <2>3, <3>1, <3>2, <3>5 DEF Credentials
  <2>. QED
    BY <2>2, <2>3
<1>. QED
  BY <1>2, <1>4, <1>11, <1>12, <1>13 DEF SerialInv

LEMMA MasterInv ==
  ASSUME All, MasterReload, UNCHANGED failures
  PROVE  SerialInv'
<1>1. CallFacts /\ SerialInv
  BY CallKnown DEF All
<1>2. UNCHANGED <<job, configData, unrendered, authFiles, created, failures, file, lastWorking, op>>
  BY DEF MasterReload, N!MasterReload, serverVars, disk
<1>3. running' = IF file \in Valid \cup {Empty} THEN file ELSE running
  BY DEF MasterReload, N!MasterReload
<1>4. Called' /\ Recorded' /\ configData' \in Valid
  BY <1>1, <1>2 DEF SerialInv, Called, Recorded, Judges, Publishes, Validating, At, Call
<1>5. Credentials'
  <2>1. Credentials /\ Safe' = Safe /\ Call' = Call /\ Validating' = Validating
    BY <1>1, <1>2 DEF SerialInv, Safe, Call, Validating
  <2>2. CASE Validating /\ Call.at \in {"test", "restore"}
    <3>1. file = job.cand /\ file # Empty
      BY <1>1, <2>2 DEF SerialInv, Called, Judges, CallFacts, All, CallerInv, ContentTypes
    <3>2. Backed(running', Safe) \/ (running' = job.cand /\ running' \in Valid)
      BY <1>3, <2>1, <3>1 DEF Credentials
    <3>. QED
      BY <1>2, <2>1, <2>2, <3>2 DEF Credentials
  <2>3. CASE ~(Validating /\ Call.at \in {"test", "restore"})
    <3>1. Backed(running', Safe) \/ (Validating /\ running' = job.cand /\ running' \in Valid)
      BY <1>3, <2>1, <2>3 DEF Credentials
    <3>. QED
      BY <1>2, <2>1, <2>3, <3>1 DEF Credentials
  <2>. QED
    BY <2>2, <2>3
<1>. QED
  BY <1>4, <1>5 DEF SerialInv

\* A validation is called.
LEMMA DryRunInv ==
  ASSUME All, UNCHANGED <<failures, configData, unrendered>>,
         NEW cand \in Contents, DryRun(cand),
         job.at \in {"idle", "next"}, job'.at \in {"update", "backend", "statics"},
         job'.cand = cand, job'.how = job.how \/ (job.at = "idle" /\ job'.how = "throttle"),
         job'.at = "update" => job.at = "idle"
  PROVE  SerialInv'
<1>1. CallFacts /\ SerialInv /\ Call.at = "none" /\ Credentials /\ Recorded
  BY CallKnown DEF All, SerialInv, Called, Validating, At
<1>2. /\ UNCHANGED <<file, lastWorking, running>>
      /\ Call'.at = "read" /\ Call'.cfg = cand /\ Call'.prev = Empty
      /\ ~Call'.update /\ ~Call'.ok
  BY <1>1 DEF DryRun, N!CallValidate, N!NoOp, Call, CallFacts
<1>3. Validating' /\ ~At("reload")' /\ ~At("boot")' /\ ~At("idle")'
  BY DEF Validating, At
<1>4. Called'
  BY <1>2, <1>3 DEF Called, Judges
<1>5. Recorded'
  BY <1>1, <1>2 DEF Recorded, At
<1>6. Credentials'
  <2>1. created = {} /\ Backed(file, Safe) /\ Backed(running, Safe) /\ Backed(lastWorking, Safe)
    BY <1>1 DEF Credentials, Validating
  <2>2. Safe' = Safe /\ Backed(cand, authFiles')
    BY <2>1 DEF Safe, DryRun, Backed
  <2>3. Backed(Empty, Safe)
    BY DEF Backed
  <2>. QED
    BY <1>2, <1>3, <2>1, <2>2, <2>3 DEF Credentials
<1>. QED
  BY <1>1, <1>4, <1>5, <1>6 DEF SerialInv

LEMMA ValidationsInv ==
  ASSUME All, UNCHANGED failures,
         \/ \E b \in Backends, registers, replace \in BOOLEAN : UpdateBackend(b, registers, replace)
         \/ NextBackend \/ NextStatics
  PROVE  SerialInv'
<1>1. JobShape(job) /\ configData \in Contents
  BY DEF All, CallerInv, IndInv, PlaceInv, ContentTypes
<1>2. ASSUME NEW b \in Backends, NEW registers \in BOOLEAN, NEW replace \in BOOLEAN,
             UpdateBackend(b, registers, replace)
      PROVE  SerialInv'
  <2>. DEFINE cand == Candidate(configData, b, registers)
  <2>1. cand \in Contents
    BY <1>1, CandidateType
  <2>2. /\ job.at = "idle" /\ DryRun(cand) /\ UNCHANGED <<configData, unrendered>>
        /\ job'.at = "update" /\ job'.cand = cand /\ job'.how = "throttle"
    BY <1>2 DEF UpdateBackend, NoJob, At
  <2>. HIDE DEF cand
  <2>. QED
    BY <2>1, <2>2, DryRunInv
<1>3. CASE NextBackend
  <2>1. PICK b \in job.todo :
          /\ job' = [job EXCEPT !.at = "backend", !.todo = @ \ {b}, !.cand = Candidate(configData, b, TRUE)]
          /\ DryRun(Candidate(configData, b, TRUE))
    BY <1>3 DEF NextBackend
  <2>. DEFINE cand == Candidate(configData, b, TRUE)
  <2>2. cand \in Contents
    BY <1>1, CandidateType DEF All, CallerInv, ContentTypes
  <2>3. /\ job.at = "next" /\ DryRun(cand) /\ UNCHANGED <<configData, unrendered>>
        /\ job'.at = "backend" /\ job'.cand = cand /\ job'.how = job.how
    BY <1>1, <1>3, <2>1 DEF NextBackend, At, JobShape
  <2>. HIDE DEF cand
  <2>. QED
    BY <2>2, <2>3, DryRunInv
<1>4. CASE NextStatics
  <2>. DEFINE cand == WithStatics(configData)
  <2>1. cand \in Contents
    BY <1>1 DEF WithStatics, Contents
  <2>2. /\ job.at = "next" /\ DryRun(cand) /\ UNCHANGED <<configData, unrendered>>
        /\ job'.at = "statics" /\ job'.cand = cand /\ job'.how = job.how
    BY <1>1, <1>4 DEF NextStatics, At, JobShape
  <2>. HIDE DEF cand
  <2>. QED
    BY <2>1, <2>2, DryRunInv
<1>. QED
  BY <1>2, <1>3, <1>4

\* It has answered.
LEMMA AnswerInv ==
  ASSUME All, UNCHANGED failures, UpdateValidated \/ StepValidated
  PROVE  SerialInv'
<1>1. /\ CallFacts /\ Judges /\ Credentials /\ Recorded
      /\ configData \in Valid /\ JobShape(job) /\ Validating
      /\ job.cand \in Contents /\ Call.at = "returned"
  BY CallKnown DEF All, SerialInv, Called, Validating, At, UpdateValidated, StepValidated,
     N!Returned, Call, CallerInv, IndInv, PlaceInv, ContentTypes
<1>2. /\ UNCHANGED <<file, lastWorking, running>> /\ op' = [op EXCEPT ![Dispatcher] = N!NoOp]
  BY DEF UpdateValidated, StepValidated, N!Return
<1>3. Call'.at = "none" /\ Call'.cfg = Empty /\ Call'.prev = Empty
  BY <1>1, <1>2 DEF N!NoOp, Call, CallFacts
<1>4. job'.at \in {"publish", "idle", "next"}
  BY <1>1, JobTypes DEF UpdateValidated, StepValidated, JobShape
<1>5. \/ Call.ok /\ Install(job.cand) /\ Keep
      \/ ~Call.ok /\ UNCHANGED <<configData, unrendered>> /\ CleanUp
  BY DEF UpdateValidated, StepValidated, Call
<1>6. Call.ok <=> job.cand \in Valid
  BY <1>1 DEF Judges
<1>7. configData' \in Valid
  BY <1>1, <1>5, <1>6 DEF Install
<1>8. ~Validating' /\ ~At("reload")' /\ ~At("boot")'
  BY <1>4 DEF Validating, At
<1>9. Called'
  BY <1>3, <1>8 DEF Called
<1>10. Recorded'
  <2>1. \/ job'.at \in {"publish", "next"} /\ job'.how = job.how
        \/ job'.at = "idle" /\ job'.how = "none" /\ job.at = "update"
    <3>1. CASE UpdateValidated
      <4>1. job.at = "update" /\ (job' = NoJob \/ job' = [job EXCEPT !.at = "publish", !.cand = {}])
        BY <3>1 DEF UpdateValidated, At
      <4>2. CASE job' = NoJob
        BY <4>1, <4>2 DEF NoJob
      <4>3. CASE job' = [job EXCEPT !.at = "publish", !.cand = {}]
        <5>1. JobShape(job)
          BY <1>1
        <5>. QED
          BY <4>3, <5>1 DEF JobShape
      <4>. QED
        BY <4>1, <4>2, <4>3
    <3>2. CASE StepValidated
      BY <1>1, <3>2 DEF StepValidated, JobShape
    <3>. QED
      BY <3>1, <3>2
  <2>3. ~unrendered' => ~unrendered /\ configData' = configData
    BY <1>5 DEF Install
  <2>. QED
    BY <1>1, <1>2, <1>4, <1>8, <2>1, <2>3 DEF Recorded, At, Validating
<1>11. Credentials'
  <2>1. created' = {}
    BY <1>5 DEF Keep, CleanUp
  <2>2. Safe \subseteq authFiles' /\ (Call.ok => authFiles' = authFiles)
    BY <1>5 DEF Keep, CleanUp, Safe
  <2>3. Safe' = authFiles'
    BY <2>1 DEF Safe
  <2>4. Backed(lastWorking, Safe) /\ Backed(file, Safe)
    BY <1>1 DEF Credentials
  <2>5. Backed(running, authFiles')
    BY <1>1, <1>6, <2>2 DEF Credentials, Judges, Backed
  <2>6. Backed(Empty, authFiles')
    BY DEF Backed
  <2>7. Backed(lastWorking, authFiles') /\ Backed(file, authFiles')
    BY <2>2, <2>4 DEF Backed
  <2>. QED
    BY <1>2, <1>3, <1>8, <2>1, <2>3, <2>5, <2>6, <2>7 DEF Credentials
<1>. QED
  BY <1>7, <1>9, <1>10, <1>11 DEF SerialInv

\* A reload begins: config_data is rendered and given to Nginx.
LEMMA ReloadInv ==
  ASSUME All, UNCHANGED failures, PublishDirect \/ BeginReload
  PROVE  SerialInv'
<1>1. /\ CallFacts /\ Credentials /\ configData \in Valid /\ JobShape(job)
      /\ job.at \in {"publish", "taken"} /\ Call.at = "none"
  BY CallKnown DEF All, SerialInv, Called, Validating, At, PublishDirect, BeginReload,
     CallerInv, IndInv, PlaceInv
<1>2. PICK task : DoReload(Dispatcher, task)
  BY DEF PublishDirect, BeginReload
<1>3. /\ job'.at = "reload" /\ configData' = configData /\ UNCHANGED <<file, lastWorking, running>>
      /\ created' = created /\ authFiles' = authFiles \cup (configData \cap Protected)
  BY <1>1, <1>2 DEF PublishDirect, BeginReload, Goto, DoReload, N!CallUpdate, JobShape
<1>4. Call'.at = "compare" /\ Call'.cfg = configData /\ Call'.prev = Empty /\ Call'.update
  BY <1>1, <1>2 DEF DoReload, N!CallUpdate, N!NoOp, Call, CallFacts
<1>5. ~Validating /\ ~Validating' /\ At("reload")'
  BY <1>1, <1>3 DEF Validating, At
<1>6. Called'
  BY <1>3, <1>4, <1>5 DEF Called, Publishes, At
<1>7. Recorded'
  BY <1>3 DEF Recorded, At
<1>8. Credentials'
  <2>1. created = {} /\ Backed(file, Safe) /\ Backed(running, Safe) /\ Backed(lastWorking, Safe)
    BY <1>1, <1>5 DEF Credentials
  <2>2. Safe \subseteq Safe' /\ Safe' = authFiles'
    BY <1>3, <2>1 DEF Safe
  <2>3. Backed(file, Safe') /\ Backed(running, Safe') /\ Backed(lastWorking, Safe')
    BY <2>1, <2>2 DEF Backed
  <2>4. Backed(configData, authFiles') /\ Backed(Empty, Safe')
    BY <1>3 DEF Backed
  <2>. QED
    BY <1>3, <1>4, <1>5, <2>1, <2>3, <2>4 DEF Credentials
<1>. QED
  BY <1>1, <1>3, <1>6, <1>7, <1>8 DEF SerialInv

\* And ends.
LEMMA EndInv ==
  ASSUME All, UNCHANGED failures, EndReload
  PROVE  SerialInv'
<1>1. /\ CallFacts /\ Credentials /\ Called /\ configData \in Valid /\ job.at = "reload"
  BY CallKnown DEF All, SerialInv, At, EndReload
<1>2. /\ UNCHANGED <<configData, unrendered, authFiles, created, file, lastWorking, running>>
      /\ job' = NoJob
  BY DEF EndReload, Ended, N!Return, nginxVars, disk
<1>3. Call'.at = "none" /\ Call'.cfg \in {Empty, Call.cfg} /\ Call'.prev \in {Empty, Call.prev}
  <2>1. CASE N!Return(Dispatcher)
    BY <1>1, <2>1 DEF N!Return, N!NoOp, Call, CallFacts
  <2>2. CASE N!Idle(Dispatcher) /\ UNCHANGED nginxVars
    BY <2>2 DEF N!Idle, nginxVars, Call
  <2>. QED
    BY <2>1, <2>2 DEF EndReload, Ended
<1>4. job'.at = "idle" /\ job'.how = "none"
  BY <1>2 DEF NoJob
<1>5. ~Validating /\ ~Validating'
  BY <1>1, <1>4 DEF Validating
<1>6. Called'
  BY <1>3, <1>4, <1>5 DEF Called, At
<1>7. Recorded'
  <2>1. ~failures => Call.at # "none"
    BY <1>1 DEF Called, At
  <2>2. ~failures => Call.at = "returned"
    BY <2>1 DEF EndReload, Ended, N!Return, N!Returned, N!Idle, Call
  <2>3. ~failures => lastWorking = configData
    BY <1>1, <2>2 DEF Called, Publishes, At
  <2>. QED
    BY <1>2, <1>4, <2>3 DEF Recorded, At
<1>8. Credentials'
  <2>1. created = {} /\ Safe' = Safe /\ Safe = authFiles
    BY <1>1, <1>2, <1>5 DEF Credentials, Safe
  <2>2. Backed(Empty, Safe)
    BY DEF Backed
  <2>. QED
    BY <1>1, <1>2, <1>3, <1>5, <2>1, <2>2 DEF Credentials
<1>. QED
  BY <1>1, <1>2, <1>6, <1>7, <1>8 DEF SerialInv


\* Steps that call nothing: the dispatcher goes from one place to another.
LEMMA MoveInv ==
  ASSUME All, UNCHANGED failures, ~Validating, Call.at = "none",
         UNCHANGED <<file, lastWorking, running, op, created>>, authFiles \subseteq authFiles',
         job'.at \in {"idle", "next", "publish", "taken", "reload"},
         At("reload")' => failures,
         configData' \in Valid, Recorded'
  PROVE  SerialInv'
<1>1. Credentials
  BY DEF All, SerialInv
<1>2. ~Validating' /\ Call' = Call
  BY DEF Validating, Call
<1>3. Called'
  BY <1>2 DEF Called, At
<1>4. Credentials'
  <2>1. created = {} /\ created' = {} /\ Safe = authFiles /\ Safe' = authFiles'
    BY <1>1 DEF Credentials, Safe
  <2>. QED
    BY <1>1, <1>2, <2>1 DEF Credentials, Backed
<1>. QED
  BY <1>3, <1>4 DEF SerialInv

\* A command other than an update, and the first rescan.
LEMMA StartInv ==
  ASSUME All, UNCHANGED failures,
         \/ \E b \in Backends : RemoveBackend(b)
         \/ \E found \in SUBSET Backends, how \in {"direct", "throttle"}, force \in BOOLEAN :
              Rescan(found, how, force)
         \/ \E force \in BOOLEAN : ReloadCommand(force)
         \/ \E found \in SUBSET Backends : BootRescan(found)
  PROVE  SerialInv'
<1>1. /\ Called /\ Recorded /\ configData \in Valid /\ configData \in Contents /\ Closed
  BY DEF All, SerialInv, CallerInv, ContentTypes
<1>2. /\ UNCHANGED <<file, lastWorking, running, op, created, authFiles>>
      /\ job.at \in {"idle", "boot"} /\ ~Validating
  BY DEF RemoveBackend, Rescan, ReloadCommand, BootRescan, At, disk, nginxVars, Validating
<1>3. ASSUME NEW b \in Backends, RemoveBackend(b) PROVE SerialInv'
  <2>1. /\ job'.at = "next" /\ job'.how = "throttle" /\ job.at = "idle"
        /\ configData' = configData \ {b} /\ (~unrendered' => ~unrendered /\ configData' = configData)
    BY <1>3 DEF RemoveBackend, NoJob, At, Install
  <2>2. configData' \in Valid
    BY <1>1, <2>1 DEF Closed
  <2>3. Recorded'
    BY <1>1, <1>2, <2>1 DEF Recorded, At
  <2>4. Call.at = "none"
    BY <1>1, <1>2, <2>1 DEF Called, At
  <2>. QED
    BY <1>2, <2>1, <2>2, <2>3, <2>4, MoveInv DEF At
<1>4. ASSUME NEW found \in SUBSET Backends, NEW how \in {"direct", "throttle"}, NEW force \in BOOLEAN,
             Rescan(found, how, force)
      PROVE  SerialInv'
  <2>1. /\ job'.at = "next" /\ job'.how = how /\ job.at = "idle"
        /\ configData' = {} /\ (~unrendered' => ~unrendered /\ configData' = configData)
    BY <1>4 DEF Rescan, RescanJob, At, Install
  <2>2. configData' \in Valid
    BY <2>1, ValidAssumption
  <2>3. Recorded'
    BY <1>1, <1>2, <2>1 DEF Recorded, At
  <2>4. Call.at = "none"
    BY <1>1, <1>2, <2>1 DEF Called, At
  <2>. QED
    BY <1>2, <2>1, <2>2, <2>3, <2>4, MoveInv DEF At
<1>5. ASSUME NEW force \in BOOLEAN, ReloadCommand(force) PROVE SerialInv'
  <2>1. /\ job'.at = "publish" /\ job'.how = "direct" /\ job.at = "idle"
        /\ UNCHANGED <<configData, unrendered>>
    BY <1>5 DEF ReloadCommand, NoJob, At
  <2>2. Recorded'
    BY <1>1, <1>2, <2>1 DEF Recorded, At
  <2>3. Call.at = "none"
    BY <1>1, <1>2, <2>1 DEF Called, At
  <2>. QED
    BY <1>1, <1>2, <2>1, <2>2, <2>3, MoveInv DEF At
<1>6. ASSUME NEW found \in SUBSET Backends, BootRescan(found) PROVE SerialInv'
  <2>1. /\ job'.at = "next" /\ job'.how = "now" /\ Call.at = "none" /\ configData' = configData
    BY <1>6 DEF BootRescan, RescanJob, N!Idle, Call
  <2>2. Recorded'
    BY <2>1 DEF Recorded, At
  <2>. QED
    BY <1>1, <1>2, <2>1, <2>2, MoveInv DEF At
<1>. QED
  BY <1>3, <1>4, <1>5, <1>6

\* The way to a reload, and the steps that raise.
LEMMA PublishInv ==
  ASSUME All, UNCHANGED failures,
         StepRaises \/ PublishNow \/ PublishLater \/ ReloadRaises(Dispatcher) \/ DirectRaises
  PROVE  SerialInv'
<1>1. Called /\ Recorded /\ configData \in Valid /\ JobShape(job) /\ Taken
  BY DEF All, SerialInv, CallerInv, IndInv, PlaceInv
<1>2. /\ UNCHANGED <<file, lastWorking, running, op, created, configData, unrendered>>
      /\ authFiles \subseteq authFiles'
  BY DEF StepRaises, PublishNow, PublishLater, ReloadRaises, DirectRaises, Interrupted, disk, nginxVars
<1>3. job.at \in {"next", "publish", "taken"}
  BY <1>1 DEF StepRaises, PublishNow, PublishLater, ReloadRaises, DirectRaises, At, Taken, T!Begin
<1>4. ~Validating /\ Call.at = "none"
  BY <1>1, <1>3 DEF Called, Validating, At
<1>5. \/ failures /\ job'.at \in {"idle", "reload"} /\ (job'.at = "idle" => job'.how = "none")
      \/ job.how = "throttle" /\ job'.at = "idle" /\ job'.how = "none"
      \/ job'.at = "taken" /\ job'.how = job.how
  BY <1>1 DEF StepRaises, PublishNow, PublishLater, ReloadRaises, DirectRaises, Goto, NoJob, JobShape
<1>6. Recorded'
  BY <1>1, <1>2, <1>3, <1>5 DEF Recorded, At
<1>. QED
  BY <1>1, <1>2, <1>4, <1>5, <1>6, MoveInv DEF At

\* A kill and the boot after it.
LEMMA BootInv ==
  ASSUME All, UNCHANGED failures, Crash \/ BootNginx
  PROVE  SerialInv'
<1>1. CallFacts /\ Credentials /\ configData \in Valid
  BY CallKnown DEF All, SerialInv
<1>2. CASE Crash
  <2>1. /\ job'.at = "boot" /\ job'.how = "none" /\ configData' = {} /\ created' = {} /\ authFiles' = authFiles
        /\ running' = Down /\ UNCHANGED <<file, lastWorking>>
        /\ op' = [h \in Threads |-> N!NoOp]
    BY <1>2 DEF Crash, N!Crash, NoJob, Keep
  <2>2. Call'.at = "none" /\ Call'.cfg = Empty /\ Call'.prev = Empty
    BY <1>1, <2>1 DEF N!NoOp, Call, CallFacts
  <2>3. ~Validating' /\ At("boot")' /\ ~At("reload")'
    BY <2>1 DEF Validating, At
  <2>4. {} \in Valid /\ Safe' = authFiles /\ Safe \subseteq Safe'
    BY <2>1, ValidAssumption DEF Safe
  <2>5. Called' /\ Recorded'
    BY <2>1, <2>2, <2>3 DEF Called, Recorded, At
  <2>6. Credentials'
    <3>1. /\ Backed(lastWorking, Safe') /\ Backed(Empty, Safe') /\ Backed(Down, Safe')
          /\ Backed(Empty, authFiles')
      BY <1>1, <2>4 DEF Credentials, Backed
    <3>2. Backed(file, Safe')
      <4>1. Backed(file, Safe) \/ file = Call.cfg
        BY DEF Credentials, All, SerialInv, Called, Judges
      <4>. QED
        BY <1>1, <2>4, <4>1 DEF Credentials, Backed
    <3>. QED
      BY <2>1, <2>2, <2>3, <3>1, <3>2 DEF Credentials
  <2>. QED
    BY <2>1, <2>4, <2>5, <2>6 DEF SerialInv
<1>3. CASE BootNginx
  <2>1. job.at = "boot" /\ UNCHANGED <<job, configData, unrendered, authFiles, created>>
    BY <1>3 DEF BootNginx, serverVars, disk, At
  <2>2. ~Validating /\ ~Validating' /\ At("boot")' /\ ~At("reload")'
    BY <2>1 DEF Validating, At
  <2>3. Called' /\ Recorded'
    <3>1. Call'.at \in {"none", "start", "returned"}
      <4>1. CASE N!Setup(Dispatcher)
        BY <1>1, <4>1 DEF N!Setup, N!NoOp, N!Idle, Call, CallFacts
      <4>2. CASE N!ForceStart(Dispatcher)
        BY <1>1, <4>2 DEF N!ForceStart, N!NoOp, Call, CallFacts
      <4>3. CASE N!Return(Dispatcher)
        BY <1>1, <4>3 DEF N!Return, N!NoOp, Call, CallFacts
      <4>. QED
        BY <1>3, <4>1, <4>2, <4>3 DEF BootNginx
    <3>2. Call'.at \in {"none", "start", "returned"} => Called'
      BY <2>1, <2>2 DEF Called, At
    <3>3. Recorded'
      BY <2>1, <2>2 DEF Recorded, At, All, SerialInv
    <3>. QED
      BY <3>1, <3>2, <3>3
  <2>4. created = {} /\ Safe' = Safe /\ Safe = authFiles
    BY <1>1, <2>1, <2>2 DEF Credentials, Safe
  <2>5. /\ Backed(file, Safe) /\ Backed(running, Safe) /\ Backed(lastWorking, Safe)
        /\ Backed(Call.cfg, Safe) /\ Backed(Call.prev, Safe) /\ Backed(Empty, Safe) /\ Backed({}, Safe)
    BY <1>1, <2>2, <2>4 DEF Credentials, Backed
  <2>6. /\ file' \in {file, lastWorking, {}} /\ running' \in {running, file}
        /\ lastWorking' \in {lastWorking, file, Call.cfg}
        /\ Call'.cfg \in {Call.cfg, {}, Empty} /\ Call'.prev \in {Call.prev, Empty}
    <3>1. CASE N!Setup(Dispatcher)
      <4>1. CASE UNCHANGED op
        BY <1>1, <3>1, <4>1 DEF N!Setup, Call
      <4>2. CASE op' = [op EXCEPT ![Dispatcher] =
                          [N!NoOp EXCEPT !.at = "start", !.cfg = {}, !.force = TRUE]]
        BY <1>1, <3>1, <4>2 DEF N!Setup, N!NoOp, Call, CallFacts
      <4>. QED
        BY <3>1, <4>1, <4>2 DEF N!Setup
    <3>2. CASE N!ForceStart(Dispatcher)
      BY <1>1, <3>2 DEF N!ForceStart, N!NoOp, Call, CallFacts
    <3>3. CASE N!Return(Dispatcher)
      BY <1>1, <3>3 DEF N!Return, N!NoOp, Call, CallFacts
    <3>. QED
      BY <1>3, <3>1, <3>2, <3>3 DEF BootNginx
  <2>7. Credentials'
    BY <2>1, <2>2, <2>4, <2>5, <2>6 DEF Credentials
  <2>. QED
    BY <1>1, <2>1, <2>3, <2>7 DEF SerialInv
<1>. QED
  BY <1>2, <1>3

LEMMA SerialInit == Init => SerialInv
<1>. SUFFICES ASSUME Init PROVE SerialInv
  OBVIOUS
<1>1. PICK found \in SUBSET Backends : job = RescanJob(found, "now", TRUE)
  BY DEF Init
<1>2. job.at = "next" /\ job.how = "now"
  BY <1>1, JobTypes
<1>3. /\ configData = {} /\ created = {} /\ file = {} /\ lastWorking = {} /\ running = {}
      /\ Call.at = "none" /\ Call.cfg = Empty /\ Call.prev = Empty
  BY DEF Init, N!Init, N!NoOp, Call, Threads
<1>4. Called /\ Recorded
  BY <1>2, <1>3 DEF Called, Recorded, Validating, At
<1>5. Credentials
  BY <1>3 DEF Credentials, Backed
<1>. QED
  BY <1>3, <1>4, <1>5, ValidAssumption DEF SerialInv

\* Of the variables in SerialInv, neither the clock nor stuttering changes one.
LEMMA StillInv ==
  ASSUME All, UNCHANGED failures, Tick \/ UNCHANGED vars
  PROVE  SerialInv'
<1>1. UNCHANGED <<job, configData, unrendered, authFiles, created, file, lastWorking, running, op>>
  BY DEF Tick, vars, serverVars, disk, nginxVars
<1>. QED
  BY <1>1 DEF All, SerialInv, Called, Judges, Publishes, Recorded, Credentials, Validating, At,
     Call, Safe, Backed

LEMMA AllStep == ASSUME All, [Next]_vars PROVE All'
<1>1. CallerInv'
  BY CallerStep DEF All
<1>2. P!Inv'
  <2>1. P!OneCaller
    BY CallKnown DEF All, CallFacts, P!OneCaller
  <2>2. [P!Next]_nginxVars
    BY NginxSimulation, SameNginx DEF All
  <2>. QED
    BY <2>1, <2>2, SlotAssumptions, P!InvStep DEF All, nginxVars, P!nginxVars
<1>3. SerialInv'
  <2>1. UNCHANGED failures /\ Timers = {} /\ Threads = {Dispatcher}
    BY CallKnown DEF Next, Observed, vars, All, Serial, CallFacts
  <2>. QED
    BY <2>1, NginxStepInv, MasterInv, ValidationsInv, AnswerInv, ReloadInv, EndInv, StartInv,
       PublishInv, BootInv, StillInv DEF Next, Commands, Dispatch
<1>. QED
  BY <1>1, <1>2, <1>3 DEF All, Serial, Closed

LEMMA SpecAll == ASSUME Serial, Closed PROVE Spec => []All
<1>1. Init => All
  <2>. SUFFICES ASSUME Init PROVE All
    OBVIOUS
  <2>1. P!Inv
    BY SameNginx, SlotAssumptions, P!InitInv DEF Init
  <2>. QED
    BY <2>1, CallerInit, SerialInit DEF All
<1>2. All /\ [Next]_vars => All'
  BY AllStep
<1>. QED
  BY <1>1, <1>2, PTL DEF Spec

\* Without timer threads, and if less of what nginx accepts is accepted, no
\* config that nginx refuses is ever kept in config_data (RacePoison shows that
\* one timer thread is enough to make this false).
THEOREM AcceptedAreValid == ASSUME Serial, Closed PROVE Spec => []AcceptedIsValid
<1>1. All => AcceptedIsValid
  BY DEF All, SerialInv, AcceptedIsValid
<1>. QED
  BY <1>1, SpecAll, PTL

\* Nor is a credentials file taken away that the served config names, or the
\* one that a failed update would go back to.
THEOREM CredentialsStay == ASSUME Serial, Closed PROVE Spec => []CredentialsThere
<1>1. All => CredentialsThere
  <2>. SUFFICES ASSUME All PROVE CredentialsThere
    OBVIOUS
  <2>1. Credentials /\ Called
    BY DEF All, SerialInv
  <2>2. Backed(lastWorking, authFiles)
    BY <2>1 DEF Credentials, Backed, Safe
  <2>3. Backed(running, authFiles)
    BY <2>1 DEF Credentials, Called, Judges, Backed, Safe
  <2>. QED
    BY <2>2, <2>3 DEF CredentialsThere, Backed
<1>. QED
  BY <1>1, SpecAll, PTL

\* When nothing is under way, the managed file, the record and nginx agree, and
\* where nothing raises they agree with config_data: unless the master read the
\* file, at its last signal, when it held something else already.
THEOREM FollowedAgrees ==
  ASSUME Serial, Closed PROVE Spec => [](N!Followed => QuietIsConsistent)
<1>1. All => (N!Followed => QuietIsConsistent)
  <2>. SUFFICES ASSUME All, Quiet, ~missed
                PROVE  /\ file = lastWorking /\ running = lastWorking
                       /\ ~failures => lastWorking = configData
    BY DEF QuietIsConsistent, Consistent, N!Followed
  <2>1. CallFacts /\ Recorded /\ IndInv /\ P!Inv /\ job.at = "idle" /\ signalled = Down /\ pending = NoTask
    BY CallKnown DEF All, SerialInv, CallerInv, Quiet, At
  <2>2. Call.at = "none" /\ running # Down
    BY <2>1 DEF Quiet, N!Idle, Call, CallFacts, At
  <2>3. file = lastWorking
    BY <2>1, <2>2 DEF CallFacts, At
  <2>4. running = lastWorking
    <3>1. P!ServedInv(Dispatcher)
      BY <2>1 DEF P!Inv, CallFacts
    <3>. QED
      BY <2>1, <2>2, <3>1 DEF P!ServedInv, P!Meant, Call
  <2>5. ~failures => lastWorking = configData
    <3>1. ~failures => ~unrendered
      BY <2>1 DEF IndInv, PlaceInv, ReloadComing, All, Serial
    <3>. QED
      BY <2>1, <3>1 DEF Recorded, At
  <2>. QED
    BY <2>3, <2>4, <2>5
<1>. QED
  BY <1>1, SpecAll, PTL

\* A master that reads the file when it is told to never misses it, so that this
\* holds whenever nothing is under way.
THEOREM QuietAgrees ==
  ASSUME Serial, Closed, ~MasterDelay PROVE Spec => []QuietIsConsistent
<1>1. All => N!Followed
  BY DEF All, P!Inv, P!AnyCallers, P!Signals, N!Followed
<1>. QED
  BY <1>1, SpecAll, FollowedAgrees, PTL
-----------------------------------------------------------------------------
\* One step of WebServer, as its publisher sees it: what nginx serves changes
\* to what config_data describes, or by a kill or a boot.
LEMMA PublishedWhole ==
  ASSUME All, NginxStep(Dispatcher), running' # running
  PROVE  Publisher!Publish
<1>1. CallFacts /\ SerialInv
  BY CallKnown DEF All
<1>2. Effect
  BY <1>1, StepEffect DEF CallFacts, NginxStep
<1>3. Call.at = "reload" /\ running' = file
  BY <1>2 DEF Effect, Same
<1>4. running # Down /\ ~At("boot")
  BY <1>1, <1>3 DEF SerialInv, Called, CallFacts
<1>5. At("reload") /\ file = configData
  BY <1>1, <1>3, <1>4 DEF CallFacts, SerialInv, Called, Judges, Publishes, Validating
<1>6. configData' = configData /\ configData \in Valid
  BY <1>1 DEF NginxStep, serverVars, SerialInv
<1>. QED
  BY <1>3, <1>4, <1>5, <1>6 DEF Publisher!Publish

LEMMA BootedValid ==
  ASSUME All, BootNginx, running' # running
  PROVE  Publisher!Boot
<1>1. CallFacts /\ P!CallInv(Dispatcher) /\ Empty \notin Valid /\ {} \in Valid
  BY CallKnown, ValidAssumption DEF All, P!Inv, CallFacts
<1>2. configData' = configData
  BY DEF BootNginx, serverVars
<1>3. CASE N!Setup(Dispatcher)
  BY <1>2, <1>3 DEF N!Setup, Publisher!Boot
<1>4. CASE N!ForceStart(Dispatcher)
  <2>1. running = Down /\ file = {}
    BY <1>1, <1>4 DEF N!ForceStart, P!CallInv
  <2>. QED
    BY <1>1, <1>2, <1>4, <2>1 DEF N!ForceStart, Publisher!Boot
<1>5. CASE N!Return(Dispatcher)
  BY <1>5 DEF N!Return
<1>. QED
  BY <1>3, <1>4, <1>5 DEF BootNginx

LEMMA PublisherStep ==
  ASSUME All, ~MasterDelay, Next
  PROVE  Publisher!Next \/ UNCHANGED Publisher!pubVars
<1>1. UNCHANGED failures /\ Timers = {} /\ Threads = {Dispatcher}
  BY CallKnown DEF Next, Observed, All, Serial, CallFacts
<1>2. ASSUME running' = running PROVE Publisher!Next \/ UNCHANGED Publisher!pubVars
  BY <1>1, <1>2 DEF Publisher!Next, Publisher!Change, Publisher!pubVars
<1>3. CASE NginxStep(Dispatcher)
  BY <1>1, <1>2, <1>3, PublishedWhole DEF Publisher!Next
<1>4. CASE BootNginx
  BY <1>1, <1>2, <1>4, BootedValid DEF Publisher!Next
<1>5. CASE Crash
  BY <1>1, <1>5 DEF Crash, N!Crash, Publisher!Next, Publisher!Kill
<1>6. CASE MasterReload
  BY <1>6 DEF MasterReload, N!MasterReload, All, P!Inv, P!AnyCallers, P!Signals
<1>7. CASE Commands
  BY <1>2, <1>7 DEF Commands, UpdateBackend, RemoveBackend, Rescan, ReloadCommand, DryRun,
     N!CallValidate, nginxVars
<1>8. CASE UpdateValidated \/ NextBackend \/ NextStatics \/ StepValidated
  BY <1>2, <1>8 DEF UpdateValidated, NextBackend, NextStatics, StepValidated, DryRun,
     N!CallValidate, N!Return
<1>9. CASE \/ StepRaises \/ PublishNow \/ PublishLater \/ PublishDirect \/ BeginReload \/ EndReload
           \/ ReloadRaises(Dispatcher) \/ DirectRaises
           \/ \E found \in SUBSET Backends : BootRescan(found)
  BY <1>2, <1>9 DEF StepRaises, PublishNow, PublishLater, PublishDirect, BeginReload, EndReload,
     ReloadRaises, DirectRaises, BootRescan, DoReload, N!CallUpdate, Ended, N!Return, nginxVars
<1>10. CASE Tick
  BY <1>2, <1>10 DEF Tick, nginxVars
<1>. QED
  BY <1>1, <1>3, <1>4, <1>5, <1>6, <1>7, <1>8, <1>9, <1>10 DEF Next, Dispatch

\* Without timer threads WebServer is a publisher of config_data: nginx goes from
\* one whole, current config to another, at its reload and in one step; it is
\* never given an older or a refused one, and nothing but a kill stops it.  (That
\* it publishes in the end needs fairness and is left to the run.)
THEOREM PublisherImplemented ==
  ASSUME Serial, Closed, ~MasterDelay PROVE Spec => Publisher!Spec
<1>1. Init => Publisher!Init
  BY SwitchesAssumption DEF Init, N!Init, Publisher!Init
<1>2. All /\ [Next]_vars => [Publisher!Next]_(Publisher!pubVars)
  BY PublisherStep DEF vars, serverVars, nginxVars, Publisher!pubVars
<1>. QED
  BY <1>1, <1>2, SpecAll, PTL DEF Spec, Publisher!Spec

-----------------------------------------------------------------------------
(***************************************************************************)
(* Any number of timer threads again: what a forced rescan repairs.  While  *)
(* calls of Nginx do not overlap, the one under way can rely on the file;   *)
(* and either all agree, or a forced reload is ahead that makes them.       *)
(***************************************************************************)

\* What one thread at a time may rely on.  A validation tells the truth, and an
\* update has a config nginx accepts, the current one unless config_data has
\* changed since.
Truthful(h) ==
  LET o == op[h] IN
  /\ o.cfg \in Contents
  /\ o.at \in {"test", "reload", "commit"} => file = o.cfg
  /\ o.at = "restore" => (o.ok <=> o.cfg \in Valid)
  /\ o.update => /\ o.cfg \in Valid /\ o.at # "rollback"
                 /\ ~unrendered => o.cfg = configData

\* nginx serves text, or will once the master has read what it was told to.
Serving(text) ==
  /\ signalled = Down /\ ~missed => running = text
  /\ signalled # Down => signalled = text

\* Between calls the file, the record and nginx agree, and agree with config_data
\* if it has not changed; during a call but for what the call has done to the
\* file, and for what nginx was given and is not recorded yet.
Agreed == file = lastWorking /\ Serving(lastWorking) /\ (~unrendered => lastWorking = configData)
Underway(h) ==
  LET o == op[h] IN
  /\ o.at \in {"compare", "read", "candidate", "write"} => file = lastWorking
  /\ o.at \in {"candidate", "test", "restore"} => o.prev = lastWorking
  /\ Serving(IF o.at = "commit" THEN o.cfg ELSE lastWorking)
  /\ ~o.update /\ ~unrendered => lastWorking = configData
Settled == (InCall(op) = {} => Agreed) /\ \A h \in InCall(op) : Underway(h)

\* Or a forced reload is coming that will make them agree.
Forced ==
  /\ job.task.force
  /\ \/ job.at \in {"next", "backend", "statics", "publish", "taken"}
     \/ At("reload") /\ Call.at \in {"compare", "read", "candidate", "test", "restore", "write", "reload"}

\* The calls that can be under way, for any overlap: a timer thread only
\* updates, the dispatcher does what its place says.
TimerCalls ==
  \A t \in Timers : op[t].at # "none" => op[t].update /\ op[t].at # "start" /\ ~At("boot")
DispatcherCalls ==
  /\ Validating => /\ Call.cfg = job.cand /\ ~Call.update
                   /\ Call.at \in {"read", "candidate", "test", "restore", "returned"}
  /\ At("reload") /\ Call.at # "none" =>
       Call.update /\ Call.at # "start" /\ (job.task.force => Call.force)
  /\ At("reload") /\ ~failures => Call.at # "none"
  /\ ~Validating /\ ~At("reload") /\ ~At("boot") => Call.at = "none"
  /\ At("boot") => Call.at \in {"none", "start", "returned"} /\ ~Call.update
ForcedPlaces ==
  /\ At("boot") => configData = {}
  /\ At("taken") => held[Dispatcher] = job.task
  /\ job.task.force =>
       /\ job.how \in {"direct", "now"}
       /\ job.at \in {"next", "backend", "statics", "publish", "taken", "reload"}
Placed == IsFiniteSet(InCall(op)) /\ TimerCalls /\ DispatcherCalls /\ ForcedPlaces

\* While calls of Nginx do not overlap.
Alone ==
  /\ \A g, h \in InCall(op) : g = h
  /\ \A h \in InCall(op) : Truthful(h)
  /\ Validating /\ Call.at = "returned" => (Call.ok <=> job.cand \in Valid)
  /\ configData \in Valid
  /\ At("boot") \/ Forced \/ Settled

RepairInv == CallerInv /\ P!AnyCallers /\ Placed /\ (~raced /\ ~failures => Alone)

Steady == CallerInv /\ P!AnyCallers /\ Placed

\* A step inside a call: it stays that call, and no other call changes.
LEMMA StepShape ==
  ASSUME P!AnyCallers, NEW h \in Threads, N!Step(h)
  PROVE  /\ h \in InCall(op) /\ \A g \in Threads \ {h} : op'[g] = op[g]
         /\ op'[h].cfg = op[h].cfg /\ op'[h].update = op[h].update /\ op'[h].force = op[h].force
         /\ op[h].at \notin {"none", "start", "returned"} /\ op'[h].at \notin {"none", "start"}
         /\ ~op[h].update /\ op[h].at \in {"read", "candidate", "test", "restore"} =>
              op'[h].at \in {"candidate", "test", "restore", "returned"}
<1>. USE DEF P!AnyCallers, P!TypeOK, P!Calls, N!Goto, InCall
<1>1. CASE N!Compare(h)
  BY <1>1 DEF N!Compare
<1>2. CASE N!ReadPrevious(h) \/ N!WriteCandidate(h)
  BY <1>2 DEF N!ReadPrevious, N!WriteCandidate
<1>3. CASE N!TestCandidate(h)
  BY <1>3 DEF N!TestCandidate
<1>4. CASE N!RestorePrevious(h)
  BY <1>4 DEF N!RestorePrevious
<1>5. CASE N!WriteConfig(h) \/ N!Commit(h) \/ N!Rollback(h)
  BY <1>5 DEF N!WriteConfig, N!Commit, N!Rollback
<1>6. CASE N!Reload(h)
  BY <1>6 DEF N!Reload
<1>. QED
  BY <1>1, <1>2, <1>3, <1>4, <1>5, <1>6 DEF N!Step

\* The calls that begin and end.
LEMMA CallShape ==
  ASSUME P!AnyCallers, NEW h \in Threads
  PROVE  /\ \A cfg : N!CallValidate(h, cfg) =>
              /\ op[h].at = "none" /\ op'[h].at = "read" /\ op'[h].cfg = cfg /\ ~op'[h].update
              /\ \A g \in Threads \ {h} : op'[g] = op[g]
         /\ \A cfg, force, validate : N!CallUpdate(h, cfg, force, validate) =>
              /\ op[h].at = "none" /\ op'[h].at = "compare" /\ op'[h].cfg = cfg /\ op'[h].update
              /\ op'[h].force = force /\ \A g \in Threads \ {h} : op'[g] = op[g]
         /\ N!Return(h) =>
              /\ op[h].at = "returned" /\ op'[h].at = "none" /\ ~op'[h].update
              /\ \A g \in Threads \ {h} : op'[g] = op[g]
         /\ N!Setup(h) => /\ op[h].at = "none" /\ op'[h].at \in {"none", "start"}
                          /\ ~op[h].update => ~op'[h].update
                          /\ \A g \in Threads \ {h} : op'[g] = op[g]
         /\ N!ForceStart(h) => /\ op[h].at = "start" /\ op'[h].at = "returned" /\ ~op'[h].update
                               /\ \A g \in Threads \ {h} : op'[g] = op[g]
<1>. USE DEF P!AnyCallers, P!TypeOK, P!Calls, N!NoOp, N!Idle, N!Returned
<1>1. ASSUME NEW cfg, N!CallValidate(h, cfg)
      PROVE  /\ op[h].at = "none" /\ op'[h].at = "read" /\ op'[h].cfg = cfg /\ ~op'[h].update
             /\ \A g \in Threads \ {h} : op'[g] = op[g]
  BY <1>1 DEF N!CallValidate
<1>2. ASSUME NEW cfg, NEW force, NEW validate, N!CallUpdate(h, cfg, force, validate)
      PROVE  /\ op[h].at = "none" /\ op'[h].at = "compare" /\ op'[h].cfg = cfg /\ op'[h].update
             /\ op'[h].force = force /\ \A g \in Threads \ {h} : op'[g] = op[g]
  BY <1>2 DEF N!CallUpdate
<1>3. ASSUME N!Return(h)
      PROVE  /\ op[h].at = "returned" /\ op'[h].at = "none" /\ ~op'[h].update
             /\ \A g \in Threads \ {h} : op'[g] = op[g]
  BY <1>3 DEF N!Return
<1>4. ASSUME N!Setup(h)
      PROVE  /\ op[h].at = "none" /\ op'[h].at \in {"none", "start"}
             /\ ~op[h].update => ~op'[h].update
             /\ \A g \in Threads \ {h} : op'[g] = op[g]
  <2>1. CASE UNCHANGED op
    BY <1>4, <2>1 DEF N!Setup
  <2>2. CASE op' = [op EXCEPT ![h] = [N!NoOp EXCEPT !.at = "start", !.cfg = {}, !.force = TRUE]]
    BY <1>4, <2>2 DEF N!Setup
  <2>. QED
    BY <1>4, <2>1, <2>2 DEF N!Setup
<1>5. ASSUME N!ForceStart(h)
      PROVE  /\ op[h].at = "start" /\ op'[h].at = "returned" /\ ~op'[h].update
             /\ \A g \in Threads \ {h} : op'[g] = op[g]
  BY <1>5 DEF N!ForceStart
<1>. QED
  BY <1>1, <1>2, <1>3, <1>4, <1>5

\* Only one thread's call changes in a step.
LEMMA FiniteCalls ==
  ASSUME P!AnyCallers, [N!Next]_nginxVars, IsFiniteSet(InCall(op))
  PROVE  IsFiniteSet(InCall(op'))
<1>1. ASSUME NEW h \in Threads, \A g \in Threads \ {h} : op'[g] = op[g] PROVE IsFiniteSet(InCall(op'))
  <2>1. InCall(op') \in SUBSET (InCall(op) \cup {h})
    BY <1>1 DEF InCall
  <2>2. IsFiniteSet(InCall(op) \cup {h})
    BY FS_AddElement
  <2>. QED
    BY <2>1, <2>2, FS_Subset
<1>2. CASE UNCHANGED op
  BY <1>2
<1>3. CASE N!Crash
  <2>1. InCall(op') = {}
    BY <1>3 DEF N!Crash, N!NoOp, InCall
  <2>. QED
    BY <2>1, FS_EmptySet
<1>. QED
  BY <1>1, <1>2, <1>3, StepShape, CallShape DEF N!Next, nginxVars, N!MasterReload

\* Only a kill leads to the boot.
LEMMA OnlyCrashBoots ==
  ASSUME CallerInv, [Next]_vars, ~Crash, job'.at = "boot"
  PROVE  job.at = "boot"
<1>. SUFFICES ASSUME job.at # "boot" PROVE FALSE
  OBVIOUS
<1>. USE DEF At
<1>1. JobShape(job)
  BY DEF CallerInv, IndInv, PlaceInv
<1>2. ASSUME NEW b \in Backends, NEW registers \in BOOLEAN, NEW replace \in BOOLEAN,
             UpdateBackend(b, registers, replace) \/ RemoveBackend(b)
      PROVE  FALSE
  BY <1>2 DEF UpdateBackend, RemoveBackend, NoJob
<1>3. ASSUME NEW found \in SUBSET Backends, NEW how \in {"direct", "throttle"},
             NEW force \in BOOLEAN, Rescan(found, how, force)
      PROVE  FALSE
  BY <1>3, JobTypes DEF Rescan
<1>4. ASSUME NEW force \in BOOLEAN, ReloadCommand(force) PROVE FALSE
  BY <1>4 DEF ReloadCommand, NoJob
<1>5. CASE UpdateValidated \/ NextBackend \/ NextStatics \/ StepValidated \/ StepRaises
  BY <1>1, <1>5, JobTypes DEF UpdateValidated, NextBackend, NextStatics, StepValidated,
     StepRaises, JobShape
<1>6. CASE \/ PublishNow \/ PublishLater \/ PublishDirect \/ BeginReload \/ EndReload
           \/ DirectRaises \/ \E h \in Threads : ReloadRaises(h)
  BY <1>1, <1>6, JobTypes DEF PublishNow, PublishLater, PublishDirect, BeginReload,
     EndReload, DirectRaises, ReloadRaises, Goto, JobShape
<1>7. CASE BootNginx \/ \E found \in SUBSET Backends : BootRescan(found)
  BY <1>7 DEF BootNginx, BootRescan
<1>8. CASE \/ \E t \in Timers : TimerFires(t) \/ TimerBegins(t) \/ TimerEnds(t)
           \/ \E h \in Threads : NginxStep(h)
           \/ MasterReload \/ Tick \/ UNCHANGED vars
  BY <1>8 DEF TimerFires, TimerBegins, TimerEnds, NginxStep, MasterReload, Tick, vars, serverVars
<1>. QED
  BY <1>2, <1>3, <1>4, <1>5, <1>6, <1>7, <1>8 DEF Next, Commands, Dispatch, TimerThread, Threads

LEMMA TimerCallsStep == ASSUME Steady, [Next]_vars PROVE TimerCalls'
<1>. SUFFICES ASSUME NEW t \in Timers
              PROVE  op'[t].at # "none" => op'[t].update /\ op'[t].at # "start" /\ job'.at # "boot"
  BY DEF TimerCalls, At
<1>1. t \in Threads /\ Dispatcher \in Threads /\ t # Dispatcher
  BY DEF Threads
<1>2. P!AnyCallers /\ (op[t].at # "none" => op[t].update /\ op[t].at # "start" /\ job.at # "boot")
  BY DEF Steady, Placed, TimerCalls, At
<1>3. ~Crash /\ job'.at = "boot" => job.at = "boot"
  BY OnlyCrashBoots DEF Steady
<1>4. ASSUME op'[t] = op[t], ~Crash
      PROVE  op'[t].at # "none" => op'[t].update /\ op'[t].at # "start" /\ job'.at # "boot"
  BY <1>2, <1>3, <1>4
<1>5. CASE Crash
  BY <1>1, <1>5 DEF Crash, N!Crash, N!NoOp
<1>6. CASE ~Crash
  <2>1. ASSUME op' = op PROVE op'[t] = op[t]
    BY <2>1
  <2>2. CASE Commands
    BY <1>1, <1>2, <1>4, <1>6, <2>2, CallShape DEF Commands, UpdateBackend, RemoveBackend, Rescan,
       ReloadCommand, DryRun, nginxVars
  <2>3. CASE UpdateValidated \/ NextBackend \/ NextStatics \/ StepValidated \/ StepRaises
    BY <1>1, <1>2, <1>4, <1>6, <2>3, CallShape DEF UpdateValidated, NextBackend, NextStatics,
       StepValidated, StepRaises, DryRun, nginxVars
  <2>4. CASE \/ PublishNow \/ PublishLater \/ PublishDirect \/ BeginReload \/ EndReload \/ DirectRaises
             \/ \E h \in Threads : ReloadRaises(h)
    BY <1>1, <1>2, <1>4, <1>6, <2>4, CallShape DEF PublishNow, PublishLater, PublishDirect,
       BeginReload, EndReload, DirectRaises, ReloadRaises, DoReload, Ended, nginxVars
  <2>5. CASE BootNginx \/ \E found \in SUBSET Backends : BootRescan(found)
    BY <1>1, <1>2, <1>4, <1>6, <2>5, CallShape DEF BootNginx, BootRescan, nginxVars
  <2>6. ASSUME NEW u \in Timers, TimerFires(u)
        PROVE  op'[t] = op[t]
    BY <2>6 DEF TimerFires, nginxVars
  <2>7. ASSUME NEW u \in Timers, TimerBegins(u)
        PROVE  op'[t].at # "none" => op'[t].update /\ op'[t].at # "start" /\ job'.at # "boot"
    <3>1. u \in Threads /\ pc[u] = "taken" /\ N!CallUpdate(u, configData, held[u].force, held[u].validate)
      BY <2>7 DEF TimerBegins, T!Begin, DoReload, Threads
    <3>2. job.at # "boot"
      BY <3>1 DEF Steady, CallerInv, Booted, At
    <3>3. CASE u = t
      BY <1>2, <1>3, <1>6, <3>1, <3>2, <3>3, CallShape
    <3>4. CASE u # t
      BY <1>1, <1>2, <1>4, <1>6, <3>1, <3>4, CallShape
    <3>. QED
      BY <3>3, <3>4
  <2>8. ASSUME NEW u \in Timers, TimerEnds(u)
        PROVE  op'[t].at # "none" => op'[t] = op[t]
    <3>1. u \in Threads
      BY DEF Threads
    <3>. QED
      BY <1>1, <1>2, <2>8, <3>1, CallShape DEF TimerEnds, Ended, nginxVars
  <2>9. ASSUME NEW h \in Threads, NginxStep(h)
        PROVE  op'[t].at # "none" => op'[t].update /\ op'[t].at # "start" /\ job'.at # "boot"
    <3>1. N!Step(h)
      BY <2>9 DEF NginxStep
    <3>2. CASE h = t
      BY <1>2, <1>3, <1>6, <3>1, <3>2, StepShape
    <3>3. CASE h # t
      BY <1>1, <1>2, <1>4, <1>6, <3>1, <3>3, StepShape
    <3>. QED
      BY <3>2, <3>3
  <2>10. CASE MasterReload \/ Tick \/ UNCHANGED vars
    BY <1>4, <1>6, <2>10 DEF MasterReload, N!MasterReload, Tick, vars, nginxVars
  <2>. QED
    BY <1>4, <1>6, <2>1, <2>2, <2>3, <2>4, <2>5, <2>6, <2>7, <2>8, <2>9, <2>10
       DEF Next, Dispatch, TimerThread, Threads
<1>. QED
  BY <1>5, <1>6

LEMMA ForcedPlacesStep == ASSUME Steady, [Next]_vars PROVE ForcedPlaces'
<1>. USE DEF At
<1>1. JobShape(job) /\ ForcedPlaces /\ Dispatcher \in Threads /\ held \in [Threads -> Tasks \cup {NoTask}]
  BY DEF Steady, CallerInv, IndInv, PlaceInv, Placed, TaskTypes, Threads
<1>2. CASE Commands
  <2>1. ASSUME NEW b \in Backends, NEW registers \in BOOLEAN, NEW replace \in BOOLEAN,
               UpdateBackend(b, registers, replace) \/ RemoveBackend(b)
        PROVE  ~job'.task.force /\ job'.at \in {"update", "next"}
    <3>1. CASE RemoveBackend(b)
      BY <3>1 DEF RemoveBackend, NoJob
    <3>2. CASE UpdateBackend(b, registers, replace)
      <4>1. PICK cand : job' = [NoJob EXCEPT !.at = "update", !.cand = cand, !.how = "throttle",
                                             !.task.validate = FALSE]
        BY <3>2 DEF UpdateBackend
      <4>. QED
        BY <4>1 DEF NoJob
    <3>. QED
      BY <2>1, <3>1, <3>2
  <2>2. ASSUME NEW found \in SUBSET Backends, NEW how \in {"direct", "throttle"},
               NEW force \in BOOLEAN, Rescan(found, how, force)
        PROVE  job'.at = "next" /\ (job'.task.force => job'.how = "direct")
    BY <2>2 DEF Rescan, RescanJob
  <2>3. ASSUME NEW force \in BOOLEAN, ReloadCommand(force)
        PROVE  job'.at = "publish" /\ job'.how = "direct"
    BY <2>3 DEF ReloadCommand, NoJob
  <2>. QED
    BY <1>2, <2>1, <2>2, <2>3 DEF Commands, ForcedPlaces
<1>3. ~NoJob.task.force /\ NoJob.at = "idle"
  BY DEF NoJob
<1>4. CASE UpdateValidated \/ NextBackend \/ NextStatics \/ StepValidated
  <2>1. \/ job' = NoJob
        \/ job'.task = job.task /\ job'.how = job.how /\ job'.at \in {"backend", "statics", "next", "publish"}
    BY <1>1, <1>4 DEF UpdateValidated, NextBackend, NextStatics, StepValidated, JobShape
  <2>. QED
    BY <1>1, <1>3, <2>1 DEF ForcedPlaces
<1>5. CASE StepRaises \/ PublishLater \/ DirectRaises \/ EndReload
  <2>1. job' = NoJob
    BY <1>5 DEF StepRaises, PublishLater, DirectRaises, EndReload
  <2>. QED
    BY <1>3, <2>1 DEF ForcedPlaces
<1>6. CASE PublishNow
  <2>1. job'.task = job.task /\ job'.how = job.how /\ job'.at = "taken" /\ held'[Dispatcher] = job.task
    BY <1>1, <1>6 DEF PublishNow, Goto, T!RunNow, JobShape
  <2>. QED
    BY <1>1, <2>1 DEF ForcedPlaces
<1>7. CASE PublishDirect \/ BeginReload \/ ReloadRaises(Dispatcher)
  <2>1. job'.task = job.task /\ job'.how = job.how /\ job'.at = "reload"
    BY <1>1, <1>7 DEF PublishDirect, BeginReload, ReloadRaises, Goto, JobShape
  <2>. QED
    BY <1>1, <2>1 DEF ForcedPlaces
<1>8. CASE BootNginx \/ Tick \/ MasterReload \/ (\E h \in Threads : NginxStep(h)) \/ UNCHANGED vars
  <2>1. UNCHANGED <<job, configData, held>>
    BY <1>8 DEF BootNginx, Tick, T!Tick, MasterReload, NginxStep, vars, serverVars, throttlerVars
  <2>. QED
    BY <1>1, <2>1 DEF ForcedPlaces
<1>9. ASSUME NEW t \in Timers, TimerThread(t) PROVE ForcedPlaces'
  <2>1. t # Dispatcher
    OBVIOUS
  <2>2. UNCHANGED <<job, configData>>
    BY <1>9, <2>1 DEF TimerThread, TimerFires, TimerBegins, ReloadRaises, TimerEnds, serverVars
  <2>3. held'[Dispatcher] = held[Dispatcher]
    BY <1>1, <1>9, <2>1 DEF TimerThread, TimerFires, TimerBegins, ReloadRaises, TimerEnds,
       T!Fire, T!Trigger, T!Begin, T!Finish
  <2>. QED
    BY <1>1, <2>2, <2>3 DEF ForcedPlaces
<1>10. ASSUME NEW found \in SUBSET Backends, BootRescan(found) PROVE ForcedPlaces'
  <2>1. job'.at = "next" /\ job'.how = "now"
    BY <1>10 DEF BootRescan, RescanJob
  <2>. QED
    BY <2>1 DEF ForcedPlaces
<1>11. CASE Crash
  <2>1. job'.at = "boot" /\ configData' = {} /\ ~job'.task.force
    BY <1>11 DEF Crash, NoJob
  <2>. QED
    BY <2>1 DEF ForcedPlaces
<1>. QED
  BY <1>2, <1>4, <1>5, <1>6, <1>7, <1>8, <1>9, <1>10, <1>11 DEF Next, Dispatch

LEMMA DispatcherCallsStep == ASSUME Steady, [Next]_vars PROVE DispatcherCalls'
<1>. USE DEF At
<1>1. /\ P!AnyCallers /\ JobShape(job) /\ ForcedPlaces /\ DispatcherCalls
      /\ Dispatcher \in Threads /\ \A t \in Timers : t # Dispatcher
  BY DEF Steady, CallerInv, IndInv, PlaceInv, Placed, Threads
<1>2. NoJob.at = "idle" /\ failures' = failures
  BY DEF NoJob, Next, Observed, vars
<1>3. ASSUME NEW cand, DryRun(cand), Validating', job'.cand = cand PROVE DispatcherCalls'
  <2>1. Call'.at = "read" /\ Call'.cfg = cand /\ ~Call'.update
    BY <1>1, <1>3, CallShape DEF DryRun, Call
  <2>2. job'.at \in {"update", "backend", "statics"}
    BY <1>3 DEF Validating
  <2>. QED
    BY <1>3, <2>1, <2>2 DEF DispatcherCalls
<1>4. ASSUME Call'.at = "none", job'.at \in {"idle", "next", "publish", "taken"} \/ (failures /\ job'.at = "reload")
      PROVE  DispatcherCalls'
  BY <1>2, <1>4 DEF DispatcherCalls, Validating
<1>5. CASE Commands
  <2>1. job.at = "idle"
    BY <1>5 DEF Commands, UpdateBackend, RemoveBackend, Rescan, ReloadCommand
  <2>2. Call.at = "none"
    BY <1>1, <2>1 DEF DispatcherCalls, Validating
  <2>3. ASSUME NEW b \in Backends, NEW registers \in BOOLEAN, NEW replace \in BOOLEAN,
               UpdateBackend(b, registers, replace)
        PROVE  DispatcherCalls'
    <3>1. PICK cand : /\ job' = [NoJob EXCEPT !.at = "update", !.cand = cand, !.how = "throttle",
                                              !.task.validate = FALSE]
                      /\ DryRun(cand)
      BY <2>3 DEF UpdateBackend
    <3>2. job'.at = "update" /\ job'.cand = cand
      BY <3>1 DEF NoJob
    <3>. QED
      BY <1>3, <3>1, <3>2 DEF Validating
  <2>4. ASSUME NEW b \in Backends, RemoveBackend(b) PROVE DispatcherCalls'
    <3>1. job'.at = "next" /\ op' = op
      BY <2>4 DEF RemoveBackend, NoJob, nginxVars
    <3>. QED
      BY <1>4, <2>2, <3>1 DEF Call
  <2>5. ASSUME NEW found \in SUBSET Backends, NEW how \in {"direct", "throttle"},
               NEW force \in BOOLEAN, Rescan(found, how, force)
        PROVE  DispatcherCalls'
    <3>1. job'.at = "next" /\ op' = op
      BY <2>5 DEF Rescan, RescanJob, nginxVars
    <3>. QED
      BY <1>4, <2>2, <3>1 DEF Call
  <2>6. ASSUME NEW force \in BOOLEAN, ReloadCommand(force) PROVE DispatcherCalls'
    <3>1. job'.at = "publish" /\ op' = op
      BY <2>6 DEF ReloadCommand, NoJob, nginxVars
    <3>. QED
      BY <1>4, <2>2, <3>1 DEF Call
  <2>. QED
    BY <1>5, <2>3, <2>4, <2>5, <2>6 DEF Commands
<1>6. CASE UpdateValidated \/ StepValidated
  <2>1. job'.at \in {"idle", "next", "publish"}
    BY <1>1, <1>2, <1>6 DEF UpdateValidated, StepValidated, JobShape
  <2>2. Call'.at = "none"
    BY <1>1, <1>6, CallShape DEF UpdateValidated, StepValidated, Call
  <2>. QED
    BY <1>4, <2>1, <2>2
<1>7. CASE NextBackend
  <2>1. PICK b \in job.todo :
          /\ job' = [job EXCEPT !.at = "backend", !.todo = @ \ {b}, !.cand = Candidate(configData, b, TRUE)]
          /\ DryRun(Candidate(configData, b, TRUE))
    BY <1>7 DEF NextBackend
  <2>2. job'.at = "backend" /\ job'.cand = Candidate(configData, b, TRUE)
    BY <1>1, <2>1 DEF JobShape
  <2>. QED
    BY <1>3, <2>1, <2>2 DEF Validating
<1>8. CASE NextStatics
  <2>1. /\ job' = [job EXCEPT !.at = "statics", !.cand = WithStatics(configData)]
        /\ DryRun(WithStatics(configData))
    BY <1>8 DEF NextStatics
  <2>2. job'.at = "statics" /\ job'.cand = WithStatics(configData)
    BY <1>1, <2>1 DEF JobShape
  <2>. QED
    BY <1>3, <2>1, <2>2 DEF Validating
<1>9. CASE StepRaises \/ PublishNow \/ PublishLater \/ DirectRaises \/ ReloadRaises(Dispatcher)
  <2>1. job.at \in {"next", "publish", "taken"} /\ op' = op
    BY <1>9 DEF StepRaises, PublishNow, PublishLater, DirectRaises, ReloadRaises, nginxVars,
       T!Begin, Steady, CallerInv, Taken
  <2>2. job'.at \in {"idle", "taken"} \/ (failures /\ job'.at = "reload")
    BY <1>1, <1>2, <1>9 DEF StepRaises, PublishNow, PublishLater, DirectRaises, ReloadRaises, Goto, JobShape
  <2>3. Call.at = "none"
    BY <1>1, <2>1 DEF DispatcherCalls, Validating
  <2>. QED
    BY <1>4, <2>1, <2>2, <2>3 DEF Call
<1>10. CASE PublishDirect \/ BeginReload
  <2>1. PICK task : DoReload(Dispatcher, task) /\ task = job.task
    BY <1>1, <1>10 DEF PublishDirect, BeginReload, ForcedPlaces
  <2>2. job'.at = "reload" /\ job'.task = job.task
    BY <1>1, <1>10 DEF PublishDirect, BeginReload, Goto, JobShape
  <2>3. Call'.at = "compare" /\ Call'.update /\ Call'.force = job.task.force
    BY <1>1, <2>1, CallShape DEF DoReload, Call
  <2>. QED
    BY <2>2, <2>3 DEF DispatcherCalls, Validating
<1>11. CASE EndReload
  <2>1. Call'.at = "none"
    BY <1>1, <1>11, CallShape DEF EndReload, Ended, N!Idle, Call, nginxVars
  <2>2. job'.at = "idle"
    BY <1>2, <1>11 DEF EndReload
  <2>. QED
    BY <1>4, <2>1, <2>2
<1>12. CASE BootNginx
  <2>1. job.at = "boot" /\ job' = job
    BY <1>12 DEF BootNginx, serverVars
  <2>2. Call'.at \in {"none", "start", "returned"} /\ ~Call'.update
    <3>1. ~op[Dispatcher].update
      BY <1>1, <2>1 DEF DispatcherCalls, Call
    <3>. QED
      BY <1>1, <1>12, <3>1, CallShape DEF BootNginx, Call
  <2>. QED
    BY <2>1, <2>2 DEF DispatcherCalls, Validating
<1>13. ASSUME NEW found \in SUBSET Backends, BootRescan(found) PROVE DispatcherCalls'
  <2>1. job'.at = "next" /\ op' = op /\ Call.at = "none"
    BY <1>13 DEF BootRescan, RescanJob, nginxVars, N!Idle, Call
  <2>. QED
    BY <1>4, <2>1 DEF Call
<1>14. CASE Crash
  <2>1. job'.at = "boot" /\ Call'.at = "none" /\ ~Call'.update
    BY <1>1, <1>14 DEF Crash, NoJob, N!Crash, N!NoOp, Call
  <2>. QED
    BY <2>1 DEF DispatcherCalls, Validating
<1>15. ASSUME UNCHANGED job, op'[Dispatcher] = op[Dispatcher] PROVE DispatcherCalls'
  BY <1>1, <1>2, <1>15 DEF DispatcherCalls, Validating, Call
<1>16. ASSUME NEW t \in Timers, TimerThread(t) PROVE DispatcherCalls'
  <2>1. t \in Threads /\ t # Dispatcher
    BY <1>1 DEF Threads
  <2>2. job' = job
    BY <1>16, <2>1 DEF TimerThread, TimerFires, TimerBegins, ReloadRaises, TimerEnds, serverVars
  <2>3. op'[Dispatcher] = op[Dispatcher]
    BY <1>1, <1>16, <2>1, CallShape DEF TimerThread, TimerFires, TimerBegins, ReloadRaises,
       TimerEnds, DoReload, Ended, nginxVars
  <2>. QED
    BY <1>15, <2>2, <2>3
<1>17. ASSUME NEW h \in Threads, NginxStep(h) PROVE DispatcherCalls'
  <2>1. job' = job /\ N!Step(h)
    BY <1>17 DEF NginxStep, serverVars
  <2>2. CASE h # Dispatcher
    <3>1. op'[Dispatcher] = op[Dispatcher]
      BY <1>1, <2>1, <2>2, StepShape
    <3>. QED
      BY <1>15, <2>1, <3>1
  <2>3. CASE h = Dispatcher
    <3>1. /\ Call'.cfg = Call.cfg /\ Call'.update = Call.update /\ Call'.force = Call.force
          /\ Call.at \notin {"none", "start", "returned"} /\ Call'.at \notin {"none", "start"}
          /\ ~Call.update /\ Call.at \in {"read", "candidate", "test", "restore"} =>
               Call'.at \in {"candidate", "test", "restore", "returned"}
      BY <1>1, <2>1, <2>3, StepShape DEF Call
    <3>2. Validating' = Validating
      BY <2>1 DEF Validating
    <3>. QED
      BY <1>1, <1>2, <2>1, <3>1, <3>2 DEF DispatcherCalls
  <2>. QED
    BY <2>2, <2>3
<1>18. CASE MasterReload \/ Tick \/ UNCHANGED vars
  BY <1>15, <1>18 DEF MasterReload, N!MasterReload, Tick, vars, serverVars, nginxVars
<1>. QED
  BY <1>5, <1>6, <1>7, <1>8, <1>9, <1>10, <1>11, <1>12, <1>13, <1>14, <1>16, <1>17, <1>18
     DEF Next, Dispatch

LEMMA SteadyStep == ASSUME Steady, [Next]_vars PROVE Steady'
<1>1. CallerInv'
  BY CallerStep DEF Steady
<1>2. [N!Next]_nginxVars
  BY NginxSimulation DEF Steady
<1>3. P!AnyCallers'
  BY <1>2, SameNginx, SlotAssumptions, P!AnyCallersStep DEF Steady, nginxVars, P!nginxVars
<1>4. IsFiniteSet(InCall(op'))
  BY <1>2, FiniteCalls DEF Steady, Placed
<1>5. IsFiniteSet(InCall(op))'
  BY <1>4 DEF InCall
<1>. QED
  BY <1>1, <1>3, <1>5, TimerCallsStep, DispatcherCallsStep, ForcedPlacesStep DEF Steady, Placed

\* The calls that do not overlap are one.
LEMMA AtMostOne ==
  ASSUME NEW S, IsFiniteSet(S), ~(Cardinality(S) > 1)
  PROVE  \A g, h \in S : g = h
<1>1. Cardinality(S) = 0 \/ Cardinality(S) = 1
  BY FS_CardinalityType
<1>2. CASE Cardinality(S) = 0
  BY <1>2, FS_EmptySet
<1>3. CASE Cardinality(S) = 1
  <2>1. PICK x : S = {x}
    BY <1>3, FS_Singleton
  <2>. QED
    BY <2>1
<1>. QED
  BY <1>1, <1>2, <1>3

\* A step outside Nginx, which may change config_data.
LEMMA OutsideCalls ==
  ASSUME Alone, InCall(op') = InCall(op), \A h \in InCall(op) : op'[h] = op[h],
         UNCHANGED <<file, lastWorking, running, signalled, missed>>,
         ~unrendered' => ~unrendered /\ configData' = configData
  PROVE  (\A h \in InCall(op') : Truthful(h)') /\ (Settled => Settled')
<1>1. ASSUME NEW h \in InCall(op) PROVE Truthful(h)' /\ (Underway(h) => Underway(h)')
  <2>1. Truthful(h) /\ op'[h] = op[h]
    BY DEF Alone
  <2>. QED
    BY <2>1 DEF Truthful, Underway, Serving
<1>2. Agreed => Agreed'
  BY DEF Agreed, Serving
<1>3. InCall(op)' = InCall(op)
  BY DEF InCall
<1>4. \A h \in InCall(op)' : Truthful(h)'
  BY <1>1, <1>3
<1>5. Settled => Settled'
  BY <1>1, <1>2, <1>3 DEF Settled
<1>. QED
  BY <1>4, <1>5

\* A call begins while there is none.
LEMMA Begun ==
  ASSUME NEW h \in Threads, InCall(op) = {}, \A g \in Threads \ {h} : op'[g] = op[g],
         op'[h].cfg \in Contents, configData' = configData,
         \/ op'[h].at = "read" /\ ~op'[h].update /\ unrendered' = unrendered
         \/ op'[h].at = "compare" /\ op'[h].update /\ op'[h].cfg = configData /\ configData \in Valid,
         UNCHANGED <<file, lastWorking, running, signalled, missed>>
  PROVE  (\A g \in InCall(op)' : Truthful(g)') /\ (Settled => Settled')
<1>1. InCall(op)' = {h}
  BY DEF InCall
<1>2. Truthful(h)'
  BY DEF Truthful
<1>3. Agreed => Underway(h)'
  BY DEF Agreed, Underway, Serving
<1>. QED
  BY <1>1, <1>2, <1>3 DEF Settled

\* A step inside the one call.
LEMMA Worked ==
  ASSUME Steady, NEW h \in Threads, N!Step(h), InCall(op) = {h}, Truthful(h),
         configData \in Contents,
         op[h].at \in {"compare", "write", "reload", "commit", "rollback"} => op[h].update,
         running # Down, UNCHANGED <<configData, unrendered>>
  PROVE  /\ \A g \in InCall(op)' : Truthful(g)'
         /\ Settled \/ op[h].at = "reload" => Settled'
         /\ op[h].at = "restore" /\ op[h].update => op'[h].at = "write"
<1>. DEFINE o == op[h]  n == op'[h]
<1>1. /\ \A g \in Threads \ {h} : op'[g] = op[g] /\ op[g].at \in {"none", "returned"}
      /\ n.cfg = o.cfg /\ n.update = o.update /\ o.at \notin {"none", "start", "returned"}
      /\ n.at \notin {"none", "start"}
  BY StepShape DEF InCall, Steady
<1>2. InCall(op)' = IF n.at = "returned" THEN {} ELSE {h}
  BY <1>1 DEF InCall
<1>3. /\ o \in P!Calls /\ op \in [Threads -> P!Calls] /\ o.cfg \in Contents
      /\ Down \notin Valid \cup {Empty} /\ Empty \notin Contents /\ P!Signals
  BY TextsAssumption, ValidAssumption DEF Steady, P!AnyCallers, P!TypeOK, Truthful
<1>4. SUFFICES /\ n.at # "returned" => Truthful(h)' /\ (Underway(h) \/ o.at = "reload" => Underway(h)')
               /\ n.at = "returned" => (Underway(h) => Agreed') /\ o.at # "reload"
               /\ o.at = "restore" /\ o.update => n.at = "write"
  BY <1>2 DEF Settled
<1>. USE DEF P!Calls, N!Goto
<1>5. CASE N!Compare(h)
  <2>1. o.at = "compare" /\ UNCHANGED <<file, lastWorking, running, signalled, missed>>
    BY <1>5 DEF N!Compare
  <2>2. n.at \in {"returned", "read", "write"} /\ (n.at = "returned" => o.cfg = lastWorking)
    BY <1>3, <1>5 DEF N!Compare
  <2>. QED
    BY <1>1, <1>3, <2>1, <2>2 DEF Truthful, Underway, Agreed, Serving
<1>6. CASE N!ReadPrevious(h)
  <2>1. /\ o.at = "read" /\ n.at = "candidate" /\ n.prev = file
        /\ UNCHANGED <<file, lastWorking, running, signalled, missed>>
    BY <1>3, <1>6 DEF N!ReadPrevious
  <2>. QED
    BY <1>1, <1>3, <2>1 DEF Truthful, Underway, Agreed, Serving
<1>7. CASE N!WriteCandidate(h)
  <2>1. /\ o.at = "candidate" /\ n.at = "test" /\ n.prev = o.prev /\ file' = o.cfg
        /\ UNCHANGED <<lastWorking, running, signalled, missed>>
    BY <1>3, <1>7 DEF N!WriteCandidate
  <2>. QED
    BY <1>1, <1>3, <2>1 DEF Truthful, Underway, Agreed, Serving
<1>8. CASE N!TestCandidate(h)
  <2>1. /\ o.at = "test" /\ n.at = "restore" /\ n.prev = o.prev /\ (n.ok <=> file \in Valid \cup {Empty})
        /\ UNCHANGED <<file, lastWorking, running, signalled, missed>>
    BY <1>3, <1>8 DEF N!TestCandidate
  <2>. QED
    BY <1>1, <1>3, <2>1 DEF Truthful, Underway, Agreed, Serving
<1>9. CASE N!RestorePrevious(h)
  <2>1. /\ o.at = "restore" /\ n.at = (IF o.update /\ o.ok THEN "write" ELSE "returned") /\ file' = o.prev
        /\ UNCHANGED <<lastWorking, running, signalled, missed>>
    BY <1>3, <1>9 DEF N!RestorePrevious
  <2>2. o.update => o.ok
    BY <2>1 DEF Truthful
  <2>. QED
    BY <1>1, <1>3, <2>1, <2>2 DEF Truthful, Underway, Agreed, Serving
<1>10. CASE N!WriteConfig(h)
  <2>1. /\ o.at = "write" /\ n.at = "reload" /\ file' = o.cfg
        /\ UNCHANGED <<lastWorking, running, signalled, missed>>
    BY <1>3, <1>10 DEF N!WriteConfig
  <2>. QED
    BY <1>1, <1>3, <2>1 DEF Truthful, Underway, Agreed, Serving
<1>11. CASE N!Reload(h)
  <2>1. o.at = "reload" /\ file = o.cfg /\ o.update /\ file \in Valid
    BY <1>11 DEF N!Reload, Truthful
  <2>2. n.at = "commit" /\ UNCHANGED <<file, lastWorking, missed>>
    BY <1>3, <1>11, <2>1 DEF N!Reload
  <2>3. IF MasterDelay THEN signalled' = file /\ running' = running
                       ELSE signalled' = Down /\ running' = file
    BY <1>3, <1>11, <2>1 DEF N!Reload, P!Signals
  <2>4. Serving(o.cfg)'
    BY <1>1, <1>3, <2>1, <2>2, <2>3 DEF Serving
  <2>. QED
    BY <1>1, <1>3, <2>1, <2>2, <2>4 DEF Truthful, Underway
<1>12. CASE N!Commit(h)
  <2>1. /\ o.at = "commit" /\ n.at = "returned" /\ lastWorking' = o.cfg
        /\ UNCHANGED <<file, running, signalled, missed>>
    BY <1>3, <1>12 DEF N!Commit
  <2>. QED
    BY <1>1, <1>3, <2>1 DEF Truthful, Underway, Agreed, Serving
<1>13. CASE N!Rollback(h)
  BY <1>13 DEF N!Rollback, Truthful
<1>. QED
  BY <1>5, <1>6, <1>7, <1>8, <1>9, <1>10, <1>11, <1>12, <1>13 DEF N!Step

Calm == Steady /\ Closed /\ Alone /\ ~failures
Single == \A g, h \in InCall(op) : g = h

\* A call that begins without overlap begins while there is none.
LEMMA NoneBefore ==
  ASSUME NEW h \in Threads, op[h].at = "none", op'[h].at \in {"read", "compare"},
         \A g \in Threads \ {h} : op'[g] = op[g], Single'
  PROVE  InCall(op) = {}
<1>. SUFFICES ASSUME NEW g \in InCall(op) PROVE FALSE
  OBVIOUS
<1>1. g \in Threads /\ g # h /\ op'[g] = op[g]
  BY DEF InCall
<1>2. g \in InCall(op)' /\ h \in InCall(op)'
  BY <1>1 DEF InCall
<1>. QED
  BY <1>1, <1>2 DEF Single

\* The dispatcher asks for a validation.
LEMMA DryRunAlone ==
  ASSUME Calm, Single', NEW cand \in Contents, DryRun(cand), ~At("boot"), Forced => Forced',
         UNCHANGED <<configData, unrendered>>
  PROVE  Alone'
<1>1. P!AnyCallers /\ Dispatcher \in Threads /\ configData \in Valid
  BY DEF Calm, Steady, Alone, Threads
<1>2. N!CallValidate(Dispatcher, cand)
  BY DEF DryRun
<1>3. /\ op[Dispatcher].at = "none" /\ op'[Dispatcher].at = "read" /\ op'[Dispatcher].cfg = cand
      /\ ~op'[Dispatcher].update /\ \A g \in Threads \ {Dispatcher} : op'[g] = op[g]
  BY <1>1, <1>2, CallShape
<1>4. InCall(op) = {}
  BY <1>1, <1>3, NoneBefore
<1>5. UNCHANGED <<file, lastWorking, running, signalled, missed>>
  BY <1>2 DEF N!CallValidate
<1>6. (\A g \in InCall(op)' : Truthful(g)') /\ (Settled => Settled')
  BY <1>1, <1>3, <1>4, <1>5, Begun
<1>7. Call'.at = "read"
  BY <1>3 DEF Call
<1>8. Forced \/ Settled
  BY DEF Calm, Alone
<1>. QED
  BY <1>1, <1>6, <1>7, <1>8 DEF Alone, Single

\* A thread renders and calls update_config.
LEMMA DoReloadAlone ==
  ASSUME Calm, Single', NEW h \in Threads, NEW task, DoReload(h, task), ~At("boot"),
         Forced => Forced', configData' = configData,
         Validating' /\ Call'.at = "returned" => Validating /\ job' = job /\ Call' = Call
  PROVE  Alone'
<1>1. P!AnyCallers /\ configData \in Valid /\ configData \in Contents
  BY DEF Calm, Steady, Alone, CallerInv, ContentTypes
<1>2. N!CallUpdate(h, configData, task.force, task.validate)
  BY DEF DoReload
<1>3. /\ op[h].at = "none" /\ op'[h].at = "compare" /\ op'[h].cfg = configData
      /\ op'[h].update /\ \A g \in Threads \ {h} : op'[g] = op[g]
  BY <1>1, <1>2, CallShape
<1>4. InCall(op) = {}
  BY <1>1, <1>3, NoneBefore
<1>5. UNCHANGED <<file, lastWorking, running, signalled, missed>>
  BY <1>2 DEF N!CallUpdate
<1>6. (\A g \in InCall(op)' : Truthful(g)') /\ (Settled => Settled')
  BY <1>1, <1>3, <1>4, <1>5, Begun
<1>7. Validating' /\ Call'.at = "returned" => (Call'.ok <=> job'.cand \in Valid)
  BY DEF Calm, Alone
<1>8. Forced \/ Settled
  BY DEF Calm, Alone
<1>. QED
  BY <1>1, <1>6, <1>7, <1>8 DEF Alone, Single

\* A step outside the calls, such as the return of one.
LEMMA OutsideAlone ==
  ASSUME Calm, UNCHANGED <<file, lastWorking, running, signalled, missed>>,
         op' = op \/ \E h \in Threads : N!Return(h),
         ~unrendered' => ~unrendered /\ configData' = configData, configData' \in Valid,
         At("boot") \/ Forced => At("boot")' \/ Forced' \/ Settled,
         Validating' /\ Call'.at = "returned" => Validating /\ job' = job /\ Call' = Call
  PROVE  Alone'
<1>1. P!AnyCallers
  BY DEF Calm, Steady
<1>2. InCall(op') = InCall(op) /\ \A g \in InCall(op) : op'[g] = op[g]
  <2>1. CASE op' = op
    BY <2>1
  <2>2. ASSUME NEW h \in Threads, N!Return(h)
        PROVE  InCall(op') = InCall(op) /\ \A g \in InCall(op) : op'[g] = op[g]
    <3>1. op[h].at = "returned" /\ op'[h].at = "none" /\ \A g \in Threads \ {h} : op'[g] = op[g]
      BY <1>1, <2>2, CallShape
    <3>. QED
      BY <3>1 DEF InCall
  <2>. QED
    BY <2>1, <2>2
<1>3. Alone
  BY DEF Calm
<1>4. (\A h \in InCall(op)' : Truthful(h)') /\ (Settled => Settled')
  <2>1. (\A h \in InCall(op') : Truthful(h)') /\ (Settled => Settled')
    BY <1>2, <1>3, OutsideCalls
  <2>2. InCall(op)' = InCall(op')
    BY DEF InCall
  <2>. QED
    BY <2>1, <2>2
<1>5. Validating' /\ Call'.at = "returned" => (Call'.ok <=> job'.cand \in Valid)
  BY <1>3 DEF Alone
<1>6. \A g, h \in InCall(op)' : g = h
  <2>1. InCall(op)' = InCall(op)
    BY <1>2 DEF InCall
  <2>. QED
    BY <1>3, <2>1 DEF Alone
<1>7. At("boot") \/ Forced \/ Settled
  BY <1>3 DEF Alone
<1>. QED
  BY <1>4, <1>5, <1>6, <1>7 DEF Alone

\* Nginx answers a validation.
LEMMA AnswerAlone ==
  ASSUME Calm, UpdateValidated \/ StepValidated
  PROVE  Alone'
<1>. USE DEF At
<1>1. /\ JobShape(job) /\ ForcedPlaces /\ configData \in Valid /\ Dispatcher \in Threads
      /\ Validating /\ Call.at = "returned" => (Call.ok <=> job.cand \in Valid)
  BY DEF Calm, Steady, CallerInv, IndInv, PlaceInv, Placed, Alone, Threads
<1>2. N!Return(Dispatcher) /\ Call.at = "returned" /\ Validating
  BY DEF UpdateValidated, StepValidated, N!Return, N!Returned, Call, Validating
<1>3. UNCHANGED <<file, lastWorking, running, signalled, missed>>
  BY <1>2 DEF N!Return
<1>4. /\ (configData' = job.cand /\ Call.ok) \/ configData' = configData
      /\ ~unrendered' => ~unrendered /\ configData' = configData
  BY DEF UpdateValidated, StepValidated, Install, Call
<1>5. configData' \in Valid
  BY <1>1, <1>2, <1>4
<1>6. job'.at \in {"idle", "next", "publish"} /\ ~Validating'
  <2>1. job'.at \in {"idle", "next", "publish"}
    <3>1. CASE UpdateValidated
      BY <1>1, <3>1, JobTypes DEF UpdateValidated, JobShape
    <3>2. CASE StepValidated
      BY <1>1, <3>2 DEF StepValidated, JobShape
    <3>. QED
      BY <3>1, <3>2
  <2>. QED
    BY <2>1 DEF Validating
<1>7. Forced => Forced'
  <2>1. ASSUME Forced PROVE StepValidated
    BY <1>1, <2>1 DEF Forced, ForcedPlaces, UpdateValidated
  <2>2. ASSUME Forced PROVE job'.task = job.task /\ job'.at \in {"next", "publish"}
    BY <1>1, <2>1, <2>2 DEF StepValidated, JobShape
  <2>. QED
    BY <2>2 DEF Forced
<1>8. ~At("boot")
  BY <1>2 DEF Validating
<1>. QED
  BY <1>1, <1>2, <1>3, <1>4, <1>5, <1>6, <1>7, <1>8, OutsideAlone

\* A command is taken, or the dispatcher goes on to the next step of one.
LEMMA CommandAlone ==
  ASSUME Calm, Single', Commands
  PROVE  Alone'
<1>. USE DEF At
<1>1. /\ ForcedPlaces /\ configData \in Valid /\ configData \in Contents /\ Closed /\ {} \in Valid
      /\ job.at = "idle"
  BY ValidAssumption DEF Calm, Steady, CallerInv, ContentTypes, Placed, Alone, Commands,
     UpdateBackend, RemoveBackend, Rescan, ReloadCommand
<1>2. ~At("boot") /\ ~Forced
  BY <1>1 DEF Forced
<1>3. ASSUME NEW b \in Backends, NEW registers \in BOOLEAN, NEW replace \in BOOLEAN,
             UpdateBackend(b, registers, replace)
      PROVE  Alone'
  <2>1. /\ Candidate(configData, b, registers) \in Contents
        /\ DryRun(Candidate(configData, b, registers)) /\ UNCHANGED <<configData, unrendered>>
    BY <1>1, <1>3, CandidateType DEF UpdateBackend
  <2>. QED
    BY <1>2, <2>1, DryRunAlone
<1>4. ASSUME NEW b \in Backends, RemoveBackend(b) PROVE Alone'
  <2>1. /\ configData' = configData \ {b}
        /\ ~unrendered' => ~unrendered /\ configData' = configData
        /\ op' = op /\ UNCHANGED <<file, lastWorking, running, signalled, missed>>
    BY <1>4 DEF RemoveBackend, Install, nginxVars
  <2>2. job'.at = "next"
    BY <1>4 DEF RemoveBackend, NoJob
  <2>3. configData' \in Valid
    BY <1>1, <2>1 DEF Closed
  <2>. QED
    BY <1>2, <2>1, <2>2, <2>3, OutsideAlone DEF Validating
<1>5. ASSUME NEW found \in SUBSET Backends, NEW how \in {"direct", "throttle"},
             NEW force \in BOOLEAN, Rescan(found, how, force)
      PROVE  Alone'
  <2>1. /\ configData' = {}
        /\ ~unrendered' => ~unrendered /\ configData' = configData
        /\ op' = op /\ UNCHANGED <<file, lastWorking, running, signalled, missed>>
    BY <1>5 DEF Rescan, Install, nginxVars
  <2>2. job'.at = "next"
    BY <1>5, JobTypes DEF Rescan
  <2>. QED
    BY <1>1, <1>2, <2>1, <2>2, OutsideAlone DEF Validating
<1>6. ASSUME NEW force \in BOOLEAN, ReloadCommand(force) PROVE Alone'
  <2>1. /\ UNCHANGED <<configData, unrendered>>
        /\ op' = op /\ UNCHANGED <<file, lastWorking, running, signalled, missed>>
    BY <1>6 DEF ReloadCommand, nginxVars
  <2>2. job'.at = "publish"
    BY <1>6 DEF ReloadCommand, NoJob
  <2>. QED
    BY <1>1, <1>2, <2>1, <2>2, OutsideAlone DEF Validating
<1>. QED
  BY <1>3, <1>4, <1>5, <1>6 DEF Commands

LEMMA DispatchAlone ==
  ASSUME Calm, Single', \/ NextBackend \/ NextStatics \/ PublishNow \/ PublishLater
                        \/ PublishDirect \/ BeginReload \/ EndReload
  PROVE  Alone'
<1>. USE DEF At
<1>1. /\ JobShape(job) /\ ForcedPlaces /\ DispatcherCalls /\ configData \in Valid /\ configData \in Contents
      /\ job.todo \subseteq Backends /\ Dispatcher \in Threads /\ P!AnyCallers /\ ~failures
  BY DEF Calm, Steady, CallerInv, IndInv, PlaceInv, ContentTypes, Placed, Alone, Threads
<1>2. CASE NextBackend
  <2>1. PICK b \in job.todo :
          /\ job' = [job EXCEPT !.at = "backend", !.todo = @ \ {b}, !.cand = Candidate(configData, b, TRUE)]
          /\ DryRun(Candidate(configData, b, TRUE))
    BY <1>2 DEF NextBackend
  <2>2. job'.at = "backend" /\ job'.task = job.task /\ job.at = "next" /\ UNCHANGED <<configData, unrendered>>
    BY <1>1, <1>2, <2>1 DEF JobShape, NextBackend
  <2>3. Candidate(configData, b, TRUE) \in Contents
    BY <1>1, CandidateType
  <2>4. Forced => Forced'
    BY <2>2 DEF Forced
  <2>. QED
    BY <2>1, <2>2, <2>3, <2>4, DryRunAlone
<1>3. CASE NextStatics
  <2>1. /\ job' = [job EXCEPT !.at = "statics", !.cand = WithStatics(configData)]
        /\ DryRun(WithStatics(configData))
    BY <1>3 DEF NextStatics
  <2>2. job'.at = "statics" /\ job'.task = job.task /\ job.at = "next" /\ UNCHANGED <<configData, unrendered>>
    BY <1>1, <1>3, <2>1 DEF JobShape, NextStatics
  <2>3. WithStatics(configData) \in Contents
    BY <1>1 DEF WithStatics, Contents
  <2>4. Forced => Forced'
    BY <2>2 DEF Forced
  <2>. QED
    BY <2>1, <2>2, <2>3, <2>4, DryRunAlone
<1>4. CASE PublishNow
  <2>1. /\ job'.at = "taken" /\ job'.task = job.task /\ job.at = "publish" /\ UNCHANGED <<configData, unrendered>>
        /\ op' = op /\ UNCHANGED <<file, lastWorking, running, signalled, missed>>
    BY <1>1, <1>4 DEF PublishNow, Goto, JobShape, nginxVars
  <2>2. Forced => Forced'
    BY <2>1 DEF Forced
  <2>. QED
    BY <1>1, <2>1, <2>2, OutsideAlone DEF Validating
<1>5. CASE PublishLater
  <2>1. /\ job'.at = "idle" /\ job.at = "publish" /\ UNCHANGED <<configData, unrendered>>
        /\ job.how = "throttle" /\ op' = op /\ UNCHANGED <<file, lastWorking, running, signalled, missed>>
    BY <1>5 DEF PublishLater, NoJob, nginxVars
  <2>2. ~Forced
    BY <1>1, <2>1 DEF Forced, ForcedPlaces
  <2>. QED
    BY <1>1, <2>1, <2>2, OutsideAlone DEF Validating
<1>6. CASE PublishDirect \/ BeginReload
  <2>1. PICK task : DoReload(Dispatcher, task)
    BY <1>6 DEF PublishDirect, BeginReload
  <2>2. /\ job'.at = "reload" /\ job'.task = job.task /\ job.at \in {"publish", "taken"}
        /\ configData' = configData
    BY <1>1, <1>6 DEF PublishDirect, BeginReload, Goto, JobShape
  <2>3. Call'.at = "compare"
    BY <1>1, <2>1, CallShape DEF DoReload, Call
  <2>4. Forced => Forced'
    BY <2>2, <2>3 DEF Forced
  <2>. QED
    BY <1>1, <2>1, <2>2, <2>3, <2>4, DoReloadAlone
<1>7. CASE EndReload
  <2>1. job.at = "reload" /\ job' = NoJob /\ UNCHANGED <<configData, unrendered>> /\ Ended(Dispatcher)
    BY <1>7 DEF EndReload
  <2>2. N!Return(Dispatcher) /\ Call.at = "returned"
    BY <1>1, <2>1 DEF DispatcherCalls, Ended, N!Idle, N!Return, N!Returned, Call
  <2>3. UNCHANGED <<file, lastWorking, running, signalled, missed>>
    BY <2>2 DEF N!Return
  <2>4. ~Forced /\ job'.at = "idle"
    BY <2>1, <2>2 DEF Forced, NoJob
  <2>. QED
    BY <1>1, <2>1, <2>2, <2>3, <2>4, OutsideAlone DEF Validating
<1>. QED
  BY <1>2, <1>3, <1>4, <1>5, <1>6, <1>7

\* The timer threads and the clock.
LEMMA TimerAlone ==
  ASSUME Calm, Single', Tick \/ UNCHANGED vars
                        \/ \E t \in Timers : TimerFires(t) \/ TimerBegins(t) \/ TimerEnds(t)
  PROVE  Alone'
<1>. USE DEF At
<1>1. /\ configData \in Valid /\ P!AnyCallers /\ Dispatcher \in Threads
      /\ \A t \in Timers : t \in Threads /\ t # Dispatcher
  BY DEF Calm, Steady, Alone, Threads
<1>2. ASSUME UNCHANGED job, Call' = Call
      PROVE  /\ Validating' /\ Call'.at = "returned" => Validating /\ job' = job /\ Call' = Call
             /\ At("boot") => At("boot")'
             /\ Forced => Forced'
  BY <1>2 DEF Forced, Validating
<1>3. CASE Tick \/ UNCHANGED vars \/ \E t \in Timers : TimerFires(t)
  <2>1. UNCHANGED <<job, configData, unrendered>> /\ op' = op
        /\ UNCHANGED <<file, lastWorking, running, signalled, missed>>
    BY <1>3 DEF Tick, vars, TimerFires, serverVars, nginxVars
  <2>2. Call' = Call
    BY <2>1 DEF Call
  <2>. QED
    BY <1>1, <1>2, <2>1, <2>2, OutsideAlone
<1>4. ASSUME NEW t \in Timers, TimerBegins(t) PROVE Alone'
  <2>1. DoReload(t, held[t]) /\ UNCHANGED <<configData, job>> /\ pc[t] = "taken"
    BY <1>4 DEF TimerBegins, T!Begin
  <2>2. ~At("boot")
    BY <1>1, <2>1 DEF Calm, Steady, CallerInv, Booted
  <2>3. Call' = Call
    BY <1>1, <2>1, CallShape DEF DoReload, Call
  <2>. QED
    BY <1>1, <1>2, <2>1, <2>2, <2>3, DoReloadAlone
<1>5. ASSUME NEW t \in Timers, TimerEnds(t) PROVE Alone'
  <2>1. UNCHANGED <<job, configData, unrendered>> /\ (N!Return(t) \/ UNCHANGED nginxVars)
    BY <1>5 DEF TimerEnds, Ended, serverVars
  <2>2. UNCHANGED <<file, lastWorking, running, signalled, missed>> /\ (op' = op \/ N!Return(t))
    BY <2>1 DEF N!Return, nginxVars
  <2>3. Call' = Call
    BY <1>1, <2>1, CallShape DEF Call, nginxVars
  <2>. QED
    BY <1>1, <1>2, <2>1, <2>2, <2>3, OutsideAlone
<1>. QED
  BY <1>3, <1>4, <1>5

\* A step inside a call, which has nobody beside it.
LEMMA NginxStepAlone ==
  ASSUME Calm, Single', NEW h \in Threads, NginxStep(h)
  PROVE  Alone'
<1>. USE DEF At
<1>1. /\ Steady /\ P!AnyCallers /\ TimerCalls /\ DispatcherCalls /\ Dispatcher \in Threads
      /\ configData \in Valid /\ configData \in Contents /\ ~failures
      /\ Threads = {Dispatcher} \cup Timers
  BY DEF Calm, Steady, CallerInv, ContentTypes, Placed, Alone, Threads
<1>2. N!Step(h) /\ UNCHANGED <<job, configData, unrendered>>
  BY DEF NginxStep, serverVars
<1>3. /\ h \in InCall(op) /\ \A g \in Threads \ {h} : op'[g] = op[g]
      /\ op'[h].cfg = op[h].cfg /\ op'[h].update = op[h].update /\ op'[h].force = op[h].force
      /\ op[h].at \notin {"none", "start", "returned"} /\ op'[h].at \notin {"none", "start"}
  BY <1>1, <1>2, StepShape
<1>4. InCall(op) = {h} /\ Truthful(h)
  BY <1>3 DEF Calm, Alone
<1>5. ~At("boot") /\ running # Down
  <2>1. CASE h = Dispatcher
    BY <1>1, <1>3, <2>1 DEF DispatcherCalls, Call, Steady, CallerInv, Booted
  <2>2. CASE h \in Timers
    BY <1>1, <1>3, <2>2 DEF TimerCalls, Steady, CallerInv, Booted
  <2>. QED
    BY <1>1, <2>1, <2>2
<1>6. op[h].at \in {"compare", "write", "reload", "commit", "rollback"} => op[h].update
  <2>1. CASE h = Dispatcher
    BY <1>1, <1>3, <1>5, <2>1 DEF DispatcherCalls, Call
  <2>2. CASE h \in Timers
    BY <1>1, <1>3, <2>2 DEF TimerCalls
  <2>. QED
    BY <1>1, <2>1, <2>2
<1>7. /\ \A g \in InCall(op)' : Truthful(g)'
      /\ Settled \/ op[h].at = "reload" => Settled'
      /\ op[h].at = "restore" /\ op[h].update => op'[h].at = "write"
  BY <1>1, <1>2, <1>4, <1>5, <1>6, Worked
<1>8. Validating' = Validating
  BY <1>2 DEF Validating
<1>9. Validating' /\ Call'.at = "returned" => (Call'.ok <=> job'.cand \in Valid)
  <2>. SUFFICES ASSUME Validating, Call'.at = "returned" PROVE Call'.ok <=> job.cand \in Valid
    BY <1>2, <1>8
  <2>1. CASE h # Dispatcher
    BY <1>1, <1>3, <2>1 DEF Calm, Alone, Call
  <2>2. CASE h = Dispatcher
    <3>1. Call.at \in {"read", "candidate", "test", "restore"} /\ Call.cfg = job.cand
      BY <1>1, <1>3, <2>2 DEF DispatcherCalls, Call
    <3>2. N!RestorePrevious(Dispatcher)
      BY <1>1, <1>2, <2>2, <3>1 DEF N!Step, N!Compare, N!ReadPrevious, N!WriteCandidate,
         N!TestCandidate, N!WriteConfig, N!Reload, N!Commit, N!Rollback, N!Goto, Call,
         P!AnyCallers, P!TypeOK, P!Calls
    <3>3. Call'.ok = Call.ok /\ Call.at = "restore"
      BY <1>1, <3>2 DEF N!RestorePrevious, Call, P!AnyCallers, P!TypeOK, P!Calls
    <3>. QED
      BY <1>4, <2>2, <3>1, <3>3 DEF Truthful, Call
  <2>. QED
    BY <2>1, <2>2
<1>10. Forced' \/ Settled'
  <2>1. CASE Settled
    BY <1>7, <2>1
  <2>2. CASE Forced
    <3>1. CASE h # Dispatcher \/ ~At("reload")
      BY <1>1, <1>2, <1>3, <2>2, <3>1 DEF Forced, Call
    <3>2. CASE h = Dispatcher /\ At("reload")
      <4>1. /\ Call.at \in {"compare", "read", "candidate", "test", "restore", "write", "reload"}
            /\ Call.force /\ Call.update
        BY <1>1, <2>2, <3>2 DEF Forced, DispatcherCalls
      <4>2. CASE Call.at = "reload"
        BY <1>7, <3>2, <4>2 DEF Call
      <4>3. CASE Call.at = "restore"
        BY <1>2, <1>7, <2>2, <3>2, <4>1, <4>3 DEF Call, Forced
      <4>4. CASE Call.at \in {"compare", "read", "candidate", "test", "write"}
        <5>1. Call'.at \in {"read", "write", "candidate", "test", "restore", "reload"}
          <6>. USE <1>1, <4>1, <4>4 DEF Call, N!Goto, P!AnyCallers, P!TypeOK, P!Calls
          <6>1. CASE N!Compare(h)
            BY <3>2, <6>1 DEF N!Compare
          <6>2. CASE N!ReadPrevious(h) \/ N!WriteCandidate(h) \/ N!TestCandidate(h) \/ N!WriteConfig(h)
            BY <3>2, <6>2 DEF N!ReadPrevious, N!WriteCandidate, N!TestCandidate, N!WriteConfig
          <6>3. CASE N!RestorePrevious(h) \/ N!Reload(h) \/ N!Commit(h) \/ N!Rollback(h)
            BY <3>2, <6>3 DEF N!RestorePrevious, N!Reload, N!Commit, N!Rollback
          <6>. QED
            BY <1>2, <6>1, <6>2, <6>3 DEF N!Step
        <5>. QED
          BY <1>2, <2>2, <3>2, <5>1 DEF Forced
      <4>. QED
        BY <4>1, <4>2, <4>3, <4>4
    <3>. QED
      BY <3>1, <3>2
  <2>. QED
    BY <1>5, <2>1, <2>2 DEF Calm, Alone
<1>. QED
  BY <1>1, <1>2, <1>7, <1>9, <1>10 DEF Alone, Single

\* The master reads the file.
LEMMA MasterAlone ==
  ASSUME Calm, Single', MasterReload
  PROVE  Alone'
<1>1. UNCHANGED <<job, configData, unrendered, file, lastWorking, op>>
  BY DEF MasterReload, N!MasterReload, serverVars
<1>2. signalled \in Valid \cup {Empty} /\ signalled # Down /\ signalled' = Down
  BY DEF MasterReload, N!MasterReload, Calm, Steady, P!AnyCallers, P!TypeOK
<1>3. missed' = (file # signalled) /\ running' = IF file \in Valid \cup {Empty} THEN file ELSE running
  BY DEF MasterReload, N!MasterReload
<1>4. \A text : Serving(text) => (signalled' = Down /\ ~missed' => running' = text)
  BY <1>2, <1>3 DEF Serving
<1>5. InCall(op)' = InCall(op) /\ Call' = Call
  BY <1>1 DEF InCall, Call
<1>6. ASSUME NEW h \in InCall(op) PROVE Truthful(h)' /\ (Underway(h) => Underway(h)')
  <2>1. Truthful(h)
    BY DEF Calm, Alone
  <2>2. ASSUME Underway(h) PROVE Underway(h)'
    <3>1. Serving(IF op[h].at = "commit" THEN op[h].cfg ELSE lastWorking)
      BY <2>2 DEF Underway
    <3>2. Serving(IF op[h].at = "commit" THEN op[h].cfg ELSE lastWorking)'
      BY <1>1, <1>2, <1>4, <3>1 DEF Serving
    <3>. QED
      BY <1>1, <2>2, <3>2 DEF Underway
  <2>. QED
    BY <1>1, <2>1, <2>2 DEF Truthful
<1>7. Agreed => Agreed'
  <2>1. Serving(lastWorking) => Serving(lastWorking)'
    BY <1>1, <1>2, <1>4 DEF Serving
  <2>. QED
    BY <1>1, <2>1 DEF Agreed
<1>8. Settled => Settled'
  BY <1>5, <1>6, <1>7 DEF Settled
<1>9. \A h \in InCall(op)' : Truthful(h)'
  BY <1>5, <1>6
<1>10. Forced' = Forced /\ At("boot")' = At("boot") /\ Validating' = Validating
  BY <1>1, <1>5 DEF Forced, At, Validating
<1>. QED
  BY <1>1, <1>5, <1>8, <1>9, <1>10 DEF Alone, Calm

\* A kill, and the boot up to the rescan.
LEMMA BootAlone ==
  ASSUME Steady, Single', Crash \/ (Calm /\ BootNginx)
  PROVE  Alone'
<1>. USE DEF At
<1>1. {} \in Valid /\ {} \in Contents
  BY ValidAssumption DEF Contents
<1>2. CASE Crash
  <2>1. InCall(op)' = {}
    BY <1>2 DEF Crash, N!Crash, N!NoOp, InCall
  <2>2. job'.at = "boot" /\ configData' = {}
    BY <1>2 DEF Crash, NoJob
  <2>. QED
    BY <1>1, <2>1, <2>2 DEF Alone, Single, Validating
<1>3. CASE Calm /\ BootNginx
  <2>1. job.at = "boot" /\ UNCHANGED <<job, configData>>
    BY <1>3 DEF BootNginx, serverVars
  <2>2. /\ P!AnyCallers /\ Dispatcher \in Threads /\ DispatcherCalls /\ TimerCalls /\ configData \in Valid
        /\ Threads = {Dispatcher} \cup Timers
    BY <1>3 DEF Calm, Steady, Placed, Threads, Alone
  <2>3. \A t \in Timers : op[t].at = "none" /\ op'[t].at = "none"
    <3>1. \A t \in Timers : op[t].at = "none" /\ t \in Threads \ {Dispatcher}
      BY <2>1, <2>2 DEF TimerCalls
    <3>2. \A t \in Timers : op'[t] = op[t]
      BY <1>3, <2>2, <3>1, CallShape DEF BootNginx
    <3>. QED
      BY <3>1, <3>2
  <2>4. /\ op'[Dispatcher].at \in {"none", "start", "returned"} /\ ~op'[Dispatcher].update
        /\ op'[Dispatcher].at = "start" => op'[Dispatcher].cfg \in Contents
    <3>1. ~op[Dispatcher].update /\ op[Dispatcher] \in P!Calls /\ op \in [Threads -> P!Calls]
      BY <2>1, <2>2 DEF DispatcherCalls, Call, P!AnyCallers, P!TypeOK
    <3>2. CASE N!Setup(Dispatcher)
      <4>1. CASE UNCHANGED op
        BY <2>2, <3>1, <3>2, <4>1 DEF N!Setup, N!Idle
      <4>2. CASE op' = [op EXCEPT ![Dispatcher] = [N!NoOp EXCEPT !.at = "start", !.cfg = {}, !.force = TRUE]]
        BY <1>1, <2>2, <3>1, <4>2 DEF N!NoOp
      <4>. QED
        BY <3>2, <4>1, <4>2 DEF N!Setup
    <3>3. CASE N!ForceStart(Dispatcher) \/ N!Return(Dispatcher)
      BY <2>2, <3>3, CallShape
    <3>. QED
      BY <1>3, <3>2, <3>3 DEF BootNginx
  <2>5. ASSUME NEW h \in InCall(op)' PROVE Truthful(h)'
    <3>1. h = Dispatcher /\ op'[h].at = "start"
      BY <2>2, <2>3, <2>4 DEF InCall
    <3>. QED
      BY <2>4, <3>1 DEF Truthful
  <2>. QED
    BY <2>1, <2>2, <2>5 DEF Alone, Single, Validating
<1>. QED
  BY <1>2, <1>3

\* Only a forced rescan repairs, in an idle process or in one that starts.
LEMMA WhoRepairs ==
  ASSUME Steady, Next, Repairs
  PROVE  \/ \E found \in SUBSET Backends, how \in {"direct", "throttle"} : Rescan(found, how, TRUE)
         \/ \E found \in SUBSET Backends : BootRescan(found)
<1>. USE DEF At
<1>1. JobShape(job) /\ \A t \in Timers : t # Dispatcher
  BY DEF Steady, CallerInv, IndInv, PlaceInv
<1>2. job.at \in {"idle", "boot"} /\ job'.at = "next" /\ job'.task.force
  BY DEF Repairs
<1>3. ASSUME NEW b \in Backends, NEW registers \in BOOLEAN, NEW replace \in BOOLEAN,
             UpdateBackend(b, registers, replace)
      PROVE  FALSE
  <2>1. PICK cand : job' = [NoJob EXCEPT !.at = "update", !.cand = cand, !.how = "throttle",
                                         !.task.validate = FALSE]
    BY <1>3 DEF UpdateBackend
  <2>. QED
    BY <1>2, <2>1 DEF NoJob
<1>4. ASSUME NEW b \in Backends, RemoveBackend(b) PROVE FALSE
  BY <1>2, <1>4 DEF RemoveBackend, NoJob
<1>5. ASSUME NEW found \in SUBSET Backends, NEW how \in {"direct", "throttle"},
             NEW force \in BOOLEAN, Rescan(found, how, force)
      PROVE  Rescan(found, how, TRUE)
  <2>1. job'.task.force = force
    BY <1>5 DEF Rescan, RescanJob
  <2>2. force = TRUE
    BY <1>2, <2>1
  <2>. QED
    BY <1>5, <2>2
<1>6. ASSUME NEW force \in BOOLEAN, ReloadCommand(force) PROVE FALSE
  BY <1>2, <1>6 DEF ReloadCommand, NoJob
<1>7. CASE \/ UpdateValidated \/ NextBackend \/ NextStatics \/ StepValidated \/ StepRaises
           \/ PublishNow \/ PublishLater \/ PublishDirect \/ BeginReload \/ EndReload
           \/ ReloadRaises(Dispatcher) \/ DirectRaises
  <2>1. CASE ReloadRaises(Dispatcher)
    BY <1>1, <1>2, <2>1 DEF ReloadRaises, JobShape
  <2>2. CASE ~ReloadRaises(Dispatcher)
    BY <1>2, <1>7, <2>2 DEF UpdateValidated, NextBackend, NextStatics, StepValidated, StepRaises,
       PublishNow, PublishLater, PublishDirect, BeginReload, EndReload, DirectRaises
  <2>. QED
    BY <2>1, <2>2
<1>8. CASE BootNginx \/ MasterReload \/ Tick \/ \E h \in Threads : NginxStep(h)
  BY <1>2, <1>8 DEF BootNginx, MasterReload, Tick, NginxStep, serverVars, Steady, Placed, ForcedPlaces
<1>9. ASSUME NEW t \in Timers, TimerThread(t) PROVE FALSE
  <2>1. job' = job
    BY <1>1, <1>9 DEF TimerThread, TimerFires, TimerBegins, ReloadRaises, TimerEnds, serverVars
  <2>. QED
    BY <1>2, <2>1
<1>10. CASE Crash
  BY <1>2, <1>10 DEF Crash, NoJob
<1>. QED
  BY <1>3, <1>4, <1>5, <1>6, <1>7, <1>8, <1>9, <1>10 DEF Next, Commands, Dispatch

\* It starts between calls, with an empty config_data and a forced reload ahead.
LEMMA RepairStarts == ASSUME Steady, Next, Repairs PROVE Alone'
<1>1. job'.at = "next" /\ job'.task.force /\ InCall(op) = {}
  BY DEF Repairs
<1>2. op' = op /\ configData' = {}
  BY WhoRepairs DEF Rescan, Install, BootRescan, nginxVars, Steady, Placed, ForcedPlaces, At
<1>3. InCall(op)' = {}
  BY <1>1, <1>2 DEF InCall
<1>4. Forced' /\ ~Validating'
  BY <1>1 DEF Forced, Validating
<1>. QED
  BY <1>2, <1>3, <1>4, ValidAssumption DEF Alone

LEMMA AloneStep ==
  ASSUME Closed, RepairInv, [Next]_vars, ~failures, ~raced'
  PROVE  Alone'
<1>1. Steady /\ Dispatcher \in Threads
  BY DEF RepairInv, Steady, Threads
<1>2. CASE UNCHANGED vars
  <2>1. Alone /\ Calm
    BY <1>1, <1>2 DEF RepairInv, vars, Calm
  <2>2. Single'
    BY <1>2, <2>1 DEF Alone, Single, InCall, vars, nginxVars
  <2>. QED
    BY <1>2, <2>1, <2>2, TimerAlone
<1>3. CASE Next /\ Repairs
  BY <1>1, <1>3, RepairStarts
<1>4. CASE Next /\ ~Repairs
  <2>1. ~raced /\ ~(Cardinality(InCall(op')) > 1)
    BY <1>4 DEF Next, Observed
  <2>2. Calm
    BY <1>1, <2>1 DEF RepairInv, Calm
  <2>3. Single'
    <3>1. IsFiniteSet(InCall(op)')
      BY <1>1, <1>4, SteadyStep DEF Steady, Placed
    <3>2. InCall(op)' = InCall(op')
      BY DEF InCall
    <3>3. \A g, h \in InCall(op') : g = h
      BY <2>1, <3>1, <3>2, AtMostOne
    <3>. QED
      BY <3>2, <3>3 DEF Single
  <2>4. ASSUME StepRaises \/ DirectRaises \/ \E h \in Threads : ReloadRaises(h) PROVE FALSE
    BY <2>4 DEF StepRaises, DirectRaises, ReloadRaises
  <2>5. ASSUME NEW found \in SUBSET Backends, BootRescan(found) PROVE Alone'
    <3>1. job'.at = "next" /\ job'.task.force /\ op' = op /\ configData' = configData /\ job.at = "boot"
      BY <2>5 DEF BootRescan, RescanJob, nginxVars, At
    <3>2. InCall(op) # {}
      BY <1>4, <3>1 DEF Repairs, At
    <3>3. PICK h \in Threads : op[h].at \notin {"none", "returned"}
      BY <3>2 DEF InCall
    <3>4. op[Dispatcher].at = "none"
      BY <2>5 DEF BootRescan, N!Idle
    <3>5. h \in Timers
      BY <3>3, <3>4 DEF Threads
    <3>. QED
      BY <1>1, <3>1, <3>3, <3>5 DEF Steady, Placed, TimerCalls, At
  <2>. QED
    BY <1>1, <1>4, <2>2, <2>3, <2>4, <2>5, CommandAlone, AnswerAlone, DispatchAlone, TimerAlone,
       NginxStepAlone, MasterAlone, BootAlone DEF Next, Dispatch, TimerThread, Threads
<1>. QED
  BY <1>2, <1>3, <1>4

LEMMA RepairStep == ASSUME Closed, RepairInv, [Next]_vars PROVE RepairInv'
<1>1. Steady'
  BY SteadyStep DEF RepairInv, Steady
<1>2. failures' = failures
  BY DEF Next, Observed, vars
<1>3. (~raced /\ ~failures)' => Alone'
  BY <1>2, AloneStep
<1>. QED
  BY <1>1, <1>3 DEF RepairInv, Steady

LEMMA RepairInit == Init => RepairInv
<1>. SUFFICES ASSUME Init PROVE RepairInv
  OBVIOUS
<1>1. PICK found \in SUBSET Backends : job = RescanJob(found, "now", TRUE)
  BY DEF Init
<1>2. job.at = "next" /\ job.how = "now" /\ job.task.force
  BY <1>1 DEF RescanJob
<1>3. configData = {} /\ \A h \in Threads : op[h].at = "none"
  BY DEF Init, N!Init, N!NoOp
<1>4. InCall(op) = {} /\ Dispatcher \in Threads /\ Timers \subseteq Threads
  BY <1>3 DEF InCall, Threads
<1>5. Placed
  <2>1. IsFiniteSet(InCall(op))
    BY <1>4, FS_EmptySet
  <2>2. TimerCalls /\ DispatcherCalls /\ ForcedPlaces
    BY <1>2, <1>3, <1>4 DEF TimerCalls, DispatcherCalls, ForcedPlaces, Validating, At, Call
  <2>. QED
    BY <2>1, <2>2 DEF Placed
<1>6. Alone
  BY <1>2, <1>3, <1>4, ValidAssumption DEF Alone, Forced, Validating
<1>7. P!AnyCallers
  BY SameNginx, SlotAssumptions, P!InitInv DEF Init, P!Inv
<1>. QED
  BY <1>5, <1>6, <1>7, CallerInit DEF RepairInv

\* Where nothing raises, whatever overlapping calls have left in the file, in the
\* record and in nginx, a forced rescan that starts between calls puts right, and
\* calls that do not overlap keep right: when nothing is under way again, all
\* three have the config that config_data describes (if the master reads in
\* time).  This holds for any number of timer threads, kills included.
THEOREM RepairsHold ==
  ASSUME Closed PROVE Spec => [](~failures => RepairedIsConsistent)
<1>1. RepairInv => (~failures => RepairedIsConsistent)
  <2>. SUFFICES ASSUME RepairInv, ~failures, Quiet, ~raced, N!Followed PROVE Consistent
    BY DEF RepairedIsConsistent
  <2>1. Alone /\ IndInv /\ job.at = "idle" /\ pending = NoTask
    BY DEF RepairInv, CallerInv, Quiet, At
  <2>2. InCall(op) = {}
    BY DEF Quiet, N!Idle, InCall
  <2>3. Settled
    BY <2>1 DEF Alone, Forced, At
  <2>4. Agreed
    BY <2>2, <2>3 DEF Settled
  <2>5. ~unrendered
    <3>1. ~ReloadComing
      BY <2>1 DEF ReloadComing, Quiet, Threads
    <3>. QED
      BY <2>1, <3>1 DEF IndInv, PlaceInv
  <2>. QED
    BY <2>4, <2>5 DEF Agreed, Serving, N!Followed, Consistent
<1>. QED
  BY <1>1, RepairInit, RepairStep, PTL DEF Spec

-----------------------------------------------------------------------------
(***************************************************************************)
(* What _render_config makes of the table: the invariants of Rendering, for *)
(* every table of hosts, every set of redirects between them and every      *)
(* order of the table.                                                      *)
(*                                                                          *)
(* What the clients of a host are promised has to hold after every host     *)
(* that is processed, not only at the end: that each has an end, and what   *)
(* is found there.  A redirect adds the target to where a client comes      *)
(* through, and the target does not redirect: its name has not been seen.   *)
(***************************************************************************)
RenderTypeOK ==
  /\ declared \in [Hosts -> Hosts \cup {Nowhere}] /\ declaredTls \in SUBSET Hosts
  /\ redirect \in [Hosts -> Hosts \cup {Nowhere}]
  /\ isRedirect \in [Hosts -> BOOLEAN]
  /\ secured \in [Hosts -> BOOLEAN]
  /\ backends \in [Hosts -> SUBSET Hosts]
  /\ port \in [Hosts -> Nat]
  /\ stage \in {"redirect", "ssl", "https", "done"}

\* The order has every host, once.
OrderOK ==
  /\ order \in Seq(Hosts) /\ order # <<>>
  /\ \A i, j \in 1..Len(order) : order[i] = order[j] => i = j
  /\ \A h \in Hosts : \E i \in 1..Len(order) : order[i] = h

PosOK ==
  /\ pos \in 1..Len(order) + 1
  /\ stage = "redirect" <=> pos <= Len(order)

Passed(h) == \E i \in 1..pos - 1 : order[i] = h

\* A host that has not been processed is as it was declared.
Untouched == \A h \in Hosts : ~Passed(h) => redirect[h] = declared[h] /\ ~isRedirect[h]

\* A redirect in force is the declared one, and the name of its host has been seen.
Redirects ==
  \A h \in Hosts : isRedirect[h] =>
    redirect[h] \in Hosts /\ redirect[h] = declared[h] /\ h.name \in seen

\* Only names of hosts that declare a redirect are seen.
SeenDeclares == \A n \in seen : \E h \in Hosts : h.name = n /\ declared[h] # Nowhere

\* Every client has an end, and what it asks for is there.
Served(h) ==
  /\ Ends(h) # {}
  /\ \A e \in Ends(h) : h \in backends[e] /\ (h \in declaredTls => secured[e])
AllServed == \A h \in Hosts : Served(h)

\* What RedirectInForce asks of a declaration.
Lasting(h) ==
  /\ declared[h] # Nowhere /\ declared[h].name # h.name
  /\ \A g \in Hosts : g.name = declared[h].name => declared[g] = Nowhere
LastingInForce == \A h \in Hosts : Passed(h) /\ Lasting(h) => isRedirect[h]

TlsPort(h) == IF h.port \in {80, 443} THEN 443 ELSE h.port
PortsPrepared ==
  /\ stage \in {"redirect", "ssl"} => \A h \in Hosts : port[h] = h.port
  /\ stage \in {"https", "done"} =>
       \A h \in Hosts : secured[h] => port[h] = TlsPort(h)

PlainAdded ==
  Done => \A h \in Hosts : ~isRedirect[h] /\ secured[h] /\ port[h] # 80 =>
    h.name \in added \/ \E g \in Hosts : g.name = h.name /\ port[g] = 80

RenderInv ==
  /\ RenderTypeOK /\ OrderOK /\ PosOK
  /\ Untouched /\ Redirects /\ SeenDeclares /\ AllServed /\ LastingInForce
  /\ PortsPrepared /\ PlainAdded

-----------------------------------------------------------------------------
\* Every order of the table has each host once: as many places as hosts, and no
\* host twice, leave none out.
LEMMA OrdersAreComplete ==
  ASSUME NEW o \in Orders
  PROVE  /\ o \in Seq(Hosts) /\ o # <<>>
         /\ \A i, j \in 1..Len(o) : o[i] = o[j] => i = j
         /\ \A h \in Hosts : \E i \in 1..Len(o) : o[i] = h
<1> DEFINE n == Cardinality(Hosts)
<1>1. n \in Nat /\ n # 0
  BY HostsAssumption, FS_CardinalityType, FS_EmptySet
<1>2. o \in [1..n -> Hosts] /\ \A i, j \in 1..n : i # j => o[i] # o[j]
  BY DEF Orders, SetToSeqs
<1>3. o \in Seq(Hosts) /\ Len(o) = n
  BY <1>1, <1>2, SeqDef
<1>4. o # <<>>
  BY <1>1, <1>3, EmptySeq
<1>5. o \in Injection(1..n, Hosts)
  BY <1>2 DEF Injection, IsInjective
<1>6. IsFiniteSet(1..n) /\ Cardinality(1..n) = n
  BY <1>1, FS_Interval
<1>7. o \in Surjection(1..n, Hosts)
  BY <1>5, <1>6, FS_Injection, HostsAssumption
<1>8. \A h \in Hosts : \E i \in 1..n : o[i] = h
  BY <1>7 DEF Surjection
<1> QED
  BY <1>2, <1>3, <1>4, <1>8

-----------------------------------------------------------------------------
\* Where a client starts is among the hosts it comes through, and a redirect in
\* force takes it to another of them.
LEMMA VisitsSelf == ASSUME NEW h \in Hosts PROVE h \in Visits(h)
<1> QED
  BY DEF Visits

LEMMA VisitsLeast ==
  ASSUME NEW h \in Hosts, NEW S \in SUBSET Hosts, h \in S, Contained(S)
  PROVE  Visits(h) \subseteq S
<1> QED
  BY DEF Visits

LEMMA VisitsClosed ==
  ASSUME NEW h \in Hosts, Redirects
  PROVE  Visits(h) \in SUBSET Hosts /\ Contained(Visits(h))
<1>1. Visits(h) \in SUBSET Hosts
  BY DEF Visits
<1>2. ASSUME NEW k \in Visits(h), isRedirect[k] PROVE redirect[k] \in Visits(h)
  <2>1. k \in Hosts /\ redirect[k] \in Hosts
    BY <1>1, <1>2 DEF Redirects
  <2>2. ASSUME NEW S \in SUBSET Hosts, h \in S, Contained(S) PROVE redirect[k] \in S
    <3>1. k \in S
      BY <2>2 DEF Visits
    <3> QED
      BY <1>2, <2>2, <3>1 DEF Contained
  <2> QED
    BY <2>1, <2>2 DEF Visits
<1> QED
  BY <1>1, <1>2 DEF Contained

\* A host that does not redirect is where its own clients end.
LEMMA EndsSelf ==
  ASSUME NEW h \in Hosts, ~isRedirect[h]
  PROVE  Ends(h) = {h}
<1>1. {h} \in SUBSET Hosts /\ Contained({h})
  BY DEF Contained
<1>2. Visits(h) = {h}
  BY <1>1, VisitsSelf, VisitsLeast
<1> QED
  BY <1>2 DEF Ends

\* A client of a host whose target does not redirect ends at the target.
LEMMA EndsNext ==
  ASSUME NEW h \in Hosts, isRedirect[h], redirect[h] \in Hosts, ~isRedirect[redirect[h]]
  PROVE  Ends(h) = {redirect[h]}
<1>1. {h, redirect[h]} \in SUBSET Hosts /\ Contained({h, redirect[h]})
  BY DEF Contained
<1>2. Visits(h) \subseteq {h, redirect[h]}
  BY <1>1, VisitsLeast
<1>3. redirect[h] \in Visits(h)
  BY DEF Visits, Contained
<1> QED
  BY <1>2, <1>3 DEF Ends

-----------------------------------------------------------------------------
\* What a new redirect of c to t changes: a client comes through t as well, when
\* it came through c.
LEMMA NewRedirect ==
  ASSUME RenderTypeOK, Redirects, NEW c \in Hosts, NEW t \in Hosts, c # t,
         ~isRedirect[c], ~isRedirect[t], redirect[c] = t,
         isRedirect' = [isRedirect EXCEPT ![c] = TRUE], redirect' = redirect,
         NEW h \in Hosts
  PROVE  /\ Ends(h)' \subseteq (Ends(h) \ {c}) \cup {t}
         /\ c \notin Ends(h) => Ends(h)' = Ends(h)
         /\ c \in Ends(h) => t \in Ends(h)'
<1> DEFINE V == Visits(h)
<1>1. V \in SUBSET Hosts /\ Contained(V) /\ h \in V
  BY VisitsClosed, VisitsSelf
<1>2. \A k \in Hosts : isRedirect'[k] <=> isRedirect[k] \/ k = c
  BY DEF RenderTypeOK
<1>3. ASSUME NEW S \in SUBSET Hosts
      PROVE  Contained(S)' <=> Contained(S) /\ (c \in S => t \in S)
  <2>1. Contained(S)' <=> \A k \in S : isRedirect'[k] => redirect[k] \in S
    BY DEF Contained
  <2>2. (\A k \in S : isRedirect'[k] => redirect[k] \in S)
          <=> (\A k \in S : isRedirect[k] => redirect[k] \in S) /\ (c \in S => t \in S)
    BY <1>2
  <2> QED
    BY <2>1, <2>2 DEF Contained
<1>4. V \subseteq Visits(h)'
  <2>1. ASSUME NEW g \in V, NEW S \in SUBSET Hosts, h \in S, Contained(S)' PROVE g \in S
    BY <1>3, <2>1 DEF Visits
  <2> QED
    BY <1>1, <2>1 DEF Visits
<1>5. ASSUME NEW S \in SUBSET Hosts, h \in S, Contained(S)'
      PROVE  Visits(h)' \subseteq S
  BY <1>5 DEF Visits
<1>6. Visits(h)' \subseteq V \cup {t}
  <2>1. PICK W \in SUBSET Hosts : W = V \cup {t}
    BY <1>1
  <2>2. Contained(W)'
    BY <1>1, <1>2, <2>1 DEF Contained
  <2> QED
    BY <1>1, <1>5, <2>1, <2>2
<1>7. \A g : g \in Ends(h)' <=> g \in Visits(h)' /\ ~isRedirect[g] /\ g # c
  <2>1. Visits(h)' \in SUBSET Hosts
    BY DEF Visits
  <2> QED
    BY <1>2, <2>1 DEF Ends
<1>8. Ends(h)' \subseteq (Ends(h) \ {c}) \cup {t}
  BY <1>6, <1>7 DEF Ends
<1>9. ASSUME c \notin Ends(h) PROVE Ends(h)' = Ends(h)
  <2>1. c \notin V
    BY <1>9 DEF Ends
  <2>2. PICK W \in SUBSET Hosts : W = V
    BY <1>1
  <2>3. Contained(W)'
    BY <1>1, <1>3, <2>1, <2>2
  <2>4. Visits(h)' = V
    BY <1>1, <1>4, <1>5, <2>2, <2>3
  <2> QED
    BY <1>7, <2>1, <2>4 DEF Ends
<1>10. ASSUME c \in Ends(h) PROVE t \in Ends(h)'
  <2>1. c \in Visits(h)'
    BY <1>4, <1>10 DEF Ends
  <2>2. t \in Visits(h)'
    <3>1. ASSUME NEW S \in SUBSET Hosts, h \in S, Contained(S)' PROVE t \in S
      <4>1. c \in S
        BY <1>5, <2>1, <3>1
      <4> QED
        BY <1>3, <3>1, <4>1
    <3> QED
      BY <3>1 DEF Visits
  <2> QED
    BY <1>7, <2>2
<1> QED
  BY <1>8, <1>9, <1>10

\* Nothing changes while the redirects in force are the same.
LEMMA SameRedirects ==
  ASSUME isRedirect' = isRedirect,
         \A k \in Hosts : isRedirect[k] => redirect'[k] = redirect[k],
         NEW h \in Hosts
  PROVE  Ends(h)' = Ends(h)
<1>1. ASSUME NEW S \in SUBSET Hosts PROVE Contained(S)' <=> Contained(S)
  BY DEF Contained
<1>2. Visits(h)' = Visits(h)
  BY <1>1 DEF Visits
<1> QED
  BY <1>2 DEF Ends

-----------------------------------------------------------------------------
THEOREM RenderInitInv == RenderInit => RenderInv
<1> SUFFICES ASSUME RenderInit PROVE RenderInv
  OBVIOUS
<1> USE DEF RenderInit
<1>1. RenderTypeOK
  BY HostsAssumption DEF RenderTypeOK
<1>2. OrderOK
  BY OrdersAreComplete DEF OrderOK
<1>3. PosOK
  BY <1>2, EmptySeq, LenProperties DEF OrderOK, PosOK
<1>4. Untouched /\ Redirects /\ SeenDeclares
  BY DEF Untouched, Redirects, SeenDeclares
<1>5. AllServed
  <2> SUFFICES ASSUME NEW h \in Hosts PROVE Served(h)
    BY DEF AllServed
  <2>1. Ends(h) = {h}
    BY EndsSelf
  <2>2. h \in backends[h] /\ (h \in declaredTls => secured[h])
    OBVIOUS
  <2> QED
    BY <2>1, <2>2 DEF Served
<1>6. LastingInForce
  BY DEF LastingInForce, Passed
<1>7. PortsPrepared /\ PlainAdded
  BY DEF PortsPrepared, PlainAdded, Done
<1> QED
  BY <1>1, <1>2, <1>3, <1>4, <1>5, <1>6, <1>7 DEF RenderInv

\* Each step of the processor takes one more host, that it has not taken before.
LEMMA NextHost ==
  ASSUME RenderInv, stage = "redirect", Advance
  PROVE  /\ Current \in Hosts /\ ~Passed(Current)
         /\ \A h \in Hosts : Passed(h)' <=> Passed(h) \/ h = Current
         /\ OrderOK' /\ PosOK' /\ stage' \in {"redirect", "ssl"}
<1> DEFINE n == Len(order)
<1>1. order \in Seq(Hosts) /\ n \in Nat /\ pos \in 1..n /\ order' = order /\ pos' = pos + 1
  BY LenProperties DEF RenderInv, OrderOK, PosOK, Advance
<1>2. Current \in Hosts
  BY <1>1, ElementOfSeq DEF Current
<1>3. ~Passed(Current)
  BY <1>1 DEF RenderInv, OrderOK, Passed, Current
<1>4. \A h \in Hosts : Passed(h)' <=> Passed(h) \/ h = Current
  BY <1>1 DEF Passed, Current
<1>5. OrderOK'
  BY <1>1 DEF RenderInv, OrderOK
<1>6. PosOK' /\ stage' \in {"redirect", "ssl"}
  BY <1>1 DEF Advance, PosOK
<1> QED
  BY <1>2, <1>3, <1>4, <1>5, <1>6

\* The parts of the invariant that the redirect processor leaves alone.
LEMMA RestKept ==
  ASSUME RenderInv, stage = "redirect", Advance
  PROVE  PortsPrepared' /\ PlainAdded'
<1>1. stage' \in {"redirect", "ssl"} /\ port' = port
  BY NextHost DEF Advance
<1> QED
  BY <1>1 DEF RenderInv, PortsPrepared, PlainAdded, Done

LEMMA NoRedirectInvariant == RenderInv /\ NoRedirect => RenderInv'
<1> SUFFICES ASSUME RenderInv, NoRedirect PROVE RenderInv'
  OBVIOUS
<1> DEFINE c == Current
<1>1. /\ stage = "redirect" /\ redirect[c] = Nowhere /\ Advance
      /\ seen' = seen /\ redirect' = redirect /\ isRedirect' = isRedirect
      /\ secured' = secured /\ backends' = backends
      /\ declared' = declared /\ declaredTls' = declaredTls /\ port' = port
  BY DEF NoRedirect, Target, hostVars, Advance
<1>2. /\ c \in Hosts /\ ~Passed(c)
      /\ \A h \in Hosts : Passed(h)' <=> Passed(h) \/ h = c
      /\ OrderOK' /\ PosOK' /\ stage' \in {"redirect", "ssl"}
  BY <1>1, NextHost
<1>3. redirect[c] = declared[c] /\ ~isRedirect[c]
  BY <1>2 DEF RenderInv, Untouched
<1> HIDE DEF c
<1>4. RenderTypeOK'
  BY <1>1, <1>2 DEF RenderInv, RenderTypeOK
<1>5. Untouched' /\ Redirects' /\ SeenDeclares'
  BY <1>1, <1>2 DEF RenderInv, Untouched, Redirects, SeenDeclares
<1>6. AllServed'
  BY <1>1, SameRedirects DEF RenderInv, AllServed, Served
<1>7. LastingInForce'
  BY <1>1, <1>2, <1>3 DEF RenderInv, LastingInForce, Lasting
<1> QED
  BY <1>1, <1>2, <1>4, <1>5, <1>6, <1>7, RestKept DEF RenderInv

LEMMA SameNameInvariant == RenderInv /\ SameName => RenderInv'
<1> SUFFICES ASSUME RenderInv, SameName PROVE RenderInv'
  OBVIOUS
<1> DEFINE c == Current
<1>1. /\ stage = "redirect" /\ redirect[c] # Nowhere /\ redirect[c].name = c.name /\ Advance
      /\ seen' = seen \cup {c.name} /\ redirect' = [redirect EXCEPT ![c] = Nowhere]
      /\ isRedirect' = isRedirect /\ secured' = secured /\ backends' = backends
      /\ declared' = declared /\ declaredTls' = declaredTls /\ port' = port
  BY DEF SameName, Target, Advance
<1>2. /\ c \in Hosts /\ ~Passed(c)
      /\ \A h \in Hosts : Passed(h)' <=> Passed(h) \/ h = c
      /\ OrderOK' /\ PosOK' /\ stage' \in {"redirect", "ssl"}
  BY <1>1, NextHost
<1>3. redirect[c] = declared[c] /\ ~isRedirect[c]
  BY <1>2 DEF RenderInv, Untouched
<1> HIDE DEF c
<1>4. RenderTypeOK'
  BY <1>1, <1>2 DEF RenderInv, RenderTypeOK
<1>5. \A h \in Hosts : h # c => redirect'[h] = redirect[h]
  BY <1>1 DEF RenderInv, RenderTypeOK
<1>6. Untouched' /\ Redirects' /\ SeenDeclares'
  BY <1>1, <1>2, <1>3, <1>5 DEF RenderInv, Untouched, Redirects, SeenDeclares
<1>7. AllServed'
  <2>1. \A k \in Hosts : isRedirect[k] => redirect'[k] = redirect[k]
    BY <1>3, <1>5
  <2> QED
    BY <1>1, <2>1, SameRedirects DEF RenderInv, AllServed, Served
<1>8. LastingInForce'
  <2>1. ~Lasting(c)
    BY <1>1, <1>3 DEF Lasting
  <2> QED
    BY <1>1, <1>2, <2>1 DEF RenderInv, LastingInForce, Lasting
<1> QED
  BY <1>1, <1>2, <1>4, <1>6, <1>7, <1>8, RestKept DEF RenderInv

\* A redirect that is to last is not dropped: no host of its target's name
\* declares one, so the name is not among those seen.
LEMMA TargetSeenInvariant == RenderInv /\ TargetSeen => RenderInv'
<1> SUFFICES ASSUME RenderInv, TargetSeen PROVE RenderInv'
  OBVIOUS
<1> DEFINE c == Current
<1>1. /\ stage = "redirect" /\ redirect[c] # Nowhere /\ redirect[c].name \in seen /\ Advance
      /\ seen' = seen \cup {c.name} /\ redirect' = redirect
      /\ isRedirect' = isRedirect /\ secured' = secured /\ backends' = backends
      /\ declared' = declared /\ declaredTls' = declaredTls /\ port' = port
  BY DEF TargetSeen, TargetProcessed, Target, Advance, hostVars
<1>2. /\ c \in Hosts /\ ~Passed(c)
      /\ \A h \in Hosts : Passed(h)' <=> Passed(h) \/ h = c
      /\ OrderOK' /\ PosOK' /\ stage' \in {"redirect", "ssl"}
  BY <1>1, NextHost
<1>3. redirect[c] = declared[c] /\ ~isRedirect[c]
  BY <1>2 DEF RenderInv, Untouched
<1> HIDE DEF c
<1>4. RenderTypeOK'
  BY <1>1, <1>2 DEF RenderInv, RenderTypeOK
<1>5. Untouched' /\ Redirects' /\ SeenDeclares'
  BY <1>1, <1>2, <1>3 DEF RenderInv, Untouched, Redirects, SeenDeclares
<1>6. AllServed'
  BY <1>1, SameRedirects DEF RenderInv, AllServed, Served
<1>7. LastingInForce'
  <2>1. PICK g \in Hosts : g.name = declared[c].name /\ declared[g] # Nowhere
    BY <1>1, <1>3 DEF RenderInv, SeenDeclares
  <2>2. ~Lasting(c)
    BY <2>1 DEF Lasting
  <2> QED
    BY <1>1, <1>2, <2>2 DEF RenderInv, LastingInForce, Lasting
<1> QED
  BY <1>1, <1>2, <1>4, <1>5, <1>6, <1>7, RestKept DEF RenderInv

\* The clients that ended at the host end at its target, which has taken over its
\* backends and its TLS.
LEMMA FollowInvariant == RenderInv /\ Follow => RenderInv'
<1> SUFFICES ASSUME RenderInv, Follow PROVE RenderInv'
  OBVIOUS
<1>0. PICK c, t : c = Current /\ t = Target
  OBVIOUS
<1>1. /\ stage = "redirect" /\ t = redirect[c] /\ t # Nowhere /\ t.name # c.name
      /\ t.name \notin seen /\ Advance
      /\ seen' = seen \cup {c.name} /\ redirect' = redirect
      /\ isRedirect' = [isRedirect EXCEPT ![c] = TRUE]
      /\ secured' = [secured EXCEPT ![t] = secured[c] \/ secured[t],
                                    ![c] = secured[c] \/ secured[t]]
      /\ backends' = [backends EXCEPT ![t] = backends[t] \cup backends[c], ![c] = {}]
      /\ declared' = declared /\ declaredTls' = declaredTls /\ port' = port
  BY <1>0 DEF Follow, TargetProcessed, Target, Advance, Merge, SharedTls
<1>2. /\ c \in Hosts /\ ~Passed(c)
      /\ \A h \in Hosts : Passed(h)' <=> Passed(h) \/ h = c
      /\ OrderOK' /\ PosOK' /\ stage' \in {"redirect", "ssl"}
  BY <1>0, <1>1, NextHost
<1>3. redirect[c] = declared[c] /\ ~isRedirect[c]
  BY <1>2 DEF RenderInv, Untouched
<1>4. t \in Hosts /\ t # c /\ ~isRedirect[t]
  BY <1>1, <1>2 DEF RenderInv, RenderTypeOK, Redirects
<1>5. RenderTypeOK'
  BY <1>1, <1>2, <1>4 DEF RenderInv, RenderTypeOK
<1>6. \A h \in Hosts : isRedirect'[h] <=> isRedirect[h] \/ h = c
  BY <1>1, <1>2 DEF RenderInv, RenderTypeOK
<1>7. Untouched' /\ Redirects' /\ SeenDeclares'
  BY <1>1, <1>2, <1>3, <1>4, <1>6 DEF RenderInv, Untouched, Redirects, SeenDeclares
<1>8. /\ \A e \in Hosts \ {c} : backends[e] \subseteq backends'[e] /\ (secured[e] => secured'[e])
      /\ backends[c] \subseteq backends'[t] /\ (secured[c] => secured'[t])
  BY <1>1, <1>2, <1>4 DEF RenderInv, RenderTypeOK
<1>9. AllServed'
  <2> SUFFICES ASSUME NEW h \in Hosts PROVE Served(h)'
    BY DEF AllServed
  <2>0. RenderTypeOK /\ Redirects /\ redirect[c] = t /\ c # t
    BY <1>1, <1>4 DEF RenderInv
  <2>1. /\ Ends(h)' \subseteq (Ends(h) \ {c}) \cup {t}
        /\ c \notin Ends(h) => Ends(h)' = Ends(h)
        /\ c \in Ends(h) => t \in Ends(h)'
    BY <1>1, <1>2, <1>3, <1>4, <2>0, NewRedirect
  <2>2. Served(h)
    BY DEF RenderInv, AllServed
  <2>3. Ends(h) \subseteq Hosts
    BY DEF Ends, Visits
  <2>4. Ends(h)' # {}
    BY <2>1, <2>2 DEF Served
  <2>5. ASSUME NEW e \in Ends(h)' PROVE h \in backends'[e] /\ (h \in declaredTls => secured'[e])
    <3>1. CASE e \in Ends(h) /\ e # c
      BY <1>8, <2>2, <2>3, <3>1 DEF Served
    <3>2. CASE e = t /\ t \notin Ends(h)
      <4>1. c \in Ends(h)
        BY <2>1, <2>5, <3>2
      <4> QED
        BY <1>8, <2>2, <3>2, <4>1 DEF Served
    <3> QED
      BY <1>4, <2>1, <2>5, <3>1, <3>2
  <2> QED
    BY <1>1, <2>4, <2>5 DEF Served
<1>10. LastingInForce'
  BY <1>1, <1>2, <1>6 DEF RenderInv, LastingInForce, Lasting
<1> QED
  BY <1>1, <1>2, <1>5, <1>7, <1>9, <1>10, RestKept DEF RenderInv

LEMMA PrepareSslInvariant == RenderInv /\ PrepareSsl => RenderInv'
<1> SUFFICES ASSUME RenderInv, PrepareSsl PROVE RenderInv'
  OBVIOUS
<1>1. /\ stage = "ssl" /\ stage' = "https"
      /\ port' = [h \in Hosts |-> IF secured[h] THEN Prepared(h) ELSE port[h]]
      /\ UNCHANGED <<declared, declaredTls, order, pos, seen, redirect, isRedirect,
                     secured, backends, added>>
  BY DEF PrepareSsl, hostVars
<1>2. RenderTypeOK'
  BY <1>1 DEF RenderInv, RenderTypeOK, Prepared
<1>3. OrderOK' /\ PosOK'
  BY <1>1 DEF RenderInv, OrderOK, PosOK
<1>4. Untouched' /\ Redirects' /\ SeenDeclares' /\ LastingInForce'
  BY <1>1 DEF RenderInv, Untouched, Redirects, SeenDeclares, LastingInForce, Lasting, Passed
<1>5. AllServed'
  BY <1>1, SameRedirects DEF RenderInv, AllServed, Served
<1>6. PortsPrepared' /\ PlainAdded'
  BY <1>1 DEF RenderInv, PortsPrepared, PlainAdded, Done, Prepared, TlsPort
<1> QED
  BY <1>2, <1>3, <1>4, <1>5, <1>6 DEF RenderInv

LEMMA EnsureHttpsInvariant == RenderInv /\ EnsureHttpsRedirects => RenderInv'
<1> SUFFICES ASSUME RenderInv, EnsureHttpsRedirects PROVE RenderInv'
  OBVIOUS
<1>1. /\ stage = "https" /\ stage' = "done"
      /\ UNCHANGED <<declared, declaredTls, order, pos, seen, redirect, isRedirect,
                     secured, backends, port>>
  BY DEF EnsureHttpsRedirects, hostVars
<1>2. RenderTypeOK'
  BY <1>1 DEF RenderInv, RenderTypeOK
<1>3. OrderOK' /\ PosOK'
  BY <1>1 DEF RenderInv, OrderOK, PosOK
<1>4. Untouched' /\ Redirects' /\ SeenDeclares' /\ LastingInForce'
  BY <1>1 DEF RenderInv, Untouched, Redirects, SeenDeclares, LastingInForce, Lasting, Passed
<1>5. AllServed'
  BY <1>1, SameRedirects DEF RenderInv, AllServed, Served
<1>6. PortsPrepared'
  BY <1>1 DEF RenderInv, PortsPrepared
<1>7. PlainAdded'
  BY <1>1 DEF EnsureHttpsRedirects, PlainAdded
<1> QED
  BY <1>2, <1>3, <1>4, <1>5, <1>6, <1>7 DEF RenderInv

THEOREM RenderNextInv == RenderInv /\ [RenderNext]_renderVars => RenderInv'
<1> SUFFICES ASSUME RenderInv, [RenderNext]_renderVars PROVE RenderInv'
  OBVIOUS
<1>1. CASE UNCHANGED renderVars
  <2>1. UNCHANGED <<declared, declaredTls, order, pos, seen, redirect, isRedirect, secured, backends,
                    port, added, stage>>
    BY <1>1 DEF renderVars, hostVars
  <2>2. AllServed'
    BY <2>1, SameRedirects DEF RenderInv, AllServed, Served
  <2> QED
    BY <2>1, <2>2 DEF RenderInv, RenderTypeOK, OrderOK, PosOK, Untouched, Redirects, SeenDeclares,
      LastingInForce, Lasting, Passed, PortsPrepared, PlainAdded, Done
<1> QED
  BY <1>1, NoRedirectInvariant, SameNameInvariant, TargetSeenInvariant, FollowInvariant,
    PrepareSslInvariant, EnsureHttpsInvariant DEF RenderNext, Finished

THEOREM RenderInvariant == RenderSpec => []RenderInv
<1> QED
  BY RenderInitInv, RenderNextInv, PTL DEF RenderSpec

-----------------------------------------------------------------------------
\* However backends declare redirects, no client is redirected in a circle.
THEOREM NoRedirectLoopHolds == RenderSpec => []NoRedirectLoop
<1>1. RenderInv => NoRedirectLoop
  BY DEF RenderInv, AllServed, Served, NoRedirectLoop
<1> QED
  BY <1>1, RenderInvariant, PTL

\* A backend is served by the server its clients are redirected to.
THEOREM NoBackendLostHolds == RenderSpec => []NoBackendLost
<1>1. RenderInv => NoBackendLost
  BY DEF RenderInv, AllServed, Served, NoBackendLost
<1> QED
  BY <1>1, RenderInvariant, PTL

\* The clients of a server that uses TLS in the table, on whatever port, are sent to a
\* server that uses TLS.
THEOREM TlsKeptHolds == RenderSpec => []TlsKept
<1>1. RenderInv => TlsKept
  BY DEF RenderInv, RenderTypeOK, AllServed, Served, TlsKept
<1> QED
  BY <1>1, RenderInvariant, PTL

\* A server that uses TLS, one that the table has on port 80 too, is not on the plain
\* port when rendering is done, and some block of its name is.
THEOREM PlainPortAnswersHolds == RenderSpec => []PlainPortAnswers
<1>1. ASSUME RenderInv, Done, NEW h \in Hosts, secured[h], ~isRedirect[h]
      PROVE  port[h] # 80 /\ \E b \in Blocks : b.name = h.name /\ b.port = 80
  <2>1. port[h] # 80
    BY <1>1, HostsAssumption DEF RenderInv, PortsPrepared, TlsPort, Done
  <2>2. h.name \in added \/ \E g \in Hosts : g.name = h.name /\ port[g] = 80
    BY <1>1, <2>1 DEF RenderInv, PlainAdded
  <2>3. CASE h.name \in added
    <3> DEFINE b == [host |-> Nowhere, name |-> h.name, port |-> 80]
    <3>1. b \in Blocks /\ b.name = h.name /\ b.port = 80
      BY <2>3 DEF Blocks
    <3> QED
      BY <2>1, <3>1
  <2>4. CASE \E g \in Hosts : g.name = h.name /\ port[g] = 80
    <3>1. PICK g \in Hosts : g.name = h.name /\ port[g] = 80
      BY <2>4
    <3> DEFINE b == [host |-> g, name |-> g.name, port |-> IF isRedirect[g] THEN 80 ELSE port[g]]
    <3>2. b \in Blocks /\ b.name = h.name /\ b.port = 80
      BY <3>1 DEF Blocks
    <3> QED
      BY <2>1, <3>2
  <2> QED
    BY <2>2, <2>3, <2>4
<1>2. RenderInv => PlainPortAnswers
  BY <1>1 DEF PlainPortAnswers
<1> QED
  BY <1>2, RenderInvariant, PTL

\* A redirect to a name that does not redirect is in force in every order of the
\* table: all hosts have been processed, and its target is not redirected.
THEOREM RedirectInForceHolds == RenderSpec => []RedirectInForce
<1>1. ASSUME RenderInv, Done, NEW h \in Hosts, Lasting(h)
      PROVE  isRedirect[h] /\ Ends(h) = {declared[h]}
  <2>1. Passed(h)
    <3>1. pos = Len(order) + 1 /\ Len(order) \in Nat
      BY <1>1, LenProperties DEF RenderInv, OrderOK, PosOK, Done
    <3> QED
      BY <1>1, <3>1 DEF RenderInv, OrderOK, Passed
  <2>2. isRedirect[h]
    BY <1>1, <2>1 DEF RenderInv, LastingInForce
  <2>3. redirect[h] \in Hosts /\ redirect[h] = declared[h]
    BY <1>1, <2>2 DEF RenderInv, Redirects
  <2>4. ~isRedirect[redirect[h]]
    <3>1. declared[redirect[h]] = Nowhere
      BY <1>1, <2>3 DEF Lasting
    <3> QED
      BY <1>1, <2>3, <3>1, HostsAssumption DEF RenderInv, Redirects
  <2> QED
    BY <2>2, <2>3, <2>4, EndsNext
<1>2. RenderInv => RedirectInForce
  BY <1>1 DEF RedirectInForce, Lasting
<1> QED
  BY <1>2, RenderInvariant, PTL
=============================================================================
