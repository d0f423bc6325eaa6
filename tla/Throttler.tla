------------------------------ MODULE Throttler ------------------------------
(***************************************************************************)
(* nginx_proxy/Throttler.py: the debouncer in front of every nginx reload. *)
(* Calls of throttle() come from several threads; a call either runs its   *)
(* task in the calling thread or leaves it in the single pending slot, to  *)
(* be run by a threading.Timer.  The lock makes throttle(), _trigger() and *)
(* shutdown() atomic, but a task runs after the lock is released and       *)
(* cancel() has no effect on a timer that has already passed its wait.     *)
(*                                                                         *)
(* Time is relative: "age" counts the ticks since _last_run_time and       *)
(* saturates at Interval, "left" the ticks a timer still waits.            *)
(***************************************************************************)
EXTENDS Naturals

CONSTANTS
  Callers,    \* threads that call throttle(): the dispatcher, main, the SSL thread
  Timers,     \* identities of Timer threads; one is reused once its thread ended
  Tasks,      \* the callables
  NoTask,     \* _pending_task = None
  NoTimer,    \* _timer = None
  Interval    \* self.interval, in ticks

ASSUME IntervalAssumption == Interval \in Nat
ASSUME NoTaskAssumption == NoTask \notin Tasks
ASSUME NoTimerAssumption == NoTimer \notin Timers
ASSUME ThreadsAssumption == Callers \cap Timers = {}

VARIABLES
  age,       \* min(time.time() - _last_run_time, Interval)
  pending,   \* _pending_task
  timer,     \* _timer
  left,      \* left[t]: what timer t still has to wait
  pc,        \* pc[h]: where thread h is
  held,      \* held[h]: the task thread h has taken and not finished
  owed,      \* history: a task was submitted and no task has begun since
  stopped    \* history: shutdown() was called, and throttle() not since

vars == <<age, pending, timer, left, pc, held, owed, stopped>>

Threads == Callers \cup Timers

\* "out": not in the throttler (a dead or unused timer); "armed": in
\* Timer.wait; "fired": past the wait, before the lock of _trigger; "taken":
\* a task is held and the lock released; "in": the task is running.
Phases == {"out", "armed", "fired", "taken", "in"}

Init ==
  /\ age = Interval              \* _last_run_time = 0.0, long ago
  /\ pending = NoTask
  /\ timer = NoTimer
  /\ left = [t \in Timers |-> 0]
  /\ pc = [h \in Threads |-> "out"]
  /\ held = [h \in Threads |-> NoTask]
  /\ owed = FALSE
  /\ stopped = FALSE

-----------------------------------------------------------------------------
\* Seeded faults, one for each property: the run named in PROJECT.json must
\* find the property violated when the definition that follows is replaced.

\* throttle() computes the wait from the current time instead of the last run.
ScheduleLate(c, task) ==
  /\ pc[c] = "out" /\ age < Interval /\ timer = NoTimer
  /\ \E t \in Timers :
       /\ pc[t] = "out"
       /\ pc' = [pc EXCEPT ![t] = "armed"]
       /\ left' = [left EXCEPT ![t] = Interval + age]
       /\ timer' = t
  /\ pending' = task /\ owed' = TRUE /\ stopped' = FALSE
  /\ UNCHANGED <<age, held>>

\* throttle() creates the timer and forgets timer.start().
ScheduleUnstarted(c, task) ==
  /\ pc[c] = "out" /\ age < Interval /\ timer = NoTimer
  /\ timer' \in Timers
  /\ pending' = task /\ owed' = TRUE /\ stopped' = FALSE
  /\ UNCHANGED <<age, held, left, pc>>

\* The run-now branch forgets "self._timer = None".
RunNowKeepsTimer(c, task, immediate) ==
  /\ pc[c] = "out" /\ (immediate \/ age = Interval)
  /\ pc' = [pc EXCEPT ![c] = "taken"]
  /\ held' = [held EXCEPT ![c] = task]
  /\ pending' = NoTask /\ age' = 0 /\ owed' = TRUE /\ stopped' = FALSE
  /\ UNCHANGED <<left, timer>>

\* _trigger ignores the task when it is not the referenced timer.
TriggerDropsStale(t) ==
  /\ pc[t] = "fired"
  /\ held' = [held EXCEPT ![t] = IF timer = t THEN pending ELSE NoTask]
  /\ pc' = [pc EXCEPT ![t] = IF timer = t THEN "taken" ELSE "out"]
  /\ pending' = NoTask /\ timer' = NoTimer /\ age' = 0
  /\ UNCHANGED <<left, owed, stopped>>

\* _trigger forgets "self._timer = None".
TriggerKeepsTimer(t) ==
  /\ pc[t] = "fired"
  /\ held' = [held EXCEPT ![t] = pending]
  /\ pc' = [pc EXCEPT ![t] = IF pending = NoTask THEN "out" ELSE "taken"]
  /\ pending' = NoTask /\ age' = 0
  /\ UNCHANGED <<left, timer, owed, stopped>>

\* shutdown() cancels the timer and forgets the pending task.
ShutdownKeepsTask ==
  /\ pc' = IF timer # NoTimer /\ pc[timer] = "armed"
            THEN [pc EXCEPT ![timer] = "out"] ELSE pc
  /\ timer' = NoTimer /\ stopped' = TRUE
  /\ UNCHANGED <<age, left, held, pending, owed>>

-----------------------------------------------------------------------------
\* Timer.cancel() of the referenced timer: it stops a timer that still waits,
\* and is too late for one whose thread is on its way to _trigger.
Cancelled(p) ==
  IF timer # NoTimer /\ p[timer] = "armed" THEN [p EXCEPT ![timer] = "out"] ELSE p

\* throttle() takes the branch that runs the task in the calling thread.
RunNow(c, task, immediate) ==
  /\ pc[c] = "out"
  /\ immediate \/ age = Interval
  /\ pc' = [Cancelled(pc) EXCEPT ![c] = "taken"]
  /\ held' = [held EXCEPT ![c] = task]
  /\ timer' = NoTimer
  /\ pending' = NoTask
  /\ age' = 0
  /\ owed' = TRUE
  /\ stopped' = FALSE
  /\ UNCHANGED left

\* throttle() comes too soon and no timer is referenced: arm one.
Schedule(c, task) ==
  /\ pc[c] = "out"
  /\ age < Interval
  /\ timer = NoTimer
  /\ \E t \in Timers :
       /\ pc[t] = "out"
       /\ pc' = [pc EXCEPT ![t] = "armed"]
       /\ left' = [left EXCEPT ![t] = Interval - age]
       /\ timer' = t
  /\ pending' = task
  /\ owed' = TRUE
  /\ stopped' = FALSE
  /\ UNCHANGED <<age, held>>

\* throttle() comes too soon and a timer is referenced: replace its task.
Replace(c, task) ==
  /\ pc[c] = "out"
  /\ age < Interval
  /\ timer # NoTimer
  /\ pending' = task
  /\ owed' = TRUE
  /\ stopped' = FALSE
  /\ UNCHANGED <<age, timer, left, pc, held>>

Throttle(c, task, immediate) ==
  \/ RunNow(c, task, immediate)
  \/ ~immediate /\ Schedule(c, task)
  \/ ~immediate /\ Replace(c, task)

\* Timer.run: the wait is over and finished is not set.
Fire(t) ==
  /\ pc[t] = "armed"
  /\ left[t] = 0
  /\ pc' = [pc EXCEPT ![t] = "fired"]
  /\ UNCHANGED <<age, pending, timer, left, held, owed, stopped>>

\* _trigger, up to the release of the lock.  It clears _timer whichever timer
\* is referenced, and the thread ends if there is nothing to run.
Trigger(t) ==
  /\ pc[t] = "fired"
  /\ held' = [held EXCEPT ![t] = pending]
  /\ pc' = [pc EXCEPT ![t] = IF pending = NoTask THEN "out" ELSE "taken"]
  /\ pending' = NoTask
  /\ timer' = NoTimer
  /\ age' = 0
  /\ UNCHANGED <<left, owed, stopped>>

\* task(): the call begins, and sees every change made before it.
Begin(h) ==
  /\ pc[h] = "taken"
  /\ pc' = [pc EXCEPT ![h] = "in"]
  /\ owed' = FALSE
  /\ UNCHANGED <<age, pending, timer, left, held, stopped>>

\* The task returns (or raises): the caller goes on, a timer thread ends.
Finish(h) ==
  /\ pc[h] = "in"
  /\ pc' = [pc EXCEPT ![h] = "out"]
  /\ held' = [held EXCEPT ![h] = NoTask]
  /\ UNCHANGED <<age, pending, timer, left, owed, stopped>>

\* shutdown(), called once by WebServer.cleanup in the main thread.
Shutdown ==
  /\ pc' = Cancelled(pc)
  /\ timer' = NoTimer
  /\ pending' = NoTask
  /\ owed' = \E h \in Threads : pc[h] = "taken"
  /\ stopped' = TRUE
  /\ UNCHANGED <<age, left, held>>

Tick ==
  /\ age < Interval \/ \E t \in Timers : pc[t] = "armed" /\ left[t] > 0
  /\ age' = IF age < Interval THEN age + 1 ELSE age
  /\ left' = [t \in Timers |->
                IF pc[t] = "armed" /\ left[t] > 0 THEN left[t] - 1 ELSE left[t]]
  /\ UNCHANGED <<pending, timer, pc, held, owed, stopped>>

\* A killed process takes its threads along; the next one has a new Throttler.
\* (For the modules that compose this one; no step of the Throttler itself.)
Restart ==
  /\ age' = Interval /\ pending' = NoTask /\ timer' = NoTimer
  /\ left' = [t \in Timers |-> 0]
  /\ pc' = [h \in Threads |-> "out"]
  /\ held' = [h \in Threads |-> NoTask]
  /\ owed' = FALSE /\ stopped' = FALSE

Next ==
  \/ \E c \in Callers, task \in Tasks, immediate \in BOOLEAN : Throttle(c, task, immediate)
  \/ \E t \in Timers : Fire(t) \/ Trigger(t)
  \/ \E h \in Threads : Begin(h) \/ Finish(h)
  \/ Shutdown
  \/ Tick

\* The program's own scheduling: clocks advance, a due timer's thread gets to
\* run, a thread goes on.  Nobody is obliged to call throttle().
Fairness ==
  /\ WF_vars(Tick)
  /\ \A t \in Timers : WF_vars(Fire(t)) /\ WF_vars(Trigger(t))
  /\ \A h \in Threads : WF_vars(Begin(h)) /\ WF_vars(Finish(h))

Spec == Init /\ [][Next]_vars
FairSpec == Spec /\ Fairness

-----------------------------------------------------------------------------
TypeOK ==
  /\ age \in 0..Interval
  /\ pending \in Tasks \cup {NoTask}
  /\ timer \in Timers \cup {NoTimer}
  /\ left \in [Timers -> 0..Interval]
  /\ pc \in [Threads -> Phases]
  /\ held \in [Threads -> Tasks \cup {NoTask}]
  /\ owed \in BOOLEAN
  /\ stopped \in BOOLEAN

\* A submitted task is never forgotten: as long as no task has begun since the
\* last call of throttle(), one is in the pending slot or taken by a thread
\* that has not begun it (Throttler.py:14-21 and 39-57 against each other).
NoLostRequest ==
  owed => pending # NoTask \/ \E h \in Threads : pc[h] = "taken"

\* A filled slot always has a live timer on its way to empty it: the reference
\* _timer is dropped exactly when the slot is (Throttler.py:14-21, 43-46, 51).
PendingHasTimer ==
  pending # NoTask => timer # NoTimer /\ pc[timer] \in {"armed", "fired"}

\* The timer referenced by _timer, as opposed to a stale one, only ever reaches
\* _trigger when a full interval has passed since the last run.
OwnTimerOnTime ==
  timer # NoTimer /\ pc[timer] = "fired" => age = Interval

\* After shutdown() no thread starts a task any more unless throttle() is
\* called again, even a timer that had already fired (Throttler.py:61-66).
ShutdownSilences ==
  [][stopped' => \A h \in Threads : pc'[h] = "taken" => pc[h] = "taken"]_vars

\* A submitted task, or a later one in its place, is eventually begun.
EventuallyServed == owed ~> ~owed
=============================================================================
