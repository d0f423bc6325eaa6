--------------------------- MODULE ThrottlerProofs ---------------------------
(***************************************************************************)
(* Proofs about Throttler, for any number of callers, timers and tasks and *)
(* any interval.                                                           *)
(***************************************************************************)
EXTENDS Throttler, TLAPS

\* The slot and the timer reference are filled and emptied together, and the
\* referenced timer is alive.
SlotTimer ==
  /\ pending # NoTask => timer # NoTimer
  /\ timer # NoTimer => pc[timer] \in {"armed", "fired"}

\* The referenced timer has exactly the rest of the interval left to wait.
TimerOnTime ==
  timer # NoTimer =>
    /\ pc[timer] = "armed" => left[timer] + age = Interval
    /\ pc[timer] = "fired" => age = Interval

\* After shutdown() and until the next throttle() there is nothing to take.
SilentSlot == stopped => pending = NoTask

IndInv == TypeOK /\ SlotTimer /\ TimerOnTime /\ NoLostRequest /\ SilentSlot

USE IntervalAssumption, NoTaskAssumption, NoTimerAssumption, ThreadsAssumption

\* The initial state satisfies the inductive invariant.
LEMMA InitInv == Init => IndInv
<1>. SUFFICES ASSUME Init PROVE IndInv
  OBVIOUS
<1>. USE DEF Init
<1>1. TypeOK
  <2>1. age \in 0..Interval /\ left \in [Timers -> 0..Interval]
    OBVIOUS
  <2>2. pc \in [Threads -> Phases] /\ held \in [Threads -> Tasks \cup {NoTask}]
    BY DEF Phases
  <2>. QED
    BY <2>1, <2>2 DEF TypeOK
<1>2. SlotTimer /\ TimerOnTime
  BY DEF SlotTimer, TimerOnTime
<1>3. NoLostRequest /\ SilentSlot
  BY DEF NoLostRequest, SilentSlot
<1>. QED
  BY <1>1, <1>2, <1>3 DEF IndInv

\* Timer.cancel() only ever turns the referenced timer from "armed" to "out".
LEMMA CancelledPc ==
  ASSUME TypeOK
  PROVE  /\ Cancelled(pc) \in [Threads -> Phases]
         /\ \A h \in Threads : pc[h] # "armed" => Cancelled(pc)[h] = pc[h]
         /\ \A h \in Threads : Cancelled(pc)[h] \in {pc[h], "out"}
BY DEF TypeOK, Cancelled, Threads, Phases

\* A call of throttle() that runs its task at once preserves the invariant.
LEMMA RunNowInv ==
  ASSUME IndInv, NEW c \in Callers, NEW task \in Tasks, NEW immediate \in BOOLEAN,
         RunNow(c, task, immediate)
  PROVE  IndInv'
<1>. USE DEF IndInv, RunNow
<1>1. c \in Threads
  BY DEF Threads
<1>2. TypeOK'
  <2>1. pc' \in [Threads -> Phases]
    BY <1>1, CancelledPc DEF Phases
  <2>2. held' \in [Threads -> Tasks \cup {NoTask}]
    BY <1>1 DEF TypeOK
  <2>3. age' \in 0..Interval /\ left' \in [Timers -> 0..Interval]
    BY DEF TypeOK
  <2>4. pending' \in Tasks \cup {NoTask} /\ timer' \in Timers \cup {NoTimer}
    OBVIOUS
  <2>5. owed' \in BOOLEAN /\ stopped' \in BOOLEAN
    OBVIOUS
  <2>. QED
    BY <2>1, <2>2, <2>3, <2>4, <2>5 DEF TypeOK
<1>3. NoLostRequest'
  <2>1. pc'[c] = "taken"
    BY <1>1, CancelledPc
  <2>. QED
    BY <1>1, <2>1 DEF NoLostRequest
<1>4. SlotTimer' /\ TimerOnTime' /\ SilentSlot'
  BY DEF SlotTimer, TimerOnTime, SilentSlot
<1>. QED
  BY <1>2, <1>3, <1>4

\* A call that arms a timer preserves the invariant.
LEMMA ScheduleInv ==
  ASSUME IndInv, NEW c \in Callers, NEW task \in Tasks, Schedule(c, task)
  PROVE  IndInv'
<1>. USE DEF IndInv
<1>1. PICK t \in Timers :
        /\ pc[t] = "out"
        /\ pc' = [pc EXCEPT ![t] = "armed"]
        /\ left' = [left EXCEPT ![t] = Interval - age]
        /\ timer' = t
  BY DEF Schedule
<1>2. t \in Threads /\ t # NoTimer /\ task # NoTask
  BY DEF Threads
<1>3. age \in 0..Interval /\ age' = age /\ Interval - age \in 0..Interval
  BY DEF Schedule, TypeOK
<1>4. TypeOK'
  BY <1>1, <1>2, <1>3 DEF Schedule, TypeOK, Phases
<1>5. SlotTimer'
  BY <1>1, <1>2 DEF Schedule, SlotTimer, TypeOK
<1>6. TimerOnTime'
  BY <1>1, <1>2, <1>3 DEF TimerOnTime, TypeOK
<1>7. NoLostRequest' /\ SilentSlot'
  BY <1>2 DEF Schedule, NoLostRequest, SilentSlot
<1>. QED
  BY <1>4, <1>5, <1>6, <1>7

\* A call that replaces the pending task preserves the invariant.
LEMMA ReplaceInv ==
  ASSUME IndInv, NEW c \in Callers, NEW task \in Tasks, Replace(c, task)
  PROVE  IndInv'
<1>. USE DEF IndInv, Replace
<1>1. TypeOK'
  BY DEF TypeOK
<1>2. SlotTimer' /\ TimerOnTime'
  BY DEF SlotTimer, TimerOnTime
<1>3. NoLostRequest' /\ SilentSlot'
  BY DEF NoLostRequest, SilentSlot
<1>. QED
  BY <1>1, <1>2, <1>3

\* The end of a timer's wait preserves the invariant: a referenced timer whose
\* wait is over has waited out the whole interval.
LEMMA FireInv ==
  ASSUME IndInv, NEW t \in Timers, Fire(t)
  PROVE  IndInv'
<1>. USE DEF IndInv, Fire
<1>1. t \in Threads
  BY DEF Threads
<1>2. TypeOK'
  BY <1>1 DEF TypeOK, Phases
<1>3. SlotTimer'
  BY <1>1 DEF SlotTimer, TypeOK
<1>4. TimerOnTime'
  BY <1>1 DEF TimerOnTime, SlotTimer, TypeOK, Threads
<1>5. NoLostRequest'
  BY <1>1 DEF NoLostRequest, TypeOK
<1>6. SilentSlot'
  BY DEF SilentSlot
<1>. QED
  BY <1>2, <1>3, <1>4, <1>5, <1>6

\* _trigger of any timer, referenced or stale, preserves the invariant.
LEMMA TriggerInv ==
  ASSUME IndInv, NEW t \in Timers, Trigger(t)
  PROVE  IndInv'
<1>. USE DEF IndInv, Trigger
<1>1. t \in Threads
  BY DEF Threads
<1>2. TypeOK'
  BY <1>1 DEF TypeOK, Phases
<1>3. SlotTimer' /\ TimerOnTime' /\ SilentSlot'
  BY DEF SlotTimer, TimerOnTime, SilentSlot
<1>4. NoLostRequest'
  <2>1. CASE pending # NoTask
    BY <1>1, <2>1 DEF NoLostRequest, TypeOK
  <2>2. CASE pending = NoTask
    BY <1>1, <2>2 DEF NoLostRequest, TypeOK
  <2>. QED
    BY <2>1, <2>2
<1>. QED
  BY <1>2, <1>3, <1>4

\* The start and the end of a task preserve the invariant.
LEMMA RunInv ==
  ASSUME IndInv, NEW h \in Threads, Begin(h) \/ Finish(h)
  PROVE  IndInv'
<1>. USE DEF IndInv
<1>1. TypeOK'
  BY DEF Begin, Finish, TypeOK, Phases
<1>2. SlotTimer'
  BY DEF Begin, Finish, SlotTimer, TypeOK, Threads
<1>3. TimerOnTime'
  BY DEF Begin, Finish, TimerOnTime, SlotTimer, TypeOK, Threads
<1>4. NoLostRequest'
  BY DEF Begin, Finish, NoLostRequest, TypeOK
<1>5. SilentSlot'
  BY DEF Begin, Finish, SilentSlot
<1>. QED
  BY <1>1, <1>2, <1>3, <1>4, <1>5

\* shutdown() preserves the invariant.
LEMMA ShutdownInv ==
  ASSUME IndInv, Shutdown
  PROVE  IndInv'
<1>. USE DEF IndInv, Shutdown
<1>1. TypeOK'
  BY CancelledPc DEF TypeOK
<1>2. SlotTimer' /\ TimerOnTime' /\ SilentSlot'
  BY DEF SlotTimer, TimerOnTime, SilentSlot
<1>3. NoLostRequest'
  BY CancelledPc DEF NoLostRequest
<1>. QED
  BY <1>1, <1>2, <1>3

\* The passage of time preserves the invariant: the age of the last run grows
\* by what the referenced timer's wait shrinks.
LEMMA TickInv ==
  ASSUME IndInv, Tick
  PROVE  IndInv'
<1>. USE DEF IndInv, Tick
<1>1. TypeOK'
  BY DEF TypeOK
<1>2. SlotTimer' /\ NoLostRequest' /\ SilentSlot'
  BY DEF SlotTimer, NoLostRequest, SilentSlot
<1>3. TimerOnTime'
  BY DEF TimerOnTime, SlotTimer, TypeOK
<1>. QED
  BY <1>1, <1>2, <1>3

\* Every step preserves the invariant.
LEMMA NextInv == IndInv /\ [Next]_vars => IndInv'
<1>. SUFFICES ASSUME IndInv, [Next]_vars PROVE IndInv'
  OBVIOUS
<1>1. ASSUME NEW c \in Callers, NEW task \in Tasks, NEW immediate \in BOOLEAN,
             Throttle(c, task, immediate)
      PROVE  IndInv'
  BY <1>1, RunNowInv, ScheduleInv, ReplaceInv DEF Throttle
<1>2. ASSUME NEW t \in Timers, Fire(t) \/ Trigger(t) PROVE IndInv'
  BY <1>2, FireInv, TriggerInv
<1>3. ASSUME NEW h \in Threads, Begin(h) \/ Finish(h) PROVE IndInv'
  BY <1>3, RunInv
<1>4. CASE Shutdown
  BY <1>4, ShutdownInv
<1>5. CASE Tick
  BY <1>5, TickInv
<1>6. CASE UNCHANGED vars
  BY <1>6 DEF vars, IndInv, TypeOK, SlotTimer, TimerOnTime, NoLostRequest, SilentSlot
<1>. QED
  BY <1>1, <1>2, <1>3, <1>4, <1>5, <1>6 DEF Next

\* The inductive invariant holds in every reachable state.
LEMMA Invariance == Spec => []IndInv
BY InitInv, NextInv, PTL DEF Spec

\* Every variable keeps its type: no timer waits longer than the interval.
THEOREM TypeCorrect == Spec => []TypeOK
<1>1. IndInv => TypeOK
  BY DEF IndInv
<1>. QED
  BY <1>1, Invariance, PTL

\* No submitted reload is ever forgotten, whatever the races between callers,
\* a stale timer and the referenced one.
THEOREM RequestsNotLost == Spec => []NoLostRequest
<1>1. IndInv => NoLostRequest
  BY DEF IndInv
<1>. QED
  BY <1>1, Invariance, PTL

\* A filled slot always has a live timer that will empty it.
THEOREM SlotHasTimer == Spec => []PendingHasTimer
<1>1. IndInv => PendingHasTimer
  BY DEF IndInv, SlotTimer, PendingHasTimer
<1>. QED
  BY <1>1, Invariance, PTL

\* The referenced timer never reaches _trigger before the interval has passed.
THEOREM OwnTimerNeverEarly == Spec => []OwnTimerOnTime
<1>1. IndInv => OwnTimerOnTime
  BY DEF IndInv, TimerOnTime, OwnTimerOnTime
<1>. QED
  BY <1>1, Invariance, PTL

\* After shutdown() nothing is taken any more until throttle() is called again.
THEOREM ShutdownIsFinal == Spec => ShutdownSilences
<1>1. IndInv /\ [Next]_vars
        => [stopped' => \A h \in Threads : pc'[h] = "taken" => pc[h] = "taken"]_vars
  <2>. SUFFICES ASSUME IndInv, Next, stopped', NEW h \in Threads, pc'[h] = "taken"
                PROVE  pc[h] = "taken"
    OBVIOUS
  <2>1. ASSUME NEW c \in Callers, NEW task \in Tasks, NEW immediate \in BOOLEAN,
               Throttle(c, task, immediate)
        PROVE  FALSE
    BY <2>1 DEF Throttle, RunNow, Schedule, Replace
  <2>2. ASSUME NEW t \in Timers, Fire(t) PROVE pc[h] = "taken"
    BY <2>2 DEF Fire, IndInv, TypeOK, Threads
  <2>3. ASSUME NEW t \in Timers, Trigger(t) PROVE pc[h] = "taken"
    BY <2>3 DEF Trigger, IndInv, TypeOK, SilentSlot, Threads
  <2>4. ASSUME NEW g \in Threads, Begin(g) \/ Finish(g) PROVE pc[h] = "taken"
    BY <2>4 DEF Begin, Finish, IndInv, TypeOK
  <2>5. CASE Shutdown
    BY <2>5, CancelledPc DEF Shutdown, IndInv
  <2>6. CASE Tick
    BY <2>6 DEF Tick
  <2>. QED
    BY <2>1, <2>2, <2>3, <2>4, <2>5, <2>6 DEF Next
<1>. QED
  BY <1>1, Invariance, PTL DEF Spec, ShutdownSilences
=============================================================================
