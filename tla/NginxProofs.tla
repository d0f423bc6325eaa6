----------------------------- MODULE NginxProofs -----------------------------
(***************************************************************************)
(* What Nginx promises, for any texts.                                     *)
(*                                                                         *)
(* All of it needs a single caller: the code has no lock, and WebServer    *)
(* shows what two do to each other.  With one, the stage of its call says  *)
(* where the candidate is and where the text is that must come back        *)
(* (CallInv), what nginx was told to serve (ServedInv) and what is known   *)
(* of the config (Judged): the managed file, last_working_config and nginx *)
(* agree between calls, and the calls are those of ConfigSlot.             *)
(***************************************************************************)
EXTENDS Nginx, TLAPS

Stages == {"none", "compare", "read", "candidate", "test", "restore", "write", "reload",
           "commit", "rollback", "start", "returned"}
Calls == [at : Stages, cfg : Configs, prev : Configs, update : BOOLEAN,
          force : BOOLEAN, validate : BOOLEAN, ok : BOOLEAN]

TypeOK ==
  /\ file \in Configs /\ lastWorking \in Configs
  /\ running \in Valid \cup {Down}
  /\ signalled \in Valid \cup {Down} /\ missed \in BOOLEAN
  /\ op \in [Threads -> Calls]

\* No signal outlives its master, and without a delay none is ever under way.
Signals ==
  /\ running = Down => signalled = Down
  /\ ~MasterDelay => signalled = Down /\ ~missed

AnyCallers == TypeOK /\ Signals

OneCaller == \A g, h \in Threads : g = h

\* Where the file, and what is to be put back, are in each stage of the call.
CallInv(h) ==
  LET o == op[h] IN
  IF running = Down
  THEN o.at \in {"none", "start"} /\ (o.at = "start" => file = Default /\ o.cfg = Default)
  ELSE /\ o.at # "start"
       /\ o.at \in {"none", "compare", "read", "candidate", "write", "returned"} => file = lastWorking
       /\ o.at \in {"candidate", "test", "restore"} => o.prev = lastWorking
       /\ o.at \in {"reload", "commit"} => file = o.cfg
       /\ o.at \in {"compare", "rollback"} => ~o.ok
       /\ o.at = "returned" /\ o.update /\ o.ok => lastWorking = o.cfg

\* What nginx runs, or was told to: the new text from the reload on, which the
\* record follows by the commit.
Meant(h) == IF op[h].at = "commit" THEN op[h].cfg ELSE lastWorking
ServedInv(h) ==
  running # Down =>
    /\ signalled = Down /\ ~missed => running = Meant(h)
    /\ signalled # Down => signalled = Meant(h)

Inv == AnyCallers /\ \A h \in Threads : CallInv(h) /\ ServedInv(h)
-----------------------------------------------------------------------------
LEMMA InitInv == Init => Inv
<1> SUFFICES ASSUME Init PROVE Inv
  OBVIOUS
<1>1. NoOp \in Calls
  BY ConfigsAssumption DEF NoOp, Calls, Stages
<1>2. AnyCallers
  BY <1>1, ConfigsAssumption DEF Init, AnyCallers, TypeOK, Signals
<1>3. \A h \in Threads : op[h] = NoOp
  BY DEF Init
<1>4. \A h \in Threads : CallInv(h) /\ ServedInv(h)
  BY <1>3, ConfigsAssumption DEF Init, CallInv, ServedInv, Meant, NoOp
<1> QED
  BY <1>2, <1>4 DEF Inv

\* The operation of a thread that is changed stays an operation.
LEMMA OpTypes ==
  ASSUME TypeOK, NEW h \in Threads,
         \/ \E at \in Stages : Goto(h, at)
         \/ \E o \in Calls : op' = [op EXCEPT ![h] = o]
         \/ \E at \in Stages, ok \in BOOLEAN : op' = [op EXCEPT ![h].at = at, ![h].ok = ok]
         \/ \E at \in Stages, prev \in Configs : op' = [op EXCEPT ![h].at = at, ![h].prev = prev]
         \/ \E at \in Stages, prev \in Configs : op' = [op EXCEPT ![h].prev = prev, ![h].at = at]
  PROVE  op' \in [Threads -> Calls]
<1>1. op[h] \in Calls
  BY DEF TypeOK
<1>2. PICK o \in Calls : op' = [op EXCEPT ![h] = o]
  <2>1. ASSUME NEW at \in Stages, Goto(h, at) PROVE \E o \in Calls : op' = [op EXCEPT ![h] = o]
    <3>1. op' = [op EXCEPT ![h] = [op[h] EXCEPT !.at = at]] /\ [op[h] EXCEPT !.at = at] \in Calls
      BY <1>1, <2>1 DEF Goto, Calls
    <3> QED
      BY <3>1
  <2>2. ASSUME NEW at \in Stages, NEW ok \in BOOLEAN, op' = [op EXCEPT ![h].at = at, ![h].ok = ok]
        PROVE  \E o \in Calls : op' = [op EXCEPT ![h] = o]
    <3>1. /\ op' = [op EXCEPT ![h] = [op[h] EXCEPT !.at = at, !.ok = ok]]
          /\ [op[h] EXCEPT !.at = at, !.ok = ok] \in Calls
      BY <1>1, <2>2 DEF Calls, TypeOK
    <3> QED
      BY <3>1
  <2>3. ASSUME NEW at \in Stages, NEW prev \in Configs,
               \/ op' = [op EXCEPT ![h].at = at, ![h].prev = prev]
               \/ op' = [op EXCEPT ![h].prev = prev, ![h].at = at]
        PROVE  \E o \in Calls : op' = [op EXCEPT ![h] = o]
    <3>1. /\ op' = [op EXCEPT ![h] = [op[h] EXCEPT !.at = at, !.prev = prev]]
          /\ [op[h] EXCEPT !.at = at, !.prev = prev] \in Calls
      BY <1>1, <2>3 DEF Calls, TypeOK
    <3> QED
      BY <3>1
  <2> QED
    BY <2>1, <2>2, <2>3
<1> QED
  BY <1>2 DEF TypeOK

LEMMA Kept ==
  ASSUME AnyCallers, op' \in [Threads -> Calls], UNCHANGED <<file, lastWorking, running, signalled, missed>>
  PROVE  AnyCallers'
<1> QED
  BY DEF AnyCallers, TypeOK, Signals

\* A step of any caller keeps the types.
LEMMA CallTypes ==
  ASSUME AnyCallers, NEW h \in Threads,
         \/ \E c \in Configs : CallValidate(h, c)
         \/ \E c \in Configs, force, validate \in BOOLEAN : CallUpdate(h, c, force, validate)
         \/ Return(h) \/ Compare(h) \/ ReadPrevious(h) \/ TestCandidate(h)
  PROVE  AnyCallers'
<1> USE DEF AnyCallers
<1>1. NoOp \in Calls
  BY ConfigsAssumption DEF NoOp, Calls, Stages
<1>2. op' \in [Threads -> Calls]
  <2>1. CASE \E c \in Configs : CallValidate(h, c)
    <3>1. PICK c \in Configs : op' = [op EXCEPT ![h] = [NoOp EXCEPT !.at = "read", !.cfg = c]]
      BY <2>1 DEF CallValidate
    <3>2. [NoOp EXCEPT !.at = "read", !.cfg = c] \in Calls
      BY <1>1 DEF Calls, Stages
    <3> QED
      BY <3>1, <3>2, OpTypes
  <2>2. CASE \E c \in Configs, force, validate \in BOOLEAN : CallUpdate(h, c, force, validate)
    <3>1. PICK c \in Configs, force \in BOOLEAN, validate \in BOOLEAN :
            op' = [op EXCEPT ![h] = [NoOp EXCEPT !.at = "compare", !.cfg = c, !.update = TRUE,
                                                 !.force = force, !.validate = validate]]
      BY <2>2 DEF CallUpdate
    <3>2. [NoOp EXCEPT !.at = "compare", !.cfg = c, !.update = TRUE,
                       !.force = force, !.validate = validate] \in Calls
      BY <1>1 DEF Calls, Stages
    <3> QED
      BY <3>1, <3>2, OpTypes
  <2>3. CASE Return(h)
    BY <1>1, <2>3, OpTypes DEF Return
  <2>4. CASE Compare(h)
    <3>1. \E at \in Stages : Goto(h, at)
      BY <2>4 DEF Compare, Stages
    <3> QED
      BY <3>1, OpTypes
  <2>5. CASE ReadPrevious(h)
    <3>1. \E at \in Stages, prev \in Configs : op' = [op EXCEPT ![h].at = at, ![h].prev = prev]
      BY <2>5 DEF ReadPrevious, Stages, TypeOK
    <3> QED
      BY <3>1, OpTypes
  <2>6. CASE TestCandidate(h)
    <3>1. \E at \in Stages, ok \in BOOLEAN : op' = [op EXCEPT ![h].at = at, ![h].ok = ok]
      <4>1. (file \in Valid) \in BOOLEAN /\ "restore" \in Stages
        BY DEF Stages
      <4> QED
        BY <2>6, <4>1 DEF TestCandidate
    <3> QED
      BY <3>1, OpTypes
  <2> QED
    BY <2>1, <2>2, <2>3, <2>4, <2>5, <2>6
<1>3. UNCHANGED <<file, lastWorking, running, signalled, missed>>
  BY DEF CallValidate, CallUpdate, Return, Compare, ReadPrevious, TestCandidate
<1> QED
  BY <1>2, <1>3, Kept

LEMMA WriteTypes ==
  ASSUME AnyCallers, NEW h \in Threads,
         WriteCandidate(h) \/ RestorePrevious(h) \/ WriteConfig(h) \/ Reload(h) \/ Commit(h) \/ Rollback(h)
  PROVE  AnyCallers'
<1> USE DEF AnyCallers
<1>1. op[h].cfg \in Configs /\ op[h].prev \in Configs /\ Empty \in Configs
  BY ConfigsAssumption DEF TypeOK, Calls
<1>2. op' \in [Threads -> Calls]
  <2>1. CASE RestorePrevious(h)
    <3>1. \E at \in Stages, prev \in Configs : op' = [op EXCEPT ![h].prev = prev, ![h].at = at]
      <4>1. (IF op[h].update /\ op[h].ok THEN "write" ELSE "returned") \in Stages
        BY DEF Stages
      <4> QED
        BY <1>1, <2>1, <4>1 DEF RestorePrevious
    <3> QED
      BY <3>1, OpTypes
  <2>2. CASE Reload(h)
    <3>1. \E at \in Stages, ok \in BOOLEAN : op' = [op EXCEPT ![h].at = at, ![h].ok = ok]
      <4>1. (IF running # Down /\ file \in Valid THEN "commit" ELSE "rollback") \in Stages
        BY DEF Stages
      <4>2. (running # Down /\ file \in Valid) \in BOOLEAN
        OBVIOUS
      <4> QED
        BY <2>2, <4>1, <4>2 DEF Reload
    <3> QED
      BY <3>1, OpTypes
  <2>3. CASE ~RestorePrevious(h) /\ ~Reload(h)
    <3>1. \E at \in Stages : Goto(h, at)
      BY <2>3 DEF WriteCandidate, WriteConfig, Commit, Rollback, Stages
    <3> QED
      BY <3>1, OpTypes
  <2> QED
    BY <2>1, <2>2, <2>3
<1>3. file' \in Configs /\ lastWorking' \in Configs /\ missed' \in BOOLEAN
  BY <1>1 DEF TypeOK, WriteCandidate, RestorePrevious, WriteConfig, Reload, Commit, Rollback
<1>4. running' \in Valid \cup {Down} /\ signalled' \in Valid \cup {Down}
  BY DEF TypeOK, WriteCandidate, RestorePrevious, WriteConfig, Reload, Commit, Rollback
<1>5. Signals'
  BY MasterDelayAssumption, ConfigsAssumption
     DEF TypeOK, Signals, WriteCandidate, RestorePrevious, WriteConfig, Reload, Commit, Rollback
<1> QED
  BY <1>2, <1>3, <1>4, <1>5 DEF TypeOK

\* The boot, the master and a kill.
LEMMA BootTypes ==
  ASSUME AnyCallers, (\E h \in Threads : Setup(h) \/ ForceStart(h)) \/ MasterReload \/ Crash
  PROVE  AnyCallers'
<1> USE DEF AnyCallers
<1>1. NoOp \in Calls
  BY ConfigsAssumption DEF NoOp, Calls, Stages
<1>2. ASSUME NEW h \in Threads, Setup(h) PROVE AnyCallers'
  <2>1. op' \in [Threads -> Calls]
    <3>1. CASE UNCHANGED op
      BY <3>1 DEF TypeOK
    <3>2. CASE op' = [op EXCEPT ![h] = [NoOp EXCEPT !.at = "start", !.cfg = Default, !.force = TRUE]]
      <4>1. [NoOp EXCEPT !.at = "start", !.cfg = Default, !.force = TRUE] \in Calls
        BY <1>1, ConfigsAssumption DEF Calls, Stages
      <4> QED
        BY <3>2, <4>1, OpTypes
    <3> QED
      BY <1>2, <3>1, <3>2 DEF Setup
  <2>2. /\ file' \in Configs /\ lastWorking' \in Configs /\ running' \in Valid \cup {Down}
        /\ UNCHANGED <<signalled, missed>>
    BY <1>2, ConfigsAssumption DEF Setup, TypeOK
  <2> QED
    BY <1>2, <2>1, <2>2 DEF TypeOK, Signals, Setup
<1>3. ASSUME NEW h \in Threads, ForceStart(h) PROVE AnyCallers'
  <2>1. op' \in [Threads -> Calls]
    <3>1. \A b \in BOOLEAN : [NoOp EXCEPT !.at = "returned", !.force = TRUE, !.ok = b] \in Calls
      BY <1>1 DEF Calls, Stages
    <3>2. (file \in Valid) \in BOOLEAN
      OBVIOUS
    <3>3. \E o \in Calls : op' = [op EXCEPT ![h] = o]
      BY <1>3, <3>1, <3>2 DEF ForceStart
    <3> QED
      BY <3>3, OpTypes
  <2>2. op[h].cfg \in Configs
    BY DEF TypeOK, Calls
  <2>3. /\ file' \in Configs /\ lastWorking' \in Configs /\ running' \in Valid \cup {Down}
        /\ UNCHANGED <<signalled, missed>> /\ (running' = Down => running = Down)
    BY <1>3, <2>2, ConfigsAssumption DEF ForceStart, TypeOK
  <2> QED
    BY <2>1, <2>3 DEF TypeOK, Signals
<1>4. ASSUME MasterReload PROVE AnyCallers'
  BY <1>4 DEF MasterReload, TypeOK, Signals
<1>5. ASSUME Crash PROVE AnyCallers'
  <2>1. op' \in [Threads -> Calls]
    BY <1>1, <1>5 DEF Crash
  <2> QED
    BY <1>5, <2>1 DEF Crash, TypeOK, Signals
<1> QED
  BY <1>2, <1>3, <1>4, <1>5

LEMMA AnyCallersStep == ASSUME AnyCallers, [Next]_nginxVars PROVE AnyCallers'
<1>1. CASE UNCHANGED nginxVars
  BY <1>1, Kept DEF nginxVars, AnyCallers, TypeOK
<1> QED
  BY <1>1, CallTypes, WriteTypes, BootTypes DEF Next, Step
-----------------------------------------------------------------------------
\* The stages of the one caller's call.
LEMMA CallStep ==
  ASSUME Inv, NEW h \in Threads, running # Down,
         \/ \E c \in Configs : CallValidate(h, c)
         \/ \E c \in Configs, force, validate \in BOOLEAN : CallUpdate(h, c, force, validate)
         \/ Return(h)
  PROVE  CallInv(h)' /\ ServedInv(h)'
<1>1. op \in [Threads -> Calls] /\ CallInv(h) /\ ServedInv(h)
  BY DEF Inv, AnyCallers, TypeOK
<1>2. UNCHANGED <<file, lastWorking, running, signalled, missed>>
  BY DEF CallValidate, CallUpdate, Return
<1>3. op[h].at \in {"none", "returned"}
  BY DEF CallValidate, CallUpdate, Return, Idle, Returned
<1>4. op'[h].at \in {"none", "read", "compare"} /\ ~op'[h].ok
  <2>1. ASSUME NEW c \in Configs, CallValidate(h, c) PROVE op'[h].at \in {"none", "read", "compare"} /\ ~op'[h].ok
    BY <1>1, <2>1 DEF CallValidate, NoOp
  <2>2. ASSUME NEW c \in Configs, NEW force \in BOOLEAN, NEW validate \in BOOLEAN,
               CallUpdate(h, c, force, validate)
        PROVE  op'[h].at \in {"none", "read", "compare"} /\ ~op'[h].ok
    BY <1>1, <2>2 DEF CallUpdate, NoOp
  <2>3. CASE Return(h)
    BY <1>1, <2>3 DEF Return, NoOp
  <2> QED
    BY <2>1, <2>2, <2>3
<1> QED
  BY <1>1, <1>2, <1>3, <1>4 DEF CallInv, ServedInv, Meant

\* validate_config, and update_config up to its write.
LEMMA ValidateStep ==
  ASSUME Inv, NEW h \in Threads,
         Compare(h) \/ ReadPrevious(h) \/ WriteCandidate(h) \/ TestCandidate(h) \/ RestorePrevious(h)
  PROVE  CallInv(h)' /\ ServedInv(h)'
<1>1. op \in [Threads -> Calls] /\ CallInv(h) /\ ServedInv(h)
  BY DEF Inv, AnyCallers, TypeOK
<1>2. UNCHANGED <<lastWorking, running, signalled, missed>>
  BY DEF Compare, ReadPrevious, WriteCandidate, TestCandidate, RestorePrevious
<1>3. op[h].at \notin {"commit", "none", "start"} /\ op'[h].at # "commit"
  <2> USE <1>1 DEF Goto
  <2>1. CASE Compare(h)
    BY <2>1 DEF Compare
  <2>2. CASE ReadPrevious(h)
    BY <2>2 DEF ReadPrevious, Calls
  <2>3. CASE WriteCandidate(h)
    BY <2>3 DEF WriteCandidate
  <2>4. CASE TestCandidate(h)
    BY <2>4 DEF TestCandidate, Calls
  <2>5. CASE RestorePrevious(h)
    BY <2>5 DEF RestorePrevious, Calls
  <2> QED
    BY <2>1, <2>2, <2>3, <2>4, <2>5
<1>4. running # Down
  BY <1>1, <1>3 DEF CallInv
<1>5. ServedInv(h)'
  BY <1>1, <1>2, <1>3 DEF ServedInv, Meant
<1>6. CallInv(h)'
  <2>1. CASE Compare(h)
    BY <1>1, <1>2, <1>4, <2>1 DEF Compare, Goto, CallInv
  <2>2. CASE ReadPrevious(h)
    BY <1>1, <1>2, <1>4, <2>2 DEF ReadPrevious, CallInv, Calls
  <2>3. CASE WriteCandidate(h)
    BY <1>1, <1>2, <1>4, <2>3 DEF WriteCandidate, Goto, CallInv
  <2>4. CASE TestCandidate(h)
    BY <1>1, <1>2, <1>4, <2>4 DEF TestCandidate, CallInv, Calls
  <2>5. CASE RestorePrevious(h)
    BY <1>1, <1>2, <1>4, <2>5 DEF RestorePrevious, CallInv, Calls
  <2> QED
    BY <2>1, <2>2, <2>3, <2>4, <2>5
<1> QED
  BY <1>5, <1>6

\* The rest of update_config.
LEMMA UpdateStep ==
  ASSUME Inv, NEW h \in Threads, WriteConfig(h) \/ Reload(h) \/ Commit(h) \/ Rollback(h)
  PROVE  CallInv(h)' /\ ServedInv(h)'
<1>1. op \in [Threads -> Calls] /\ CallInv(h) /\ ServedInv(h) /\ op[h] \in Calls
  BY DEF Inv, AnyCallers, TypeOK
<1>2. op[h].at \in {"write", "reload", "commit", "rollback"} /\ running # Down
  BY <1>1 DEF WriteConfig, Reload, Commit, Rollback, CallInv
<1>3. CASE WriteConfig(h)
  BY <1>1, <1>2, <1>3 DEF WriteConfig, Goto, CallInv, ServedInv, Meant
<1>4. CASE Reload(h)
  <2>1. CASE file \in Valid
    <3>1. op'[h].at = "commit" /\ op'[h].cfg = op[h].cfg
      BY <1>1, <1>2, <1>4, <2>1 DEF Reload, Calls
    <3>2. UNCHANGED <<file, lastWorking, missed>> /\ file # Down
      BY <1>4, <2>1, ConfigsAssumption DEF Reload
    <3>3. file = op[h].cfg
      BY <1>1, <1>2, <1>4 DEF Reload, CallInv
    <3>4. CASE MasterDelay
      <4>1. signalled' = file /\ running' = running
        BY <1>2, <1>4, <2>1, <3>4 DEF Reload
      <4> QED
        BY <1>2, <3>1, <3>2, <3>3, <4>1 DEF CallInv, ServedInv, Meant
    <3>5. CASE ~MasterDelay
      <4>1. signalled' = Down /\ running' = file
        BY <1>2, <1>4, <2>1, <3>5 DEF Reload, Inv, AnyCallers, Signals
      <4> QED
        BY <3>1, <3>2, <3>3, <4>1 DEF CallInv, ServedInv, Meant
    <3> QED
      BY <3>4, <3>5
  <2>2. CASE file \notin Valid
    <3>1. op'[h].at = "rollback" /\ ~op'[h].ok
      BY <1>1, <1>4, <2>2 DEF Reload, Calls
    <3>2. UNCHANGED <<file, lastWorking, missed, running, signalled>>
      BY <1>4, <2>2 DEF Reload
    <3>3. op[h].at = "reload"
      BY <1>4 DEF Reload
    <3> QED
      BY <1>1, <1>2, <3>1, <3>2, <3>3 DEF CallInv, ServedInv, Meant
  <2> QED
    BY <2>1, <2>2
<1>5. CASE Commit(h)
  BY <1>1, <1>2, <1>5 DEF Commit, Goto, CallInv, ServedInv, Meant, Calls
<1>6. CASE Rollback(h)
  BY <1>1, <1>2, <1>6 DEF Rollback, Goto, CallInv, ServedInv, Meant, Calls
<1> QED
  BY <1>3, <1>4, <1>5, <1>6

\* The boot, the master and a kill.
LEMMA BootStep ==
  ASSUME Inv, NEW h \in Threads, Setup(h) \/ ForceStart(h) \/ MasterReload \/ Crash
  PROVE  CallInv(h)' /\ ServedInv(h)'
<1>1. op \in [Threads -> Calls] /\ CallInv(h) /\ ServedInv(h) /\ op[h] \in Calls
  BY DEF Inv, AnyCallers, TypeOK
<1>2. CASE Setup(h)
  <2>1. op[h].at = "none"
    BY <1>2 DEF Setup, Idle
  <2>2. CASE file \in Valid \ Short
    BY <1>1, <1>2, <2>1, <2>2, ConfigsAssumption DEF Setup, CallInv, ServedInv, Meant, Inv, AnyCallers, Signals
  <2>3. CASE file \notin Valid \ Short
    <3>1. op'[h].at = "start" /\ op'[h].cfg = Default /\ file' = Default /\ running' = Down
      BY <1>1, <1>2, <2>3 DEF Setup, NoOp
    <3> QED
      BY <3>1 DEF CallInv, ServedInv
  <2> QED
    BY <2>2, <2>3
<1>3. CASE ForceStart(h)
  <2>1. running = Down /\ file = Default /\ op[h].cfg = Default
    BY <1>1, <1>3 DEF ForceStart, CallInv
  <2>2. /\ running' = Default /\ lastWorking' = Default /\ file' = Default
        /\ UNCHANGED <<signalled, missed>>
    BY <1>3, <2>1, ConfigsAssumption DEF ForceStart
  <2>3. op'[h].at = "returned" /\ ~op'[h].update
    BY <1>1, <1>3 DEF ForceStart, NoOp
  <2>4. signalled = Down
    BY <2>1 DEF Inv, AnyCallers, Signals
  <2> QED
    BY <2>2, <2>3, <2>4, ConfigsAssumption DEF CallInv, ServedInv, Meant
<1>4. CASE MasterReload
  <2>1. signalled \in Valid /\ running # Down
    BY <1>4 DEF MasterReload, Inv, AnyCallers, TypeOK, Signals
  <2>2. signalled = Meant(h)
    BY <1>1, <1>4, <2>1 DEF MasterReload, ServedInv
  <2>3. /\ UNCHANGED <<file, lastWorking, op>> /\ signalled' = Down
        /\ ~missed' => running' = signalled
    BY <1>4, <2>1 DEF MasterReload
  <2>4. running' # Down
    BY <1>4, <2>1, ConfigsAssumption DEF MasterReload
  <2> QED
    BY <1>1, <2>1, <2>2, <2>3, <2>4 DEF CallInv, ServedInv, Meant
<1>5. CASE Crash
  <2>1. op'[h].at = "none" /\ running' = Down
    BY <1>5 DEF Crash, NoOp
  <2> QED
    BY <2>1 DEF CallInv, ServedInv
<1> QED
  BY <1>2, <1>3, <1>4, <1>5

LEMMA InvStep == ASSUME OneCaller, Inv, [Next]_nginxVars PROVE Inv'
<1>1. AnyCallers'
  BY AnyCallersStep DEF Inv
<1>2. ASSUME NEW h \in Threads PROVE CallInv(h)' /\ ServedInv(h)'
  <2>1. CASE UNCHANGED nginxVars
    BY <2>1 DEF nginxVars, Inv, CallInv, ServedInv, Meant
  <2>2. CASE Next
    <3>1. \A g \in Threads : g = h
      BY DEF OneCaller
    <3>2. CASE MasterReload \/ Crash \/ Setup(h) \/ ForceStart(h)
      BY <3>2, BootStep
    <3>3. CASE Step(h)
      BY <3>3, ValidateStep, UpdateStep DEF Step
    <3>4. CASE /\ running # Down
               /\ \/ \E c \in Configs : CallValidate(h, c)
                  \/ \E c \in Configs, force, validate \in BOOLEAN : CallUpdate(h, c, force, validate)
      BY <3>4, CallStep
    <3>5. CASE Return(h)
      <4>1. running # Down
        BY <3>5 DEF Return, Returned, Inv, CallInv
      <4> QED
        BY <3>5, <4>1, CallStep
    <3>6. PICK g \in Threads :
            \/ running # Down /\ \E c \in Configs : CallValidate(g, c)
            \/ running # Down /\ \E c \in Configs, force, validate \in BOOLEAN :
                 CallUpdate(g, c, force, validate)
            \/ Step(g) \/ Return(g) \/ Setup(g) \/ ForceStart(g)
            \/ MasterReload \/ Crash
      BY <2>2 DEF Next
    <3>7. g = h
      BY <3>1
    <3> QED
      BY <3>2, <3>3, <3>4, <3>5, <3>6, <3>7
  <2> QED
    BY <2>1, <2>2
<1> QED
  BY <1>1, <1>2 DEF Inv

LEMMA OneCallerInv == ASSUME OneCaller PROVE Spec => []Inv
<1>1. Inv /\ [Next]_nginxVars => Inv'
  BY InvStep
<1> QED
  BY <1>1, InitInv, PTL DEF Spec

\* Between the calls of a single caller the managed file holds the last working
\* config, whatever was validated, refused or rolled back.
THEOREM FileIsRestored == ASSUME OneCaller, Threads # {} PROVE Spec => []FileAtRest
<1>1. Inv => FileAtRest
  BY DEF Inv, FileAtRest, AtRest, CallInv
<1> QED
  BY <1>1, OneCallerInv, PTL

\* And nginx runs the last working config, if the master read in time.
THEOREM RecordIsServed == ASSUME OneCaller, Threads # {} PROVE Spec => []RunningAtRest
<1>1. Inv => RunningAtRest
  BY DEF Inv, RunningAtRest, AtRest, Followed, ServedInv, Meant
<1> QED
  BY <1>1, OneCallerInv, PTL

\* update_config answers TRUE to its single caller only when the new config is
\* the one on record and, if the master read in time, the one nginx runs.
THEOREM AnswerIsTrue == ASSUME OneCaller PROVE Spec => []TruthfulAnswer
<1>1. Inv => TruthfulAnswer
  BY DEF Inv, TruthfulAnswer, Returned, Followed, CallInv, ServedInv, Meant
<1> QED
  BY <1>1, OneCallerInv, PTL

-----------------------------------------------------------------------------
\* What a stage tells of the config of its call: the test is of the file, which
\* holds it, and only a refused config is rolled back.
Judged(h) ==
  LET o == op[h] IN
  /\ o.at \notin {"none", "start", "returned"} /\ o.force => o.update
  /\ o.at \in {"compare", "write", "reload", "commit", "rollback"} => o.update
  /\ o.at = "start" => o.force /\ ~o.update
  /\ o.at = "test" => file = o.cfg
  /\ o.at = "restore" => (o.ok <=> o.cfg \in Valid)
  /\ o.at = "commit" => o.ok
  /\ o.at = "rollback" => o.cfg \notin Valid

SlotInv == Inv /\ \A h \in Threads : Judged(h)

LEMMA JudgedStep ==
  ASSUME SlotInv, [Next]_nginxVars, OneCaller, NEW h \in Threads
  PROVE  Judged(h)'
<1>1. op \in [Threads -> Calls] /\ op[h] \in Calls /\ CallInv(h) /\ Judged(h)
  BY DEF SlotInv, Inv, AnyCallers, TypeOK
<1>2. CASE UNCHANGED nginxVars \/ MasterReload
  BY <1>1, <1>2 DEF nginxVars, MasterReload, Judged
<1>3. CASE Crash
  BY <1>3 DEF Crash, NoOp, Judged
<1>4. CASE \E c \in Configs : CallValidate(h, c)
  BY <1>1, <1>4 DEF CallValidate, NoOp, Judged
<1>5. CASE \E c \in Configs, force, validate \in BOOLEAN : CallUpdate(h, c, force, validate)
  BY <1>1, <1>5 DEF CallUpdate, NoOp, Judged
<1>6. CASE Return(h)
  BY <1>1, <1>6 DEF Return, NoOp, Judged
<1>7. CASE Step(h)
  <2>1. CASE Compare(h)
    BY <1>1, <2>1 DEF Compare, Goto, Judged, Calls
  <2>2. CASE ReadPrevious(h)
    BY <1>1, <2>2 DEF ReadPrevious, Judged, Calls
  <2>3. CASE WriteCandidate(h)
    BY <1>1, <2>3 DEF WriteCandidate, Goto, Judged, Calls
  <2>4. CASE TestCandidate(h)
    BY <1>1, <2>4 DEF TestCandidate, Judged, Calls
  <2>5. CASE RestorePrevious(h)
    BY <1>1, <2>5 DEF RestorePrevious, Judged, Calls
  <2>6. CASE WriteConfig(h)
    BY <1>1, <2>6 DEF WriteConfig, Goto, Judged, Calls
  <2>7. CASE Reload(h)
    <3>1. running # Down /\ file = op[h].cfg
      BY <1>1, <2>7 DEF Reload, CallInv
    <3> QED
      BY <1>1, <2>7, <3>1 DEF Reload, Judged, Calls
  <2>8. CASE Commit(h) \/ Rollback(h)
    BY <1>1, <2>8 DEF Commit, Rollback, Goto, Judged, Calls
  <2> QED
    BY <1>7, <2>1, <2>2, <2>3, <2>4, <2>5, <2>6, <2>7, <2>8 DEF Step
<1>8. CASE Setup(h)
  <2>1. op[h].at = "none"
    BY <1>8 DEF Setup, Idle
  <2>2. CASE UNCHANGED op
    BY <2>1, <2>2 DEF Judged
  <2>3. CASE op' = [op EXCEPT ![h] = [NoOp EXCEPT !.at = "start", !.cfg = Default, !.force = TRUE]]
    BY <1>1, <2>3 DEF NoOp, Judged
  <2> QED
    BY <1>8, <2>2, <2>3 DEF Setup
<1>9. CASE ForceStart(h)
  BY <1>1, <1>9 DEF ForceStart, NoOp, Judged
<1>10. \A g \in Threads : g = h
  BY DEF OneCaller
<1> QED
  BY <1>2, <1>3, <1>4, <1>5, <1>6, <1>7, <1>8, <1>9, <1>10 DEF Next

LEMMA SlotInvariant == ASSUME OneCaller PROVE Spec => []SlotInv
<1>1. Init => SlotInv
  BY InitInv DEF SlotInv, Init, Judged, NoOp
<1>2. SlotInv /\ [Next]_nginxVars => SlotInv'
  BY InvStep, JudgedStep DEF SlotInv
<1> QED
  BY <1>1, <1>2, PTL DEF Spec

\* ConfigSlot's variables, for the one caller.
Misled == missed /\ signalled = Down
SlotOf(h) == <<Told, Misled, CallOf(op[h])>>

LEMMA CallerIs == ASSUME OneCaller, NEW h \in Threads PROVE Caller = h
<1> QED
  BY DEF OneCaller, Caller

\* The next state of a call of ConfigSlot.
LEMMA NextState ==
  ASSUME NEW cfg, NEW update, NEW force, NEW old, NEW new
  PROVE  LET c == [cfg |-> cfg, update |-> update, force |-> force, state |-> old] IN
         [c EXCEPT !.state = new] = [cfg |-> cfg, update |-> update, force |-> force, state |-> new]
<1> QED
  OBVIOUS

\* While no call has a candidate in the file, the master reads what it was told to.
LEMMA MasterSlot ==
  ASSUME SlotInv, MasterReload, NEW h \in Threads, Caller = h
  PROVE  Slot!Misread \/ UNCHANGED SlotOf(h)
<1>1. /\ signalled \in Valid /\ running \in Valid /\ running # Down
      /\ CallInv(h) /\ ServedInv(h) /\ Judged(h)
      /\ op[h] \in Calls
  BY DEF SlotInv, Inv, AnyCallers, TypeOK, Signals, MasterReload
<1>2. signalled # Down /\ UNCHANGED op
  BY DEF MasterReload
<1>3. Told = signalled /\ Told' = running' /\ ~Misled /\ (Misled' <=> file # signalled)
  BY <1>2 DEF MasterReload, Told, Misled
<1>4. CallOf(op[h])' = CallOf(op[h])
  BY <1>2 DEF CallOf
<1>5. CASE file = signalled
  <2>1. Told' = Told /\ ~Misled'
    BY <1>1, <1>3, <1>5 DEF MasterReload
  <2>2. Misled' = Misled
    BY <1>3, <2>1 DEF Misled
  <2> QED
    BY <1>4, <2>1, <2>2 DEF SlotOf
<1>6. CASE file # signalled
  <2>1. op[h].at \in {"test", "restore", "reload", "rollback"}
    BY <1>1, <1>2, <1>6 DEF CallInv, ServedInv, Meant, Calls, Stages
  <2>2. CallOf(op[h]).state = "asked"
    BY <1>1, <2>1 DEF CallOf, Judged
  <2>3. running' \in Valid
    BY <1>1 DEF MasterReload
  <2> QED
    BY <1>1, <1>2, <1>3, <1>4, <1>6, <2>2, <2>3, ConfigsAssumption DEF Slot!Misread, Misled
<1> QED
  BY <1>5, <1>6

LEMMA AskSlot ==
  ASSUME SlotInv, NEW h \in Threads, Caller = h, running # Down,
         \/ \E c \in Configs : CallValidate(h, c)
         \/ \E c \in Configs, force, validate \in BOOLEAN : CallUpdate(h, c, force, validate)
  PROVE  Slot!Ask
<1>1. Told # Down /\ UNCHANGED <<Told, Misled>>
  BY ConfigsAssumption DEF Told, Misled, CallValidate, CallUpdate, SlotInv, Inv, AnyCallers, TypeOK
<1>2. CallOf(op[h]) = Slot!NoCall
  BY DEF CallValidate, CallUpdate, Idle, CallOf, Slot!NoCall
<1>3. op \in [Threads -> Calls]
  BY DEF SlotInv, Inv, AnyCallers, TypeOK
<1>4. PICK c \in Configs, update \in BOOLEAN, force \in BOOLEAN :
        /\ force => update
        /\ CallOf(op'[h]) = [cfg |-> c, update |-> update, force |-> force, state |-> "asked"]
  <2>1. ASSUME NEW c \in Configs, CallValidate(h, c)
        PROVE  CallOf(op'[h]) = [cfg |-> c, update |-> FALSE, force |-> FALSE, state |-> "asked"]
    BY <1>3, <2>1 DEF CallValidate, NoOp, CallOf
  <2>2. ASSUME NEW c \in Configs, NEW force \in BOOLEAN, NEW validate \in BOOLEAN,
               CallUpdate(h, c, force, validate)
        PROVE  CallOf(op'[h]) = [cfg |-> c, update |-> TRUE, force |-> force, state |-> "asked"]
    BY <1>3, <2>2 DEF CallUpdate, NoOp, CallOf
  <2>3. CASE \E c \in Configs : CallValidate(h, c)
    BY <2>1, <2>3
  <2>4. CASE \E c \in Configs, force, validate \in BOOLEAN : CallUpdate(h, c, force, validate)
    BY <2>2, <2>4
  <2> QED
    BY <2>3, <2>4
<1> QED
  BY <1>1, <1>2, <1>4 DEF Slot!Ask, Misled

\* A call that goes on without an answer is not seen.
LEMMA QuietSlot ==
  ASSUME SlotInv, NEW h \in Threads,
         \/ Compare(h) /\ op'[h].at # "returned"
         \/ ReadPrevious(h) \/ WriteCandidate(h) \/ TestCandidate(h) \/ WriteConfig(h)
         \/ RestorePrevious(h) /\ op'[h].at # "returned"
         \/ Reload(h) /\ op'[h].at # "commit"
  PROVE  UNCHANGED SlotOf(h)
<1>1. op \in [Threads -> Calls] /\ op[h] \in Calls
  BY DEF SlotInv, Inv, AnyCallers, TypeOK
<1>2. /\ UNCHANGED <<running, signalled, missed>>
      /\ op[h].at \notin {"none", "commit", "returned", "start"}
      /\ op'[h].at \notin {"none", "commit", "returned", "start"}
      /\ op'[h].cfg = op[h].cfg /\ op'[h].update = op[h].update /\ op'[h].force = op[h].force
  <2>1. CASE Compare(h) /\ op'[h].at # "returned"
    BY <1>1, <2>1 DEF Compare, Goto, Calls
  <2>2. CASE ReadPrevious(h)
    BY <1>1, <2>2 DEF ReadPrevious, Calls
  <2>3. CASE WriteCandidate(h) \/ WriteConfig(h)
    BY <1>1, <2>3 DEF WriteCandidate, WriteConfig, Goto, Calls
  <2>4. CASE TestCandidate(h)
    BY <1>1, <2>4 DEF TestCandidate, Calls
  <2>5. CASE RestorePrevious(h) /\ op'[h].at # "returned"
    BY <1>1, <2>5 DEF RestorePrevious, Calls
  <2>6. CASE Reload(h) /\ op'[h].at # "commit"
    BY <1>1, <2>6 DEF Reload, Calls
  <2> QED
    BY <2>1, <2>2, <2>3, <2>4, <2>5, <2>6
<1>3. CallOf(op'[h]) = CallOf(op[h])
  BY <1>2 DEF CallOf
<1> QED
  BY <1>2, <1>3 DEF SlotOf, Told, Misled

\* The reload is where the new config is used.
LEMMA ReplaceSlot ==
  ASSUME SlotInv, NEW h \in Threads, Caller = h, Reload(h), op'[h].at = "commit"
  PROVE  Slot!Replace
<1>1. /\ op \in [Threads -> Calls] /\ op[h] \in Calls
      /\ CallInv(h) /\ Judged(h) /\ Signals /\ MasterDelay \in BOOLEAN
  BY MasterDelayAssumption DEF SlotInv, Inv, AnyCallers, TypeOK
<1>2. /\ op[h].at = "reload" /\ running # Down /\ file \in Valid
      /\ op'[h].cfg = op[h].cfg /\ op'[h].update = op[h].update /\ op'[h].force = op[h].force
  BY <1>1 DEF Reload, Calls
<1>3. file = op[h].cfg /\ file # Down
  BY <1>1, <1>2, ConfigsAssumption DEF CallInv
<1>4. Told' = op[h].cfg /\ ~Misled'
  BY <1>1, <1>2, <1>3 DEF Reload, Told, Misled, Signals
<1>5. CallOf(op[h]) = [cfg |-> op[h].cfg, update |-> op[h].update,
                       force |-> op[h].force, state |-> "asked"]
  BY <1>1, <1>2 DEF CallOf, Judged
<1>6. CallOf(op'[h]) = [cfg |-> op[h].cfg, update |-> op[h].update,
                        force |-> op[h].force, state |-> "used"]
  BY <1>1, <1>2 DEF CallOf, Judged
<1>7. /\ CallOf(op[h]).state = "asked" /\ CallOf(op[h]).update /\ CallOf(op[h]).cfg = op[h].cfg
      /\ CallOf(op'[h]) = [CallOf(op[h]) EXCEPT !.state = "used"]
  <2>1. CallOf(op[h]).state = "asked" /\ CallOf(op[h]).cfg = op[h].cfg
    BY <1>5
  <2>2. op[h].update /\ CallOf(op[h]).update = op[h].update
    BY <1>1, <1>2, <1>5 DEF Judged
  <2>3. CallOf(op'[h]) = [CallOf(op[h]) EXCEPT !.state = "used"]
    BY <1>5, <1>6, NextState
  <2> QED
    BY <2>1, <2>2, <2>3
<1> QED
  BY <1>2, <1>3, <1>4, <1>7 DEF Slot!Replace, Misled

\* The answers: the record that Compare asks is what nginx was told to serve.
LEMMA AnswerSlot ==
  ASSUME SlotInv, NEW h \in Threads, Caller = h, op'[h].at = "returned",
         Compare(h) \/ RestorePrevious(h) \/ Commit(h) \/ Rollback(h)
  PROVE  Slot!Confirm \/ Slot!Refuse \/ Slot!Judge
<1>1. /\ op \in [Threads -> Calls] /\ op[h] \in Calls
      /\ CallInv(h) /\ ServedInv(h) /\ Judged(h)
  BY DEF SlotInv, Inv, AnyCallers, TypeOK
<1>2. UNCHANGED <<running, signalled, missed>>
  BY DEF Compare, RestorePrevious, Commit, Rollback
<1>3. UNCHANGED <<Told, Misled>>
  BY <1>2 DEF Told, Misled
<1>4. /\ op[h].at \in {"compare", "restore", "commit", "rollback"}
      /\ op' = [op EXCEPT ![h] = op'[h]]
      /\ op'[h].cfg = op[h].cfg /\ op'[h].update = op[h].update /\ op'[h].force = op[h].force
      /\ op'[h].ok = op[h].ok
  <2>1. CASE Compare(h) \/ Commit(h) \/ Rollback(h)
    BY <1>1, <2>1 DEF Compare, Commit, Rollback, Goto, Calls
  <2>2. CASE RestorePrevious(h)
    BY <1>1, <2>2 DEF RestorePrevious, Calls
  <2> QED
    BY <2>1, <2>2
<1> DEFINE o == op[h]
<1>5. o.force => o.update
  BY <1>1, <1>4 DEF Judged
<1>6. CallOf(op[h]) = [cfg |-> o.cfg, update |-> o.update, force |-> o.force,
                       state |-> IF o.at = "commit" THEN "used" ELSE "asked"]
  BY <1>4, <1>5 DEF CallOf
<1>7. CallOf(op'[h]) = [cfg |-> o.cfg, update |-> o.update, force |-> o.force,
                        state |-> IF o.ok THEN "true" ELSE "false"]
  BY <1>4, <1>5 DEF CallOf
<1>8. ASSUME o.at # "commit", o.update, ~o.ok,
             o.cfg \in Valid => ~o.force /\ (Misled \/ Told = o.cfg)
      PROVE  Slot!Refuse
  <2>1. /\ CallOf(op[h]).state = "asked" /\ CallOf(op[h]).update = o.update
        /\ CallOf(op[h]).cfg = o.cfg /\ CallOf(op[h]).force = o.force
    BY <1>6, <1>8
  <2>2. CallOf(op'[h]) = [CallOf(op[h]) EXCEPT !.state = "false"]
    <3>1. /\ CallOf(op[h]) = [cfg |-> o.cfg, update |-> o.update, force |-> o.force,
                             state |-> "asked"]
          /\ CallOf(op'[h]) = [cfg |-> o.cfg, update |-> o.update, force |-> o.force,
                              state |-> "false"]
      BY <1>6, <1>7, <1>8
    <3> QED
      BY <3>1, NextState
  <2> QED
    BY <1>3, <1>8, <2>1, <2>2 DEF Slot!Refuse, Misled
<1>9. running # Down
  BY <1>1, <1>4 DEF CallInv
<1>10. CASE Commit(h)
  <2>1. o.at = "commit" /\ o.ok
    BY <1>1, <1>10 DEF Commit, Judged
  <2>2. Slot!Confirm
    BY <1>3, <1>6, <1>7, <2>1 DEF Slot!Confirm, Misled
  <2> QED
    BY <2>2
<1>11. CASE Compare(h)
  <2>1. o.at = "compare" /\ o.update /\ ~o.ok
    BY <1>1, <1>9, <1>11 DEF Compare, Judged, CallInv
  <2>2. o.cfg = lastWorking /\ ~o.force
    BY <1>1, <1>11 DEF Compare, Goto, Calls
  <2>3. Misled \/ Told = o.cfg
    BY <1>1, <1>9, <2>1, <2>2 DEF ServedInv, Meant, Misled, Told
  <2>4. Slot!Refuse
    BY <1>8, <2>1, <2>2, <2>3
  <2> QED
    BY <2>4
<1>12. CASE Rollback(h)
  <2>1. o.at = "rollback" /\ o.update /\ ~o.ok /\ o.cfg \notin Valid
    BY <1>1, <1>9, <1>12 DEF Rollback, Judged, CallInv
  <2>2. Slot!Refuse
    BY <1>8, <2>1
  <2> QED
    BY <2>2
<1>13. CASE RestorePrevious(h)
  <2>1. o.at = "restore" /\ (o.ok <=> o.cfg \in Valid) /\ ~(o.update /\ o.ok)
    BY <1>1, <1>13 DEF RestorePrevious, Judged, Calls
  <2>2. CASE o.update
    <3>1. Slot!Refuse
      BY <1>8, <2>1, <2>2
    <3> QED
      BY <3>1
  <2>3. CASE ~o.update
    <3>1. Slot!Judge
      BY <1>3, <1>6, <1>7, <2>1, <2>3 DEF Slot!Judge, Misled
    <3> QED
      BY <3>1
  <2> QED
    BY <2>2, <2>3
<1> QED
  BY <1>10, <1>11, <1>12, <1>13

\* The end of a call, of the boot's own too; a kill, and the boot.
LEMMA EndSlot ==
  ASSUME SlotInv, NEW h \in Threads, Caller = h, Return(h) \/ Crash \/ Setup(h) \/ ForceStart(h)
  PROVE  Slot!Return \/ Slot!Kill \/ Slot!Boot \/ UNCHANGED SlotOf(h)
<1>1. /\ op \in [Threads -> Calls] /\ op[h] \in Calls
      /\ CallInv(h) /\ Judged(h) /\ Signals
  BY DEF SlotInv, Inv, AnyCallers, TypeOK
<1>2. CallOf(NoOp) = Slot!NoCall
  BY DEF CallOf, NoOp, Slot!NoCall
<1>3. CASE Return(h)
  <2>1. UNCHANGED <<Told, Misled>> /\ CallOf(op'[h]) = Slot!NoCall
    BY <1>1, <1>2, <1>3 DEF Return, Told, Misled
  <2>2. CASE CallOf(op[h]) = Slot!NoCall
    BY <2>1, <2>2 DEF SlotOf
  <2>3. CASE CallOf(op[h]) # Slot!NoCall
    <3>1. CallOf(op[h]).state \in {"true", "false"}
      BY <1>3, <2>3 DEF Return, Returned, CallOf, Slot!NoCall
    <3> QED
      BY <2>1, <3>1 DEF Slot!Return, Misled
  <2> QED
    BY <2>2, <2>3
<1>4. CASE Crash
  <2>1. Told' = Down /\ ~Misled' /\ CallOf(op'[h]) = Slot!NoCall
    BY <1>2, <1>4 DEF Crash, Told, Misled
  <2> QED
    BY <2>1 DEF Slot!Kill, Misled
<1>5. CASE Setup(h)
  <2>1. running = Down /\ signalled = Down /\ Told = Down /\ op[h].at = "none"
    BY <1>1, <1>5 DEF Setup, Idle, Signals, Told
  <2>2. UNCHANGED Misled
    BY <1>5 DEF Setup, Misled
  <2>3. CASE file \in Valid \ Short
    <3>1. Told' = file /\ CallOf(op'[h]) = CallOf(op[h])
      BY <1>5, <2>1, <2>3 DEF Setup, Told
    <3> QED
      BY <2>1, <2>2, <2>3, <3>1 DEF Slot!Boot, Misled
  <2>4. CASE file \notin Valid \ Short
    <3>1. op'[h] = [NoOp EXCEPT !.at = "start", !.cfg = Default, !.force = TRUE] /\ Told' = Told
      BY <1>1, <1>5, <2>1, <2>4 DEF Setup, Told
    <3>2. CallOf(op'[h]) = CallOf(op[h])
      BY <2>1, <3>1 DEF NoOp, CallOf
    <3> QED
      BY <2>2, <3>1, <3>2 DEF SlotOf
  <2> QED
    BY <2>3, <2>4
<1>6. CASE ForceStart(h)
  <2>1. op[h].at = "start"
    BY <1>6 DEF ForceStart
  <2>2. running = Down /\ file = Default /\ op[h].force /\ ~op[h].update
    BY <1>1, <2>1 DEF CallInv, Judged
  <2>3. Told = Down /\ Told' = Default /\ UNCHANGED Misled
    BY <1>1, <1>6, <2>2, ConfigsAssumption DEF ForceStart, Signals, Told, Misled
  <2>4. op'[h] = [NoOp EXCEPT !.at = "returned", !.force = TRUE, !.ok = file \in Valid]
    BY <1>1, <1>6 DEF ForceStart
  <2>5. CallOf(op'[h]) = CallOf(op[h])
    BY <2>2, <2>4 DEF NoOp, CallOf
  <2> QED
    BY <2>3, <2>5, ConfigsAssumption DEF Slot!Boot, Misled
<1> QED
  BY <1>3, <1>4, <1>5, <1>6

\* To its single caller Nginx is a ConfigSlot: a config is used whole and at once, by
\* a call that answers TRUE to it; FALSE is only answered to a config nginx refuses
\* or, unless the caller insisted, to the one it serves; a validation tells whether
\* nginx accepts the text and never shows; and all this goes on after a kill at any
\* step.  The one exception is a master that reads late, during a later call.
THEOREM SlotImplemented == ASSUME OneCaller, Threads # {} PROVE Spec => Slot!Spec
<1>1. PICK h \in Threads : Caller = h /\ \A g \in Threads : g = h
  BY CallerIs DEF OneCaller
<1>2. Init => Slot!Init
  <2> SUFFICES ASSUME Init PROVE Slot!Init
    OBVIOUS
  <2>1. op[h] = NoOp
    BY DEF Init
  <2> QED
    BY <1>1, <2>1, ConfigsAssumption DEF Init, Told, CallOf, NoOp, Slot!Init, Slot!NoCall
<1>3. SlotInv /\ [Next]_nginxVars => [Slot!Next]_(Slot!slotVars)
  <2> SUFFICES ASSUME SlotInv, [Next]_nginxVars PROVE Slot!Next \/ UNCHANGED SlotOf(h)
    BY <1>1 DEF SlotOf, Slot!slotVars, Misled
  <2>1. CASE UNCHANGED nginxVars
    BY <2>1 DEF nginxVars, SlotOf, Told, Misled
  <2>2. CASE MasterReload
    BY <1>1, <2>2, MasterSlot DEF Slot!Next
  <2>3. CASE Return(h) \/ Crash \/ Setup(h) \/ ForceStart(h)
    BY <1>1, <2>3, EndSlot DEF Slot!Next
  <2>4. CASE Step(h)
    <3>1. op'[h].at = "returned" \/ (Reload(h) /\ op'[h].at = "commit") \/ UNCHANGED SlotOf(h)
      <4>1. Commit(h) \/ Rollback(h) => op'[h].at = "returned"
        BY DEF Commit, Rollback, Goto, SlotInv, Inv, AnyCallers, TypeOK, Calls
      <4> QED
        BY <2>4, <4>1, QuietSlot DEF Step
    <3>2. op'[h].at = "returned" => Compare(h) \/ RestorePrevious(h) \/ Commit(h) \/ Rollback(h)
      BY <2>4 DEF Step, ReadPrevious, WriteCandidate, TestCandidate, WriteConfig, Reload, Goto,
         SlotInv, Inv, AnyCallers, TypeOK, Calls
    <3> QED
      BY <1>1, <3>1, <3>2, AnswerSlot, ReplaceSlot DEF Slot!Next
  <2>5. CASE /\ running # Down
             /\ \/ \E c \in Configs : CallValidate(h, c)
                \/ \E c \in Configs, force, validate \in BOOLEAN : CallUpdate(h, c, force, validate)
    BY <1>1, <2>5, AskSlot DEF Slot!Next
  <2> QED
    BY <1>1, <2>1, <2>2, <2>3, <2>4, <2>5 DEF Next
<1> QED
  BY <1>2, <1>3, SlotInvariant, PTL DEF Spec, Slot!Spec
=============================================================================
