-------------------------------- MODULE Nginx --------------------------------
(***************************************************************************)
(* nginx/Nginx.py: the managed config file, the copy of it the object      *)
(* believes nginx runs (last_working_config), and the nginx process.       *)
(*                                                                         *)
(* Nothing in Nginx.py takes a lock.  validate_config writes its candidate *)
(* into the very file nginx includes, asks "nginx -t", and writes the      *)
(* previous content back; update_config writes, asks "nginx -s reload" and *)
(* commits or rolls back.  Every file access and every subprocess is a     *)
(* step of its own here, so calls of several threads interleave.           *)
(*                                                                         *)
(* A config is its text; an absent file has the text Empty.  A write is    *)
(* atomic, and whether nginx accepts a text depends on the text alone.     *)
(***************************************************************************)
EXTENDS Naturals

CONSTANTS
  Threads,       \* the threads that call this object
  Configs,       \* the texts a config file can have
  Valid,         \* the texts nginx accepts
  Short,         \* the texts of fewer than 50 characters
  Default,       \* default_config_content
  Empty,         \* "" and the absent file
  Down,          \* running = Down: there is no nginx process
  MasterDelay    \* TRUE: the master re-reads the file some time after the signal

ASSUME ConfigsAssumption ==
  /\ Valid \subseteq Configs /\ Short \subseteq Configs
  /\ Default \in Valid /\ Empty \in Short
  /\ Down \notin Configs
ASSUME MasterDelayAssumption == MasterDelay \in BOOLEAN

VARIABLES
  file,         \* the content of config_file_path
  lastWorking,  \* last_working_config
  running,      \* the config the nginx workers serve, or Down
  signalled,    \* the text the master was told to reload and has not read yet, or Down
  missed,       \* history: what the master read last was not what it was told to
  op            \* op[h]: the call thread h is executing

nginxVars == <<file, lastWorking, running, signalled, missed, op>>

NoOp == [at |-> "none", cfg |-> Empty, prev |-> Empty,
         update |-> FALSE, force |-> FALSE, validate |-> FALSE, ok |-> FALSE]

Idle(h) == op[h].at = "none"
Returned(h) == op[h].at = "returned"

Goto(h, at) == op' = [op EXCEPT ![h].at = at]

Init ==
  /\ file = Default /\ lastWorking = Default /\ running = Default
  /\ signalled = Down /\ missed = FALSE
  /\ op = [h \in Threads |-> NoOp]

-----------------------------------------------------------------------------
\* Seeded faults, each for the property the run in PROJECT.json names.

\* A forced update with an unchanged text is skipped as well.
CompareIgnoresForce(h) ==
  /\ op[h].at = "compare"
  /\ Goto(h, IF op[h].cfg = lastWorking THEN "returned"
             ELSE IF op[h].validate THEN "read" ELSE "write")
  /\ UNCHANGED <<file, lastWorking, running, signalled, missed>>

\* The candidate stays in the managed file.
RestoreForgotten(h) ==
  /\ op[h].at = "restore"
  /\ Goto(h, IF op[h].update /\ op[h].ok THEN "write" ELSE "returned")
  /\ UNCHANGED <<file, lastWorking, running, signalled, missed>>

\* last_working_config is not brought up to date.
CommitForgotten(h) ==
  /\ op[h].at = "commit"
  /\ Goto(h, "returned")
  /\ UNCHANGED <<file, lastWorking, running, signalled, missed>>

\* setup() gives up on an invalid file.
SetupWithoutDefault(h) ==
  /\ running = Down /\ \A g \in Threads : Idle(g)
  /\ file \in Valid
  /\ lastWorking' = file /\ running' = file
  /\ UNCHANGED <<file, signalled, missed, op>>

\* force_start does not record what it started nginx with.
ForceStartForgets(h) ==
  /\ op[h].at = "start"
  /\ running' = file
  /\ op' = [op EXCEPT ![h] = [NoOp EXCEPT !.at = "returned", !.force = TRUE, !.ok = TRUE]]
  /\ UNCHANGED <<file, lastWorking, signalled, missed>>

-----------------------------------------------------------------------------
\* validate_config(cfg), called.
CallValidate(h, cfg) ==
  /\ Idle(h)
  /\ op' = [op EXCEPT ![h] = [NoOp EXCEPT !.at = "read", !.cfg = cfg]]
  /\ UNCHANGED <<file, lastWorking, running, signalled, missed>>

\* update_config(cfg, force, validate), called.
CallUpdate(h, cfg, force, validate) ==
  /\ Idle(h)
  /\ op' = [op EXCEPT ![h] = [NoOp EXCEPT !.at = "compare", !.cfg = cfg, !.update = TRUE,
                                          !.force = force, !.validate = validate]]
  /\ UNCHANGED <<file, lastWorking, running, signalled, missed>>

\* The call returns to its caller.
Return(h) ==
  /\ Returned(h)
  /\ op' = [op EXCEPT ![h] = NoOp]
  /\ UNCHANGED <<file, lastWorking, running, signalled, missed>>

\* update_config: skip an unchanged text, else validate it or go on to write it.
Compare(h) ==
  /\ op[h].at = "compare"
  /\ Goto(h, IF op[h].cfg = lastWorking /\ ~op[h].force THEN "returned"
             ELSE IF op[h].validate THEN "read" ELSE "write")
  /\ UNCHANGED <<file, lastWorking, running, signalled, missed>>

\* validate_config: previous_config = file.read()
ReadPrevious(h) ==
  /\ op[h].at = "read"
  /\ op' = [op EXCEPT ![h].at = "candidate", ![h].prev = file]
  /\ UNCHANGED <<file, lastWorking, running, signalled, missed>>

\* validate_config: write the candidate into the managed file.
WriteCandidate(h) ==
  /\ op[h].at = "candidate"
  /\ file' = op[h].cfg
  /\ Goto(h, "test")
  /\ UNCHANGED <<lastWorking, running, signalled, missed>>

\* validate_config: "nginx -t" judges whatever the file contains now.
TestCandidate(h) ==
  /\ op[h].at = "test"
  /\ op' = [op EXCEPT ![h].at = "restore", ![h].ok = file \in Valid]
  /\ UNCHANGED <<file, lastWorking, running, signalled, missed>>

\* validate_config, finally: write the previous content back (or remove the
\* file), then return to the caller or to the rest of update_config.
RestorePrevious(h) ==
  /\ op[h].at = "restore"
  /\ file' = op[h].prev
  /\ op' = [op EXCEPT ![h].prev = Empty,
                     ![h].at = IF op[h].update /\ op[h].ok THEN "write" ELSE "returned"]
  /\ UNCHANGED <<lastWorking, running, signalled, missed>>

\* update_config: write the new text.
WriteConfig(h) ==
  /\ op[h].at = "write"
  /\ file' = op[h].cfg
  /\ Goto(h, "reload")
  /\ UNCHANGED <<lastWorking, running, signalled, missed>>

\* reload(): "nginx -s reload" parses the file; if it is good and a master is
\* there, the master is told to apply it.
Reload(h) ==
  /\ op[h].at = "reload"
  /\ LET done == running # Down /\ file \in Valid IN
       /\ op' = [op EXCEPT ![h].at = IF done THEN "commit" ELSE "rollback", ![h].ok = done]
       /\ running' = IF done /\ ~MasterDelay THEN file ELSE running
       /\ signalled' = IF done /\ MasterDelay THEN file ELSE signalled
  /\ UNCHANGED <<file, lastWorking, missed>>

\* update_config, after a successful reload.
Commit(h) ==
  /\ op[h].at = "commit"
  /\ lastWorking' = op[h].cfg
  /\ Goto(h, "returned")
  /\ UNCHANGED <<file, running, signalled, missed>>

\* update_config, after a failed reload.
Rollback(h) ==
  /\ op[h].at = "rollback"
  /\ file' = lastWorking
  /\ Goto(h, "returned")
  /\ UNCHANGED <<lastWorking, running, signalled, missed>>

\* The nginx master handles the reload signal: it reads the file itself, and
\* keeps what it runs if the file is bad.
MasterReload ==
  /\ signalled # Down
  /\ signalled' = Down
  /\ missed' = (file # signalled)
  /\ running' = IF file \in Valid THEN file ELSE running
  /\ UNCHANGED <<file, lastWorking, op>>

-----------------------------------------------------------------------------
\* The process (or its container) dies: nginx and all threads go, the file stays.
Crash ==
  /\ running' = Down
  /\ signalled' = Down /\ missed' = FALSE
  /\ op' = [h \in Threads |-> NoOp]
  /\ UNCHANGED <<file, lastWorking>>

\* __init__ and setup(), in the only thread there is: adopt the file found, and
\* start nginx with it unless it is bad or short; then force_start the default
\* (force without update marks its call).
Setup(h) ==
  /\ running = Down /\ \A g \in Threads : Idle(g)
  /\ IF file \in Valid \ Short
     THEN /\ lastWorking' = file
          /\ running' = file
          /\ UNCHANGED <<file, op>>
     ELSE /\ lastWorking' = file
          /\ file' = Default              \* force_start, up to its write
          /\ op' = [op EXCEPT ![h] = [NoOp EXCEPT !.at = "start", !.cfg = Default, !.force = TRUE]]
          /\ UNCHANGED running
  /\ UNCHANGED <<signalled, missed>>

\* force_start: "nginx" starts with the file it finds, or the file is put back.
ForceStart(h) ==
  /\ op[h].at = "start"
  /\ IF file \in Valid
     THEN running' = file /\ lastWorking' = op[h].cfg /\ UNCHANGED file
     ELSE file' = lastWorking /\ UNCHANGED <<running, lastWorking>>
  /\ op' = [op EXCEPT ![h] = [NoOp EXCEPT !.at = "returned", !.force = TRUE, !.ok = file \in Valid]]
  /\ UNCHANGED <<signalled, missed>>

\* The steps of a call between CallValidate or CallUpdate and Return.
Step(h) ==
  \/ Compare(h) \/ ReadPrevious(h) \/ WriteCandidate(h) \/ TestCandidate(h)
  \/ RestorePrevious(h) \/ WriteConfig(h) \/ Reload(h) \/ Commit(h) \/ Rollback(h)

\* Callers that ask for anything at any time.
Next ==
  \/ \E h \in Threads :
       \/ running # Down /\ \E c \in Configs : CallValidate(h, c)
       \/ running # Down /\ \E c \in Configs, force, validate \in BOOLEAN :
            CallUpdate(h, c, force, validate)
       \/ Step(h) \/ Return(h)
       \/ Setup(h) \/ ForceStart(h)
  \/ MasterReload
  \/ Crash

\* A thread inside a call goes on, and so do the master and the boot sequence.
Fairness ==
  /\ WF_nginxVars(MasterReload)
  /\ \A h \in Threads :
       WF_nginxVars(Step(h)) /\ WF_nginxVars(Return(h)) /\ WF_nginxVars(Setup(h) \/ ForceStart(h))

Spec == Init /\ [][Next]_nginxVars
FairSpec == Spec /\ Fairness

-----------------------------------------------------------------------------
AtRest == running # Down /\ \A h \in Threads : op[h].at \in {"none", "returned"}

\* Between calls the managed file holds the last working config: every
\* validation restores it and every failed update puts it back
\* (Nginx.py:76-77 and 101-105, 266).
FileAtRest == AtRest => file = lastWorking

\* The master has followed its last signal in time: what it read is what the
\* file held when it was told to.
Followed == signalled = Down /\ ~missed

\* Between calls nginx serves the config the object believes it serves, whatever
\* was refused in between and wherever the process was killed before; only a
\* master that read too late (a candidate, say) makes a difference.
RunningAtRest == AtRest /\ Followed => running = lastWorking

\* What update_config promises its caller: TRUE only if the new config is the
\* one now served (Nginx.py:240), with the same exception.
TruthfulAnswer ==
  \A h \in Threads :
    Returned(h) /\ op[h].update /\ op[h].ok /\ Followed
      => lastWorking = op[h].cfg /\ running = op[h].cfg

\* What nginx serves, or has been told to serve.
Told == IF signalled = Down THEN running ELSE signalled

\* A call as its caller sees it; the boot's own force_start is none.
CallOf(o) ==
  IF o.at = "none" \/ (o.force /\ ~o.update)
  THEN [cfg |-> Down, update |-> FALSE, force |-> FALSE, state |-> "none"]
  ELSE [cfg |-> o.cfg, update |-> o.update, force |-> o.force,
        state |-> IF o.at = "commit" THEN "used"
                  ELSE IF o.at = "returned" THEN (IF o.ok THEN "true" ELSE "false")
                  ELSE "asked"]

Caller == CHOOSE h \in Threads : TRUE

\* The promise of the whole class to a single caller: its calls are atomic, true
\* answers included, a validation never shows, and a killed nginx comes back, from
\* whatever is in the file.  A master that reads late spoils it only as ConfigSlot
\* says: while a call is in progress, and until the next config is used.
Slot == INSTANCE ConfigSlot WITH
          served <- Told, misread <- missed /\ signalled = Down, call <- CallOf(op[Caller])
ImplementsSlot == Slot!FairSpec
=============================================================================
