---------------------------- MODULE AppLifecycle ----------------------------
(***************************************************************************)
(* main.py, nginx_proxy/NginxProxyApp.py and the threads they start and    *)
(* stop: from the first line of main to the end of the process.            *)
(*                                                                         *)
(* The main thread is a stack.  At its bottom is run_forever; SIGTERM and  *)
(* SIGHUP put a handler on top of whatever it does, even of another        *)
(* handler.  A handler that ends with sys.exit, or raises, unwinds the     *)
(* whole stack to the try statements of run_forever and of the listener.   *)
(* Beside it run the dispatcher, the listener threads of two clients, the  *)
(* timer threads of the Throttler and the certificate renewal thread.      *)
(*                                                                         *)
(* What commands do is in ContainerEvents and ServiceEvents; here they     *)
(* only take time, may never return, and may ask for a reload.             *)
(***************************************************************************)
EXTENDS Naturals, Sequences, SequencesExt

CONSTANTS
  Clients,      \* the Docker clients whose events may be read
  MaxSignals,   \* bound on the signals received
  MaxQueue      \* bound on what events and renewals add to the queue

ASSUME BoundsAssumption == MaxSignals \in Nat /\ MaxQueue \in Nat

VARIABLES
  inMain,     \* fixed: there is a single client and main reads its events itself
  open,       \* the clients whose event stream has not ended
  stack,      \* the frames of the main thread, run_forever first; <<>> at the end
  bound,      \* which of the attributes named in Attributes are not None
  disp,       \* what the dispatcher thread does
  queue,      \* _command_queue
  threads,    \* which of the threads named in Threads there are
  nginx,      \* the nginx master: "down", "up", or "stopped" by cleanup
  signals,    \* how many signals there were
  seen        \* history: see Marks

vars == <<inMain, open, stack, bound, disp, queue, threads, nginx, signals, seen>>

\* "timer": a Timer of the Throttler waits; "task": one runs _do_reload;
\* "renewal": the certificate renewal thread.
Attributes == {"app", "server", "listener", "dispatcher", "reloader"}
Threads == {"timer", "task", "renewal"}

\* "term": SIGTERM came; "hup": a reload was requested and no rescan has begun
\* since; "served": the server was set; "late": a join timed out; "mishap": a
\* signal met main inside a lock, or an error in a handler was swallowed or cut
\* the last stop short.
Marks == {"term", "hup", "served", "late", "mishap"}

\* A frame is at a place of the code; by tells who called it; locked, that it
\* was interrupted inside a lock.
Frame(place, by) == [at |-> place, by |-> by, locked |-> FALSE]
Top == Last(stack)
Base == stack[1]
At(place) == Top.at = place
Goto(place) == stack' = Append(Front(stack), Frame(place, Top.by))

\* A handler returns, and main goes on where it was.
Resume == stack' = Append(Front(Front(stack)), [Last(Front(stack)) EXCEPT !.locked = FALSE])

\* The places of which a part is inside the mutex of the queue, or the lock of
\* the Throttler.  Neither is reentrant.
QueuePlaces == {"put", "poison", "hupPut"}
ThrottlerPlaces == {"hupThrottle", "shutdown"}
Free(places) == \A i \in 1..Len(stack) : ~(stack[i].locked /\ stack[i].at \in places)

\* is_dispatcher_running, asked of a listener the app has.
Alive == disp \notin {"none", "dead"}
DispatcherRuns == {"listener", "dispatcher"} \subseteq bound /\ Alive

-----------------------------------------------------------------------------
\* main: the app is constructed ...
Construct ==
  /\ At("construct")
  /\ bound' = {"app"}
  /\ Goto("boot")
  /\ UNCHANGED <<disp, queue, threads, nginx, seen>>

\* ... WebServer.__init__ sets nginx up, or exits ...
Boot ==
  /\ At("boot")
  /\ \/ Goto("scan") /\ nginx' = "up"
     \/ Goto("end") /\ UNCHANGED nginx
  /\ UNCHANGED <<bound, disp, queue, threads, seen>>

\* ... scans, and starts the renewal thread ...
Scan ==
  /\ At("scan")
  /\ bound' = bound \cup {"server"} /\ seen' = seen \cup {"served"}
  /\ threads' = threads \cup {"renewal"}
  /\ Goto("listener")
  /\ UNCHANGED <<disp, queue, nginx>>

\* ... the listener is constructed, and runs the dispatcher.
MakeListener ==
  /\ At("listener")
  /\ bound' = bound \cup {"listener"}
  /\ Goto("start")
  /\ UNCHANGED <<disp, queue, threads, nginx, seen>>

StartDispatcher ==
  /\ At("start")
  /\ bound' = bound \cup {"dispatcher", "reloader"} /\ disp' = "idle"
  /\ Goto(IF inMain THEN "listen" ELSE "join")
  /\ UNCHANGED <<queue, threads, nginx, seen>>

\* _listen in main: an event is read, and put into the queue.
ReadEvent ==
  /\ At("listen") /\ open # {} /\ Len(queue) < MaxQueue
  /\ Goto("put")
  /\ UNCHANGED <<bound, disp, queue, threads, nginx, seen>>

PutEvent ==
  /\ At("put")
  /\ queue' = Append(queue, "event")
  /\ Goto("listen")
  /\ UNCHANGED <<bound, disp, threads, nginx, seen>>

\* All streams have ended: the finally of run().
Unlisten ==
  /\ At("listen") \/ At("join")
  /\ open = {}
  /\ stack' = <<Frame("cancel", "run")>>
  /\ UNCHANGED <<bound, disp, queue, threads, nginx, seen>>

-----------------------------------------------------------------------------
\* Seeded faults.

\* cleanup() leaves the dispatcher to the end of the process.
CheckForgets ==
  /\ At("check")
  /\ bound' = bound \ {"listener"}
  /\ Goto(IF "server" \in bound THEN "shutdown" ELSE "done")
  /\ UNCHANGED <<disp, queue, threads, nginx, seen>>

\* stop_dispatcher joins without a timeout.
JoinForever ==
  /\ At("await") /\ ~DispatcherRuns
  /\ Goto("forget")
  /\ UNCHANGED <<bound, disp, queue, threads, nginx, seen>>

\* cleanup() forgets the server before it has stopped it.
ShutdownForgetsServer ==
  /\ At("shutdown") /\ Free(ThrottlerPlaces)
  /\ threads' = threads \ {"timer"} /\ bound' = bound \ {"server"}
  /\ Goto("renewal")
  /\ UNCHANGED <<disp, queue, nginx, seen>>

\* reload() only knows the queue.
ReloadQueuesOnly ==
  /\ At("reload")
  /\ IF "server" \in bound
     THEN /\ seen' = seen \cup {"hup"}
          /\ IF DispatcherRuns THEN Goto("hupPut") ELSE Resume
     ELSE UNCHANGED seen /\ Resume
  /\ UNCHANGED <<bound, disp, queue, threads, nginx>>

-----------------------------------------------------------------------------
\* What cleanup() does once the listener is forgotten.
StopServer ==
  /\ bound' = (bound \ {"listener"}) \ (IF At("forget") THEN {"dispatcher", "reloader"} ELSE {})
  /\ Goto(IF "server" \in bound THEN "shutdown" ELSE "done")

\* stop(), which is cleanup(): the dispatcher is stopped first, if it runs.
Check ==
  /\ At("check")
  /\ IF DispatcherRuns THEN Goto("cancel") /\ UNCHANGED bound ELSE StopServer
  /\ UNCHANGED <<disp, queue, threads, nginx, seen>>

\* stop_dispatcher: _cancel_all_timers ...
CancelTimers ==
  /\ At("cancel")
  /\ Goto("poison")
  /\ UNCHANGED <<bound, disp, queue, threads, nginx, seen>>

\* ... put(_STOP) ...
Poison ==
  /\ At("poison") /\ Free(QueuePlaces)
  /\ queue' = Append(queue, "stop")
  /\ Goto("await")
  /\ UNCHANGED <<bound, disp, threads, nginx, seen>>

\* ... join(timeout=5), which may leave the thread alive ...
Join ==
  /\ At("await")
  /\ seen' = IF "dispatcher" \in bound /\ Alive THEN seen \cup {"late"} ELSE seen
  /\ Goto("forget")
  /\ UNCHANGED <<bound, disp, queue, threads, nginx>>

\* ... and it is forgotten.  run() is left for the finally of run_forever.
Forget ==
  /\ At("forget")
  /\ IF Top.by = "run"
     THEN stack' = <<Frame("check", "main")>> /\ bound' = bound \ {"dispatcher", "reloader"}
     ELSE StopServer
  /\ UNCHANGED <<disp, queue, threads, nginx, seen>>

\* WebServer.cleanup: Throttler.shutdown ...
Shutdown ==
  /\ At("shutdown") /\ Free(ThrottlerPlaces)
  /\ threads' = threads \ {"timer"}
  /\ Goto("renewal")
  /\ UNCHANGED <<bound, disp, queue, nginx, seen>>

\* ... the renewal thread is told to stop ...
StopRenewal ==
  /\ At("renewal")
  /\ threads' = threads \ {"renewal"}
  /\ Goto("nginx")
  /\ UNCHANGED <<bound, disp, queue, nginx, seen>>

\* ... nginx.stop.
StopNginx ==
  /\ At("nginx")
  /\ nginx' = "stopped" /\ bound' = bound \ {"server"}
  /\ Goto("done")
  /\ UNCHANGED <<disp, queue, threads, seen>>

\* The end of run_forever ...
Finish ==
  /\ At("done") /\ Top.by = "main"
  /\ Goto("end")
  /\ UNCHANGED <<bound, disp, queue, threads, nginx, seen>>

\* ... where the interpreter waits for the threads that are no daemons: timers.
Exit ==
  /\ At("end") /\ {"timer", "task"} \cap threads = {}
  /\ stack' = <<>>
  /\ UNCHANGED <<bound, disp, queue, threads, nginx, seen>>

-----------------------------------------------------------------------------
\* An exception leaves start(), or the last stop(), at once; from run() it
\* takes the finally clauses.
Unwound ==
  CASE Base.at \in {"construct", "boot", "scan", "listener"} -> Frame("end", "main")
    [] Base.at \in {"listen", "put", "join"} -> Frame("cancel", "run")
    [] Base.at = "start" \/ Base.by = "run" -> Frame("check", "main")
    [] OTHER -> Frame("end", "main")

InLastStop == Base.by = "main" /\ Unwound.at = "end"

\* sys.exit ends the handler of SIGTERM.
SysExit ==
  /\ At("done") /\ Top.by = "term"
  /\ bound' = bound \ {"app"}
  /\ stack' = <<Unwound>>
  /\ UNCHANGED <<disp, queue, threads, nginx, seen>>

\* _cancel_all_timers iterates over a dict while the dispatcher changes it:
\* RuntimeError, which _listen swallows if it was handling an event.
CancelRaises ==
  /\ At("cancel") /\ disp = "event"
  /\ stack' = << IF Base.at = "put" THEN Frame("listen", "main") ELSE Unwound >>
  /\ seen' = IF Base.at = "put" \/ InLastStop THEN seen \cup {"mishap"} ELSE seen
  /\ UNCHANGED <<bound, disp, queue, threads, nginx>>

\* reload(): through the queue if the dispatcher runs, else in this thread.
Reload ==
  /\ At("reload")
  /\ IF "server" \in bound
     THEN /\ seen' = seen \cup {"hup"}
          /\ Goto(IF DispatcherRuns THEN "hupPut" ELSE "hupRescan")
     ELSE UNCHANGED seen /\ Resume
  /\ UNCHANGED <<bound, disp, queue, threads, nginx>>

PutRescan ==
  /\ At("hupPut") /\ Free(QueuePlaces)
  /\ queue' = Append(queue, "rescan")
  /\ Resume
  /\ UNCHANGED <<bound, disp, threads, nginx, seen>>

RescanHere ==
  /\ At("hupRescan")
  /\ seen' = seen \ {"hup"}
  /\ Goto("hupThrottle")
  /\ UNCHANGED <<bound, disp, queue, threads, nginx>>

\* throttle(immediate=True): a timer that waits is cancelled.
ThrottleHere ==
  /\ At("hupThrottle") /\ Free(ThrottlerPlaces)
  /\ threads' = threads \ {"timer"}
  /\ Resume
  /\ UNCHANGED <<bound, disp, queue, nginx, seen>>

MainStep ==
  /\ stack # <<>>
  /\ \/ Construct \/ Boot \/ Scan \/ MakeListener \/ StartDispatcher
     \/ ReadEvent \/ PutEvent \/ Unlisten
     \/ Check \/ CancelTimers \/ Poison \/ Join \/ Forget
     \/ Shutdown \/ StopRenewal \/ StopNginx \/ Finish \/ Exit
     \/ SysExit \/ CancelRaises \/ Reload \/ PutRescan \/ RescanHere \/ ThrottleHere
  /\ UNCHANGED <<inMain, open, signals>>

-----------------------------------------------------------------------------
\* A signal interrupts main wherever it is, perhaps inside a lock.
Interrupt(handler) ==
  /\ ~At("end") /\ signals < MaxSignals
  /\ signals' = signals + 1
  /\ \E inside \in IF Top.at \in QueuePlaces \cup ThrottlerPlaces THEN BOOLEAN ELSE {FALSE} :
       /\ inside => Free(IF Top.at \in QueuePlaces THEN QueuePlaces ELSE ThrottlerPlaces)
       /\ stack' = Front(stack) \o <<[Top EXCEPT !.locked = inside], handler>>
       /\ seen' = seen \cup (IF inside THEN {"mishap"} ELSE {})
                       \cup (IF handler.by = "term" THEN {"term"} ELSE {})

\* receiveSignal: without an app, SIGTERM only exits and SIGHUP does nothing.
Sigterm == Interrupt(Frame(IF "app" \in bound THEN "check" ELSE "done", "term"))
Sighup == "app" \in bound /\ Interrupt(Frame("reload", "hup"))

Signal == (Sigterm \/ Sighup) /\ UNCHANGED <<inMain, open, bound, disp, queue, threads, nginx>>

\* A stream ends or raises.
StreamEnds(client) ==
  /\ disp # "none" /\ client \in open
  /\ open' = open \ {client}
  /\ UNCHANGED <<inMain, stack, bound, disp, queue, threads, nginx, signals, seen>>

\* _listen in a thread of its own.
ListenerPuts ==
  /\ ~inMain /\ disp # "none" /\ open # {}
  /\ Free(QueuePlaces) /\ Len(queue) < MaxQueue
  /\ queue' = Append(queue, "event")
  /\ UNCHANGED <<inMain, open, stack, bound, disp, threads, nginx, signals, seen>>

\* _dispatch_loop takes the next command ...
Take ==
  /\ disp = "idle" /\ queue # <<>> /\ Free(QueuePlaces)
  /\ disp' = IF Head(queue) = "stop" THEN "dead" ELSE Head(queue)
  /\ queue' = Tail(queue)
  /\ seen' = IF Head(queue) = "rescan" THEN seen \ {"hup"} ELSE seen
  /\ UNCHANGED <<threads>>

\* ... which comes to its end; an event may run or postpone a reload, the
\* others reload past the Throttler.
Handled ==
  /\ disp \in {"event", "rescan", "reload"}
  /\ disp' = "idle"
  /\ threads' \in {threads} \cup IF disp = "event" /\ Free(ThrottlerPlaces)
                                 THEN {threads \cup {"timer"}, threads \ {"timer"}} ELSE {}
  /\ UNCHANGED <<queue, seen>>

Dispatch == (Take \/ Handled) /\ UNCHANGED <<inMain, open, stack, bound, nginx, signals>>

\* A request to Docker never returns.
Hang ==
  /\ disp \in {"event", "rescan", "reload"}
  /\ disp' = "stuck"
  /\ UNCHANGED <<inMain, open, stack, bound, queue, threads, nginx, signals, seen>>

\* A timer of the Throttler: its wait ends, its task ends.
TimerStep ==
  /\ \/ "timer" \in threads /\ Free(ThrottlerPlaces)
        /\ threads' = (threads \ {"timer"}) \cup {"task"}
     \/ "task" \in threads /\ threads' = threads \ {"task"}
  /\ UNCHANGED <<inMain, open, stack, bound, disp, queue, nginx, signals, seen>>

\* ssl_renewal_callback: enqueue_reload, which reloads in this very thread as
\* long as there is no dispatcher to give it to.
Renewed ==
  /\ "renewal" \in threads
  /\ \/ /\ "reloader" \in bound /\ Free(QueuePlaces) /\ Len(queue) < MaxQueue
        /\ queue' = Append(queue, "reload")
        /\ UNCHANGED threads
     \/ /\ "reloader" \notin bound /\ Free(ThrottlerPlaces)
        /\ threads' = threads \ {"timer"}
        /\ UNCHANGED queue
  /\ UNCHANGED <<inMain, open, stack, bound, disp, nginx, signals, seen>>

-----------------------------------------------------------------------------
Init ==
  /\ open \in SUBSET Clients \ {{}}
  /\ inMain \in BOOLEAN /\ (inMain => \E client \in Clients : open = {client})
  /\ stack = <<Frame("construct", "main")>>
  /\ bound = {} /\ threads = {} /\ queue = <<>>
  /\ disp = "none" /\ nginx = "down"
  /\ signals = 0 /\ seen = {}

Next ==
  \/ MainStep
  \/ stack # <<>> /\ Signal
  \/ stack # <<>> /\ \E client \in Clients : StreamEnds(client)
  \/ stack # <<>> /\ (ListenerPuts \/ Dispatch \/ Hang \/ TimerStep \/ Renewed)

\* Main and the dispatcher go on where they can, and timers are timers; but a
\* command may hang, and no signal and no end of a stream has to come.
Fairness ==
  /\ WF_vars(MainStep)
  /\ WF_vars(stack # <<>> /\ Dispatch)
  /\ WF_vars(stack # <<>> /\ TimerStep)

Spec == Init /\ [][Next]_vars
FairSpec == Spec /\ Fairness

-----------------------------------------------------------------------------
Exited == stack = <<>>
Mishap == "mishap" \in seen

\* SIGTERM, and the end of all event streams, end the process, even under a
\* dispatcher that hangs, a timer that fires and further signals: unless a
\* signal met main inside a lock that the handler wants, or the handler's error
\* was lost (main.py:12, NginxProxyApp.py:256, DockerEventListener.py:109).
EndsWhenAsked == "term" \in seen \/ open = {} ~> Exited \/ Mishap

\* A SIGHUP after the start is followed by a rescan that begins after it,
\* whichever thread has to do it, unless the dispatcher hangs or the process
\* ends (NginxProxyApp.py:237).
ReloadHappens == "hup" \in seen ~> "hup" \notin seen \/ disp = "stuck" \/ Exited \/ Mishap

\* Once there is a server, the process does not end without stopping nginx,
\* however signals interrupt one another's cleanup.
ExitStopsNginx == Exited /\ "served" \in seen => nginx = "stopped" \/ Mishap

\* When nginx has been stopped, nothing is left that would ask for a reload: no
\* renewal thread, and, if the dispatcher was in time, no dispatcher and no waiting
\* timer.  (A reload that a timer or the renewal thread is in the middle of may
\* still go on.)
StoppedIsSilent ==
  nginx = "stopped" =>
    /\ "renewal" \notin threads
    /\ "late" \in seen \/ Mishap \/ (~Alive /\ "timer" \notin threads)
=============================================================================
