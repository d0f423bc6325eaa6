------------------------- MODULE AppLifecycleProofs -------------------------
(***************************************************************************)
(* ExitStopsNginx and StoppedIsSilent of AppLifecycle, for any clients, any *)
(* number of signals and of queued commands.                                *)
(*                                                                          *)
(* The handlers of signals interrupt one another at every step, and each of *)
(* them stops what it finds.  So every frame of the stack, interrupted or   *)
(* not, has to keep what it relies on when it goes on: what must be gone at *)
(* the place where it is has been stopped by it or by another one, and      *)
(* nothing starts it again.  A frame of the start is never gone on with     *)
(* after a stop, because a handler that stops unwinds the stack.            *)
(***************************************************************************)
EXTENDS AppLifecycle, SequenceTheorems, TLAPS

Starting == {"construct", "boot", "scan", "listener", "start"}
Dismissing == {"cancel", "poison", "await", "forget"}
Stopping == {"check", "shutdown", "renewal", "nginx", "done"} \cup Dismissing
Reloading == {"reload", "hupPut", "hupRescan", "hupThrottle"}
MainPlaces == Starting \cup {"listen", "put", "join", "end"} \cup Stopping
Places == MainPlaces \cup Reloading
Frames == [at : Places, by : {"main", "run", "term", "hup"}, locked : BOOLEAN]

TypeOK ==
  /\ inMain \in BOOLEAN /\ open \subseteq Clients
  /\ bound \subseteq Attributes
  /\ disp \in {"none", "idle", "event", "rescan", "reload", "stuck", "dead"}
  /\ queue \in Seq({"event", "rescan", "reload", "stop"})
  /\ threads \subseteq Threads
  /\ nginx \in {"down", "up", "stopped"}
  /\ signals \in Nat
  /\ seen \subseteq Marks

\* Who may be where: main and run() at the bottom, the handlers above.
Fits(f) ==
  /\ f.by = "main" => f.at \in MainPlaces
  /\ f.by = "run" => f.at \in Dismissing
  /\ f.by = "term" => f.at \in Stopping
  /\ f.by = "hup" => f.at \in Reloading
Bottom(f) == f.by \in {"main", "run"} /\ Fits(f)
Handler(f) == f.by \in {"term", "hup"} /\ Fits(f)
StackOK ==
  /\ stack \in Seq(Frames)
  /\ stack # <<>> => Bottom(Base)
  /\ \A i \in 2..Len(stack) : Handler(stack[i])

\* What a frame at place relies on.
Late == "late" \in seen \/ Mishap
Promise(place) ==
  /\ place = "done" => "server" \notin bound
  /\ place \in {"forget", "shutdown", "renewal", "nginx"} => Late \/ ~Alive
  /\ place \in {"renewal", "nginx"} => Late \/ "timer" \notin threads
  /\ place = "nginx" => "renewal" \notin threads
Promised == \A i \in 1..Len(stack) : Promise(stack[i].at)

\* What holds while main is in start(): nothing has been stopped, unless by a
\* handler that will not return.
Undisturbed == \A i \in 2..Len(stack) : stack[i].by = "hup"
StartOK == stack # <<>> =>
  /\ Base.at \in {"construct", "boot", "scan"} => "server" \notin bound /\ "served" \notin seen
  /\ Base.at \in {"boot", "scan"} => "app" \in bound
  /\ Base.at \in Starting => disp = "none"
  /\ Base.at \in Starting /\ Undisturbed => nginx # "stopped"
  /\ Base.at = "start" /\ Undisturbed => "listener" \in bound

\* At its end main is not interrupted, and nginx has been stopped.
Left == "served" \in seen => nginx = "stopped" \/ Mishap
EndOK == stack # <<>> /\ Base.at = "end" => Len(stack) = 1 /\ Left

\* The server is forgotten only when nginx has been stopped, and before the app;
\* the dispatcher only when it does not run, or not in time.
ServerKnown ==
  /\ "served" \in seen /\ "server" \notin bound => nginx = "stopped"
  /\ "app" \notin bound => "server" \notin bound
DispatcherKnown == Alive => Late \/ {"listener", "dispatcher"} \subseteq bound

StopInv ==
  /\ StackOK /\ Promised /\ StartOK /\ EndOK
  /\ ServerKnown /\ DispatcherKnown /\ StoppedIsSilent /\ ExitStopsNginx

IInv == TypeOK /\ StopInv

-----------------------------------------------------------------------------
\* The three ways in which the stack changes.
LEMMA TopFrame ==
  ASSUME StackOK, stack # <<>>
  PROVE  /\ Len(stack) \in Nat \ {0} /\ Top = stack[Len(stack)] /\ Top \in Frames
         /\ Len(stack) = 1 => Bottom(Top)
         /\ Len(stack) # 1 => Handler(Top)
         /\ Front(stack) \in Seq(Frames) /\ Len(Front(stack)) = Len(stack) - 1
         /\ \A i \in 1..Len(stack) - 1 : Front(stack)[i] = stack[i]
<1>1. stack \in Seq(Frames)
  BY DEF StackOK
<1>2. Len(stack) \in Nat \ {0} /\ \A i \in 1..Len(stack) : stack[i] \in Frames
  BY <1>1, LenProperties, EmptySeq, ElementOfSeq
<1>3. Top = stack[Len(stack)]
  BY DEF Top, Last
<1>4. /\ Len(stack) = 1 => Bottom(Top)
      /\ Len(stack) # 1 => Handler(Top)
  <2>1. Bottom(stack[1]) /\ \A i \in 2..Len(stack) : Handler(stack[i])
    BY DEF StackOK, Base
  <2>2. Len(stack) # 1 => Len(stack) \in 2..Len(stack)
    BY <1>2
  <2> QED
    BY <1>3, <2>1, <2>2
<1> DEFINE n == Len(stack) - 1
           front == SubSeq(stack, 1, n)
<1>5. 1 \in Int /\ n \in Int /\ \A i \in 1..n : stack[i] \in Frames
  BY <1>2
<1>6. Front(stack) = front
  BY DEF Front
<1> HIDE DEF n
<1>7. /\ front \in Seq(Frames)
      /\ Len(front) = IF 1 <= n THEN n - 1 + 1 ELSE 0
      /\ \A i \in 1..n - 1 + 1 : front[i] = stack[1 + i - 1]
  BY <1>5, SubSeqProperties
<1> HIDE DEF front
<1>8. n \in Nat /\ n = Len(stack) - 1
  BY <1>2 DEF n
<1>9. Len(front) = n
  BY <1>7, <1>8
<1>10. ASSUME NEW i \in 1..n
       PROVE  front[i] = stack[i]
  <2>1. i \in 1..n - 1 + 1 /\ 1 + i - 1 = i
    BY <1>8
  <2> QED
    BY <1>7, <2>1
<1>11. Top \in Frames
  BY <1>2, <1>3
<1> QED
  BY <1>2, <1>3, <1>4, <1>6, <1>7, <1>8, <1>9, <1>10, <1>11

LEMMA PutTop ==
  ASSUME StackOK, stack # <<>>, NEW f \in Frames, stack' = Append(Front(stack), f)
  PROVE  /\ stack' \in Seq(Frames) /\ stack' # <<>> /\ Len(stack') = Len(stack)
         /\ \A i \in 1..Len(stack) - 1 : stack'[i] = stack[i]
         /\ stack'[Len(stack)] = f
<1>1. Front(stack) \in Seq(Frames) /\ Len(Front(stack)) = Len(stack) - 1 /\ Len(stack) \in Nat
  BY TopFrame
<1>2. /\ stack' \in Seq(Frames) /\ stack' # <<>> /\ Len(stack') = Len(Front(stack)) + 1
      /\ \A i \in 1..Len(Front(stack)) : stack'[i] = Front(stack)[i]
      /\ stack'[Len(Front(stack)) + 1] = f
  BY <1>1, AppendProperties
<1>3. \A i \in 1..Len(stack) - 1 : Front(stack)[i] = stack[i]
  BY TopFrame
<1>4. Len(stack') = Len(stack) /\ stack'[Len(stack)] = f
  <2>1. Len(Front(stack)) + 1 = Len(stack)
    BY <1>1
  <2> QED
    BY <1>2, <2>1
<1>5. \A i \in 1..Len(stack) - 1 : stack'[i] = stack[i]
  BY <1>1, <1>2, <1>3
<1> QED
  BY <1>2, <1>4, <1>5
\* The top frame moves on: what the others rely on, and what it relies on at its
\* new place, has to hold.
LEMMA Move ==
  ASSUME StackOK, Promised, stack # <<>>,
         NEW place \in Places, Goto(place), Fits(Frame(place, Top.by)),
         \A p \in Places : Promise(p) => Promise(p)', Promise(place)'
  PROVE  /\ StackOK' /\ Promised'
         /\ stack' # <<>> /\ Len(stack') = Len(stack)
         /\ Undisturbed' => Undisturbed
         /\ Base'.by = Base.by
         /\ Base'.at = IF Len(stack) = 1 THEN place ELSE Base.at
<1> DEFINE n == Len(stack)
           f == Frame(place, Top.by)
<1>1. /\ n \in Nat \ {0} /\ Top = stack[n] /\ Top \in Frames
      /\ n = 1 => Bottom(Top)
      /\ n # 1 => Handler(Top)
  BY TopFrame
<1>2. f \in Frames /\ f.at = place /\ f.by = Top.by /\ Fits(f)
  BY <1>1 DEF Frame, Frames
<1>3. stack' = Append(Front(stack), f)
  BY DEF Goto
<1> HIDE DEF f
<1>4. /\ stack' \in Seq(Frames) /\ stack' # <<>> /\ Len(stack') = n
      /\ \A i \in 1..n - 1 : stack'[i] = stack[i]
      /\ stack'[n] = f
  BY <1>2, <1>3, PutTop
<1> HIDE DEF n
<1>5. ASSUME n = 1
      PROVE  stack'[1] = f /\ stack[1] = Top
  BY <1>1, <1>4, <1>5
<1>6. ASSUME n # 1
      PROVE  stack'[1] = stack[1]
  BY <1>1, <1>4, <1>6
<1>7. StackOK'
  <2>1. Bottom(stack'[1])
    <3>1. CASE n = 1
      BY <1>1, <1>2, <1>5, <3>1 DEF Bottom
    <3>2. CASE n # 1
      BY <1>6, <3>2 DEF StackOK, Base
    <3> QED
      BY <3>1, <3>2
  <2>2. ASSUME NEW i \in 2..Len(stack')
        PROVE  Handler(stack'[i])
    <3>1. CASE i = n
      BY <1>1, <1>2, <1>4, <2>2, <3>1 DEF Handler
    <3>2. CASE i # n
      <4>1. i \in 1..n - 1 /\ i \in 2..Len(stack)
        BY <1>1, <1>4, <2>2, <3>2 DEF n
      <4>2. Handler(stack[i])
        BY <4>1 DEF StackOK
      <4> QED
        BY <1>4, <4>1, <4>2
    <3> QED
      BY <3>1, <3>2
  <2> QED
    BY <1>4, <2>1, <2>2 DEF StackOK, Base
<1>8. Promised'
  <2>1. ASSUME NEW i \in 1..Len(stack')
        PROVE  Promise(stack[i].at)'
    <3>1. CASE i = n
      BY <1>2, <1>4, <3>1 DEF Promise
    <3>2. CASE i # n
      <4>1. i \in 1..n - 1 /\ i \in 1..Len(stack)
        BY <1>1, <1>4, <2>1, <3>2 DEF n
      <4>2. stack[i] \in Frames
        BY <4>1, ElementOfSeq DEF StackOK
      <4>3. PICK p \in Places : p = stack[i].at
        BY <4>2 DEF Frames
      <4>4. Promise(p)'
        BY <4>1, <4>3 DEF Promised
      <4> QED
        BY <1>4, <4>1, <4>3, <4>4 DEF Promise
    <3> QED
      BY <3>1, <3>2
  <2> QED
    BY <2>1 DEF Promised
<1>9. Undisturbed' => Undisturbed
  <2>1. ASSUME Undisturbed', NEW i \in 2..Len(stack)
        PROVE  stack[i].by = "hup"
    <3>1. stack'[i].by = "hup"
      BY <1>4, <2>1 DEF Undisturbed, n
    <3>2. i = n \/ i \in 1..n - 1
      BY <1>1, <2>1 DEF n
    <3> QED
      BY <1>1, <1>2, <1>4, <3>1, <3>2
  <2> QED
    BY <2>1 DEF Undisturbed
<1>10. /\ Base'.by = Base.by
       /\ Base'.at = IF n = 1 THEN place ELSE Base.at
  BY <1>2, <1>5, <1>6 DEF Base
<1> QED
  BY <1>4, <1>7, <1>8, <1>9, <1>10 DEF n

\* The stack is unwound to a single frame.
LEMMA Unwind ==
  ASSUME NEW f \in Frames, Bottom(f), stack' = <<f>>, Promise(f.at)'
  PROVE  /\ StackOK' /\ Promised'
         /\ stack' # <<>> /\ Len(stack') = 1 /\ Base' = f
<1>1. /\ stack' \in Seq(Frames) /\ stack' # <<>>
      /\ Len(stack') = 1 /\ stack'[1] = f
  OBVIOUS
<1>2. \A i \in 1..Len(stack') : i = 1
  BY <1>1
<1>3. \A i \in 2..Len(stack') : FALSE
  BY <1>1
<1> QED
  BY <1>1, <1>2, <1>3 DEF StackOK, Promised, Base, Promise

\* A handler returns to the frame it had interrupted.
LEMMA Return ==
  ASSUME StackOK, Promised, stack # <<>>, Resume, Top.by = "hup",
         \A p \in Places : Promise(p) => Promise(p)'
  PROVE  /\ StackOK' /\ Promised'
         /\ stack' # <<>> /\ Len(stack') < Len(stack)
         /\ Undisturbed' => Undisturbed
         /\ Base'.by = Base.by /\ Base'.at = Base.at
<1> DEFINE n == Len(stack) - 1
           below == Front(stack)
           f == [Last(below) EXCEPT !.locked = FALSE]
<1>1. /\ n \in Nat /\ n + 1 = Len(stack) /\ Top = stack[n + 1] /\ Top \in Frames
      /\ n = 0 => Bottom(Top)
      /\ below \in Seq(Frames) /\ Len(below) = n
      /\ \A i \in 1..n : below[i] = stack[i]
  BY TopFrame
<1>2. n # 0
  BY <1>1 DEF Bottom
<1>3. /\ n - 1 \in Nat
      /\ Front(below) \in Seq(Frames) /\ Len(Front(below)) = n - 1
      /\ \A i \in 1..n - 1 : Front(below)[i] = stack[i]
  <2> DEFINE front == SubSeq(below, 1, n - 1)
  <2>1. n - 1 \in Nat /\ \A i \in 1..n - 1 : below[i] \in Frames /\ below[i] = stack[i]
    BY <1>1, <1>2, ElementOfSeq
  <2>2. Front(below) = front
    BY <1>1 DEF Front
  <2> HIDE DEF n, below
  <2>3. /\ front \in Seq(Frames)
        /\ Len(front) = IF 1 <= n - 1 THEN (n - 1) - 1 + 1 ELSE 0
        /\ \A i \in 1..(n - 1) - 1 + 1 : front[i] = below[1 + i - 1]
    BY <2>1, SubSeqProperties
  <2> HIDE DEF front
  <2>4. ASSUME NEW i \in 1..n - 1
        PROVE  front[i] = stack[i]
    <3>1. i \in 1..(n - 1) - 1 + 1 /\ 1 + i - 1 = i
      BY <2>1
    <3> QED
      BY <2>1, <2>3, <3>1
  <2> QED
    BY <2>1, <2>2, <2>3, <2>4
<1>4. stack[n] \in Frames /\ Last(below) = stack[n]
  BY <1>1, <1>2, ElementOfSeq DEF Last, StackOK
<1>5. f \in Frames /\ f.at = stack[n].at /\ f.by = stack[n].by
  BY <1>4 DEF Frames
<1>6. stack' = Append(Front(below), f)
  BY DEF Resume
<1> HIDE DEF f
<1>7. /\ stack' \in Seq(Frames) /\ stack' # <<>> /\ Len(stack') = (n - 1) + 1
      /\ \A i \in 1..n - 1 : stack'[i] = stack[i]
      /\ stack'[(n - 1) + 1] = f
  <2>1. /\ stack' \in Seq(Frames) /\ stack' # <<>> /\ Len(stack') = Len(Front(below)) + 1
        /\ \A i \in 1..Len(Front(below)) : stack'[i] = Front(below)[i]
        /\ stack'[Len(Front(below)) + 1] = f
    BY <1>3, <1>5, <1>6, AppendProperties
  <2> QED
    BY <1>3, <2>1
<1> HIDE DEF n, below
<1>8. Len(stack') = n /\ \A i \in 1..n : stack'[i].at = stack[i].at /\ stack'[i].by = stack[i].by
  BY <1>1, <1>2, <1>5, <1>7
<1>9. StackOK'
  <2>1. Bottom(stack'[1])
    <3>1. Bottom(stack[1])
      BY DEF StackOK, Base
    <3> QED
      BY <1>1, <1>2, <1>8, <3>1 DEF Bottom, Fits
  <2>2. ASSUME NEW i \in 2..Len(stack')
        PROVE  Handler(stack'[i])
    <3>1. i \in 1..n /\ i \in 2..Len(stack)
      BY <1>1, <1>8
    <3>2. Handler(stack[i])
      BY <3>1 DEF StackOK
    <3> QED
      BY <1>8, <3>1, <3>2 DEF Handler, Fits
  <2> QED
    BY <1>7, <2>1, <2>2 DEF StackOK, Base
<1>10. Promised'
  <2>1. ASSUME NEW i \in 1..Len(stack')
        PROVE  Promise(stack[i].at)'
    <3>1. i \in 1..n /\ i \in 1..Len(stack)
      BY <1>1, <1>8
    <3>2. stack[i] \in Frames
      BY <3>1, ElementOfSeq DEF StackOK
    <3>3. PICK p \in Places : p = stack[i].at
      BY <3>2 DEF Frames
    <3>4. Promise(p)'
      BY <3>1, <3>3 DEF Promised
    <3> QED
      BY <1>8, <3>1, <3>3, <3>4 DEF Promise
  <2> QED
    BY <2>1 DEF Promised
<1>11. Undisturbed' => Undisturbed
  <2>1. ASSUME Undisturbed', NEW i \in 2..Len(stack)
        PROVE  stack[i].by = "hup"
    <3>1. CASE i = n + 1
      BY <1>1, <3>1
    <3>2. CASE i # n + 1
      <4>1. i \in 1..n /\ i \in 2..Len(stack')
        BY <1>1, <1>8, <2>1, <3>2
      <4> QED
        BY <1>8, <2>1, <4>1 DEF Undisturbed
    <3> QED
      BY <3>1, <3>2
  <2> QED
    BY <2>1 DEF Undisturbed
<1>12. Base'.by = Base.by /\ Base'.at = Base.at
  BY <1>1, <1>2, <1>8 DEF Base
<1> QED
  BY <1>1, <1>7, <1>8, <1>9, <1>10, <1>11, <1>12

\* A handler interrupts the top frame.
LEMMA Enter ==
  ASSUME StackOK, Promised, stack # <<>>,
         NEW h \in Frames, Handler(h), NEW inside \in BOOLEAN,
         stack' = Front(stack) \o <<[Top EXCEPT !.locked = inside], h>>,
         \A p \in Places : Promise(p) => Promise(p)', Promise(h.at)'
  PROVE  /\ StackOK' /\ Promised'
         /\ stack' # <<>> /\ Len(stack') = Len(stack) + 1
         /\ Undisturbed' => Undisturbed
         /\ Base'.by = Base.by /\ Base'.at = Base.at
<1> DEFINE n == Len(stack)
           f == [Top EXCEPT !.locked = inside]
           two == <<f, h>>
<1>1. /\ n \in Nat \ {0} /\ Top = stack[n] /\ Top \in Frames
      /\ Front(stack) \in Seq(Frames) /\ Len(Front(stack)) = n - 1
      /\ \A i \in 1..n - 1 : Front(stack)[i] = stack[i]
  BY TopFrame
<1>2. f \in Frames /\ f.at = stack[n].at /\ f.by = stack[n].by
  BY <1>1 DEF Frames
<1> HIDE DEF f
<1>3. two \in Seq(Frames) /\ Len(two) = 2 /\ two[1] = f /\ two[2] = h
  BY <1>2
<1> HIDE DEF two
<1>4. stack' = Front(stack) \o two
  BY DEF two, f
<1> HIDE DEF n
<1>5. /\ stack' \in Seq(Frames) /\ Len(stack') = n + 1
      /\ \A i \in 1..n + 1 :
           stack'[i] = IF i <= n - 1 THEN Front(stack)[i] ELSE two[i - (n - 1)]
  <2>1. PICK front \in Seq(Frames) : front = Front(stack) /\ Len(front) = n - 1
    BY <1>1
  <2>2. /\ front \o two \in Seq(Frames) /\ Len(front \o two) = Len(front) + Len(two)
        /\ \A i \in 1..Len(front) + Len(two) :
             (front \o two)[i] = IF i <= Len(front) THEN front[i] ELSE two[i - Len(front)]
    BY <1>3, ConcatProperties
  <2>3. Len(front) + Len(two) = n + 1
    BY <1>1, <1>3, <2>1
  <2> QED
    BY <1>4, <2>1, <2>2, <2>3
<1>6. stack' \in Seq(Frames) /\ Len(stack') = n + 1 /\ stack' # <<>>
  <2>1. Len(stack') # 0
    BY <1>1, <1>5
  <2> QED
    BY <1>5, <2>1, EmptySeq
<1>7. ASSUME NEW i \in 1..n - 1
      PROVE  stack'[i] = stack[i]
  BY <1>1, <1>5, <1>7
<1>8. stack'[n] = f /\ stack'[n + 1] = h
  <2>1. /\ n \in 1..n + 1 /\ ~(n <= n - 1) /\ n - (n - 1) = 1
        /\ n + 1 \in 1..n + 1 /\ ~(n + 1 <= n - 1) /\ (n + 1) - (n - 1) = 2
    BY <1>1
  <2>2. stack'[n] = two[1] /\ stack'[n + 1] = two[2]
    BY <1>5, <2>1
  <2> QED
    BY <1>3, <2>2
<1>9. \A i \in 1..n : stack'[i].at = stack[i].at /\ stack'[i].by = stack[i].by
  <2> SUFFICES ASSUME NEW i \in 1..n
               PROVE  stack'[i].at = stack[i].at /\ stack'[i].by = stack[i].by
    OBVIOUS
  <2>1. i = n \/ i \in 1..n - 1
    BY <1>1
  <2> QED
    BY <1>2, <1>7, <1>8, <2>1
<1>10. StackOK'
  <2>1. Bottom(stack'[1])
    <3>1. Bottom(stack[1]) /\ 1 \in 1..n
      BY <1>1 DEF StackOK, Base
    <3> QED
      BY <1>9, <3>1 DEF Bottom, Fits
  <2>2. ASSUME NEW i \in 2..Len(stack')
        PROVE  Handler(stack'[i])
    <3>1. CASE i = n + 1
      BY <1>8, <3>1
    <3>2. CASE i # n + 1
      <4>1. i \in 1..n /\ i \in 2..Len(stack)
        BY <1>1, <1>6, <2>2, <3>2 DEF n
      <4>2. Handler(stack[i])
        BY <4>1 DEF StackOK
      <4> QED
        BY <1>9, <4>1, <4>2 DEF Handler, Fits
    <3> QED
      BY <3>1, <3>2
  <2> QED
    BY <1>6, <2>1, <2>2 DEF StackOK, Base
<1>11. Promised'
  <2>1. ASSUME NEW i \in 1..Len(stack'), i # n + 1
        PROVE  Promise(stack[i].at)' /\ stack'[i].at = stack[i].at
    <3>1. i \in 1..n /\ i \in 1..Len(stack)
      BY <1>1, <1>6, <2>1 DEF n
    <3>2. stack[i] \in Frames
      BY <3>1, ElementOfSeq DEF StackOK
    <3>3. PICK p \in Places : p = stack[i].at
      BY <3>2 DEF Frames
    <3>4. Promise(p)'
      BY <3>1, <3>3 DEF Promised
    <3> QED
      BY <1>9, <3>1, <3>3, <3>4 DEF Promise
  <2>2. stack'[n + 1].at = h.at
    BY <1>8
  <2> QED
    BY <2>1, <2>2 DEF Promised, Promise
<1>12. Undisturbed' => Undisturbed
  <2>1. ASSUME Undisturbed', NEW i \in 2..Len(stack)
        PROVE  stack[i].by = "hup"
    <3>1. i \in 1..n /\ i \in 2..Len(stack')
      BY <1>1, <1>6, <2>1 DEF n
    <3> QED
      BY <1>9, <2>1, <3>1 DEF Undisturbed
  <2> QED
    BY <2>1 DEF Undisturbed
<1>13. Base'.by = Base.by /\ Base'.at = Base.at
  <2>1. 1 \in 1..n
    BY <1>1
  <2> QED
    BY <1>9, <2>1 DEF Base
<1> QED
  BY <1>6, <1>10, <1>11, <1>12, <1>13 DEF n

-----------------------------------------------------------------------------
\* What a step may do to the other variables once start() is over.  A timer is
\* only started by a dispatcher that runs.
Mild ==
  /\ bound' = bound /\ nginx' = nginx
  /\ Alive' => Alive
  /\ disp = "none" => disp' = "none"
  /\ \A m \in {"late", "mishap"} : m \in seen => m \in seen'
  /\ "served" \in seen' <=> "served" \in seen
  /\ "timer" \in threads' => "timer" \in threads \/ Alive
  /\ "renewal" \in threads' => "renewal" \in threads

\* A mild step keeps every promise, and what is known of server and dispatcher.
LEMMA MildStep ==
  ASSUME StopInv, Mild
  PROVE  /\ \A p \in Places : Promise(p) => Promise(p)'
         /\ ServerKnown' /\ DispatcherKnown' /\ StoppedIsSilent'
         /\ Left => Left'
<1>1. Late => Late'
  BY DEF Mild, Late, Mishap
<1>2. \A p \in Places : Promise(p) => Promise(p)'
  BY <1>1 DEF Promise, Mild
<1>3. ServerKnown' /\ DispatcherKnown'
  BY <1>1 DEF StopInv, ServerKnown, DispatcherKnown, Mild
<1>4. StoppedIsSilent'
  BY <1>1 DEF StopInv, StoppedIsSilent, Late, Mild
<1>5. Left => Left'
  BY DEF Left, Mild, Mishap
<1> QED
  BY <1>2, <1>3, <1>4, <1>5

\* A mild step that leaves main where it is, or takes it to a place of its stop.
LEMMA MildStart ==
  ASSUME StopInv, Mild, stack # <<>>, stack' # <<>>,
         \/ Base'.at = Base.at /\ (Undisturbed' => Undisturbed)
         \/ Base'.at \notin Starting
  PROVE  StartOK'
<1>1. CASE Base'.at \notin Starting
  BY <1>1 DEF StartOK, Starting
<1>2. CASE Base'.at = Base.at /\ (Undisturbed' => Undisturbed)
  BY <1>2 DEF StopInv, StartOK, Mild
<1> QED
  BY <1>1, <1>2

LEMMA MildStay ==
  ASSUME StopInv, Mild, stack' = stack
  PROVE  StopInv'
<1>1. /\ \A p \in Places : Promise(p) => Promise(p)'
      /\ ServerKnown' /\ DispatcherKnown' /\ StoppedIsSilent' /\ (Left => Left')
  BY MildStep
<1>2. StackOK' /\ EndOK'
  BY <1>1 DEF StopInv, StackOK, EndOK, Base
<1>3. StartOK'
  BY DEF StopInv, StartOK, Base, Undisturbed, Mild
<1>4. ASSUME NEW i \in 1..Len(stack)
      PROVE  Promise(stack[i].at)'
  <2>1. stack[i] \in Frames
    BY <1>4, ElementOfSeq DEF StopInv, StackOK
  <2>2. PICK p \in Places : p = stack[i].at
    BY <2>1 DEF Frames
  <2>3. Promise(p)'
    BY <1>1, <1>4, <2>2 DEF StopInv, Promised
  <2> QED
    BY <2>2, <2>3 DEF Promise
<1>5. Promised'
  BY <1>4 DEF Promised, Promise
<1>6. ExitStopsNginx'
  BY DEF StopInv, ExitStopsNginx, Exited, Mild, Mishap
<1> QED
  BY <1>1, <1>2, <1>3, <1>5, <1>6 DEF StopInv

LEMMA MildMove ==
  ASSUME StopInv, Mild, stack # <<>>,
         NEW place \in Places \ (Starting \cup {"end"}), Goto(place),
         Fits(Frame(place, Top.by)), Promise(place)'
  PROVE  StopInv'
<1>1. /\ \A p \in Places : Promise(p) => Promise(p)'
      /\ ServerKnown' /\ DispatcherKnown' /\ StoppedIsSilent'
  BY MildStep
<1>2. StackOK /\ Promised
  BY DEF StopInv
<1>3. /\ StackOK' /\ Promised'
      /\ stack' # <<>> /\ Len(stack') = Len(stack)
      /\ Undisturbed' => Undisturbed
      /\ Base'.at = IF Len(stack) = 1 THEN place ELSE Base.at
  BY <1>1, <1>2, Move
<1>4. StartOK'
  BY <1>3, MildStart
<1>5. EndOK'
  BY <1>3 DEF StopInv, EndOK
<1>6. ExitStopsNginx'
  BY <1>3 DEF ExitStopsNginx, Exited
<1> QED
  BY <1>1, <1>3, <1>4, <1>5, <1>6 DEF StopInv

LEMMA MildReturn ==
  ASSUME StopInv, Mild, stack # <<>>, Resume, Top.by = "hup"
  PROVE  StopInv'
<1>1. /\ \A p \in Places : Promise(p) => Promise(p)'
      /\ ServerKnown' /\ DispatcherKnown' /\ StoppedIsSilent'
  BY MildStep
<1>2. StackOK /\ Promised
  BY DEF StopInv
<1>3. /\ StackOK' /\ Promised'
      /\ stack' # <<>> /\ Len(stack') < Len(stack)
      /\ Undisturbed' => Undisturbed
      /\ Base'.at = Base.at
  BY <1>1, <1>2, Return
<1>4. StartOK'
  BY <1>3, MildStart
<1>5. Base.at # "end"
  <2>1. Len(stack') \in Nat /\ Len(stack') # 0
    BY <1>3, LenProperties, EmptySeq DEF StackOK
  <2>2. Len(stack) \in Nat
    BY <1>2, TopFrame
  <2>3. Len(stack) # 1
    BY <1>3, <2>1, <2>2
  <2> QED
    BY <2>3 DEF StopInv, EndOK
<1>6. EndOK' /\ ExitStopsNginx'
  BY <1>3, <1>5 DEF EndOK, ExitStopsNginx, Exited
<1> QED
  BY <1>1, <1>3, <1>4, <1>6 DEF StopInv

LEMMA MildEnter ==
  ASSUME StopInv, Mild, stack # <<>>, ~At("end"),
         NEW h \in Frames, Handler(h), NEW inside \in BOOLEAN,
         stack' = Front(stack) \o <<[Top EXCEPT !.locked = inside], h>>, Promise(h.at)'
  PROVE  StopInv'
<1>1. /\ \A p \in Places : Promise(p) => Promise(p)'
      /\ ServerKnown' /\ DispatcherKnown' /\ StoppedIsSilent'
  BY MildStep
<1>2. StackOK /\ Promised
  BY DEF StopInv
<1>3. /\ StackOK' /\ Promised'
      /\ stack' # <<>>
      /\ Undisturbed' => Undisturbed
      /\ Base'.at = Base.at
  BY <1>1, <1>2, Enter
<1>4. StartOK'
  BY <1>3, MildStart
<1>5. Base.at # "end"
  BY <1>2, TopFrame DEF StopInv, EndOK, At, Base
<1>6. EndOK' /\ ExitStopsNginx'
  BY <1>3, <1>5 DEF EndOK, ExitStopsNginx, Exited
<1> QED
  BY <1>1, <1>3, <1>4, <1>6 DEF StopInv

LEMMA MildUnwind ==
  ASSUME StopInv, Mild, stack # <<>>,
         NEW f \in Frames, Bottom(f), stack' = <<f>>, f.at \notin Starting,
         Promise(f.at)', f.at = "end" => Left'
  PROVE  StopInv'
<1>1. ServerKnown' /\ DispatcherKnown' /\ StoppedIsSilent'
  BY MildStep
<1>2. StackOK' /\ Promised' /\ stack' # <<>> /\ Len(stack') = 1 /\ Base' = f
  BY Unwind
<1>3. StartOK'
  BY <1>2, MildStart
<1>4. EndOK' /\ ExitStopsNginx'
  BY <1>2 DEF EndOK, ExitStopsNginx, Exited
<1> QED
  BY <1>1, <1>2, <1>3, <1>4 DEF StopInv

-----------------------------------------------------------------------------
LEMMA FrameOfMain ==
  ASSUME NEW p \in MainPlaces
  PROVE  \E f \in Frames : f = Frame(p, "main") /\ Bottom(f) /\ f.at = p
<1> DEFINE f == Frame(p, "main")
<1>1. f \in Frames /\ f.at = p /\ f.by = "main"
  BY DEF Frame, Frames, Places
<1>2. Bottom(f)
  BY <1>1 DEF Bottom, Fits
<1> QED
  BY <1>1, <1>2

\* The steps of start(): main is not interrupted.
LEMMA AtBottom ==
  ASSUME StackOK, stack # <<>>, Top.at \in Starting \cup {"listen", "put", "join", "end"}
  PROVE  /\ Len(stack) = 1 /\ Base = Top /\ Top.by = "main" /\ Undisturbed
         /\ \A place \in Places : Goto(place) => stack' = <<Frame(place, "main")>>
<1>1. /\ Len(stack) \in Nat \ {0} /\ Top = stack[Len(stack)] /\ Top \in Frames
      /\ Len(stack) = 1 => Bottom(Top)
      /\ Len(stack) # 1 => Handler(Top)
  BY TopFrame
<1>2. ~Handler(Top)
  BY DEF Handler, Fits, Starting, Stopping, Dismissing, Reloading
<1>3. Len(stack) = 1 /\ Base = Top
  BY <1>1, <1>2 DEF Base
<1>4. Top.by = "main"
  BY <1>1, <1>3 DEF Bottom, Fits, Starting, Dismissing
<1>5. Undisturbed
  BY <1>3 DEF Undisturbed
<1>6. ASSUME NEW place \in Places, Goto(place)
      PROVE  stack' = <<Frame(place, "main")>>
  <2> DEFINE f == Frame(place, "main")
  <2>1. f \in Frames /\ stack' = Append(Front(stack), f)
    BY <1>4, <1>6 DEF Goto, Frame, Frames
  <2> HIDE DEF f
  <2>2. Front(stack) \in Seq(Frames) /\ Len(Front(stack)) = 0
    BY <1>3, TopFrame
  <2>3. Front(stack) = <<>>
    BY <2>2, EmptySeq
  <2>4. stack' = <<f>>
    BY <2>1, <2>3
  <2> QED
    BY <2>4 DEF f
<1> QED
  BY <1>3, <1>4, <1>5, <1>6
LEMMA ConstructInv ==
  ASSUME StopInv, stack # <<>>, Construct
  PROVE  StopInv'
<1>1. /\ Len(stack) = 1 /\ Base.at = "construct" /\ Undisturbed /\ StackOK
      /\ \A p \in Places : Goto(p) => stack' = <<Frame(p, "main")>>
  BY AtBottom DEF Construct, At, StopInv, Starting
<1>2. PICK f \in Frames : f = Frame("boot", "main") /\ Bottom(f) /\ f.at = "boot"
  BY FrameOfMain DEF MainPlaces, Starting
<1>3. stack' = <<f>>
  BY <1>1, <1>2 DEF Construct, Places, MainPlaces, Starting
<1>4. Promise(f.at)'
  BY <1>2 DEF Promise
<1>5. /\ StackOK' /\ Promised'
      /\ stack' # <<>> /\ Len(stack') = 1 /\ Base'.at = "boot"
  BY <1>2, <1>3, <1>4, Unwind
<1>6. StartOK'
  BY <1>1, <1>5 DEF StopInv, StartOK, Starting, Construct
<1>7. EndOK' /\ ExitStopsNginx'
  BY <1>5 DEF EndOK, ExitStopsNginx, Exited
<1>8. ServerKnown' /\ DispatcherKnown' /\ StoppedIsSilent'
  BY <1>1 DEF StopInv, StartOK, Starting, ServerKnown, DispatcherKnown, StoppedIsSilent,
              Alive, Late, Mishap, Construct
<1> QED
  BY <1>5, <1>6, <1>7, <1>8 DEF StopInv

LEMMA ScanInv ==
  ASSUME StopInv, stack # <<>>, Scan
  PROVE  StopInv'
<1>1. /\ Len(stack) = 1 /\ Base.at = "scan" /\ Undisturbed /\ StackOK
      /\ \A p \in Places : Goto(p) => stack' = <<Frame(p, "main")>>
  BY AtBottom DEF Scan, At, StopInv, Starting
<1>2. PICK f \in Frames : f = Frame("listener", "main") /\ Bottom(f) /\ f.at = "listener"
  BY FrameOfMain DEF MainPlaces, Starting
<1>3. stack' = <<f>>
  BY <1>1, <1>2 DEF Scan, Places, MainPlaces, Starting
<1>4. Promise(f.at)'
  BY <1>2 DEF Promise
<1>5. /\ StackOK' /\ Promised'
      /\ stack' # <<>> /\ Len(stack') = 1 /\ Base'.at = "listener"
  BY <1>2, <1>3, <1>4, Unwind
<1>6. StartOK'
  BY <1>1, <1>5 DEF StopInv, StartOK, Starting, Scan
<1>7. EndOK' /\ ExitStopsNginx'
  BY <1>5 DEF EndOK, ExitStopsNginx, Exited
<1>8. ServerKnown' /\ DispatcherKnown' /\ StoppedIsSilent'
  BY <1>1 DEF StopInv, StartOK, Starting, ServerKnown, DispatcherKnown, StoppedIsSilent,
              Alive, Late, Mishap, Scan
<1> QED
  BY <1>5, <1>6, <1>7, <1>8 DEF StopInv

LEMMA MakeListenerInv ==
  ASSUME StopInv, stack # <<>>, MakeListener
  PROVE  StopInv'
<1>1. /\ Len(stack) = 1 /\ Base.at = "listener" /\ Undisturbed /\ StackOK
      /\ \A p \in Places : Goto(p) => stack' = <<Frame(p, "main")>>
  BY AtBottom DEF MakeListener, At, StopInv, Starting
<1>2. PICK f \in Frames : f = Frame("start", "main") /\ Bottom(f) /\ f.at = "start"
  BY FrameOfMain DEF MainPlaces, Starting
<1>3. stack' = <<f>>
  BY <1>1, <1>2 DEF MakeListener, Places, MainPlaces, Starting
<1>4. Promise(f.at)'
  BY <1>2 DEF Promise
<1>5. /\ StackOK' /\ Promised'
      /\ stack' # <<>> /\ Len(stack') = 1 /\ Base'.at = "start"
  BY <1>2, <1>3, <1>4, Unwind
<1>6. StartOK'
  BY <1>1, <1>5 DEF StopInv, StartOK, Starting, MakeListener
<1>7. EndOK' /\ ExitStopsNginx'
  BY <1>5 DEF EndOK, ExitStopsNginx, Exited
<1>8. ServerKnown' /\ DispatcherKnown' /\ StoppedIsSilent'
  BY <1>1 DEF StopInv, StartOK, Starting, ServerKnown, DispatcherKnown, StoppedIsSilent,
              Alive, Late, Mishap, MakeListener
<1> QED
  BY <1>5, <1>6, <1>7, <1>8 DEF StopInv

LEMMA BootInv ==
  ASSUME StopInv, stack # <<>>, Boot
  PROVE  StopInv'
<1>1. /\ Len(stack) = 1 /\ Base.at = "boot" /\ Undisturbed /\ StackOK
      /\ \A p \in Places : Goto(p) => stack' = <<Frame(p, "main")>>
  BY AtBottom DEF Boot, At, StopInv, Starting
<1>2. PICK p \in {"scan", "end"} :
        Goto(p) /\ nginx' \in {"up", nginx} /\ (p = "end" => nginx' = nginx)
  BY DEF Boot
<1>3. PICK f \in Frames : f = Frame(p, "main") /\ Bottom(f) /\ f.at = p
  BY FrameOfMain DEF MainPlaces, Starting
<1>4. stack' = <<f>>
  BY <1>1, <1>2, <1>3 DEF Places, MainPlaces, Starting
<1>5. Promise(f.at)'
  BY <1>3 DEF Promise
<1>6. /\ StackOK' /\ Promised'
      /\ stack' # <<>> /\ Len(stack') = 1 /\ Base'.at = p
  BY <1>3, <1>4, <1>5, Unwind
<1>7. StartOK'
  BY <1>1, <1>2, <1>6 DEF StopInv, StartOK, Starting, Boot
<1>8. EndOK' /\ ExitStopsNginx'
  BY <1>1, <1>6 DEF StopInv, StartOK, EndOK, Left, ExitStopsNginx, Exited, Boot
<1>9. ServerKnown' /\ DispatcherKnown' /\ StoppedIsSilent'
  BY <1>1, <1>2 DEF StopInv, StartOK, Starting, ServerKnown, DispatcherKnown, StoppedIsSilent,
                    Alive, Late, Mishap, Boot
<1> QED
  BY <1>6, <1>7, <1>8, <1>9 DEF StopInv

LEMMA StartDispatcherInv ==
  ASSUME StopInv, stack # <<>>, StartDispatcher
  PROVE  StopInv'
<1>1. /\ Len(stack) = 1 /\ Base.at = "start" /\ Undisturbed /\ StackOK
      /\ \A p \in Places : Goto(p) => stack' = <<Frame(p, "main")>>
  BY AtBottom DEF StartDispatcher, At, StopInv, Starting
<1>2. PICK p \in {"listen", "join"} : Goto(p)
  BY DEF StartDispatcher
<1>3. PICK f \in Frames : f = Frame(p, "main") /\ Bottom(f) /\ f.at = p
  BY FrameOfMain DEF MainPlaces
<1>4. stack' = <<f>>
  BY <1>1, <1>2, <1>3 DEF Places, MainPlaces
<1>5. Promise(f.at)'
  BY <1>3 DEF Promise
<1>6. /\ StackOK' /\ Promised'
      /\ stack' # <<>> /\ Len(stack') = 1 /\ Base'.at = p
  BY <1>3, <1>4, <1>5, Unwind
<1>7. StartOK' /\ EndOK' /\ ExitStopsNginx'
  BY <1>6 DEF StartOK, Starting, EndOK, ExitStopsNginx, Exited
<1>8. ServerKnown' /\ DispatcherKnown' /\ StoppedIsSilent'
  BY <1>1 DEF StopInv, StartOK, Starting, ServerKnown, DispatcherKnown, StoppedIsSilent,
              StartDispatcher, Mishap
<1> QED
  BY <1>6, <1>7, <1>8 DEF StopInv

-----------------------------------------------------------------------------
\* The steps of main that leave bound and nginx as they are.
LEMMA TopPromise ==
  ASSUME StopInv, stack # <<>>
  PROVE  Top \in Frames /\ Fits(Top) /\ Promise(Top.at)
<1>1. StackOK
  BY DEF StopInv
<1>2. /\ Len(stack) \in Nat \ {0} /\ Top = stack[Len(stack)] /\ Top \in Frames
      /\ Len(stack) = 1 => Bottom(Top)
      /\ Len(stack) # 1 => Handler(Top)
  BY <1>1, TopFrame
<1>3. Promise(stack[Len(stack)].at)
  BY <1>2 DEF StopInv, Promised
<1> QED
  BY <1>2, <1>3 DEF Bottom, Handler, Promise

LEMMA ReadEventInv ==
  ASSUME StopInv, stack # <<>>, ReadEvent
  PROVE  StopInv'
<1>1. Mild
  BY DEF ReadEvent, Mild, Alive
<1>2. Top \in Frames /\ Fits(Top) /\ Promise("listen") /\ Top.at = "listen"
  BY TopPromise DEF ReadEvent, At
<1>3. Fits(Frame("put", Top.by))
  BY <1>2 DEF Fits, Frame, MainPlaces, Starting, Stopping, Dismissing, Reloading
<1>4. Promise("put")'
  BY <1>1, <1>2 DEF Promise
<1>5. Goto("put") /\ "put" \in Places \ (Starting \cup {"end"})
  BY DEF ReadEvent, Places, MainPlaces, Stopping, Dismissing, Starting, Reloading
<1> QED
  BY <1>1, <1>3, <1>4, <1>5, MildMove

LEMMA PutEventInv ==
  ASSUME StopInv, stack # <<>>, PutEvent
  PROVE  StopInv'
<1>1. Mild
  BY DEF PutEvent, Mild, Alive
<1>2. Top \in Frames /\ Fits(Top) /\ Promise("put") /\ Top.at = "put"
  BY TopPromise DEF PutEvent, At
<1>3. Fits(Frame("listen", Top.by))
  BY <1>2 DEF Fits, Frame, MainPlaces, Starting, Stopping, Dismissing, Reloading
<1>4. Promise("listen")'
  BY <1>1, <1>2 DEF Promise
<1>5. Goto("listen") /\ "listen" \in Places \ (Starting \cup {"end"})
  BY DEF PutEvent, Places, MainPlaces, Stopping, Dismissing, Starting, Reloading
<1> QED
  BY <1>1, <1>3, <1>4, <1>5, MildMove

LEMMA CancelTimersInv ==
  ASSUME StopInv, stack # <<>>, CancelTimers
  PROVE  StopInv'
<1>1. Mild
  BY DEF CancelTimers, Mild, Alive
<1>2. Top \in Frames /\ Fits(Top) /\ Promise("cancel") /\ Top.at = "cancel"
  BY TopPromise DEF CancelTimers, At
<1>3. Fits(Frame("poison", Top.by))
  BY <1>2 DEF Fits, Frame, MainPlaces, Starting, Stopping, Dismissing, Reloading
<1>4. Promise("poison")'
  BY <1>1, <1>2 DEF Promise
<1>5. Goto("poison") /\ "poison" \in Places \ (Starting \cup {"end"})
  BY DEF CancelTimers, Places, MainPlaces, Stopping, Dismissing, Starting, Reloading
<1> QED
  BY <1>1, <1>3, <1>4, <1>5, MildMove

LEMMA PoisonInv ==
  ASSUME StopInv, stack # <<>>, Poison
  PROVE  StopInv'
<1>1. Mild
  BY DEF Poison, Mild, Alive
<1>2. Top \in Frames /\ Fits(Top) /\ Promise("poison") /\ Top.at = "poison"
  BY TopPromise DEF Poison, At
<1>3. Fits(Frame("await", Top.by))
  BY <1>2 DEF Fits, Frame, MainPlaces, Starting, Stopping, Dismissing, Reloading
<1>4. Promise("await")'
  BY <1>1, <1>2 DEF Promise
<1>5. Goto("await") /\ "await" \in Places \ (Starting \cup {"end"})
  BY DEF Poison, Places, MainPlaces, Stopping, Dismissing, Starting, Reloading
<1> QED
  BY <1>1, <1>3, <1>4, <1>5, MildMove

LEMMA JoinInv ==
  ASSUME StopInv, stack # <<>>, Join
  PROVE  StopInv'
<1>1. Mild
  BY DEF Join, Mild, Alive
<1>2. Top \in Frames /\ Fits(Top) /\ Promise("await") /\ Top.at = "await"
  BY TopPromise DEF Join, At
<1>3. Fits(Frame("forget", Top.by))
  BY <1>2 DEF Fits, Frame, MainPlaces, Starting, Stopping, Dismissing, Reloading
<1>4. Promise("forget")'
  BY DEF StopInv, DispatcherKnown, Join, Late, Mishap, Alive, Promise
<1>5. Goto("forget") /\ "forget" \in Places \ (Starting \cup {"end"})
  BY DEF Join, Places, MainPlaces, Stopping, Dismissing, Starting, Reloading
<1> QED
  BY <1>1, <1>3, <1>4, <1>5, MildMove

LEMMA ShutdownInv ==
  ASSUME StopInv, stack # <<>>, Shutdown
  PROVE  StopInv'
<1>1. Mild
  BY DEF Shutdown, Mild, Alive
<1>2. Top \in Frames /\ Fits(Top) /\ Promise("shutdown") /\ Top.at = "shutdown"
  BY TopPromise DEF Shutdown, At
<1>3. Fits(Frame("renewal", Top.by))
  BY <1>2 DEF Fits, Frame, MainPlaces, Starting, Stopping, Dismissing, Reloading
<1>4. Promise("renewal")'
  BY <1>1, <1>2 DEF Shutdown, Late, Mishap, Alive, Promise
<1>5. Goto("renewal") /\ "renewal" \in Places \ (Starting \cup {"end"})
  BY DEF Shutdown, Places, MainPlaces, Stopping, Dismissing, Starting, Reloading
<1> QED
  BY <1>1, <1>3, <1>4, <1>5, MildMove

LEMMA StopRenewalInv ==
  ASSUME StopInv, stack # <<>>, StopRenewal
  PROVE  StopInv'
<1>1. Mild
  BY DEF StopRenewal, Mild, Alive
<1>2. Top \in Frames /\ Fits(Top) /\ Promise("renewal") /\ Top.at = "renewal"
  BY TopPromise DEF StopRenewal, At
<1>3. Fits(Frame("nginx", Top.by))
  BY <1>2 DEF Fits, Frame, MainPlaces, Starting, Stopping, Dismissing, Reloading
<1>4. Promise("nginx")'
  BY <1>1, <1>2 DEF StopRenewal, Late, Mishap, Alive, Promise
<1>5. Goto("nginx") /\ "nginx" \in Places \ (Starting \cup {"end"})
  BY DEF StopRenewal, Places, MainPlaces, Stopping, Dismissing, Starting, Reloading
<1> QED
  BY <1>1, <1>3, <1>4, <1>5, MildMove

LEMMA RescanHereInv ==
  ASSUME StopInv, stack # <<>>, RescanHere
  PROVE  StopInv'
<1>1. Mild
  BY DEF RescanHere, Mild, Alive
<1>2. Top \in Frames /\ Fits(Top) /\ Promise("hupRescan") /\ Top.at = "hupRescan"
  BY TopPromise DEF RescanHere, At
<1>3. Fits(Frame("hupThrottle", Top.by))
  BY <1>2 DEF Fits, Frame, MainPlaces, Starting, Stopping, Dismissing, Reloading
<1>4. Promise("hupThrottle")'
  BY <1>1, <1>2 DEF Promise
<1>5. Goto("hupThrottle") /\ "hupThrottle" \in Places \ (Starting \cup {"end"})
  BY DEF RescanHere, Places, MainPlaces, Stopping, Dismissing, Starting, Reloading
<1> QED
  BY <1>1, <1>3, <1>4, <1>5, MildMove
\* The end of run_forever.
LEMMA FinishInv ==
  ASSUME StopInv, stack # <<>>, Finish
  PROVE  StopInv'
<1>1. Mild
  BY DEF Finish, Mild, Alive
<1>2. /\ \A p \in Places : Promise(p) => Promise(p)'
      /\ ServerKnown' /\ DispatcherKnown' /\ StoppedIsSilent'
  BY <1>1, MildStep
<1>3. Fits(Frame("end", Top.by)) /\ Promise("end")'
  BY DEF Finish, Fits, Frame, MainPlaces, Promise
<1>4. /\ StackOK' /\ Promised'
      /\ stack' # <<>> /\ Len(stack') = Len(stack)
      /\ Undisturbed' => Undisturbed
      /\ Base'.at = IF Len(stack) = 1 THEN "end" ELSE Base.at
  BY <1>2, <1>3, Move DEF StopInv, Finish, Places, MainPlaces
<1>5. StartOK'
  BY <1>1, <1>4, MildStart DEF Starting
<1>6. Len(stack) = 1
  BY TopFrame DEF StopInv, Finish, Handler
<1>7. Left'
  <2>1. Promise("done")
    BY TopPromise DEF Finish, At
  <2> QED
    BY <2>1 DEF Promise, StopInv, ServerKnown, Left, Finish, Mishap
<1>8. EndOK' /\ ExitStopsNginx'
  BY <1>4, <1>6, <1>7 DEF EndOK, ExitStopsNginx, Exited
<1> QED
  BY <1>2, <1>4, <1>5, <1>8 DEF StopInv

LEMMA ExitInv ==
  ASSUME StopInv, stack # <<>>, Exit
  PROVE  StopInv'
<1>1. ServerKnown' /\ DispatcherKnown' /\ StoppedIsSilent'
  <2>1. Mild
    BY DEF Exit, Mild, Alive
  <2> QED
    BY <2>1, MildStep
<1>2. stack' = <<>> /\ stack' \in Seq(Frames) /\ Len(stack') = 0
  BY DEF Exit
<1>3. StackOK' /\ Promised' /\ StartOK' /\ EndOK'
  BY <1>2 DEF StackOK, Promised, StartOK, EndOK
<1>4. Left
  <2>1. Top.at = "end" /\ StackOK
    BY DEF Exit, At, StopInv
  <2>2. Base.at = "end"
    BY <2>1, AtBottom
  <2> QED
    BY <2>2 DEF StopInv, EndOK
<1>5. ExitStopsNginx'
  BY <1>4 DEF Left, Exit, ExitStopsNginx, Mishap
<1> QED
  BY <1>1, <1>3, <1>5 DEF StopInv

\* Where the stack is unwound to.
LEMMA FrameOfRun ==
  \E f \in Frames : f = Frame("cancel", "run") /\ f.at = "cancel" /\ Bottom(f)
<1> DEFINE f == Frame("cancel", "run")
<1>1. f \in Frames /\ f.at = "cancel" /\ f.by = "run"
  BY DEF Frame, Frames, Places, MainPlaces, Stopping, Dismissing
<1>2. Bottom(f)
  BY <1>1 DEF Bottom, Fits, Dismissing
<1> QED
  BY <1>1, <1>2

LEMMA UnwoundFrame ==
  ASSUME StopInv, stack # <<>>
  PROVE  /\ Unwound \in Frames /\ Bottom(Unwound)
         /\ Unwound.at \in {"end", "cancel", "check"}
         /\ Unwound.at = "end" => InLastStop \/ Base.at \in Starting
<1>1. PICK f \in {Frame("end", "main"), Frame("cancel", "run"), Frame("check", "main")} : f = Unwound
  BY DEF Unwound
<1>2. f \in Frames /\ Bottom(f) /\ f.at \in {"end", "cancel", "check"}
  <2>1. CASE f = Frame("end", "main")
    BY <2>1, FrameOfMain DEF MainPlaces
  <2>2. CASE f = Frame("cancel", "run")
    BY <2>2, FrameOfRun
  <2>3. CASE f = Frame("check", "main")
    BY <2>3, FrameOfMain DEF MainPlaces, Stopping
  <2> QED
    BY <2>1, <2>2, <2>3
<1>3. Base.by = "main" \/ Base.by = "run"
  BY DEF StopInv, StackOK, Bottom
<1>4. Unwound.at = "end" => InLastStop \/ Base.at \in Starting
  <2>1. CASE Base.by = "main"
    BY <2>1 DEF InLastStop
  <2>2. CASE Base.by = "run"
    <3>1. Base.at \in Dismissing
      BY <2>2 DEF StopInv, StackOK, Bottom, Fits
    <3> QED
      BY <2>2, <3>1 DEF Unwound, Frame, Dismissing
  <2> QED
    BY <1>3, <2>1, <2>2
<1> QED
  BY <1>1, <1>2, <1>4

LEMMA UnlistenInv ==
  ASSUME StopInv, stack # <<>>, Unlisten
  PROVE  StopInv'
<1>1. Mild
  BY DEF Unlisten, Mild, Alive
<1>2. PICK f \in Frames : f = Frame("cancel", "run") /\ f.at = "cancel" /\ Bottom(f)
  BY FrameOfRun
<1>3. stack' = <<f>> /\ Promise(f.at)'
  BY <1>2 DEF Unlisten, Promise
<1> QED
  BY <1>1, <1>2, <1>3, MildUnwind DEF Starting
LEMMA CancelRaisesInv ==
  ASSUME StopInv, stack # <<>>, CancelRaises
  PROVE  StopInv'
<1>1. Mild
  BY DEF CancelRaises, Mild, Alive
<1>2. Base.at \notin Starting
  BY DEF StopInv, StartOK, CancelRaises
<1>3. CASE Base.at = "put"
  <2>1. PICK f \in Frames : f = Frame("listen", "main") /\ Bottom(f) /\ f.at = "listen"
    BY FrameOfMain DEF MainPlaces
  <2>2. stack' = <<f>> /\ Promise(f.at)'
    BY <1>3, <2>1 DEF CancelRaises, Promise
  <2> QED
    BY <1>1, <2>1, <2>2, MildUnwind DEF Starting
<1>4. CASE Base.at # "put"
  <2>1. PICK f \in Frames :
          f = Unwound /\ Bottom(f) /\ f.at \in {"end", "cancel", "check"} /\ (f.at = "end" => InLastStop)
    BY <1>2, UnwoundFrame
  <2>2. stack' = <<f>> /\ Promise(f.at)'
    BY <1>4, <2>1 DEF CancelRaises, Promise
  <2>3. f.at = "end" => Left'
    BY <2>1 DEF CancelRaises, Left, Mishap
  <2> QED
    BY <1>1, <2>1, <2>2, <2>3, MildUnwind DEF Starting
<1> QED
  BY <1>3, <1>4

\* reload(), which ends on the frame it had interrupted.
LEMMA ReloadInv ==
  ASSUME StopInv, stack # <<>>, Reload
  PROVE  StopInv'
<1>1. Mild
  BY DEF Reload, Mild, Alive
<1>2. Top \in Frames /\ Fits(Top) /\ Top.at = "reload"
  BY TopPromise DEF Reload, At
<1>3. Top.by = "hup"
  BY <1>2 DEF Frames, Fits, MainPlaces, Starting, Stopping, Dismissing
<1>4. CASE Resume
  BY <1>1, <1>3, <1>4, MildReturn
<1>5. ASSUME NEW p \in {"hupPut", "hupRescan"}, Goto(p)
      PROVE  StopInv'
  <2>1. Fits(Frame(p, Top.by)) /\ Promise(p)'
    BY <1>3 DEF Fits, Frame, Reloading, Promise
  <2>2. p \in Places \ (Starting \cup {"end"})
    BY DEF Places, Reloading, Starting
  <2> QED
    BY <1>1, <1>5, <2>1, <2>2, MildMove
<1> QED
  BY <1>4, <1>5 DEF Reload

LEMMA PutRescanInv ==
  ASSUME StopInv, stack # <<>>, PutRescan \/ ThrottleHere
  PROVE  StopInv'
<1>1. Mild
  BY DEF PutRescan, ThrottleHere, Mild, Alive
<1>2. Top \in Frames /\ Fits(Top) /\ Top.at \in {"hupPut", "hupThrottle"} /\ Resume
  BY TopPromise DEF PutRescan, ThrottleHere, At
<1>3. Top.by = "hup"
  BY <1>2 DEF Frames, Fits, MainPlaces, Starting, Stopping, Dismissing
<1> QED
  BY <1>1, <1>2, <1>3, MildReturn

-----------------------------------------------------------------------------
\* The steps that forget what has been stopped.  What is interrupted below is
\* not in start(), or it will not be gone on with.
LEMMA StopDisturbs ==
  ASSUME StackOK, stack # <<>>, Len(stack) # 1, Top.by # "hup"
  PROVE  ~Undisturbed
<1>1. PICK n \in Nat \ {0} : n = Len(stack) /\ Top = stack[n]
  BY TopFrame
<1>2. n # 1
  BY <1>1
<1>3. n \in 2..n
  BY <1>2
<1> QED
  BY <1>1, <1>3 DEF Undisturbed

LEMMA StopStep ==
  ASSUME StopInv, stack # <<>>, NEW p \in Stopping, Goto(p),
         Fits(Frame(p, Top.by)), Promise(p)', Top.by # "hup",
         \A q \in Places : Promise(q) => Promise(q)',
         disp' = disp, seen' = seen,
         "app" \in bound' <=> "app" \in bound, "server" \in bound' => "server" \in bound
  PROVE  StackOK' /\ Promised' /\ StartOK' /\ EndOK' /\ ExitStopsNginx'
<1>1. StackOK /\ Promised /\ p \in Places /\ p \notin Starting \cup {"end"}
  BY DEF StopInv, Places, MainPlaces, Stopping, Dismissing, Starting
<1>2. /\ StackOK' /\ Promised'
      /\ stack' # <<>> /\ Len(stack') = Len(stack)
      /\ Undisturbed' => Undisturbed
      /\ Base'.at = IF Len(stack) = 1 THEN p ELSE Base.at
  BY <1>1, Move
<1>3. EndOK' /\ ExitStopsNginx'
  BY <1>1, <1>2 DEF StopInv, EndOK, ExitStopsNginx, Exited
<1>4. StartOK'
  <2>1. CASE Len(stack) = 1
    BY <1>1, <1>2, <2>1 DEF StartOK, Starting
  <2>2. CASE Len(stack) # 1
    <3>1. ~Undisturbed
      BY <1>1, <2>2, StopDisturbs
    <3>2. ~Undisturbed' /\ Base'.at = Base.at
      BY <1>2, <2>2, <3>1
    <3>3. StartOK
      BY DEF StopInv
    <3> QED
      BY <3>2, <3>3 DEF StartOK
  <2> QED
    BY <2>1, <2>2
<1> QED
  BY <1>2, <1>3, <1>4
\* Forgetting the listener, the dispatcher and the reloader.
ForgetListener(gone) ==
  /\ bound' = (bound \ {"listener"}) \ gone
  /\ UNCHANGED <<disp, queue, threads, nginx, seen>>

LEMMA ForgetStep ==
  ASSUME StopInv, stack # <<>>, Late \/ ~Alive,
         NEW gone \in SUBSET {"dispatcher", "reloader"}, ForgetListener(gone)
  PROVE  /\ \A q \in Places : Promise(q) => Promise(q)'
         /\ ServerKnown' /\ DispatcherKnown' /\ StoppedIsSilent'
         /\ "app" \in bound' <=> "app" \in bound
         /\ "server" \in bound' <=> "server" \in bound
<1>1. /\ "app" \in bound' <=> "app" \in bound
      /\ "server" \in bound' <=> "server" \in bound
  BY DEF ForgetListener
<1>2. (Late' <=> Late) /\ (Alive' <=> Alive)
  BY DEF ForgetListener, Late, Mishap, Alive
<1>3. \A q \in Places : Promise(q) => Promise(q)'
  BY <1>1, <1>2 DEF Promise, ForgetListener
<1>4. ServerKnown' /\ DispatcherKnown'
  BY <1>1, <1>2 DEF StopInv, ServerKnown, DispatcherKnown, ForgetListener
<1>5. StoppedIsSilent'
  BY <1>2 DEF StopInv, StoppedIsSilent, ForgetListener, Late, Mishap
<1> QED
  BY <1>1, <1>3, <1>4, <1>5

\* cleanup() goes on to the server, or has nothing left to stop.
LEMMA StopServerStep ==
  ASSUME StopInv, stack # <<>>, Late \/ ~Alive, At("check") \/ At("forget"), Top.by # "run",
         StopServer, UNCHANGED <<disp, queue, threads, nginx, seen>>
  PROVE  StopInv'
<1>1. PICK gone \in SUBSET {"dispatcher", "reloader"} : ForgetListener(gone)
  BY DEF StopServer, ForgetListener
<1>2. /\ \A q \in Places : Promise(q) => Promise(q)'
      /\ ServerKnown' /\ DispatcherKnown' /\ StoppedIsSilent'
      /\ "app" \in bound' <=> "app" \in bound
      /\ "server" \in bound' <=> "server" \in bound
  BY <1>1, ForgetStep
<1>3. PICK p \in {"shutdown", "done"} : Goto(p) /\ (p = "done" => "server" \notin bound)
  BY DEF StopServer
<1>4. Top \in Frames /\ Fits(Top) /\ Top.at \in {"check", "forget"}
  BY TopPromise DEF At
<1>5. Top.by # "hup"
  BY <1>4 DEF Fits, Reloading
<1>6. Fits(Frame(p, Top.by)) /\ p \in Stopping
  BY <1>5 DEF Fits, Frame, MainPlaces, Stopping
<1>7. Promise(p)'
  BY <1>2, <1>3 DEF Promise, Late, Mishap, Alive
<1>8. StackOK' /\ Promised' /\ StartOK' /\ EndOK' /\ ExitStopsNginx'
  <2>1. disp' = disp /\ seen' = seen
    OBVIOUS
  <2> QED
    BY <1>2, <1>3, <1>5, <1>6, <1>7, <2>1, StopStep
<1> QED
  BY <1>2, <1>8 DEF StopInv

LEMMA CheckInv ==
  ASSUME StopInv, stack # <<>>, Check
  PROVE  StopInv'
<1>1. Top \in Frames /\ Fits(Top) /\ Top.at = "check"
  BY TopPromise DEF Check, At
<1>2. Top.by # "run" /\ Top.by # "hup"
  BY <1>1 DEF Fits, Dismissing, Reloading
<1>3. CASE DispatcherRuns
  <2>1. Mild
    BY <1>3 DEF Check, Mild, Alive
  <2>2. Fits(Frame("cancel", Top.by)) /\ Promise("cancel")'
    BY <1>2 DEF Fits, Frame, MainPlaces, Stopping, Dismissing, Promise
  <2>3. Goto("cancel") /\ "cancel" \in Places \ (Starting \cup {"end"})
    BY <1>3 DEF Check, Places, MainPlaces, Stopping, Dismissing, Starting
  <2> QED
    BY <2>1, <2>2, <2>3, MildMove
<1>4. CASE ~DispatcherRuns
  <2>1. Late \/ ~Alive
    BY <1>4 DEF StopInv, DispatcherKnown, DispatcherRuns
  <2> QED
    BY <1>2, <1>4, <2>1, StopServerStep DEF Check
<1> QED
  BY <1>3, <1>4

LEMMA ForgetInv ==
  ASSUME StopInv, stack # <<>>, Forget
  PROVE  StopInv'
<1>1. Late \/ ~Alive
  BY TopPromise DEF Forget, At, Promise
<1>2. CASE Top.by # "run"
  BY <1>1, <1>2, StopServerStep DEF Forget
<1>3. CASE Top.by = "run"
  <2>1. bound' = bound \ {"dispatcher", "reloader"} /\ UNCHANGED <<disp, queue, threads, nginx, seen>>
    BY <1>3 DEF Forget
  <2>2. /\ "app" \in bound' <=> "app" \in bound
        /\ "server" \in bound' <=> "server" \in bound
        /\ (Late' <=> Late) /\ (Alive' <=> Alive)
    BY <2>1 DEF Late, Mishap, Alive
  <2>3. ServerKnown' /\ DispatcherKnown' /\ StoppedIsSilent'
    BY <1>1, <2>1, <2>2 DEF StopInv, ServerKnown, DispatcherKnown, StoppedIsSilent, Late, Mishap
  <2>4. PICK f \in Frames : f = Frame("check", "main") /\ Bottom(f) /\ f.at = "check"
    BY FrameOfMain DEF MainPlaces, Stopping
  <2>5. stack' = <<f>> /\ Promise(f.at)'
    BY <1>3, <2>4 DEF Forget, Promise
  <2>6. StackOK' /\ Promised' /\ stack' # <<>> /\ Base' = f
    BY <2>4, <2>5, Unwind
  <2>7. StartOK' /\ EndOK' /\ ExitStopsNginx'
    BY <2>4, <2>6 DEF StartOK, Starting, EndOK, ExitStopsNginx, Exited
  <2> QED
    BY <2>3, <2>6, <2>7 DEF StopInv
<1> QED
  BY <1>2, <1>3

LEMMA StopNginxInv ==
  ASSUME StopInv, stack # <<>>, StopNginx
  PROVE  StopInv'
<1>1. Top \in Frames /\ Fits(Top) /\ Top.at = "nginx" /\ Promise("nginx")
  BY TopPromise DEF StopNginx, At
<1>2. Top.by # "hup" /\ Fits(Frame("done", Top.by)) /\ "done" \in Stopping
  BY <1>1 DEF Fits, Frame, MainPlaces, Dismissing, Stopping, Reloading
<1>3. /\ "server" \notin bound' /\ nginx' = "stopped" /\ Goto("done")
      /\ "app" \in bound' <=> "app" \in bound
      /\ UNCHANGED <<disp, threads, seen>>
      /\ {"listener", "dispatcher"} \subseteq bound => {"listener", "dispatcher"} \subseteq bound'
  BY DEF StopNginx
<1>4. (Late' <=> Late) /\ (Alive' <=> Alive)
  BY <1>3 DEF Late, Mishap, Alive
<1>5. Promise("done")' /\ \A q \in Places : Promise(q) => Promise(q)'
  BY <1>3, <1>4 DEF Promise
<1>6. StackOK' /\ Promised' /\ StartOK' /\ EndOK' /\ ExitStopsNginx'
  BY <1>2, <1>3, <1>5, StopStep
<1>7. ServerKnown' /\ DispatcherKnown'
  BY <1>3, <1>4 DEF StopInv, ServerKnown, DispatcherKnown
<1>8. StoppedIsSilent'
  BY <1>1, <1>3, <1>4 DEF Promise, StoppedIsSilent, Late
<1> QED
  BY <1>6, <1>7, <1>8 DEF StopInv

LEMMA SysExitInv ==
  ASSUME StopInv, stack # <<>>, SysExit
  PROVE  StopInv'
<1>1. "server" \notin bound
  BY TopPromise DEF SysExit, At, Promise
<1>2. /\ bound' = bound \ {"app"} /\ stack' = <<Unwound>>
      /\ UNCHANGED <<disp, threads, nginx, seen>>
  BY DEF SysExit
<1>3. (Late' <=> Late) /\ (Alive' <=> Alive)
  BY <1>2 DEF Late, Mishap, Alive
<1>4. ServerKnown' /\ DispatcherKnown' /\ StoppedIsSilent'
  BY <1>1, <1>2, <1>3 DEF StopInv, ServerKnown, DispatcherKnown, StoppedIsSilent, Late, Mishap
<1>5. PICK f \in Frames : f = Unwound /\ Bottom(f) /\ f.at \in {"end", "cancel", "check"}
  BY UnwoundFrame
<1>6. stack' = <<f>> /\ Promise(f.at)'
  BY <1>2, <1>5 DEF Promise
<1>7. StackOK' /\ Promised' /\ stack' # <<>> /\ Len(stack') = 1 /\ Base' = f
  BY <1>5, <1>6, Unwind
<1>8. Left'
  BY <1>1, <1>2 DEF StopInv, ServerKnown, Left
<1>9. StartOK' /\ EndOK' /\ ExitStopsNginx'
  BY <1>5, <1>7, <1>8 DEF StartOK, Starting, EndOK, ExitStopsNginx, Exited
<1> QED
  BY <1>4, <1>7, <1>9 DEF StopInv
-----------------------------------------------------------------------------
\* A signal, and the other threads.
LEMMA SignalInv ==
  ASSUME StopInv, stack # <<>>, Signal
  PROVE  StopInv'
<1> USE DEF Places, MainPlaces, Starting, Stopping, Dismissing, Reloading
<1>1. ASSUME NEW handler \in Frames, Handler(handler), Interrupt(handler), Promise(handler.at),
             handler.at \in {"check", "done", "reload"}
      PROVE  StopInv'
  <2>1. PICK inside \in BOOLEAN :
          /\ stack' = Front(stack) \o <<[Top EXCEPT !.locked = inside], handler>>
          /\ seen' = seen \cup (IF inside THEN {"mishap"} ELSE {})
                          \cup (IF handler.by = "term" THEN {"term"} ELSE {})
    <3>1. (IF Top.at \in QueuePlaces \cup ThrottlerPlaces THEN BOOLEAN ELSE {FALSE}) \subseteq BOOLEAN
      OBVIOUS
    <3> QED
      BY <1>1, <3>1 DEF Interrupt
  <2>2. Mild
    <3>1. /\ \A m \in {"late", "mishap"} : m \in seen => m \in seen'
          /\ "served" \in seen' <=> "served" \in seen
      BY <2>1
    <3> QED
      BY <3>1 DEF Signal, Mild, Alive
  <2>3. ~At("end") /\ Promise(handler.at)'
    BY <1>1 DEF Interrupt, Promise, Signal
  <2> QED
    BY <1>1, <2>1, <2>2, <2>3, MildEnter
<1>2. ASSUME NEW place \in {"check", "done"}, place = "done" => "app" \notin bound,
             Interrupt(Frame(place, "term"))
      PROVE  StopInv'
  <2>1. PICK handler \in Frames : handler = Frame(place, "term") /\ Handler(handler) /\ handler.at = place
    <3>1. Frame(place, "term") \in Frames
      BY <1>2 DEF Frame, Frames
    <3>2. Handler(Frame(place, "term")) /\ Frame(place, "term").at = place
      BY <1>2 DEF Frame, Handler, Fits
    <3> QED
      BY <3>1, <3>2
  <2>2. Promise(handler.at)
    BY <1>2, <2>1 DEF StopInv, ServerKnown, Promise
  <2> QED
    BY <1>1, <1>2, <2>1, <2>2
<1>3. ASSUME Interrupt(Frame("reload", "hup"))
      PROVE  StopInv'
  <2>1. PICK handler \in Frames : handler = Frame("reload", "hup") /\ Handler(handler) /\ handler.at = "reload"
    <3>1. Frame("reload", "hup") \in Frames
      BY DEF Frame, Frames
    <3>2. Handler(Frame("reload", "hup")) /\ Frame("reload", "hup").at = "reload"
      BY DEF Frame, Handler, Fits
    <3> QED
      BY <3>1, <3>2
  <2>2. Promise(handler.at)
    BY <2>1 DEF Promise
  <2> QED
    BY <1>1, <1>3, <2>1, <2>2
<1>4. CASE Sigterm
  BY <1>2, <1>4 DEF Sigterm
<1>5. CASE Sighup
  BY <1>3, <1>5 DEF Sighup
<1> QED
  BY <1>4, <1>5 DEF Signal
LEMMA ThreadsInv ==
  ASSUME TypeOK, StopInv,
         \/ \E client \in Clients : StreamEnds(client)
         \/ ListenerPuts \/ Dispatch \/ Hang \/ TimerStep \/ Renewed
  PROVE  StopInv'
<1>1. CASE \E client \in Clients : StreamEnds(client)
  BY <1>1, MildStay DEF StreamEnds, Mild, Alive
<1>2. CASE ListenerPuts
  BY <1>2, MildStay DEF ListenerPuts, Mild, Alive
<1>3. CASE Take /\ UNCHANGED <<inMain, open, stack, bound, nginx, signals>>
  BY <1>3, MildStay DEF Take, Mild, Alive
<1>4. CASE Handled /\ UNCHANGED <<inMain, open, stack, bound, nginx, signals>>
  <2>1. "timer" \in threads' => "timer" \in threads \/ disp = "event"
    BY <1>4 DEF Handled
  <2> QED
    BY <1>4, <2>1, MildStay DEF Handled, Mild, Alive
<1>5. CASE Hang
  BY <1>5, MildStay DEF Hang, Mild, Alive
<1>6. CASE TimerStep
  BY <1>6, MildStay DEF TimerStep, Mild, Alive
<1>7. CASE Renewed
  BY <1>7, MildStay DEF Renewed, Mild, Alive
<1> QED
  BY <1>1, <1>2, <1>3, <1>4, <1>5, <1>6, <1>7 DEF Dispatch

-----------------------------------------------------------------------------
\* The other variables keep their types.
LEMMA TypeStep ==
  ASSUME TypeOK, Next
  PROVE  TypeOK'
<1> DEFINE Names == {"event", "rescan", "reload", "stop"}
<1>1. ASSUME NEW e \in Names
      PROVE  Append(queue, e) \in Seq(Names)
  BY <1>1 DEF TypeOK
<1>2. queue # <<>> => Head(queue) \in Names /\ Tail(queue) \in Seq(Names)
  BY DEF TypeOK
<1> USE DEF TypeOK, Attributes, Threads, Marks
<1>3. CASE MainStep
  <2> USE <1>3 DEF MainStep
  <2>1. CASE Construct \/ Boot \/ Scan \/ MakeListener \/ StartDispatcher
    BY <2>1 DEF Construct, Boot, Scan, MakeListener, StartDispatcher
  <2>2. CASE PutEvent \/ Poison \/ PutRescan
    BY <1>1, <2>2 DEF PutEvent, Poison, PutRescan
  <2>3. CASE ReadEvent \/ Unlisten \/ CancelTimers \/ Join \/ Shutdown \/ StopRenewal
    BY <2>3 DEF ReadEvent, Unlisten, CancelTimers, Join, Shutdown, StopRenewal
  <2>4. CASE Check \/ Forget \/ StopNginx \/ Finish \/ Exit \/ SysExit
    <3>1. /\ bound' \subseteq bound /\ nginx' \in {nginx, "stopped"}
          /\ UNCHANGED <<disp, queue, threads, seen>>
      BY <2>4 DEF Check, Forget, StopServer, StopNginx, Finish, Exit, SysExit
    <3> QED
      BY <3>1
  <2>5. CASE CancelRaises \/ Reload \/ RescanHere \/ ThrottleHere
    BY <2>5 DEF CancelRaises, Reload, RescanHere, ThrottleHere
  <2> QED
    BY <2>1, <2>2, <2>3, <2>4, <2>5
<1>4. CASE Signal
  <2>1. signals' \in Nat /\ seen' \subseteq Marks
    <3>1. PICK handler : Interrupt(handler)
      BY <1>4 DEF Signal, Sigterm, Sighup
    <3>2. signals' = signals + 1 /\ seen' \subseteq seen \cup {"mishap", "term"}
      BY <3>1 DEF Interrupt
    <3> QED
      BY <3>2
  <2> QED
    BY <1>4, <2>1 DEF Signal
<1>5. CASE \E client \in Clients : StreamEnds(client)
  BY <1>5 DEF StreamEnds
<1>6. CASE ListenerPuts \/ Hang \/ TimerStep \/ Renewed
  BY <1>1, <1>6 DEF ListenerPuts, Hang, TimerStep, Renewed
<1>7. CASE Dispatch
  BY <1>2, <1>7 DEF Dispatch, Take, Handled
<1> QED
  BY <1>3, <1>4, <1>5, <1>6, <1>7 DEF Next

LEMMA InitInv ==
  ASSUME Init
  PROVE  IInv
<1>1. TypeOK
  BY DEF Init, TypeOK, Attributes, Threads, Marks
<1>2. PICK f \in Frames : f = Frame("construct", "main") /\ Bottom(f) /\ f.at = "construct"
  BY FrameOfMain DEF MainPlaces, Starting
<1>3. stack = <<f>> /\ stack \in Seq(Frames) /\ Len(stack) = 1 /\ stack # <<>> /\ Base = f
  BY <1>2 DEF Init, Base
<1>4. StackOK
  BY <1>2, <1>3 DEF StackOK
<1>5. Promised
  BY <1>2, <1>3 DEF Promised, Promise
<1>6. StartOK /\ EndOK
  BY <1>2, <1>3 DEF Init, StartOK, EndOK, Starting
<1>7. ServerKnown /\ DispatcherKnown /\ StoppedIsSilent /\ ExitStopsNginx
  BY <1>3 DEF Init, ServerKnown, DispatcherKnown, Alive, StoppedIsSilent, ExitStopsNginx, Exited
<1> QED
  BY <1>1, <1>4, <1>5, <1>6, <1>7 DEF IInv, StopInv

LEMMA StepInv ==
  ASSUME IInv, [Next]_vars
  PROVE  IInv'
<1>1. TypeOK /\ StopInv
  BY DEF IInv
<1>2. CASE UNCHANGED vars
  <2>1. TypeOK'
    BY <1>1, <1>2 DEF TypeOK, vars
  <2>2. Mild /\ stack' = stack
    BY <1>2 DEF Mild, Alive, vars
  <2> QED
    BY <1>1, <2>1, <2>2, MildStay DEF IInv
<1>3. CASE Next
  <2>1. TypeOK'
    BY <1>1, <1>3, TypeStep
  <2>2. CASE MainStep
    <3> SUFFICES StopInv'
      BY <2>1 DEF IInv
    <3>1. CASE Construct \/ Boot \/ Scan \/ MakeListener \/ StartDispatcher
      BY <1>1, <2>2, <3>1, ConstructInv, BootInv, ScanInv, MakeListenerInv, StartDispatcherInv DEF MainStep
    <3>2. CASE ReadEvent \/ PutEvent \/ Unlisten
      BY <1>1, <2>2, <3>2, ReadEventInv, PutEventInv, UnlistenInv DEF MainStep
    <3>3. CASE Check \/ CancelTimers \/ Poison \/ Join \/ Forget
      BY <1>1, <2>2, <3>3, CheckInv, CancelTimersInv, PoisonInv, JoinInv, ForgetInv DEF MainStep
    <3>4. CASE Shutdown \/ StopRenewal \/ StopNginx \/ Finish \/ Exit
      BY <1>1, <2>2, <3>4, ShutdownInv, StopRenewalInv, StopNginxInv, FinishInv, ExitInv DEF MainStep
    <3>5. CASE SysExit \/ CancelRaises \/ Reload \/ PutRescan \/ RescanHere \/ ThrottleHere
      BY <1>1, <2>2, <3>5, SysExitInv, CancelRaisesInv, ReloadInv, PutRescanInv, RescanHereInv DEF MainStep
    <3> QED
      BY <2>2, <3>1, <3>2, <3>3, <3>4, <3>5 DEF MainStep
  <2>3. CASE stack # <<>> /\ Signal
    BY <1>1, <2>1, <2>3, SignalInv DEF IInv
  <2>4. CASE \/ \E client \in Clients : StreamEnds(client)
             \/ ListenerPuts \/ Dispatch \/ Hang \/ TimerStep \/ Renewed
    BY <1>1, <2>1, <2>4, ThreadsInv DEF IInv
  <2> QED
    BY <1>3, <2>2, <2>3, <2>4 DEF Next
<1> QED
  BY <1>2, <1>3

\* The invariant holds of the specification.
LEMMA SpecInv == Spec => []IInv
<1>1. Init => IInv
  BY InitInv
<1>2. IInv /\ [Next]_vars => IInv'
  BY StepInv
<1> QED
  BY <1>1, <1>2, PTL DEF Spec

\* However signals interrupt the start, the run, one another's cleanup and the
\* last stop, a process that had a server does not end without stopping nginx,
\* unless a handler's error is lost or a signal met main inside a lock.
THEOREM NginxIsStopped == Spec => []ExitStopsNginx
<1>1. IInv => ExitStopsNginx
  BY DEF IInv, StopInv
<1> QED
  BY <1>1, SpecInv, PTL

\* Once nginx is stopped there is no renewal thread, and no dispatcher and no waiting
\* timer is left to start a reload, unless the dispatcher did not end in time or a
\* mishap is marked.  A reload that is running already is not counted.
THEOREM NothingReloads == Spec => []StoppedIsSilent
<1>1. IInv => StoppedIsSilent
  BY DEF IInv, StopInv
<1> QED
  BY <1>1, SpecInv, PTL
=======================================================================================
