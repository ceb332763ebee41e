-------------------------- MODULE Shutdown_proofs --------------------------
(***************************************************************************)
(* The invariants of Shutdown, for every set of threads the kernel may     *)
(* interrupt and every order of destruction the linker may choose.         *)
(***************************************************************************)
EXTENDS Shutdown, TLAPS

-----------------------------------------------------------------------------
(* The invariant.                                                          *)

\* Only the handler runs destructors.
ExitNeedsHandler ==
  /\ handler = "none" => xpc = "next" /\ gone = {} /\ outcome = "running"
  /\ quit => handler # "none"

\* The first singleton is the first to go, and a destructor runs in its turn.
TurnInv ==
  /\ gone # {} => first \in gone
  /\ xpc \in {"callback", "delete"} => "SerialPort" \notin gone /\ (gone = {} => first = "SerialPort")
  /\ xpc \in {"quit", "notify", "join"} => "DataProxy" \notin gone /\ (gone = {} => first = "DataProxy")
  /\ outcome = "down" => gone = Singleton

\* The worker exits with empty buffers and nobody left to fill them, and the
\* proxy is gone only behind the worker.
WorkerExit ==
  /\ wpc = "exited" => quit /\ ~pending /\ handler = "loop"
  /\ "DataProxy" \in gone => wpc = "exited"

IInv == TypeOK /\ ExitNeedsHandler /\ TurnInv /\ WorkerExit /\ UndefinedHasCause

LEMMA InitIInv == Init => IInv
<1> SUFFICES ASSUME Init PROVE IInv
  OBVIOUS
<1>1. TypeOK
  BY FirstsAssumption DEF Init, TypeOK, Thread, Mutex, Singleton
<1>2. ExitNeedsHandler /\ TurnInv /\ WorkerExit /\ UndefinedHasCause
  BY DEF Init, ExitNeedsHandler, TurnInv, WorkerExit, UndefinedHasCause
<1> QED BY <1>1, <1>2 DEF IInv

\* The singleton whose turn it is has not been destroyed, and it is the one
\* whose destructor runs.
LEMMA TurnOfExit ==
  ASSUME IInv
  PROVE  /\ gone # Singleton => Turn \in Singleton /\ Turn \notin gone /\ (gone = {} => Turn = first)
         /\ xpc \in {"callback", "delete"} => Turn = "SerialPort"
         /\ xpc \in {"quit", "notify", "join"} => Turn = "DataProxy"
<1>1. first \in Singleton /\ gone \subseteq Singleton
  BY DEF IInv, TypeOK
<1>2. ASSUME gone # Singleton
      PROVE  Turn \in Singleton /\ Turn \notin gone /\ (gone = {} => Turn = first)
  <2>1. \E s \in Singleton : s \notin gone
    BY <1>1, <1>2
  <2> QED BY <1>1, <2>1 DEF Turn
<1>3. xpc \in {"callback", "delete"} => Turn = "SerialPort"
  BY <1>1, <1>2 DEF IInv, TurnInv, Singleton
<1>4. xpc \in {"quit", "notify", "join"} => Turn = "DataProxy"
  BY <1>1, <1>2 DEF IInv, TurnInv, Singleton
<1> QED BY <1>2, <1>3, <1>4

\* The outcome of a call on singletons.
LEMMA CallsOutcome ==
  ASSUME TypeOK, NEW S, Calls(S)
  PROVE  /\ outcome' \in {"running", "down", "aborted", "undefined"}
         /\ outcome' = outcome \/ (outcome' = "undefined" /\ S \intersect gone # {})
  BY DEF TypeOK, Calls

-----------------------------------------------------------------------------
(* The steps.                                                              *)

\* A step of the loop thread: with the handler on the worker nothing it does
\* is promised to be defined, and no worker exits.
LEMMA LoopKeeps ==
  ASSUME IInv, Loop
  PROVE  IInv'
<1> DEFINE Effect ==
       /\ Runs("loop") /\ outcome = "running" /\ handler # "loop"
       /\ UNCHANGED <<wpc, quit, handler, xpc, first, port, gone>>
       /\ lpc' \in {"poll", "handle"}
       /\ owner' \in [Mutex -> Thread \union {"none"}]
       /\ \A m \in Mutex : owner'[m] = "worker" <=> owner[m] = "worker"
       /\ pending' \in BOOLEAN /\ signalled' \in BOOLEAN
       /\ \/ outcome' = outcome
          \/ outcome' = "undefined" /\ gone # {}
<1>1. Effect
  <2>1. CASE HandleEvent
    BY <2>1, CallsOutcome DEF HandleEvent, IInv, TypeOK, Runs, proxy, exit
  <2>2. ASSUME NEW m \in Mutex, LoopLock(m) PROVE Effect
    BY <2>2, CallsOutcome DEF LoopLock, IInv, TypeOK, Runs, proxy, exit, Free, Thread, Notified
  <2>3. CASE LoopUnlock
    BY <2>3 DEF LoopUnlock, IInv, TypeOK, Runs, proxy, exit, Thread
  <2>4. CASE HandlerDone
    BY <2>4 DEF HandlerDone, IInv, TypeOK, Runs, proxy, exit
  <2> QED BY <2>1, <2>2, <2>3, <2>4 DEF Loop
<1>2. wpc # "exited" /\ "DataProxy" \notin gone
  BY <1>1 DEF IInv, WorkerExit
<1>3. TypeOK'
  BY <1>1 DEF IInv, TypeOK, Mutex
<1>4. ExitNeedsHandler' /\ TurnInv' /\ WorkerExit' /\ UndefinedHasCause'
  BY <1>1, <1>2 DEF IInv, TypeOK, ExitNeedsHandler, TurnInv, WorkerExit, UndefinedHasCause, Thread
<1> QED BY <1>3, <1>4 DEF IInv

\* A step of the worker: the proxy is still there.
LEMMA WorkerKeeps ==
  ASSUME IInv, Worker
  PROVE  IInv'
<1>1. /\ outcome = "running" /\ handler # "worker" /\ wpc # "exited"
      /\ UNCHANGED <<lpc, quit, handler, xpc, first, port, gone>>
  BY DEF Worker, Acquire, Test, Wake, Append, Appended, EndRound, Runs, proxy, exit
<1>2. "DataProxy" \notin gone
  BY <1>1 DEF IInv, WorkerExit
<1>3. outcome' = outcome
  BY <1>2, CallsOutcome DEF Worker, Acquire, Wake, Append, Appended, EndRound, Calls, IInv
<1>4. /\ owner' \in [Mutex -> Thread \union {"none"}]
      /\ wpc' \in {"lock", "wait", "round", "append", "cleared", "exited"}
      /\ owner'["proxy"] = "worker" <=> wpc' \in {"round", "append", "cleared"}
      /\ owner'["txbuf"] = "worker" <=> wpc' = "append"
      /\ pending' \in BOOLEAN /\ signalled' \in BOOLEAN
      /\ wpc' = "exited" => quit /\ ~pending'
  <2>1. CASE Acquire
    BY <2>1 DEF Acquire, Test, IInv, TypeOK, Thread, Mutex, Free
  <2>2. CASE Wake
    BY <2>2 DEF Wake, IInv, TypeOK, proxy
  <2>3. CASE Append
    BY <2>3 DEF Append, IInv, TypeOK, Thread, Mutex, proxy
  <2>4. CASE Appended
    BY <2>4 DEF Appended, IInv, TypeOK, Thread, Mutex, proxy
  <2>5. CASE EndRound
    BY <2>5 DEF EndRound, IInv, TypeOK, Thread, Mutex
  <2> QED BY <2>1, <2>2, <2>3, <2>4, <2>5 DEF Worker
<1>5. TypeOK'
  BY <1>1, <1>3, <1>4 DEF IInv, TypeOK
<1>6. ExitNeedsHandler' /\ TurnInv' /\ WorkerExit' /\ UndefinedHasCause'
  BY <1>1, <1>2, <1>3, <1>4
  DEF IInv, TypeOK, ExitNeedsHandler, TurnInv, WorkerExit, UndefinedHasCause, Thread
<1> QED BY <1>5, <1>6 DEF IInv

\* A step of exit(): the destructors run one after the other, ~DataProxy ends
\* only behind the worker, and the one call on a singleton that may be gone is
\* the port's on the proxy.
LEMMA ExitKeeps ==
  ASSUME IInv, Exit
  PROVE  IInv'
<1> USE DEF IInv, Exiting, locks, proxy
<1>1. outcome = "running" /\ handler # "none" /\ handler \in Thread
  BY DEF Exit, NextDestructor, RemovePort, DeletePort, SetQuit, NotifyQuit, Join, TypeOK
<1>2. CASE NextDestructor
  BY <1>1, <1>2, TurnOfExit
  DEF NextDestructor, TypeOK, ExitNeedsHandler, TurnInv, WorkerExit, UndefinedHasCause, Singleton
<1>3. CASE RemovePort
  <2>1. CASE ~port /\ Destroyed
    <3>1. /\ xpc = "callback" /\ gone' = gone \union {"SerialPort"} /\ xpc' = "next"
          /\ UNCHANGED <<owner, lpc, wpc, pending, signalled, quit, handler, first, port, outcome>>
      BY <1>3, <2>1, TurnOfExit DEF RemovePort, Destroyed
    <3>2. TypeOK'
      BY <3>1 DEF TypeOK, Singleton
    <3>3. ExitNeedsHandler' /\ WorkerExit' /\ UndefinedHasCause'
      BY <1>1, <3>1 DEF ExitNeedsHandler, WorkerExit, UndefinedHasCause
    <3>4. TurnInv'
      BY <1>1, <3>1 DEF TurnInv
    <3> QED BY <3>2, <3>3, <3>4
  <2>2. CASE port /\ xpc' = "delete" /\ UNCHANGED gone
    BY <1>1, <1>3, <2>2, TurnOfExit
    DEF RemovePort, TypeOK, ExitNeedsHandler, TurnInv, WorkerExit, UndefinedHasCause, Singleton
  <2> QED BY <1>3, <2>1, <2>2 DEF RemovePort
<1>4. CASE DeletePort
  <2>1. /\ xpc = "delete" /\ gone' = gone \union {"SerialPort"} /\ xpc' = "next" /\ port' = FALSE
        /\ UNCHANGED <<owner, lpc, wpc, pending, signalled, quit, handler, first>>
    BY <1>4, TurnOfExit DEF DeletePort, Destroyed
  <2>2. /\ outcome' \in {"running", "undefined"}
        /\ outcome' = "undefined" => first = "DataProxy"
    BY <1>1, <1>4, CallsOutcome DEF DeletePort, TurnInv, TypeOK, Singleton
  <2>3. TypeOK'
    BY <2>1, <2>2 DEF TypeOK, Singleton
  <2>4. ExitNeedsHandler' /\ TurnInv' /\ WorkerExit' /\ UndefinedHasCause'
    BY <1>1, <2>1, <2>2 DEF ExitNeedsHandler, TurnInv, WorkerExit, UndefinedHasCause, TypeOK, Singleton
  <2> QED BY <2>3, <2>4
<1>5. CASE SetQuit
  BY <1>1, <1>5
  DEF SetQuit, TypeOK, ExitNeedsHandler, TurnInv, WorkerExit, UndefinedHasCause, Singleton
<1>6. CASE NotifyQuit
  BY <1>1, <1>6
  DEF NotifyQuit, Notified, TypeOK, ExitNeedsHandler, TurnInv, WorkerExit, UndefinedHasCause, Singleton
<1>7. CASE Join
  BY <1>1, <1>7, TurnOfExit
  DEF Join, Destroyed, TypeOK, ExitNeedsHandler, TurnInv, WorkerExit, UndefinedHasCause, Singleton
<1> QED BY <1>2, <1>3, <1>4, <1>5, <1>6, <1>7 DEF Exit

LEMMA SignalKeeps ==
  ASSUME IInv, NEW t \in Thread, Signal(t)
  PROVE  IInv'
  BY DEF IInv, Signal, TypeOK, ExitNeedsHandler, TurnInv, WorkerExit, UndefinedHasCause,
         locks, proxy, Thread

LEMMA NextIInv == IInv /\ [Next]_vars => IInv'
<1> SUFFICES ASSUME IInv, [Next]_vars PROVE IInv'
  OBVIOUS
<1>1. CASE UNCHANGED vars
  BY <1>1 DEF vars, IInv, TypeOK, ExitNeedsHandler, TurnInv, WorkerExit, UndefinedHasCause
<1> QED BY <1>1, LoopKeeps, WorkerKeeps, ExitKeeps, SignalKeeps DEF Next

-----------------------------------------------------------------------------
(* The theorems.                                                           *)

THEOREM Invariance == Spec => []IInv
  BY InitIInv, NextIInv, PTL DEF Spec

\* The state of the server's end is what its types say; the worker holds the
\* mutexes its place asks for.
THEOREM TypeCorrect == Spec => []TypeOK
<1>1. IInv => TypeOK
  BY DEF IInv
<1> QED BY <1>1, Invariance, PTL

\* main.cc:74: whoever is interrupted, and in either order of destruction, freed
\* memory is used only if the handler ran on the worker or the proxy went first.
THEOREM UndefinedCorrect == Spec => []UndefinedHasCause
<1>1. IInv => UndefinedHasCause
  BY DEF IInv
<1> QED BY <1>1, Invariance, PTL

\* dataproxy.cc:19-45: an exit() that got through left nothing in the proxy.
THEOREM ExitCorrect == Spec => []ExitDrains
<1>1. IInv => ExitDrains
  BY DEF IInv, TurnInv, WorkerExit, ExitDrains, Singleton
<1> QED BY <1>1, Invariance, PTL

-----------------------------------------------------------------------------
(* The safety half of ExitEnds.                                            *)

\* ~DataProxy's wake-up is not lost, and the worker keeps off the manager.
WakeUpDue ==
  /\ xpc \in {"notify", "join"} => quit
  /\ quit /\ wpc = "wait" /\ ~signalled => xpc = "notify"
  /\ owner["manager"] # "worker"

\* When the signal came outside the loop thread's critical sections, nothing
\* exit() can come to wait for is for ever: the manager's mutex is free, and the
\* worker, which may hold the others, can go on wherever it is.
ExitWaitsForMovers ==
  handler = "loop" /\ ~CaughtHolding =>
    /\ Free("manager")
    /\ wpc = "lock" => Free("proxy")
    /\ wpc = "round" => Free("txbuf")
    /\ xpc = "join" /\ wpc = "wait" => signalled

LEMMA NextWakeUpDue == IInv /\ WakeUpDue /\ [Next]_vars => WakeUpDue'
<1> SUFFICES ASSUME IInv, WakeUpDue, [Next]_vars PROVE WakeUpDue'
  OBVIOUS
<1>1. CASE Loop
  <2>1. ASSUME NEW m \in Mutex, LoopLock(m) PROVE WakeUpDue'
    <3>1. /\ wpc' = wpc /\ quit' = quit /\ xpc' = xpc
          /\ signalled' = signalled \/ signalled' = (signalled \/ wpc = "wait")
          /\ owner' = [owner EXCEPT ![m] = "loop"]
      BY <2>1 DEF LoopLock, exit, Notified
    <3>2. owner'["manager"] # "worker"
      BY <3>1 DEF WakeUpDue, IInv, TypeOK, Mutex
    <3>3. wpc = "wait" /\ signalled => signalled'
      BY <3>1, Zenon
    <3> QED BY <3>1, <3>2, <3>3, Zenon DEF WakeUpDue
  <2>2. CASE LoopUnlock
    <3>1. wpc' = wpc /\ quit' = quit /\ xpc' = xpc /\ signalled' = signalled
      BY <2>2 DEF LoopUnlock, proxy, exit
    <3>2. owner'["manager"] # "worker"
      BY <2>2 DEF LoopUnlock, WakeUpDue, IInv, TypeOK, Mutex
    <3> QED BY <3>1, <3>2 DEF WakeUpDue
  <2>3. CASE HandleEvent \/ HandlerDone
    <3>1. wpc' = wpc /\ quit' = quit /\ xpc' = xpc /\ signalled' = signalled /\ owner' = owner
      BY <2>3 DEF HandleEvent, HandlerDone, proxy, exit
    <3> QED BY <3>1 DEF WakeUpDue
  <2> QED BY <1>1, <2>1, <2>2, <2>3 DEF Loop
<1>2. CASE Worker
  <2>1. xpc' = xpc /\ quit' = quit
    BY <1>2 DEF Worker, Acquire, Wake, Append, Appended, EndRound, proxy, exit
  <2>2. wpc' = "wait" => ~quit
    BY <1>2 DEF Worker, Acquire, Test, Wake, Append, Appended, EndRound
  <2>3. owner'["manager"] = owner["manager"]
    BY <1>2 DEF Worker, Acquire, Test, Wake, Append, Appended, EndRound, IInv, TypeOK, Mutex
  <2> QED BY <2>1, <2>2, <2>3 DEF WakeUpDue
<1>3. CASE Exit
  <2>1. owner' = owner /\ wpc' = wpc
    BY <1>3 DEF Exit, NextDestructor, RemovePort, DeletePort, SetQuit, NotifyQuit, Join, locks
  <2>2. CASE SetQuit
    BY <2>1, <2>2 DEF SetQuit, WakeUpDue
  <2>3. CASE NotifyQuit
    BY <2>1, <2>3 DEF NotifyQuit, Notified, WakeUpDue
  <2>4. CASE NextDestructor \/ RemovePort \/ DeletePort \/ Join
    <3>1. quit' = quit /\ signalled' = signalled
      BY <2>4 DEF NextDestructor, RemovePort, DeletePort, Join, proxy
    <3>2. xpc # "notify" /\ (xpc' \in {"notify", "join"} => xpc = "join")
      BY <2>4 DEF NextDestructor, RemovePort, DeletePort, Join, Destroyed
    <3> QED BY <2>1, <3>1, <3>2 DEF WakeUpDue
  <2> QED BY <1>3, <2>2, <2>3, <2>4 DEF Exit
<1>4. ASSUME NEW t \in Thread, Signal(t) PROVE WakeUpDue'
  <2>1. /\ wpc' = wpc /\ quit' = quit /\ xpc' = xpc /\ signalled' = signalled
        /\ owner' = owner
    BY <1>4 DEF Signal, locks, proxy
  <2> QED BY <2>1 DEF WakeUpDue
<1>5. CASE UNCHANGED vars
  <2>1. /\ wpc' = wpc /\ quit' = quit /\ xpc' = xpc /\ signalled' = signalled
        /\ owner' = owner
    BY <1>5 DEF vars
  <2> QED BY <2>1 DEF WakeUpDue
<1> QED BY <1>1, <1>2, <1>3, <1>4, <1>5 DEF Next

\* main.cc:74, dataproxy.cc:19-45: once the handler runs on the loop thread,
\* which held no mutex, neither the mutexes nor the join of the worker can wait
\* in a circle, and the worker is not left asleep.
THEOREM NoExitDeadlock == Spec => []ExitWaitsForMovers
<1>1. Init => WakeUpDue
  BY DEF Init, WakeUpDue, Mutex
<1>2. ASSUME IInv, WakeUpDue PROVE ExitWaitsForMovers
  <2> SUFFICES ASSUME handler = "loop", ~CaughtHolding
               PROVE  /\ Free("manager")
                      /\ wpc = "lock" => Free("proxy")
                      /\ wpc = "round" => Free("txbuf")
                      /\ xpc = "join" /\ wpc = "wait" => signalled
    BY DEF ExitWaitsForMovers
  <2>1. \A m \in Mutex : owner[m] = "none" \/ owner[m] = "worker"
    BY <1>2 DEF CaughtHolding, IInv, TypeOK, Thread
  <2>2. /\ owner["manager"] # "worker"
        /\ owner["proxy"] = "worker" <=> wpc \in {"round", "append", "cleared"}
        /\ owner["txbuf"] = "worker" <=> wpc = "append"
    BY <1>2 DEF WakeUpDue, IInv, TypeOK
  <2>3. Free("manager") /\ (wpc = "lock" => Free("proxy")) /\ (wpc = "round" => Free("txbuf"))
    BY <2>1, <2>2 DEF Free, Mutex
  <2>4. xpc = "join" /\ wpc = "wait" => signalled
    BY <1>2 DEF WakeUpDue
  <2> QED BY <2>3, <2>4
<1> QED BY <1>1, <1>2, NextWakeUpDue, Invariance, PTL DEF Spec
=============================================================================
