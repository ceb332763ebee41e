------------------------------ MODULE Shutdown ------------------------------
(***************************************************************************)
(* The end of the server: SIGINT or SIGTERM interrupts a thread, and the   *)
(* handler (main.cc) calls exit(), which destroys the static singletons in *)
(* that thread, on top of whatever it was doing.  ~SerialPort disconnects, *)
(* which removes and deletes the port's connection; ~DataProxy joins the   *)
(* worker.  Both need mutexes, which the interrupted thread may hold.      *)
(*                                                                         *)
(* The loop thread takes one mutex at a time: the manager's, the proxy's   *)
(* or that of a txbuf_; one txbuf_ stands for all.  The worker holds the   *)
(* proxy's over a round and takes the txbuf_'s inside.  The IOLoop object  *)
(* outlives exit(): the shared_ptr main() calls start() through holds it.  *)
(***************************************************************************)

CONSTANTS
  Receivers,  \* threads the kernel may interrupt
  Firsts      \* singletons that may be the first to be destroyed

Thread == {"loop", "worker"}
Mutex == {"manager", "proxy", "txbuf"}
Singleton == {"SerialPort", "DataProxy"}

\* The destructors of different files run in the order the linker chose.
ASSUME ReceiversAssumption == Receivers \subseteq Thread
ASSUME FirstsAssumption == Firsts \subseteq Singleton

VARIABLES
  owner,      \* who holds each mutex
  lpc,        \* the loop thread: in epoll_wait, or in a handler
  wpc,        \* the worker, between two of its mutex operations
  pending,    \* a buffer of the proxy is not empty
  signalled,  \* condition_ was notified while the worker waited
  quit,       \* quit_
  handler,    \* the thread that runs sig_handler
  xpc,        \* ... and where it is in exit()
  first,      \* the singleton that is destroyed first
  port,       \* the SerialPortConnection exists
  gone,       \* the singletons destroyed
  outcome     \* of the process

locks == <<owner, lpc, wpc>>
proxy == <<pending, signalled, quit>>
exit == <<handler, xpc, first, port, gone>>
vars == <<owner, lpc, wpc, pending, signalled, quit, handler, xpc, first, port, gone, outcome>>

Free(m) == owner[m] = "none"
Runs(t) == outcome = "running" /\ handler # t
Notified == signalled \/ wpc = "wait"

\* A call on a singleton: freed memory may answer.
Calls(singletons) == outcome' = IF singletons \intersect gone = {} THEN outcome ELSE "undefined"

-----------------------------------------------------------------------------
(* The loop thread.                                                        *)

HandleEvent ==
  /\ Runs("loop")
  /\ lpc = "poll"
  /\ lpc' = "handle"
  /\ Calls({"SerialPort"})
  /\ UNCHANGED <<owner, wpc, proxy, exit>>

\* find, append, remove; transfer and the registration; a CharBuf operation.
\* A transfer fills a buffer and notifies under the lock.
LoopLock(m) ==
  /\ Runs("loop")
  /\ lpc = "handle" /\ \A n \in Mutex : owner[n] # "loop"
  /\ Free(m)
  /\ owner' = [owner EXCEPT ![m] = "loop"]
  /\ \/ UNCHANGED <<pending, signalled>>
     \/ m = "proxy" /\ pending' = TRUE /\ signalled' = Notified
  /\ Calls(IF m = "proxy" THEN {"DataProxy"} ELSE {})
  /\ UNCHANGED <<lpc, wpc, quit, exit>>

LoopUnlock ==
  /\ Runs("loop")
  /\ \E m \in Mutex : owner[m] = "loop" /\ owner' = [owner EXCEPT ![m] = "none"]
  /\ UNCHANGED <<lpc, wpc, proxy, exit, outcome>>

HandlerDone ==
  /\ Runs("loop")
  /\ lpc = "handle" /\ \A m \in Mutex : owner[m] # "loop"
  /\ lpc' = "poll"
  /\ UNCHANGED <<owner, wpc, proxy, exit, outcome>>

-----------------------------------------------------------------------------
(* The worker.                                                             *)

\* Mutant of Test: quit_ is looked at before the buffers.
Test_QuitFirst ==
  \/ quit /\ wpc' = "exited" /\ UNCHANGED <<owner, signalled>>
  \/ ~quit /\ pending /\ wpc' = "round" /\ owner' = [owner EXCEPT !["proxy"] = "worker"]
     /\ UNCHANGED signalled
  \/ ~quit /\ ~pending /\ wpc' = "wait" /\ signalled' = FALSE /\ UNCHANGED owner

\* What the worker does with the lock: a round, the end, or wait() without it.
Test ==
  \/ pending /\ wpc' = "round" /\ owner' = [owner EXCEPT !["proxy"] = "worker"]
     /\ UNCHANGED signalled
  \/ ~pending /\ quit /\ wpc' = "exited" /\ UNCHANGED <<owner, signalled>>
  \/ ~pending /\ ~quit /\ wpc' = "wait" /\ signalled' = FALSE /\ UNCHANGED owner

Acquire ==
  /\ Runs("worker")
  /\ wpc = "lock" /\ Free("proxy")
  /\ Test
  /\ Calls({"DataProxy"})
  /\ UNCHANGED <<lpc, pending, quit, exit>>

Wake ==
  /\ Runs("worker")
  /\ wpc = "wait" /\ signalled
  /\ wpc' = "lock"
  /\ Calls({"DataProxy"})
  /\ UNCHANGED <<owner, lpc, proxy, exit>>

\* received(): write_txbuf appends under the mutex of the txbuf_.
Append ==
  /\ Runs("worker")
  /\ wpc = "round" /\ Free("txbuf")
  /\ owner' = [owner EXCEPT !["txbuf"] = "worker"]
  /\ wpc' = "append"
  /\ UNCHANGED <<lpc, proxy, exit, outcome>>

\* Mutant of Appended: the mutex is not released.
Appended_KeepsLock ==
  /\ Runs("worker")
  /\ wpc = "append"
  /\ wpc' = "cleared"
  /\ UNCHANGED <<owner, lpc, proxy, exit, outcome>>

Appended ==
  /\ Runs("worker")
  /\ wpc = "append"
  /\ owner' = [owner EXCEPT !["txbuf"] = "none"]
  /\ wpc' = "cleared"
  /\ UNCHANGED <<lpc, proxy, exit, outcome>>

\* The buffers are cleared, quit_ is tested, the guard goes out of scope.
EndRound ==
  /\ Runs("worker")
  /\ wpc = "cleared"
  /\ pending' = FALSE
  /\ owner' = [owner EXCEPT !["proxy"] = "none"]
  /\ wpc' = IF quit THEN "exited" ELSE "lock"
  /\ Calls({"DataProxy"})
  /\ UNCHANGED <<lpc, signalled, quit, exit>>

-----------------------------------------------------------------------------
(* sig_handler and exit().                                                 *)

Signal(t) ==
  /\ outcome = "running" /\ handler = "none"
  /\ t \in Receivers
  /\ t = "worker" => wpc # "exited"
  /\ handler' = t
  /\ UNCHANGED <<locks, proxy, xpc, first, port, gone, outcome>>

Exiting == outcome = "running" /\ handler # "none"

\* The singleton whose destructor runs.
Turn == IF gone = {} THEN first ELSE CHOOSE s \in Singleton : s \notin gone

\* The next destructor, or the end.
NextDestructor ==
  /\ Exiting
  /\ xpc = "next"
  /\ \/ gone = Singleton /\ outcome' = "down" /\ UNCHANGED xpc
     \/ /\ gone # Singleton
        /\ xpc' = IF Turn = "SerialPort" THEN "callback" ELSE "quit"
        /\ UNCHANGED outcome
  /\ UNCHANGED <<locks, proxy, handler, first, port, gone>>

Destroyed ==
  /\ gone' = gone \union {Turn}
  /\ xpc' = "next"

\* ~SerialPort: disconnect, with OnSerialPortConnectionChanged.
RemovePort ==
  /\ Exiting
  /\ xpc = "callback"
  /\ \/ ~port /\ Destroyed
     \/ port /\ Free("manager") /\ xpc' = "delete" /\ UNCHANGED gone
  /\ UNCHANGED <<locks, proxy, handler, first, port, outcome>>

\* ~SerialPortConnection: DeregisterClient, on a proxy that may be gone.
DeletePort ==
  /\ Exiting
  /\ xpc = "delete" /\ Free("proxy")
  /\ port' = FALSE
  /\ Destroyed
  /\ Calls({"DataProxy"})
  /\ UNCHANGED <<locks, proxy, handler, first>>

\* ~DataProxy.
SetQuit ==
  /\ Exiting
  /\ xpc = "quit" /\ Free("proxy")
  /\ quit' = TRUE
  /\ xpc' = "notify"
  /\ UNCHANGED <<locks, pending, signalled, handler, first, port, gone, outcome>>

\* Mutant of NotifyQuit: notify_one is forgotten.
NotifyQuit_Never ==
  /\ Exiting
  /\ xpc = "notify"
  /\ xpc' = "join"
  /\ UNCHANGED <<locks, proxy, handler, first, port, gone, outcome>>

NotifyQuit ==
  /\ Exiting
  /\ xpc = "notify"
  /\ signalled' = Notified
  /\ xpc' = "join"
  /\ UNCHANGED <<locks, pending, quit, handler, first, port, gone, outcome>>

\* Mutant of Join: the thread is detached instead.
Join_Detach ==
  /\ Exiting
  /\ xpc = "join"
  /\ Destroyed
  /\ UNCHANGED <<locks, proxy, handler, first, port, outcome>>

\* join() of the worker by the worker throws, out of a destructor.
Join ==
  /\ Exiting
  /\ xpc = "join"
  /\ \/ handler = "loop" /\ wpc = "exited" /\ Destroyed /\ UNCHANGED outcome
     \/ handler = "worker" /\ outcome' = "aborted" /\ UNCHANGED <<gone, xpc>>
  /\ UNCHANGED <<locks, proxy, handler, first, port>>

-----------------------------------------------------------------------------
Init ==
  /\ owner = [m \in Mutex |-> "none"]
  /\ lpc = "poll" /\ wpc = "lock"
  /\ pending = FALSE /\ signalled = FALSE /\ quit = FALSE
  /\ handler = "none" /\ xpc = "next"
  /\ first \in Firsts
  /\ port \in BOOLEAN /\ gone = {} /\ outcome = "running"

Loop == HandleEvent \/ (\E m \in Mutex : LoopLock(m)) \/ LoopUnlock \/ HandlerDone
Worker == Acquire \/ Wake \/ Append \/ Appended \/ EndRound
Exit == NextDestructor \/ RemovePort \/ DeletePort \/ SetQuit \/ NotifyQuit \/ Join

Next == Loop \/ Worker \/ Exit \/ \E t \in Thread : Signal(t)

Spec == Init /\ [][Next]_vars

\* The worker runs, and so does exit(); nothing is asked of the loop thread.
FairSpec == Spec /\ WF_vars(Worker) /\ WF_vars(Exit)

-----------------------------------------------------------------------------
(* Properties.                                                             *)

\* The worker holds what its place says.
TypeOK ==
  /\ owner \in [Mutex -> Thread \union {"none"}]
  /\ lpc \in {"poll", "handle"}
  /\ wpc \in {"lock", "wait", "round", "append", "cleared", "exited"}
  /\ owner["proxy"] = "worker" <=> wpc \in {"round", "append", "cleared"}
  /\ owner["txbuf"] = "worker" <=> wpc = "append"
  /\ pending \in BOOLEAN /\ signalled \in BOOLEAN /\ quit \in BOOLEAN
  /\ handler \in Thread \union {"none"}
  /\ xpc \in {"next", "callback", "delete", "quit", "notify", "join"}
  /\ first \in Singleton /\ port \in BOOLEAN /\ gone \subseteq Singleton
  /\ outcome \in {"running", "down", "aborted", "undefined"}

\* The interrupted thread holds a mutex, which it will never give back.
CaughtHolding == \E m \in Mutex : owner[m] = handler

\* A signal to the loop thread ends the process, whatever the worker is doing,
\* unless it came in one of the loop thread's critical sections: no other wait
\* of exit() is for ever.
ExitEnds == handler = "loop" ~> (outcome # "running" \/ CaughtHolding)

\* When exit() got through, the proxy had handed out all it was given.
ExitDrains == outcome = "down" => ~pending

\* Freed memory is used only if the handler ran on the worker, with the loop
\* thread still going, or if the proxy went before the port it serves.
UndefinedHasCause ==
  outcome = "undefined" => handler = "worker" \/ first = "DataProxy"
=============================================================================
