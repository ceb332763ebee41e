----------------------------- MODULE DataProxy ------------------------------
(***************************************************************************)
(* DataProxy (dataproxy.cc): the worker thread that carries bytes from the *)
(* serial port to every socket client and from every client to the port,   *)
(* and the calls the loop thread makes on it: transfer, the registration   *)
(* of a DataProxy::Client in its constructor and destructor, and           *)
(* ~DataProxy.                                                             *)
(*                                                                         *)
(* The loop thread's critical sections do one thing each and are atomic    *)
(* steps; the worker keeps mutex_ over a whole round and is interleaved    *)
(* with the loop thread at every received() call.                          *)
(***************************************************************************)
EXTENDS Streams

CONSTANTS
  Clients,   \* ClientConnection objects
  Admins,    \* AdminConnection objects: registered, but received() ignores the data
  Serials,   \* SerialPortConnection objects
  MaxBytes,  \* bound on the bytes given to the proxy in one direction
  MaxChunk   \* bound on the bytes of one transfer

ASSUME ObjectsAssumption ==
  /\ Clients \intersect Admins = {}
  /\ Clients \intersect Serials = {}
  /\ Admins \intersect Serials = {}
ASSUME BoundsAssumption == MaxBytes \in Nat /\ MaxChunk \in Nat \ {0}

VARIABLES
  buffer,     \* buffer_serial_ and buffer_sock_
  sent,       \* bytes ever appended to each (history)
  state,      \* life of each object: it is registered unless it is "none"
  got,        \* bytes received() appended to each object's txbuf_ since it registered
  base,       \* bytes already handed out in its direction when it registered (history)
  wpc,        \* where the worker is
  todo,       \* objects the worker's loop has not called yet
  signalled,  \* condition_ was notified while the worker waited on it
  quit,       \* quit_
  main,       \* what the loop thread is doing
  crashed     \* std::terminate was called

data == <<buffer, sent, got, base>>
worker == <<wpc, todo, signalled>>
vars == <<buffer, sent, state, got, base, wpc, todo, signalled, quit, main, crashed>>

Object == Clients \union Admins \union Serials

\* "serial" is what the port sent, for client_sock_; "sock" is what the clients
\* sent, for client_serial_.
Dir == {"serial", "sock"}

\* client_sock_ and client_serial_, by the buffer that is for them.
Audience(d) == IF d = "serial" THEN Clients \union Admins ELSE Serials
DirOf(c) == IF c \in Serials THEN "sock" ELSE "serial"
Members(d) == {c \in Audience(d) : state[c] # "none"}

\* The buffer a client feeds: Client::transfer tests type_.
Feeds(c) == IF c \in Serials THEN "serial" ELSE "sock"

\* Bytes of a direction whose round is over.
Drained(d) == sent[d] - Len(buffer[d])

\* The worker holds mutex_.
Held == wpc \in Dir
Idle == main = "run" /\ \A c \in Object : state[c] \in {"none", "live"}

-----------------------------------------------------------------------------
(* The loop thread.                                                        *)

\* Mutant of Notified: the notify_one call is forgotten.
Notified_Never == FALSE

\* notify_one wakes the worker if it waits, and is lost otherwise.
Notified == signalled \/ wpc = "wait"

\* Mutant of Transfer: the new bytes are put in front.
Transfer_Front(c) ==
  /\ Idle /\ ~Held
  /\ c \in Clients \union Serials /\ state[c] = "live"
  /\ \E n \in 1 .. MaxChunk :
       /\ sent[Feeds(c)] + n <= MaxBytes
       /\ buffer' = [buffer EXCEPT ![Feeds(c)] = Run(sent[Feeds(c)], sent[Feeds(c)] + n) \o @]
       /\ sent' = [sent EXCEPT ![Feeds(c)] = @ + n]
  /\ signalled' = Notified
  /\ UNCHANGED <<state, got, base, wpc, todo, quit, main>>

\* Mutant of Transfer: the else of Client::transfer is forgotten, so that what
\* the port sends goes into both buffers.
Transfer_BothBuffers(c) ==
  /\ Idle /\ ~Held
  /\ c \in Clients \union Serials /\ state[c] = "live"
  /\ \E n \in 1 .. MaxChunk :
       /\ sent[Feeds(c)] + n <= MaxBytes
       /\ buffer' = [d \in Dir |-> IF d = "sock" \/ d = Feeds(c)
                                     THEN buffer[d] \o Run(sent[Feeds(c)], sent[Feeds(c)] + n)
                                     ELSE buffer[d]]
       /\ sent' = [sent EXCEPT ![Feeds(c)] = @ + n]
  /\ signalled' = Notified
  /\ UNCHANGED <<state, got, base, wpc, todo, quit, main>>

\* Client::transfer, append_serial_input and append_sock_input.
Transfer(c) ==
  /\ Idle /\ ~Held
  /\ c \in Clients \union Serials /\ state[c] = "live"
  /\ \E n \in 1 .. MaxChunk :
       /\ sent[Feeds(c)] + n <= MaxBytes
       /\ buffer' = [buffer EXCEPT ![Feeds(c)] = @ \o Run(sent[Feeds(c)], sent[Feeds(c)] + n)]
       /\ sent' = [sent EXCEPT ![Feeds(c)] = @ + n]
  /\ signalled' = Notified
  /\ UNCHANGED <<state, got, base, wpc, todo, quit, main>>

\* The Client constructor: RegisterClient takes the lock.  The object's own
\* received() is reachable only once the derived constructor runs.
Register(c) ==
  /\ Idle /\ ~Held
  /\ state[c] = "none"
  /\ state' = [state EXCEPT ![c] = "ctor"]
  /\ got' = [got EXCEPT ![c] = <<>>]
  /\ base' = [base EXCEPT ![c] = Drained(DirOf(c))]
  /\ UNCHANGED <<buffer, sent, worker, quit, main>>

Constructed(c) ==
  /\ state[c] = "ctor"
  /\ state' = [state EXCEPT ![c] = "live"]
  /\ UNCHANGED <<data, worker, quit, main>>

\* ~Client: the object is a plain DataProxy::Client again, then waits for the lock.
Destroy(c) ==
  /\ Idle
  /\ state[c] = "live"
  /\ state' = [state EXCEPT ![c] = "dtor"]
  /\ UNCHANGED <<data, worker, quit, main>>

\* Mutant of Deregister: the lock_guard is forgotten.
Deregister_NoLock(c) ==
  /\ state[c] = "dtor"
  /\ state' = [state EXCEPT ![c] = "none"]
  /\ UNCHANGED <<data, worker, quit, main>>

Deregister(c) ==
  /\ state[c] = "dtor" /\ ~Held
  /\ state' = [state EXCEPT ![c] = "none"]
  /\ UNCHANGED <<data, worker, quit, main>>

\* ~DataProxy, when exit() is called from the loop thread outside the proxy.
Quit ==
  /\ Idle /\ ~Held
  /\ quit' = TRUE
  /\ main' = "notify"
  /\ UNCHANGED <<data, state, worker>>

NotifyQuit ==
  /\ main = "notify"
  /\ main' = "join"
  /\ signalled' = Notified
  /\ UNCHANGED <<data, state, wpc, todo, quit>>

Join ==
  /\ main = "join" /\ wpc = "exited"
  /\ main' = "gone"
  /\ UNCHANGED <<data, state, worker, quit>>

-----------------------------------------------------------------------------
(* The worker thread.                                                      *)

\* Whom a round of direction d calls: nobody when the buffer is empty.
Targets(d) == IF buffer[d] = <<>> THEN {} ELSE Members(d)

\* Mutant of WorkToDo: the predicate of wait looks at one buffer only.
WorkToDo_SockOnly == buffer["sock"] # <<>> \/ quit

WorkToDo == buffer["sock"] # <<>> \/ buffer["serial"] # <<>> \/ quit

\* The lock is taken and wait() evaluates its predicate.
Acquire ==
  /\ wpc = "lock"
  /\ \/ WorkToDo /\ wpc' = "sock" /\ todo' = Targets("sock") /\ UNCHANGED signalled
     \/ ~WorkToDo /\ wpc' = "wait" /\ signalled' = FALSE /\ UNCHANGED todo
  /\ UNCHANGED <<data, state, quit, main>>

Wake ==
  /\ wpc = "wait" /\ signalled
  /\ wpc' = "lock"
  /\ UNCHANGED <<data, state, todo, signalled, quit, main>>

SpuriousWake ==
  /\ wpc = "wait" /\ ~signalled
  /\ wpc' = "lock"
  /\ UNCHANGED <<data, state, todo, signalled, quit, main>>

\* One received() call.  On an object whose derived part does not exist yet or
\* any more it is a call of the pure virtual function, which terminates the process.
Receive(c) ==
  /\ Held
  /\ c \in todo
  /\ \/ /\ state[c] = "live"
        /\ todo' = todo \ {c}
        /\ got' = IF c \in Admins THEN got ELSE [got EXCEPT ![c] = @ \o buffer[wpc]]
        /\ UNCHANGED crashed
     \/ state[c] # "live" /\ crashed' = TRUE /\ UNCHANGED <<todo, got>>
  /\ UNCHANGED <<buffer, sent, base, state, wpc, signalled, quit, main>>

\* Mutants of EndRound: the buffer is not cleared; quit_ is tested between the
\* two rounds.
EndRound_KeepsBuffer ==
  /\ Held
  /\ todo = {}
  /\ \/ wpc = "sock" /\ wpc' = "serial" /\ todo' = Targets("serial")
     \/ wpc = "serial" /\ wpc' = (IF quit THEN "exited" ELSE "lock") /\ UNCHANGED todo
  /\ UNCHANGED <<buffer, sent, got, base, state, signalled, quit, main>>
EndRound_QuitBetween ==
  /\ Held
  /\ todo = {}
  /\ buffer' = [buffer EXCEPT ![wpc] = <<>>]
  /\ \/ wpc = "sock" /\ ~quit /\ wpc' = "serial" /\ todo' = Targets("serial")
     \/ (wpc = "serial" \/ quit) /\ wpc' = (IF quit THEN "exited" ELSE "lock") /\ UNCHANGED todo
  /\ UNCHANGED <<sent, got, base, state, signalled, quit, main>>

\* The loop is over: buffer_sock_.clear(), and the same for buffer_serial_.
EndRound ==
  /\ Held
  /\ todo = {}
  /\ buffer' = [buffer EXCEPT ![wpc] = <<>>]
  /\ \/ wpc = "sock" /\ wpc' = "serial" /\ todo' = Targets("serial")
     \/ wpc = "serial" /\ wpc' = (IF quit THEN "exited" ELSE "lock") /\ UNCHANGED todo
  /\ UNCHANGED <<sent, got, base, state, signalled, quit, main>>

-----------------------------------------------------------------------------
Init ==
  /\ buffer = [d \in Dir |-> <<>>]
  /\ sent = [d \in Dir |-> 0]
  /\ state = [c \in Object |-> "none"]
  /\ got = [c \in Object |-> <<>>]
  /\ base = [c \in Object |-> 0]
  /\ wpc = "lock" /\ todo = {} /\ signalled = FALSE
  /\ quit = FALSE /\ main = "run" /\ crashed = FALSE

Work == Acquire \/ Wake \/ EndRound
Housekeeping ==
  \/ \E c \in Object : Constructed(c) \/ Deregister(c)
  \/ NotifyQuit \/ Join

Next ==
  /\ ~crashed
  /\ \/ \E c \in Object : Receive(c)
     \/ /\ \/ \E c \in Object : Transfer(c) \/ Register(c) \/ Destroy(c)
           \/ Quit \/ SpuriousWake \/ Work \/ Housekeeping
        /\ UNCHANGED crashed

Spec == Init /\ [][Next]_vars

WorkerStep ==
  /\ ~crashed
  /\ \/ Work /\ UNCHANGED crashed
     \/ \E c \in Object : Receive(c)

\* Both threads run: the scheduler gives each its turn.
Fairness ==
  /\ WF_vars(WorkerStep)
  /\ WF_vars(~crashed /\ Housekeeping /\ UNCHANGED crashed)

FairSpec == Spec /\ Fairness

-----------------------------------------------------------------------------
(* Properties.                                                             *)

TypeOK ==
  /\ buffer \in [Dir -> Seq(Nat)]
  /\ sent \in [Dir -> Nat]
  /\ state \in [Object -> {"none", "ctor", "live", "dtor"}]
  /\ got \in [Object -> Seq(Nat)]
  /\ base \in [Object -> Nat]
  /\ wpc \in Dir \union {"lock", "wait", "exited"}
  /\ todo \subseteq Object
  /\ signalled \in BOOLEAN
  /\ quit \in BOOLEAN
  /\ main \in {"run", "notify", "join", "gone"}
  /\ crashed \in BOOLEAN

\* The worker never calls received() on freed memory: whatever its loop has
\* still to call is registered, although the loop thread deletes connections
\* while the loop runs.
TargetsRegistered == todo \subseteq {c \in Object : state[c] # "none"}

\* A registered client has, in its txbuf_, every byte handed out since it
\* registered, once and in order, the round in progress included when its turn
\* in that round is over.
ReceivedInOrder ==
  \A c \in Clients \union Serials :
    state[c] # "none" =>
      got[c] = Run(base[c], IF wpc = DirOf(c) /\ c \notin todo THEN sent[DirOf(c)]
                                                               ELSE Drained(DirOf(c)))

\* When the worker has exited, nothing given to the proxy before ~DataProxy is
\* left in a buffer: the last round comes before the test of quit_.
ExitDrains == wpc = "exited" => buffer = [d \in Dir |-> <<>>]

\* connection_server.h:30 says that ClientConnection has the "implementation of
\* DataProxy::Client"; the worker always reaches it.
ReceiveImplemented == ~crashed

\* A byte given to the proxy is handed out: no wake-up is lost between the two
\* threads.  (Unless the process terminates.)
NoByteStuck ==
  \A d \in Dir, n \in 1 .. MaxBytes : sent[d] >= n ~> (Drained(d) >= n \/ crashed)

\* ~DataProxy ends: join() returns.
JoinReturns == quit ~> (main = "gone" \/ crashed)

\* Each direction implements Broadcast.  A round counts as one Deliver, at the
\* moment the worker enters it with the lock: what the loop has still to hand
\* over counts as received.
Seen(c) == IF wpc = DirOf(c) /\ c \in todo THEN got[c] \o buffer[wpc] ELSE got[c]
HandedOut(d) == IF wpc = d THEN sent[d] ELSE Drained(d)
Attached(S) == {c \in S : state[c] # "none"}

ToSock == INSTANCE Broadcast WITH
  Listener <- Clients, sent <- sent["serial"], done <- HandedOut("serial"),
  attached <- Attached(Clients), got <- [c \in Clients |-> Seen(c)]
ToSerial == INSTANCE Broadcast WITH
  Listener <- Serials, sent <- sent["sock"], done <- HandedOut("sock"),
  attached <- Attached(Serials), got <- [c \in Serials |-> Seen(c)]

\* What the port sends reaches every client as Broadcast says.
SerialToSock == ToSock!Spec

\* What the clients send reaches the port as Broadcast says.
SockToSerial == ToSerial!Spec
=============================================================================
