---------------------------- MODULE ConnectionTx ----------------------------
(***************************************************************************)
(* The transmit side of one server connection: Connection::write_txbuf and *)
(* flush, the CharBuf between them, the output branch of Server::handle    *)
(* and the edge-triggered epoll registration that connects the two.        *)
(*                                                                         *)
(* Two threads meet in the buffer.  DataProxy's worker appends and asks    *)
(* for an output event; the loop thread waits for the event and writes to  *)
(* the descriptor.  flush reads the buffer's address and its length        *)
(* without CharBuf's mutex.                                                *)
(***************************************************************************)
EXTENDS Streams, FiniteSets

CONSTANTS
  MaxBytes,   \* bound on the bytes appended
  MaxChunk,   \* bound on the bytes of one append
  Capacity,   \* bytes the kernel holds for the peer
  PeerSends   \* does the other side send anything?

ASSUME SizesAssumption ==
  /\ MaxBytes \in Nat \ {0} /\ MaxChunk \in Nat \ {0} /\ Capacity \in Nat \ {0}
  /\ PeerSends \in BOOLEAN

VARIABLES
  admin,     \* an AdminConnection (answers itself) or one the worker writes to
  txbuf,     \* CharBuf: the bytes not yet written
  appended,  \* bytes ever appended (history)
  wire,      \* bytes handed to the kernel; 0 is a byte of freed memory (history)
  consumed,  \* how many of them the peer has taken
  indata,    \* there is something to read
  ready,     \* the registration is on epoll's ready list
  nospace,   \* the kernel will report room on the socket
  wpc,       \* the worker: "idle", or "mod" between append and modifyHandler
  lpc,       \* the loop thread
  arg,       \* flush's arguments of write: data() taken, length(), buffer moved since
  swallowed, \* an event that said "writable" was handled as input (history)
  quit       \* req_quit_

vars == <<admin, txbuf, appended, wire, consumed, indata, ready, nospace, wpc, lpc, arg, swallowed,
          quit>>
buf == <<txbuf, appended>>
kernel == <<consumed, indata, ready, nospace>>

Free == Capacity - (Len(wire) - consumed)
NoArg == [data |-> FALSE, len |-> -1, moved |-> FALSE]
Smaller(a, b) == IF a < b THEN a ELSE b

-----------------------------------------------------------------------------
(* The kernel, as the code uses it.                                        *)

\* Polling a full socket makes the kernel report when there is room again.
Polled == nospace' = (nospace \/ Free = 0)

\* EPOLL_CTL_MOD puts a registration that is ready now on the ready list.
Rearm ==
  /\ ready' = (ready \/ indata \/ Free > 0)
  /\ Polled
  /\ UNCHANGED <<consumed, indata>>

Arrive ==
  /\ PeerSends /\ lpc # "closed"
  /\ indata' = TRUE /\ ready' = TRUE
  /\ UNCHANGED <<buf, wire, consumed, nospace, wpc, lpc, arg, swallowed, quit>>

\* The peer reads; room after a refused write or poll is an event.
Consume ==
  /\ consumed < Len(wire)
  /\ consumed' \in (consumed + 1) .. Len(wire)
  /\ ready' = (ready \/ nospace) /\ nospace' = FALSE
  /\ UNCHANGED <<buf, wire, indata, wpc, lpc, arg, swallowed, quit>>

-----------------------------------------------------------------------------
(* write_txbuf: append under the mutex, then modifyHandler.                *)

\* The vector may move when it grows.
AppendBytes(n) ==
  /\ appended + n <= MaxBytes
  /\ txbuf' = txbuf \o Run(appended, appended + n)
  /\ appended' = appended + n
  /\ \/ UNCHANGED arg
     \/ lpc = "args" /\ arg.data /\ arg' = [arg EXCEPT !.moved = TRUE]

WorkerAppend ==
  /\ ~admin /\ wpc = "idle" /\ lpc # "closed"
  /\ \E n \in 1 .. MaxChunk : AppendBytes(n)
  /\ wpc' = "mod"
  /\ UNCHANGED <<wire, kernel, lpc, swallowed, quit>>

\* Mutant of WorkerMod: modifyHandler is forgotten.
WorkerMod_Forgotten ==
  /\ wpc = "mod"
  /\ wpc' = "idle"
  /\ UNCHANGED <<buf, wire, kernel, lpc, arg, swallowed, quit>>

WorkerMod ==
  /\ wpc = "mod"
  /\ Rearm
  /\ wpc' = "idle"
  /\ UNCHANGED <<buf, wire, lpc, arg, swallowed, quit>>

-----------------------------------------------------------------------------
(* The loop thread: epoll_wait, Server::handle, the two data handlers.     *)

\* One event carries everything that is true of the descriptor; the edge is
\* consumed.  EPOLLIN is looked at first and EPOLLOUT only in its absence.
EpollWait ==
  /\ lpc = "wait" /\ ready
  /\ ready' = FALSE
  /\ Polled
  /\ lpc' = IF indata THEN "in" ELSE IF Free > 0 THEN "test" ELSE "wait"
  /\ swallowed' = (swallowed \/ (indata /\ Free > 0))
  /\ UNCHANGED <<buf, wire, consumed, indata, wpc, arg, quit>>

\* input_data_handler answers: a command's output, or that the port is not
\* connected.  "exit" also asks for the connection to be closed.
Answer ==
  /\ lpc = "in" /\ indata
  /\ \E n \in 1 .. MaxChunk : AppendBytes(n)
  /\ quit' \in {quit, admin}
  /\ lpc' = "mod"
  /\ UNCHANGED <<wire, kernel, wpc, swallowed>>

AnswerMod ==
  /\ lpc = "mod"
  /\ Rearm
  /\ lpc' = "in"
  /\ UNCHANGED <<buf, wire, wpc, arg, swallowed, quit>>

\* The descriptor is read until EAGAIN.
ReadAll ==
  /\ lpc = "in"
  /\ indata' = FALSE
  /\ lpc' = "wait"
  /\ UNCHANGED <<buf, wire, consumed, ready, nospace, wpc, arg, swallowed, quit>>

\* Behind flush, output_data_handler closes a connection that asked for it.
Flushed == IF quit THEN "closed" ELSE "wait"

\* Mutant of FlushTest: the loop runs once.
FlushTest_Once ==
  /\ lpc = "test"
  /\ \/ (txbuf = <<>> \/ arg # NoArg) /\ lpc' = Flushed /\ arg' = NoArg
     \/ (txbuf # <<>> /\ arg = NoArg) /\ lpc' = "args" /\ arg' = NoArg
  /\ swallowed' = FALSE
  /\ UNCHANGED <<buf, wire, kernel, wpc, quit>>

\* while (!txbuf_.empty())
FlushTest ==
  /\ lpc = "test"
  /\ \/ txbuf = <<>> /\ lpc' = Flushed
     \/ txbuf # <<>> /\ lpc' = "args"
  /\ arg' = NoArg
  /\ swallowed' = FALSE
  /\ UNCHANGED <<buf, wire, kernel, wpc, quit>>

\* write's arguments, in the order the compiler likes.
TakeData ==
  /\ lpc = "args" /\ ~arg.data
  /\ arg' = [arg EXCEPT !.data = TRUE]
  /\ UNCHANGED <<buf, wire, kernel, wpc, lpc, swallowed, quit>>

TakeLength ==
  /\ lpc = "args" /\ arg.len = -1
  /\ arg' = [arg EXCEPT !.len = Len(txbuf)]
  /\ UNCHANGED <<buf, wire, kernel, wpc, lpc, swallowed, quit>>

\* What write() takes from the address: the buffer's front, or freed memory.
Fetched(k) == IF arg.moved THEN [i \in 1 .. k |-> 0] ELSE SubSeq(txbuf, 1, k)

\* Mutant of Write: a partial write counts as a whole one.
Write_Whole ==
  /\ lpc = "args" /\ arg.data /\ arg.len # -1
  /\ Free > 0
  /\ wire' = wire \o Fetched(arg.len)
  /\ UNCHANGED arg
  /\ lpc' = "pop"
  /\ UNCHANGED <<buf, kernel, wpc, swallowed, quit>>

Write ==
  /\ lpc = "args" /\ arg.data /\ arg.len # -1
  /\ Free > 0
  /\ LET k == Smaller(arg.len, Free) IN
       /\ wire' = wire \o Fetched(k)
       /\ arg' = [arg EXCEPT !.len = k]
  /\ lpc' = "pop"
  /\ UNCHANGED <<buf, kernel, wpc, swallowed, quit>>

\* EAGAIN: the loop breaks.
WriteRefused ==
  /\ lpc = "args" /\ arg.data /\ arg.len # -1
  /\ Free = 0
  /\ nospace' = TRUE
  /\ lpc' = Flushed /\ arg' = NoArg
  /\ UNCHANGED <<buf, wire, consumed, indata, ready, wpc, swallowed, quit>>

\* Mutant of Pop: all that was there is dropped, not what was written.
Pop_All ==
  /\ lpc = "pop"
  /\ txbuf' = <<>>
  /\ lpc' = "test"
  /\ UNCHANGED <<appended, wire, kernel, wpc, arg, swallowed, quit>>

Pop ==
  /\ lpc = "pop"
  /\ txbuf' = SubSeq(txbuf, arg.len + 1, Len(txbuf))
  /\ lpc' = "test"
  /\ UNCHANGED <<appended, wire, kernel, wpc, arg, swallowed, quit>>

-----------------------------------------------------------------------------
\* An AdminConnection starts with its banner appended and registered.
Init ==
  /\ admin \in BOOLEAN
  /\ appended = IF admin THEN 1 ELSE 0
  /\ txbuf = Run(0, appended)
  /\ wire = <<>> /\ consumed = 0
  /\ indata = FALSE /\ ready = TRUE /\ nospace = FALSE
  /\ wpc = "idle" /\ lpc = "wait" /\ arg = NoArg
  /\ swallowed = FALSE /\ quit = FALSE

LoopStep ==
  \/ EpollWait \/ ReadAll \/ AnswerMod
  \/ FlushTest \/ TakeData \/ TakeLength \/ Write \/ WriteRefused \/ Pop

Next ==
  /\ LoopStep \/ Answer \/ WorkerAppend \/ WorkerMod \/ Arrive \/ Consume
  /\ UNCHANGED admin

Spec == Init /\ [][Next]_vars

\* The threads run, and the peer goes on reading.
FairSpec == Spec /\ WF_vars(LoopStep /\ UNCHANGED admin) /\ WF_vars(WorkerMod /\ UNCHANGED admin)
                 /\ WF_vars(Consume /\ UNCHANGED admin)

-----------------------------------------------------------------------------
(* Properties.                                                             *)

TypeOK ==
  /\ admin \in BOOLEAN
  /\ txbuf \in Seq(1 .. MaxBytes)
  /\ appended \in 0 .. MaxBytes
  /\ wire \in Seq(0 .. MaxBytes)
  /\ consumed \in 0 .. Len(wire)
  /\ Free \in 0 .. Capacity
  /\ indata \in BOOLEAN /\ ready \in BOOLEAN /\ nospace \in BOOLEAN
  /\ wpc \in {"idle", "mod"}
  /\ lpc \in {"wait", "in", "mod", "test", "args", "pop", "closed"}
  /\ arg \in [data : BOOLEAN, len : -1 .. MaxBytes, moved : BOOLEAN]
  /\ swallowed \in BOOLEAN /\ quit \in BOOLEAN

\* What write() has taken and pop has not yet removed.
InFlight == IF lpc = "pop" THEN arg.len ELSE 0

\* Whatever the interleaving, each appended byte is on the wire or in the
\* buffer exactly once and in order; only a byte that was fetched from a
\* buffer that had moved is wrong, and even that one stands in its place.
NothingLostOrRepeated ==
  LET rest == SubSeq(txbuf, InFlight + 1, Len(txbuf))
      all == wire \o rest
  IN  /\ Len(all) = appended
      /\ \A i \in 1 .. appended : all[i] \in {i, 0}
      /\ \A i \in 1 .. Len(rest) : rest[i] # 0

\* While the loop waits and the worker is between two calls, unsent bytes are
\* never forgotten: an event is due, or the socket is full and the kernel will
\* say when it is not, or an event that said "writable" was handled as input.
OutputEventDue ==
  txbuf # <<>> /\ lpc = "wait" /\ wpc = "idle" =>
    \/ ready
    \/ nospace /\ consumed < Len(wire)
    \/ swallowed

\* What is appended is sent, unless the event that would have sent it was taken
\* for input, or the connection was closed.
TxDrains == txbuf # <<>> ~> (txbuf = <<>> \/ swallowed \/ lpc = "closed")
=============================================================================
