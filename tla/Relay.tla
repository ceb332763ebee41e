------------------------------- MODULE Relay --------------------------------
(***************************************************************************)
(* A client's whole life on the server, with others beside it: waiting to  *)
(* be accepted on an edge-triggered listening socket, a descriptor that    *)
(* was somebody else's, registration with the DataProxy, the port's bytes  *)
(* handed out by the worker and written by the loop thread, and deletion.  *)
(*                                                                         *)
(* It composes what SockServer, DataProxy and ConnectionTx treat one at a  *)
(* time, and takes from them: a round holds the proxy's mutex throughout,  *)
(* a flush is one step, and clients send nothing here but their end.       *)
(***************************************************************************)
EXTENDS Streams, FiniteSetsExt, SequencesExt

CONSTANTS
  Peer,       \* client programs
  Readers,    \* those of them that go on reading
  Fd,         \* descriptors left to the process for connections
  Capacity,   \* bytes the kernel holds for a peer
  MaxBytes    \* bound on the bytes the serial port sends

ASSUME RelayAssumption ==
  /\ Readers \subseteq Peer
  /\ Fd \subseteq Nat \ {0}
  /\ Capacity \in Nat \ {0} /\ MaxBytes \in Nat

Nobody == "nobody"
ASSUME NobodyAssumption == Nobody \notin Peer

VARIABLES
  backlog,     \* peers that wait to be accepted, and
  edge,        \* ... the listening socket is on epoll's ready list
  gone,        \* peers that hung up
  open,        \* the descriptor table: whose socket a descriptor is
  ready,       \* descriptors on epoll's ready list
  nospace,     \* descriptors whose next room for a write is an event
  conn,        \* fd_ of each peer's ClientConnection; 0 is no connection
  txbuf,       \* txbuf_ of the connection
  wire,        \* bytes each peer's kernel has accepted (history)
  consumed,    \* ... how many of them the peer has read
  client_sock, \* client_sock_, without its order
  sent,        \* bytes the port sent
  done,        \* bytes handed out
  since,       \* where in the stream each peer was registered (history)
  todo,        \* clients the worker has still to serve in this round, and
  serving,     \* ... the one it has appended to
  wpc,         \* the worker
  lpc,         \* the loop thread, and
  at,          \* ... the peer it is dealing with
  bases,       \* ... of whose connection these bases are to be destroyed
  refused      \* accept() failed for want of a descriptor since the last peer came (history)

listening == <<backlog, edge, refused>>
kernel == <<open, ready, nospace>>
objects == <<conn, txbuf, client_sock, since>>
peers == <<gone, wire, consumed>>
proxy == <<sent, done, todo, serving, wpc>>
loop == <<lpc, at, bases>>
vars == <<backlog, edge, gone, open, ready, nospace, conn, txbuf, wire, consumed, client_sock,
          sent, done, since, todo, serving, wpc, lpc, at, bases, refused>>

Room(p) == Capacity - (Len(wire[p]) - consumed[p])

\* A poll finds the descriptor's input (the end) or room.
Polls(fd) == open[fd] # Nobody /\ (open[fd] \in gone \/ Room(open[fd]) > 0)

-----------------------------------------------------------------------------
(* The peers and the port.                                                 *)

\* Every arrival is an edge of the listening socket.
Connect(p) ==
  /\ p \notin ToSet(backlog) /\ conn[p] = 0 /\ p \notin gone
  /\ backlog' = Append(backlog, p)
  /\ edge' = TRUE /\ refused' = FALSE
  /\ UNCHANGED <<kernel, objects, peers, proxy, loop>>

Hangup(p) ==
  /\ p \notin gone
  /\ p \in ToSet(backlog) \/ conn[p] # 0
  /\ gone' = gone \union {p}
  /\ ready' = ready \union {fd \in Fd : open[fd] = p}
  /\ UNCHANGED <<listening, open, nospace, objects, wire, consumed, proxy, loop>>

\* Room after a refused write is an edge.
Read(p) ==
  /\ p \notin gone
  /\ consumed[p] < Len(wire[p])
  /\ consumed' = [consumed EXCEPT ![p] = Len(wire[p])]
  /\ LET fds == {fd \in nospace : open[fd] = p} IN
       ready' = ready \union fds /\ nospace' = nospace \ fds
  /\ UNCHANGED <<listening, open, objects, gone, wire, proxy, loop>>

\* append_serial_input takes the proxy's mutex.
PortSends ==
  /\ sent < MaxBytes /\ wpc = "idle"
  /\ sent' = sent + 1
  /\ UNCHANGED <<listening, kernel, objects, peers, done, todo, serving, wpc, loop>>

-----------------------------------------------------------------------------
(* DataProxy::worker, in the direction from the port.                      *)

StartRound ==
  /\ wpc = "idle" /\ done < sent
  /\ wpc' = "append" /\ todo' = client_sock
  /\ UNCHANGED <<listening, kernel, objects, peers, sent, done, serving, loop>>

\* received(): write_txbuf appends ...
AppendBytes ==
  /\ wpc = "append"
  /\ \E p \in todo :
       /\ txbuf' = [txbuf EXCEPT ![p] = @ \o Run(done, sent)]
       /\ serving' = p /\ todo' = todo \ {p}
  /\ wpc' = "mod"
  /\ UNCHANGED <<listening, kernel, conn, client_sock, since, peers, sent, done, loop>>

\* ... and re-arms the descriptor.
Rearm ==
  /\ wpc = "mod"
  /\ LET fd == conn[serving] IN
       /\ ready' = IF Polls(fd) THEN ready \union {fd} ELSE ready
       /\ nospace' = IF Polls(fd) THEN nospace ELSE nospace \union {fd}
  /\ serving' = Nobody /\ wpc' = "append"
  /\ UNCHANGED <<listening, open, objects, peers, sent, done, todo, loop>>

EndRound ==
  /\ wpc = "append" /\ todo = {}
  /\ done' = sent /\ wpc' = "idle"
  /\ UNCHANGED <<listening, kernel, objects, peers, sent, todo, serving, loop>>

-----------------------------------------------------------------------------
(* Server::accept_connection.                                              *)

\* The loop thread is done with the event.
Return == lpc' = "wait" /\ at' = Nobody

ListenEvent ==
  /\ lpc = "wait" /\ edge
  /\ edge' = FALSE /\ lpc' = "accept"
  /\ UNCHANGED <<backlog, refused, kernel, objects, peers, proxy, at, bases>>

Unused == {fd \in Fd : open[fd] = Nobody}

\* accept() and addHandler: the lowest free descriptor, which is writable.
Accept ==
  /\ lpc = "accept" /\ backlog # <<>>
  /\ \E fd \in Unused :
       /\ \A other \in Unused : fd <= other
       /\ open' = [open EXCEPT ![fd] = Head(backlog)]
       /\ ready' = ready \union {fd}
       /\ conn' = [conn EXCEPT ![Head(backlog)] = fd]
  /\ at' = Head(backlog) /\ backlog' = Tail(backlog)
  /\ lpc' = "register"
  /\ UNCHANGED <<edge, refused, nospace, txbuf, client_sock, since, peers, proxy, bases>>

\* EAGAIN.
AcceptedAll ==
  /\ lpc = "accept" /\ backlog = <<>>
  /\ Return
  /\ UNCHANGED <<listening, kernel, objects, peers, proxy, bases>>

\* Any other error ends the loop as well.
AcceptFails ==
  /\ lpc = "accept" /\ backlog # <<>> /\ Unused = {}
  /\ refused' = TRUE
  /\ Return
  /\ UNCHANGED <<backlog, edge, kernel, objects, peers, proxy, bases>>

Registered ==
  /\ lpc = "register"
  /\ client_sock' = client_sock \union {at}
  /\ since' = [since EXCEPT ![at] = done]
  /\ UNCHANGED <<listening, kernel, conn, txbuf, peers, proxy, bases>>

\* Mutants of Register: the lock is not taken; one client is accepted per event.
Register_Unlocked == Registered /\ lpc' = "accept" /\ UNCHANGED at
Register_Once == wpc = "idle" /\ Registered /\ Return

\* RegisterClient, from the constructor of the ClientConnection.
Register == wpc = "idle" /\ Registered /\ lpc' = "accept" /\ UNCHANGED at

-----------------------------------------------------------------------------
(* Server::handle for a client's descriptor.                               *)

\* Mutant of Bases: the other order.
Bases_Swapped == <<"Connection", "DataProxy::Client">>

\* Bases are destroyed last to first.
Bases == <<"DataProxy::Client", "Connection">>

ClientEvent ==
  /\ lpc = "wait"
  /\ \E fd \in ready :
       /\ ready' = ready \ {fd}
       /\ \/ ~Polls(fd) /\ UNCHANGED loop
          \/ /\ Polls(fd)
             /\ at' = open[fd]
             /\ lpc' = IF open[fd] \in gone THEN "destroy" ELSE "flush"
             /\ bases' = IF open[fd] \in gone THEN Bases ELSE <<>>
  /\ UNCHANGED <<listening, open, nospace, objects, peers, proxy>>

\* Mutant of Flush: the descriptor was left in blocking mode.
Flush_Blocking ==
  /\ lpc = "flush"
  /\ LET k == Min({Room(at), Len(txbuf[at])}) IN
       /\ wire' = IF at \in gone THEN wire ELSE [wire EXCEPT ![at] = @ \o SubSeq(txbuf[at], 1, k)]
       /\ txbuf' = [txbuf EXCEPT ![at] = IF at \in gone THEN @ ELSE SubSeq(@, k + 1, Len(@))]
  /\ IF txbuf'[at] = <<>> \/ at \in gone THEN Return ELSE UNCHANGED <<lpc, at>>
  /\ UNCHANGED <<listening, kernel, conn, client_sock, since, gone, consumed, proxy, bases>>

\* Connection::flush: until the buffer is empty or the kernel takes no more.
Flush ==
  /\ lpc = "flush"
  /\ LET k == IF at \in gone THEN 0 ELSE Min({Room(at), Len(txbuf[at])}) IN
       /\ wire' = [wire EXCEPT ![at] = @ \o SubSeq(txbuf[at], 1, k)]
       /\ txbuf' = [txbuf EXCEPT ![at] = SubSeq(@, k + 1, Len(@))]
       /\ nospace' = IF k < Len(txbuf[at]) THEN nospace \union {conn[at]} ELSE nospace
  /\ Return
  /\ UNCHANGED <<listening, open, ready, conn, client_sock, since, gone, consumed, proxy, bases>>

\* Mutant of Destroy: the descriptor is not closed.
Destroy_KeepsFd ==
  /\ lpc = "destroy" /\ bases # <<>>
  /\ \/ /\ Head(bases) = "DataProxy::Client" /\ wpc = "idle"
        /\ client_sock' = client_sock \ {at}
        /\ UNCHANGED txbuf
     \/ /\ Head(bases) = "Connection"
        /\ txbuf' = [txbuf EXCEPT ![at] = <<>>]
        /\ UNCHANGED client_sock
  /\ bases' = Tail(bases)
  /\ UNCHANGED <<listening, kernel, conn, since, peers, proxy, lpc, at>>

\* close_connection deletes what the manager found, base by base: DeregisterClient
\* waits for the worker's round, ~Connection closes the descriptor, which leaves
\* the epoll set with it.
Destroy ==
  /\ lpc = "destroy" /\ bases # <<>>
  /\ \/ /\ Head(bases) = "DataProxy::Client" /\ wpc = "idle"
        /\ client_sock' = client_sock \ {at}
        /\ UNCHANGED <<open, ready, nospace, txbuf>>
     \/ /\ Head(bases) = "Connection"
        /\ open' = [open EXCEPT ![conn[at]] = Nobody]
        /\ ready' = ready \ {conn[at]} /\ nospace' = nospace \ {conn[at]}
        /\ txbuf' = [txbuf EXCEPT ![at] = <<>>]
        /\ UNCHANGED client_sock
  /\ bases' = Tail(bases)
  /\ UNCHANGED <<listening, conn, since, peers, proxy, lpc, at>>

Destroyed ==
  /\ lpc = "destroy" /\ bases = <<>>
  /\ conn' = [conn EXCEPT ![at] = 0]
  /\ since' = [since EXCEPT ![at] = 0]
  /\ wire' = [wire EXCEPT ![at] = <<>>] /\ consumed' = [consumed EXCEPT ![at] = 0]
  /\ Return
  /\ UNCHANGED <<listening, kernel, txbuf, client_sock, gone, proxy, bases>>

-----------------------------------------------------------------------------
Init ==
  /\ backlog = <<>> /\ edge = FALSE /\ refused = FALSE
  /\ gone = {}
  /\ open = [fd \in Fd |-> Nobody] /\ ready = {} /\ nospace = {}
  /\ conn = [p \in Peer |-> 0]
  /\ txbuf = [p \in Peer |-> <<>>] /\ wire = [p \in Peer |-> <<>>]
  /\ consumed = [p \in Peer |-> 0]
  /\ client_sock = {} /\ since = [p \in Peer |-> 0]
  /\ sent = 0 /\ done = 0 /\ todo = {} /\ serving = Nobody /\ wpc = "idle"
  /\ lpc = "wait" /\ at = Nobody /\ bases = <<>>

Worker == StartRound \/ AppendBytes \/ Rearm \/ EndRound
Loop ==
  \/ ListenEvent \/ Accept \/ AcceptedAll \/ AcceptFails \/ Register
  \/ ClientEvent \/ Flush \/ Destroy \/ Destroyed
Environment == PortSends \/ \E p \in Peer : Connect(p) \/ Hangup(p) \/ (p \in Readers /\ Read(p))

Next == Worker \/ Loop \/ Environment

Spec == Init /\ [][Next]_vars

\* Both threads run, and the readers read.
FairSpec ==
  /\ Spec /\ WF_vars(Worker) /\ WF_vars(Loop)
  /\ \A p \in Readers : WF_vars(Read(p))

-----------------------------------------------------------------------------
(* Properties.                                                             *)

TypeOK ==
  /\ backlog \in Seq(Peer) /\ edge \in BOOLEAN /\ refused \in BOOLEAN
  /\ gone \subseteq Peer
  /\ open \in [Fd -> Peer \union {Nobody}] /\ ready \subseteq Fd /\ nospace \subseteq Fd
  /\ conn \in [Peer -> Fd \union {0}]
  /\ \A fd \in Fd : open[fd] # Nobody => conn[open[fd]] = fd
  /\ txbuf \in [Peer -> Seq(1 .. MaxBytes)] /\ wire \in [Peer -> Seq(1 .. MaxBytes)]
  /\ consumed \in [Peer -> Nat] /\ \A p \in Peer : consumed[p] <= Len(wire[p]) /\ Room(p) >= 0
  /\ client_sock \subseteq Peer /\ todo \subseteq Peer /\ serving \in Peer \union {Nobody}
  /\ sent \in 0 .. MaxBytes /\ done \in 0 .. sent
  /\ since \in [Peer -> 0 .. MaxBytes]
  /\ wpc \in {"idle", "append", "mod"}
  /\ lpc \in {"wait", "accept", "register", "flush", "destroy"}
  /\ at \in Peer \union {Nobody} /\ bases \in Seq({"DataProxy::Client", "Connection"})

\* The bytes the worker has handed to p's connection.
Given(p) == IF wpc = "idle" \/ p \in todo THEN done ELSE sent

\* Every client that is served has on its way, or in its buffer, one unbroken
\* piece of the port's stream, from its registration to what the worker has
\* handed out: whoever had the descriptor before, and whatever the others do.
StreamUnbroken ==
  \A p \in client_sock : wire[p] \o txbuf[p] = Run(since[p], Given(p))

\* The worker serves connections that exist, and re-arms a descriptor only for
\* the client it has just handed something to.
RearmsItsClient ==
  \A p \in todo \union {serving} : p # Nobody => conn[p] # 0 /\ open[conn[p]] = p

\* While the loop waits, a peer in the backlog has an edge that will see to it,
\* or accept() failed for want of a descriptor and nobody has come since.
WaitingHasEdge == backlog # <<>> /\ lpc = "wait" => edge \/ refused

\* A client that reads gets what there is for it, beside clients that do not.
ReadersServed ==
  \A p \in Readers : conn[p] # 0 /\ txbuf[p] # <<>> ~> (txbuf[p] = <<>> \/ p \in gone)
=============================================================================
