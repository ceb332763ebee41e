---------------------------- MODULE Relay_proofs ----------------------------
(***************************************************************************)
(* The invariants of Relay, for any number of peers, descriptors and       *)
(* bytes, and any room in the kernel.                                      *)
(***************************************************************************)
EXTENDS Relay, Streams_proofs

-----------------------------------------------------------------------------
(* The invariant.                                                          *)

\* Nothing was given to p's connection, nor read from it.
Fresh(p) == wire[p] = <<>> /\ txbuf[p] = <<>> /\ consumed[p] = 0

\* A peer waits for accept() once, and has no connection while it waits.
BacklogInv ==
  /\ \A i \in DOMAIN backlog : conn[backlog[i]] = 0
  /\ \A i, j \in DOMAIN backlog : backlog[i] = backlog[j] => i = j

\* A registered client has its descriptor.
ClientInv ==
  /\ \A p \in client_sock : conn[p] # 0 /\ open[conn[p]] = p /\ since[p] <= done
  /\ \A p \in Peer : conn[p] = 0 => Fresh(p)

\* What the loop thread is dealing with: a client that is destroyed leaves the
\* proxy before its descriptor is closed.
LoopInv ==
  /\ lpc \in {"register", "flush", "destroy"} => at \in Peer /\ conn[at] # 0
  /\ lpc \in {"register", "flush"} => open[conn[at]] = at
  /\ lpc = "register" => at \notin client_sock /\ Fresh(at)
  /\ lpc = "destroy" =>
       /\ bases \in {Bases, <<"Connection">>, <<>>}
       /\ bases # Bases => at \notin client_sock
       /\ open[conn[at]] = at <=> bases # <<>>
       /\ bases = <<>> => txbuf[at] = <<>>

\* The worker serves registered clients: none can leave during a round.
RoundInv ==
  /\ todo \union {serving} \subseteq client_sock \union {Nobody}
  /\ Nobody \notin todo
  /\ wpc = "idle" => todo = {}
  /\ wpc = "mod" <=> serving # Nobody

\* WaitingHasEdge, also while the loop thread deals with a client.
EdgeInv == backlog # <<>> /\ lpc \in {"wait", "flush", "destroy"} => edge \/ refused

IInv ==
  /\ TypeOK /\ BacklogInv /\ ClientInv /\ LoopInv /\ RoundInv /\ EdgeInv
  /\ StreamUnbroken

-----------------------------------------------------------------------------
(* Lemmas about data.                                                      *)

LEMMA MinOfTwo ==
  ASSUME NEW a \in Nat, NEW b \in Nat
  PROVE  Min({a, b}) \in 0 .. a /\ Min({a, b}) \in 0 .. b
  BY DEF Min

\* ~ClientConnection: the bases, last to first.
LEMMA BasesInOrder ==
  /\ Bases # <<>> /\ Head(Bases) = "DataProxy::Client" /\ Tail(Bases) = <<"Connection">>
  /\ <<"Connection">> # <<>> /\ Head(<<"Connection">>) = "Connection"
  /\ Tail(<<"Connection">>) = <<>>
  BY DEF Bases

\* What the worker hands out is made of bytes the port sent.
LEMMA RunTyped ==
  ASSUME TypeOK
  PROVE  Run(done, sent) \in Seq(1 .. MaxBytes)
<1>1. /\ done \in Nat /\ sent \in Nat /\ done <= sent /\ sent <= MaxBytes
  BY RelayAssumption DEF TypeOK
<1> QED BY <1>1, RelayAssumption, RunOfBytes

LEMMA InitIInv == Init => IInv
<1> SUFFICES ASSUME Init PROVE IInv
  OBVIOUS
<1>1. <<>> \in Seq(Peer) /\ <<>> \in Seq(1 .. MaxBytes) /\ Len(<<>>) = 0
      /\ <<>> \in Seq({"DataProxy::Client", "Connection"})
  BY EmptySeq
<1>2. TypeOK
  <2>1. /\ consumed \in [Peer -> Nat]
        /\ \A p \in Peer : consumed[p] <= Len(wire[p]) /\ Room(p) >= 0
    BY <1>1, RelayAssumption DEF Init, Room
  <2>2. /\ sent \in 0 .. MaxBytes /\ done \in 0 .. sent
        /\ since \in [Peer -> 0 .. MaxBytes]
    BY RelayAssumption DEF Init
  <2> QED BY <1>1, <2>1, <2>2 DEF Init, TypeOK
<1>3. BacklogInv /\ ClientInv /\ LoopInv /\ RoundInv /\ EdgeInv /\ StreamUnbroken
  BY DEF Init, BacklogInv, ClientInv, Fresh, LoopInv, RoundInv, EdgeInv, StreamUnbroken
<1> QED BY <1>2, <1>3 DEF IInv

-----------------------------------------------------------------------------
(* The environment.                                                        *)

LEMMA ConnectKeeps ==
  ASSUME IInv, NEW p \in Peer, Connect(p)
  PROVE  IInv'
<1> USE DEF IInv, Connect, kernel, objects, peers, proxy, loop
<1>1. /\ backlog' \in Seq(Peer) /\ backlog' # <<>>
      /\ Len(backlog') = Len(backlog) + 1
      /\ \A i \in 1 .. Len(backlog) : backlog'[i] = backlog[i]
      /\ backlog'[Len(backlog) + 1] = p
      /\ Len(backlog) \in Nat /\ DOMAIN backlog = 1 .. Len(backlog)
      /\ DOMAIN backlog' = 1 .. Len(backlog')
  <2>1. backlog \in Seq(Peer)
    BY DEF TypeOK
  <2> QED BY <2>1, AppendProperties, LenProperties
<1>2. TypeOK'
  BY <1>1 DEF TypeOK, Room
<1>3. BacklogInv'
  BY <1>1 DEF BacklogInv, ToSet
<1>4. ClientInv' /\ LoopInv' /\ RoundInv' /\ EdgeInv'
  BY DEF ClientInv, LoopInv, RoundInv, EdgeInv, Fresh
<1>5. StreamUnbroken'
  BY DEF StreamUnbroken, Given
<1> QED BY <1>2, <1>3, <1>4, <1>5

LEMMA HangupKeeps ==
  ASSUME IInv, NEW p \in Peer, Hangup(p)
  PROVE  IInv'
<1> USE DEF IInv, Hangup, listening, objects, proxy, loop
<1>1. TypeOK'
  BY DEF TypeOK, Room
<1>2. BacklogInv' /\ ClientInv' /\ LoopInv' /\ RoundInv' /\ EdgeInv'
  BY DEF BacklogInv, ClientInv, LoopInv, RoundInv, EdgeInv, Fresh
<1>3. StreamUnbroken'
  BY DEF StreamUnbroken, Given
<1> QED BY <1>1, <1>2, <1>3

LEMMA ReadKeeps ==
  ASSUME IInv, NEW p \in Peer, Read(p)
  PROVE  IInv'
<1> USE DEF IInv, Read, listening, objects, proxy, loop
<1>1. \A q \in Peer : Len(wire[q]) \in Nat
  BY LenProperties DEF TypeOK
<1>2. TypeOK'
  <2>1. /\ consumed' \in [Peer -> Nat]
        /\ \A q \in Peer : consumed'[q] <= Len(wire[q])
    BY <1>1 DEF TypeOK
  <2>2. ASSUME NEW q \in Peer PROVE Room(q)' >= 0
    <3>1. Len(wire[q]) \in Nat /\ Capacity \in Nat /\ Room(q) >= 0
      BY <1>1, RelayAssumption DEF TypeOK
    <3>2. consumed'[q] = consumed[q] \/ consumed'[q] = Len(wire[q])
      BY DEF TypeOK
    <3> QED BY <3>1, <3>2 DEF Room
  <2> QED BY <2>1, <2>2 DEF TypeOK
<1>3. wire[p] # <<>>
  BY <1>1, EmptySeq DEF TypeOK
<1>4. BacklogInv' /\ RoundInv' /\ EdgeInv'
  BY DEF BacklogInv, RoundInv, EdgeInv
<1>5. ClientInv' /\ LoopInv'
  BY <1>3 DEF TypeOK, ClientInv, LoopInv, Fresh
<1>6. StreamUnbroken'
  BY DEF StreamUnbroken, Given
<1> QED BY <1>2, <1>4, <1>5, <1>6

\* The port sends between two rounds, so nobody has been given what it sends.
LEMMA PortSendsKeeps ==
  ASSUME IInv, PortSends
  PROVE  IInv'
<1> USE DEF IInv, PortSends, listening, kernel, objects, peers, loop
<1>1. TypeOK'
  <2>1. sent' \in 0 .. MaxBytes /\ done' \in 0 .. sent'
    BY RelayAssumption DEF TypeOK
  <2> QED BY <2>1 DEF TypeOK, Room
<1>2. BacklogInv' /\ ClientInv' /\ LoopInv' /\ RoundInv' /\ EdgeInv'
  BY DEF BacklogInv, ClientInv, LoopInv, RoundInv, EdgeInv, Fresh
<1>3. StreamUnbroken'
  BY DEF StreamUnbroken, Given
<1> QED BY <1>1, <1>2, <1>3

-----------------------------------------------------------------------------
(* The worker.                                                             *)

LEMMA StartRoundKeeps ==
  ASSUME IInv, StartRound
  PROVE  IInv'
<1> USE DEF IInv, StartRound, listening, kernel, objects, peers, loop
<1>1. TypeOK'
  BY DEF TypeOK, Room
<1>2. BacklogInv' /\ ClientInv' /\ LoopInv' /\ EdgeInv'
  BY DEF BacklogInv, ClientInv, LoopInv, EdgeInv, Fresh
<1>3. RoundInv'
  BY NobodyAssumption DEF TypeOK, RoundInv
<1>4. StreamUnbroken'
  BY DEF StreamUnbroken, Given
<1> QED BY <1>1, <1>2, <1>3, <1>4

\* What is appended continues what the client was given.
LEMMA AppendKeeps ==
  ASSUME IInv, AppendBytes
  PROVE  IInv'
<1> USE DEF IInv, AppendBytes, listening, kernel, peers, loop
<1> PICK p \in todo : /\ txbuf' = [txbuf EXCEPT ![p] = @ \o Run(done, sent)]
                      /\ serving' = p /\ todo' = todo \ {p}
  OBVIOUS
<1>1. /\ p \in client_sock /\ p \in Peer /\ p # Nobody
      /\ conn[p] # 0 /\ ~(lpc = "register" /\ at = p)
  BY NobodyAssumption DEF TypeOK, RoundInv, ClientInv, LoopInv
<1>2. txbuf' \in [Peer -> Seq(1 .. MaxBytes)]
  BY <1>1, RunTyped, ConcatProperties DEF TypeOK
<1>3. TypeOK'
  BY <1>1, <1>2 DEF TypeOK, Room
<1>4. BacklogInv' /\ EdgeInv'
  BY DEF BacklogInv, EdgeInv
<1>5. ClientInv' /\ LoopInv'
  BY <1>1 DEF TypeOK, ClientInv, LoopInv, Fresh
<1>6. RoundInv'
  BY <1>1 DEF RoundInv
<1>7. StreamUnbroken'
  <2>1. ASSUME NEW q \in client_sock PROVE wire[q] \o txbuf'[q] = Run(since[q], Given(q)')
    <3>1. CASE q # p
      BY <1>1, <2>1, <3>1 DEF StreamUnbroken, Given, TypeOK
    <3>2. CASE q = p
      <4>1. /\ since[p] \in Nat /\ done \in Nat /\ sent \in Nat
            /\ since[p] <= done /\ done <= sent
        BY <1>1, RelayAssumption DEF TypeOK, ClientInv
      <4>2. wire[p] \o txbuf[p] = Run(since[p], done)
        BY <1>1 DEF StreamUnbroken, Given
      <4>3. /\ wire[p] \in Seq(1 .. MaxBytes) /\ txbuf[p] \in Seq(1 .. MaxBytes)
            /\ Run(done, sent) \in Seq(1 .. MaxBytes)
        BY <1>1, RunTyped DEF TypeOK
      <4>4. wire[p] \o (txbuf[p] \o Run(done, sent)) = (wire[p] \o txbuf[p]) \o Run(done, sent)
        <5> DEFINE S == 1 .. MaxBytes
                   w == wire[p]
                   t == txbuf[p]
                   run == Run(done, sent)
        <5>1. w \in Seq(S) /\ t \in Seq(S) /\ run \in Seq(S)
          BY <4>3
        <5> HIDE DEF S, w, t, run
        <5>2. (w \o t) \o run = w \o (t \o run)
          BY <5>1, ConcatAssociative
        <5> QED BY <5>2 DEF w, t, run
      <4>5. txbuf'[p] = txbuf[p] \o Run(done, sent) /\ Given(p)' = sent
        BY <1>1 DEF TypeOK, Given
      <4>6. Run(since[p], done) \o Run(done, sent) = Run(since[p], sent)
        BY <4>1, RunConcat
      <4> QED BY <3>2, <4>2, <4>4, <4>5, <4>6
    <3> QED BY <3>1, <3>2
  <2> QED BY <2>1 DEF StreamUnbroken
<1> QED BY <1>3, <1>4, <1>5, <1>6, <1>7

LEMMA RearmKeeps ==
  ASSUME IInv, Rearm
  PROVE  IInv'
<1> USE DEF IInv, Rearm, listening, objects, peers, loop
<1>1. serving \in client_sock /\ conn[serving] \in Fd
  BY DEF TypeOK, RoundInv, ClientInv
<1>2. TypeOK'
  BY <1>1 DEF TypeOK, Room
<1>3. BacklogInv' /\ ClientInv' /\ LoopInv' /\ EdgeInv'
  BY DEF BacklogInv, ClientInv, LoopInv, EdgeInv, Fresh
<1>4. RoundInv'
  BY <1>1 DEF RoundInv
<1>5. StreamUnbroken'
  BY DEF StreamUnbroken, Given
<1> QED BY <1>2, <1>3, <1>4, <1>5

LEMMA EndRoundKeeps ==
  ASSUME IInv, EndRound
  PROVE  IInv'
<1> USE DEF IInv, EndRound, listening, kernel, objects, peers, loop
<1>1. TypeOK'
  <2>1. done' \in 0 .. sent'
    BY RelayAssumption DEF TypeOK
  <2> QED BY <2>1 DEF TypeOK, Room
<1>2. BacklogInv' /\ LoopInv' /\ EdgeInv' /\ RoundInv'
  BY DEF BacklogInv, LoopInv, EdgeInv, Fresh, RoundInv
<1>3. ClientInv'
  BY RelayAssumption DEF TypeOK, ClientInv, Fresh
<1>4. StreamUnbroken'
  BY DEF StreamUnbroken, Given
<1> QED BY <1>1, <1>2, <1>3, <1>4

-----------------------------------------------------------------------------
(* The loop thread.                                                        *)

LEMMA ListenEventKeeps ==
  ASSUME IInv, ListenEvent
  PROVE  IInv'
<1> USE DEF IInv, ListenEvent, kernel, objects, peers, proxy
<1>1. TypeOK'
  BY DEF TypeOK, Room
<1>2. BacklogInv' /\ ClientInv' /\ LoopInv' /\ RoundInv' /\ EdgeInv'
  BY DEF BacklogInv, ClientInv, LoopInv, RoundInv, EdgeInv, Fresh
<1>3. StreamUnbroken'
  BY DEF StreamUnbroken, Given
<1> QED BY <1>1, <1>2, <1>3

\* The head of the backlog gets a descriptor that was nobody's, and is not
\* waiting any more.
LEMMA AcceptKeeps ==
  ASSUME IInv, Accept
  PROVE  IInv'
<1> USE DEF IInv, Accept, peers, proxy
<1> PICK fd \in Unused : /\ open' = [open EXCEPT ![fd] = Head(backlog)]
                         /\ ready' = ready \union {fd}
                         /\ conn' = [conn EXCEPT ![Head(backlog)] = fd]
  OBVIOUS
<1>1. fd \in Fd /\ fd # 0 /\ open[fd] = Nobody
  BY RelayAssumption DEF Unused
<1>2. /\ at' \in Peer /\ at' = Head(backlog) /\ at' # Nobody
      /\ DOMAIN backlog = 1 .. Len(backlog) /\ Len(backlog) \in Nat \ {0}
      /\ backlog[1] = at'
      /\ backlog' \in Seq(Peer) /\ DOMAIN backlog' = 1 .. Len(backlog) - 1
      /\ \A i \in 1 .. Len(backlog) - 1 : backlog'[i] = backlog[i + 1]
  <2>1. backlog \in Seq(Peer) /\ backlog # <<>>
    BY DEF TypeOK
  <2>2. /\ Head(backlog) \in Peer /\ Tail(backlog) \in Seq(Peer)
        /\ Len(Tail(backlog)) = Len(backlog) - 1
        /\ \A i \in 1 .. Len(Tail(backlog)) : Tail(backlog)[i] = backlog[i + 1]
    BY <2>1, HeadTailProperties
  <2>3. Len(backlog) \in Nat \ {0} /\ DOMAIN backlog = 1 .. Len(backlog)
    BY <2>1, EmptySeq, LenProperties
  <2>4. DOMAIN Tail(backlog) = 1 .. Len(Tail(backlog))
    BY <2>2, LenProperties
  <2>5. backlog[1] = Head(backlog)
    BY <2>1
  <2> QED BY <2>2, <2>3, <2>4, <2>5, NobodyAssumption
<1>3. conn[at'] = 0 /\ Fresh(at') /\ at' \notin client_sock
  BY <1>2 DEF BacklogInv, ClientInv
<1>4. /\ conn'[at'] = fd /\ open'[fd] = at'
      /\ \A q \in Peer : q # at' => conn'[q] = conn[q]
      /\ \A other \in Fd : other # fd => open'[other] = open[other]
  BY <1>1, <1>2 DEF TypeOK
<1>5. TypeOK'
  <2>1. \A other \in Fd : open'[other] # Nobody => conn'[open'[other]] = other
    <3> SUFFICES ASSUME NEW other \in Fd, open'[other] # Nobody
                 PROVE  conn'[open'[other]] = other
      OBVIOUS
    <3>1. CASE other = fd
      BY <1>4, <3>1
    <3>2. CASE other # fd
      <4>1. open'[other] = open[other] /\ conn[open[other]] = other /\ other # 0
        BY <1>4, <3>2, RelayAssumption DEF TypeOK
      <4> QED BY <1>3, <1>4, <4>1
    <3> QED BY <3>1, <3>2
  <2>2. /\ open' \in [Fd -> Peer \union {Nobody}] /\ conn' \in [Peer -> Fd \union {0}]
        /\ ready' \subseteq Fd
    BY SMTT(20), <1>1, <1>2 DEF TypeOK
  <2>3. UNCHANGED <<edge, refused, nospace, txbuf, client_sock, since, gone, wire, consumed,
                    sent, done, todo, serving, wpc, bases>>
    OBVIOUS
  <2>4. \A p \in Peer : consumed'[p] <= Len(wire'[p]) /\ Room(p)' >= 0
    BY <2>3 DEF TypeOK, Room
  <2>5. lpc' = "register" /\ edge' \in BOOLEAN /\ refused' \in BOOLEAN /\ gone' \subseteq Peer
    BY <2>3 DEF TypeOK
  <2>6. /\ nospace' \subseteq Fd
        /\ txbuf' \in [Peer -> Seq(1 .. MaxBytes)] /\ wire' \in [Peer -> Seq(1 .. MaxBytes)]
        /\ consumed' \in [Peer -> Nat] /\ since' \in [Peer -> 0 .. MaxBytes]
        /\ client_sock' \subseteq Peer
    BY <2>3 DEF TypeOK
  <2>7. /\ todo' \subseteq Peer /\ serving' \in Peer \union {Nobody}
        /\ sent' \in 0 .. MaxBytes /\ done' \in 0 .. sent'
        /\ wpc' \in {"idle", "append", "mod"}
        /\ bases' \in Seq({"DataProxy::Client", "Connection"})
    BY <2>3 DEF TypeOK
  <2> QED BY <1>2, <2>1, <2>2, <2>4, <2>5, <2>6, <2>7 DEF TypeOK
<1>6. BacklogInv'
  <2>1. \A i \in DOMAIN backlog' : i + 1 \in DOMAIN backlog /\ backlog'[i] = backlog[i + 1]
    BY <1>2
  <2>2. \A i \in DOMAIN backlog' : backlog'[i] # at'
    BY <1>2, <2>1 DEF BacklogInv
  <2>3. \A i \in DOMAIN backlog' : backlog'[i] \in Peer /\ conn'[backlog'[i]] = 0
    BY <1>2, <1>4, <2>1, <2>2, ElementOfSeq DEF BacklogInv, TypeOK
  <2>4. \A i, j \in DOMAIN backlog' : backlog'[i] = backlog'[j] => i = j
    BY <1>2, <2>1 DEF BacklogInv
  <2> QED BY <2>3, <2>4 DEF BacklogInv
<1>7. ClientInv'
  <2>1. ASSUME NEW p \in client_sock PROVE conn'[p] # 0 /\ open'[conn'[p]] = p
    <3>1. p # at' /\ conn'[p] = conn[p] /\ conn[p] # 0 /\ open[conn[p]] = p /\ p \in Peer
      BY <1>3, <1>4, <2>1 DEF ClientInv, TypeOK
    <3>2. conn[p] \in Fd /\ conn[p] # fd
      BY <1>1, <3>1, NobodyAssumption DEF TypeOK
    <3> QED BY <1>4, <3>1, <3>2
  <2>2. ASSUME NEW p \in Peer, conn'[p] = 0 PROVE Fresh(p)
    BY <1>1, <1>4, <2>2 DEF ClientInv
  <2> QED BY <2>1, <2>2 DEF ClientInv, Fresh
<1>8. LoopInv' /\ RoundInv' /\ EdgeInv'
  BY <1>1, <1>2, <1>3, <1>4 DEF LoopInv, RoundInv, EdgeInv, Fresh
<1>9. StreamUnbroken'
  BY DEF StreamUnbroken, Given
<1> QED BY <1>5, <1>6, <1>7, <1>8, <1>9

\* EAGAIN finds the backlog empty; another error is remembered.
LEMMA AcceptEndsKeeps ==
  ASSUME IInv, AcceptedAll \/ AcceptFails
  PROVE  IInv'
<1> USE DEF IInv, AcceptedAll, AcceptFails, Return, listening, kernel, objects, peers, proxy
<1>1. TypeOK'
  BY DEF TypeOK, Room
<1>2. BacklogInv' /\ ClientInv' /\ LoopInv' /\ RoundInv' /\ EdgeInv'
  BY DEF BacklogInv, ClientInv, LoopInv, RoundInv, EdgeInv, Fresh
<1>3. StreamUnbroken'
  BY DEF StreamUnbroken, Given
<1> QED BY <1>1, <1>2, <1>3

\* The lock is free between two rounds only: the new client has a descriptor,
\* an empty buffer, and nothing before it.
LEMMA RegisterKeeps ==
  ASSUME IInv, Register
  PROVE  IInv'
<1> USE DEF IInv, Register, Registered, listening, kernel, peers, proxy
<1>1. /\ at \in Peer /\ at \notin client_sock /\ at # Nobody /\ Fresh(at)
      /\ conn[at] # 0 /\ open[conn[at]] = at
  BY NobodyAssumption DEF LoopInv
<1>2. done \in Nat /\ done \in 0 .. MaxBytes
  BY RelayAssumption DEF TypeOK
<1>3. TypeOK'
  BY <1>1, <1>2 DEF TypeOK, Room
<1>4. BacklogInv' /\ LoopInv' /\ EdgeInv'
  BY DEF BacklogInv, LoopInv, EdgeInv
<1>5. ClientInv'
  BY <1>1, <1>2 DEF TypeOK, ClientInv, Fresh
<1>6. RoundInv'
  BY <1>1 DEF RoundInv
<1>7. StreamUnbroken'
  <2>1. ASSUME NEW p \in client_sock PROVE wire[p] \o txbuf[p] = Run(since'[p], Given(p)')
    BY <1>1, <2>1 DEF StreamUnbroken, Given, TypeOK
  <2>2. wire[at] \o txbuf[at] = Run(since'[at], Given(at)')
    <3>1. since'[at] = done /\ Given(at)' = done
      BY <1>1 DEF Given, TypeOK
    <3>2. Run(done, done) = <<>>
      BY <1>2, EmptyRun
    <3>3. <<>> \o <<>> = <<>>
      OBVIOUS
    <3> QED BY <1>1, <3>1, <3>2, <3>3 DEF Fresh
  <2> QED BY <2>1, <2>2 DEF StreamUnbroken
<1> QED BY <1>3, <1>4, <1>5, <1>6, <1>7

\* A descriptor that polls is open, and its event is its owner's.
LEMMA ClientEventKeeps ==
  ASSUME IInv, ClientEvent
  PROVE  IInv'
<1> USE DEF IInv, ClientEvent, listening, objects, peers, proxy
<1> PICK fd \in ready :
      /\ ready' = ready \ {fd}
      /\ \/ ~Polls(fd) /\ UNCHANGED loop
         \/ /\ Polls(fd)
            /\ at' = open[fd]
            /\ lpc' = IF open[fd] \in gone THEN "destroy" ELSE "flush"
            /\ bases' = IF open[fd] \in gone THEN Bases ELSE <<>>
  OBVIOUS
<1>1. ASSUME Polls(fd)
      PROVE  open[fd] \in Peer /\ conn[open[fd]] = fd /\ fd # 0
  BY <1>1, RelayAssumption DEF TypeOK, Polls
<1>2. Bases \in Seq({"DataProxy::Client", "Connection"})
      /\ <<>> \in Seq({"DataProxy::Client", "Connection"})
  BY EmptySeq DEF Bases
<1>3. TypeOK'
  BY <1>1, <1>2 DEF TypeOK, Room, loop
<1>4. BacklogInv' /\ ClientInv' /\ RoundInv'
  BY DEF BacklogInv, ClientInv, RoundInv, Fresh
<1>5. LoopInv' /\ EdgeInv'
  BY <1>1, BasesInOrder DEF LoopInv, EdgeInv, loop, Fresh
<1>6. StreamUnbroken'
  BY DEF StreamUnbroken, Given
<1> QED BY <1>3, <1>4, <1>5, <1>6

\* What leaves the buffer arrives on the wire.
LEMMA FlushKeeps ==
  ASSUME IInv, Flush
  PROVE  IInv'
<1> USE DEF IInv, Flush, Return, listening, proxy
<1> DEFINE k == IF at \in gone THEN 0 ELSE Min({Room(at), Len(txbuf[at])})
           S == 1 .. MaxBytes
           w == wire[at]
           t == txbuf[at]
           first == SubSeq(t, 1, k)
           rest == SubSeq(t, k + 1, Len(t))
<1>1. /\ at \in Peer /\ at # Nobody /\ conn[at] # 0 /\ conn[at] \in Fd
      /\ w \in Seq(S) /\ t \in Seq(S) /\ Len(w) \in Nat /\ Len(t) \in Nat
      /\ consumed[at] \in Nat /\ Room(at) \in Nat /\ consumed[at] <= Len(w)
  <2>1. at \in Peer /\ at # Nobody /\ conn[at] # 0 /\ conn[at] \in Fd
    BY NobodyAssumption DEF LoopInv, TypeOK
  <2>2. w \in Seq(S) /\ t \in Seq(S) /\ consumed[at] \in Nat /\ consumed[at] <= Len(w) /\ Room(at) >= 0
    BY <2>1 DEF TypeOK
  <2>3. Len(w) \in Nat /\ Len(t) \in Nat
    BY <2>2, LenProperties
  <2> QED BY <2>1, <2>2, <2>3, RelayAssumption DEF Room
<1>2. k \in 0 .. Len(t) /\ k <= Room(at)
  <2>1. Min({Room(at), Len(t)}) \in 0 .. Room(at) /\ Min({Room(at), Len(t)}) \in 0 .. Len(t)
    BY <1>1, MinOfTwo
  <2> QED BY <1>1, <2>1
<1>3. /\ wire' = [wire EXCEPT ![at] = w \o first]
      /\ txbuf' = [txbuf EXCEPT ![at] = rest]
      /\ nospace' \subseteq nospace \union {conn[at]}
      /\ lpc = "flush" /\ lpc' = "wait" /\ at' = Nobody
      /\ UNCHANGED <<listening, open, ready, conn, client_sock, since, gone, consumed, proxy, bases>>
  BY <1>1 DEF TypeOK
<1> HIDE DEF Flush, k
<1>4. /\ first \in Seq(S) /\ rest \in Seq(S) /\ Len(first) = k /\ first \o rest = t
  BY <1>1, <1>2, CutInTwo
<1>6. (w \o first) \o rest = w \o t
  BY <1>1, <1>2, MoveFirst
<1> HIDE DEF first, rest, w, t, S
<1>5. w \o first \in Seq(S) /\ Len(w \o first) = Len(w) + k
  BY <1>1, <1>4, ConcatProperties
<1>7. TypeOK'
  <2>1. wire' \in [Peer -> Seq(1 .. MaxBytes)] /\ txbuf' \in [Peer -> Seq(1 .. MaxBytes)]
    BY <1>1, <1>3, <1>4, <1>5 DEF TypeOK, S
  <2>2. ASSUME NEW p \in Peer PROVE consumed[p] <= Len(wire'[p]) /\ Room(p)' >= 0
    <3>1. CASE p = at
      <4>1. Len(wire'[at]) = Len(w) + k
        BY <1>1, <1>3, <1>5 DEF TypeOK
      <4>2. Room(at) = Capacity - (Len(w) - consumed[at])
        BY DEF Room, w
      <4>3. Room(p)' = Capacity - ((Len(w) + k) - consumed[at])
        BY <1>3, <3>1, <4>1 DEF Room
      <4> QED BY SMTT(20), <1>1, <1>2, <3>1, <4>1, <4>2, <4>3, RelayAssumption
    <3>2. CASE p # at
      BY <1>1, <1>3, <3>2 DEF TypeOK, Room
    <3> QED BY <3>1, <3>2
  <2> QED BY <1>1, <1>3, <2>1, <2>2 DEF TypeOK
<1>8. BacklogInv' /\ LoopInv' /\ RoundInv' /\ EdgeInv'
  BY <1>3 DEF BacklogInv, LoopInv, RoundInv, EdgeInv
<1>9. ClientInv'
  BY <1>1, <1>3 DEF ClientInv, Fresh, TypeOK
<1>10. StreamUnbroken'
  <2>1. ASSUME NEW p \in client_sock PROVE wire'[p] \o txbuf'[p] = Run(since[p], Given(p)')
    <3>1. Given(p)' = Given(p) /\ wire[p] \o txbuf[p] = Run(since[p], Given(p))
      BY <1>3, <2>1 DEF StreamUnbroken, Given
    <3>2. wire'[p] \o txbuf'[p] = wire[p] \o txbuf[p]
      BY <1>1, <1>3, <1>6 DEF TypeOK, w, t
    <3> QED BY <3>1, <3>2
  <2> QED BY <1>3, <2>1 DEF StreamUnbroken
<1> QED BY <1>7, <1>8, <1>9, <1>10

\* DeregisterClient comes first, between two rounds, and the descriptor is
\* closed behind it.
LEMMA DestroyKeeps ==
  ASSUME IInv, Destroy
  PROVE  IInv'
<1> USE DEF IInv, Destroy, listening, peers, proxy
<1>1. /\ at \in Peer /\ conn[at] # 0 /\ conn[at] \in Fd /\ open[conn[at]] = at
      /\ bases \in {Bases, <<"Connection">>}
  BY DEF LoopInv, TypeOK
<1>2. CASE Head(bases) = "DataProxy::Client"
  <2>1. /\ bases = Bases /\ bases' = <<"Connection">> /\ wpc = "idle"
        /\ client_sock' = client_sock \ {at}
        /\ UNCHANGED <<open, ready, nospace, txbuf, conn, since, lpc, at>>
    BY <1>1, <1>2, BasesInOrder
  <2>2. bases' \in Seq({"DataProxy::Client", "Connection"})
    BY HeadTailProperties DEF TypeOK
  <2>3. TypeOK'
    BY <2>1, <2>2 DEF TypeOK, Room
  <2>4. BacklogInv' /\ ClientInv' /\ LoopInv' /\ EdgeInv'
    BY <2>1, BasesInOrder DEF BacklogInv, ClientInv, LoopInv, EdgeInv, Fresh
  <2>5. RoundInv'
    BY <2>1 DEF RoundInv
  <2>6. StreamUnbroken'
    BY <2>1 DEF StreamUnbroken, Given
  <2> QED BY <2>3, <2>4, <2>5, <2>6
<1>3. CASE Head(bases) = "Connection"
  <2>1. /\ bases = <<"Connection">> /\ bases' = <<>> /\ bases # Bases
        /\ open' = [open EXCEPT ![conn[at]] = Nobody]
        /\ ready' = ready \ {conn[at]} /\ nospace' = nospace \ {conn[at]}
        /\ txbuf' = [txbuf EXCEPT ![at] = <<>>]
        /\ UNCHANGED <<conn, client_sock, since, lpc, at>>
    BY <1>1, <1>3, BasesInOrder
  <2>2. at \notin client_sock /\ at # Nobody
    BY <1>1, <2>1, NobodyAssumption DEF LoopInv
  <2>3. <<>> \in Seq(1 .. MaxBytes) /\ <<>> \in Seq({"DataProxy::Client", "Connection"})
    BY EmptySeq
  <2>4. TypeOK'
    BY <1>1, <2>1, <2>3 DEF TypeOK, Room
  <2>5. \A p \in client_sock : open'[conn[p]] = p
    BY <1>1, <2>1, <2>2 DEF TypeOK, ClientInv
  <2>6. BacklogInv' /\ RoundInv' /\ EdgeInv'
    BY <2>1 DEF BacklogInv, RoundInv, EdgeInv
  <2>7. ClientInv'
    BY <1>1, <2>1, <2>5 DEF TypeOK, ClientInv, Fresh
  <2>8. LoopInv'
    BY <1>1, <2>1, <2>2 DEF TypeOK, LoopInv
  <2>9. StreamUnbroken'
    BY <1>1, <2>1, <2>2 DEF TypeOK, StreamUnbroken, Given
  <2> QED BY <2>4, <2>6, <2>7, <2>8, <2>9
<1> QED BY <1>2, <1>3

LEMMA DestroyedKeeps ==
  ASSUME IInv, Destroyed
  PROVE  IInv'
<1> USE DEF IInv, Destroyed, Return, listening, kernel, proxy
<1>1. /\ at \in Peer /\ conn[at] # 0 /\ at \notin client_sock /\ open[conn[at]] # at
  BY BasesInOrder DEF LoopInv
<1>2. <<>> \in Seq(1 .. MaxBytes) /\ Len(<<>>) = 0
  BY EmptySeq
<1>3. \A fd \in Fd : open[fd] # at
  BY <1>1, NobodyAssumption DEF TypeOK
<1>4. TypeOK'
  <2>1. \A p \in Peer : consumed'[p] <= Len(wire'[p]) /\ Room(p)' >= 0
    BY <1>1, <1>2, RelayAssumption DEF TypeOK, Room
  <2> QED BY SMTT(20), <1>1, <1>2, <1>3, <2>1, RelayAssumption DEF TypeOK
<1>5. BacklogInv'
  BY DEF TypeOK, BacklogInv
<1>6. txbuf[at] = <<>>
  BY <1>1 DEF LoopInv
<1>7. ClientInv' /\ LoopInv' /\ RoundInv' /\ EdgeInv'
  BY <1>1, <1>6 DEF TypeOK, ClientInv, LoopInv, RoundInv, EdgeInv, Fresh
<1>8. StreamUnbroken'
  BY <1>1 DEF TypeOK, StreamUnbroken, Given
<1> QED BY <1>4, <1>5, <1>7, <1>8

-----------------------------------------------------------------------------
(* The theorems.                                                           *)

LEMMA NextIInv == IInv /\ [Next]_vars => IInv'
<1> SUFFICES ASSUME IInv, [Next]_vars PROVE IInv'
  OBVIOUS
<1>1. CASE UNCHANGED vars
  <2>1. TypeOK'
    BY <1>1 DEF vars, IInv, TypeOK, Room
  <2>2. BacklogInv' /\ ClientInv' /\ LoopInv' /\ RoundInv' /\ EdgeInv'
    BY <1>1 DEF vars, IInv, BacklogInv, ClientInv, Fresh, LoopInv, RoundInv, EdgeInv
  <2>3. StreamUnbroken'
    BY <1>1 DEF vars, IInv, StreamUnbroken, Given
  <2> QED BY <2>1, <2>2, <2>3 DEF IInv
<1>2. CASE Worker
  BY <1>2, StartRoundKeeps, AppendKeeps, RearmKeeps, EndRoundKeeps DEF Worker
<1>3. CASE Loop
  BY <1>3, ListenEventKeeps, AcceptKeeps, AcceptEndsKeeps, RegisterKeeps, ClientEventKeeps,
     FlushKeeps, DestroyKeeps, DestroyedKeeps DEF Loop
<1>4. CASE Environment
  BY <1>4, PortSendsKeeps, ConnectKeeps, HangupKeeps, ReadKeeps DEF Environment
<1> QED BY <1>1, <1>2, <1>3, <1>4 DEF Next

THEOREM Invariance == Spec => []IInv
  BY InitIInv, NextIInv, PTL DEF Spec

\* The descriptor table and the connections agree, and the kernel never holds
\* more for a peer than it has room for.
THEOREM TypeCorrect == Spec => []TypeOK
<1>1. IInv => TypeOK
  BY DEF IInv
<1> QED BY <1>1, Invariance, PTL

\* dataproxy.cc:77-125 with sockserver.cc:59-108: one unbroken piece of the
\* port's stream for every client, however many come, go and share descriptors.
THEOREM StreamCorrect == Spec => []StreamUnbroken
<1>1. IInv => StreamUnbroken
  BY DEF IInv
<1> QED BY <1>1, Invariance, PTL

\* The worker never serves a connection that is gone, nor re-arms a descriptor
\* that is another's by now.
THEOREM RearmCorrect == Spec => []RearmsItsClient
<1>1. IInv => RearmsItsClient
  BY DEF IInv, RoundInv, ClientInv, RearmsItsClient
<1> QED BY <1>1, Invariance, PTL

\* sockserver.cc:59: a peer in the backlog is not left without an edge, except
\* behind a failed accept().
THEOREM EdgeCorrect == Spec => []WaitingHasEdge
<1>1. IInv => WaitingHasEdge
  BY DEF IInv, EdgeInv, WaitingHasEdge
<1> QED BY <1>1, Invariance, PTL
=============================================================================
