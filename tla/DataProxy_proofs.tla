------------------------- MODULE DataProxy_proofs ---------------------------
(***************************************************************************)
(* The invariants of DataProxy, and that each direction implements         *)
(* Broadcast, for any number of clients, admins, ports and bytes.          *)
(***************************************************************************)
EXTENDS DataProxy, Streams_proofs

-----------------------------------------------------------------------------
(* The invariant.                                                          *)

\* The worker's loop calls the registered objects of its direction, and only
\* when there is something to hand over.
RoundShape ==
  /\ ~Held => todo = {}
  /\ \A d \in Dir : wpc = d => todo \subseteq Members(d)

\* A buffer holds the end of its stream.
BufferIsTail ==
  \A d \in Dir : Drained(d) \in Nat /\ buffer[d] = Run(Drained(d), sent[d])

BaseInPast ==
  \A c \in Object : state[c] # "none" => base[c] <= Drained(DirOf(c))

\* The worker leaves through the round that finds quit_ set, and nothing is
\* appended once it is set.
ExitInv ==
  /\ quit => main # "run"
  /\ wpc = "serial" => buffer["sock"] = <<>>
  /\ wpc = "exited" => quit /\ buffer["sock"] = <<>> /\ buffer["serial"] = <<>>

IInv == TypeOK /\ RoundShape /\ BufferIsTail /\ BaseInPast /\ ExitInv /\ ReceivedInOrder

LEMMA DirOfTyped == \A c \in Object : DirOf(c) \in Dir /\ Feeds(c) \in Dir
  BY DEF DirOf, Feeds, Dir

LEMMA InitIInv == Init => IInv
<1> SUFFICES ASSUME Init PROVE IInv
  OBVIOUS
<1>1. Drained("serial") = 0 /\ Drained("sock") = 0
  BY DEF Init, Drained, Dir
<1>2. TypeOK
  BY EmptySeq DEF Init, TypeOK, Dir
<1>3. BufferIsTail
  BY <1>1, EmptyRun DEF Init, BufferIsTail, Dir
<1> QED
  BY <1>2, <1>3, DirOfTyped
     DEF Init, IInv, RoundShape, BaseInPast, ExitInv, ReceivedInOrder, Held, Dir, Object

\* Steps that change the life of an object, or what the loop thread does, and
\* leave the buffers and the worker's place alone.
LEMMA LifeKeeps ==
  ASSUME IInv, UNCHANGED data, UNCHANGED <<wpc, todo, quit, crashed>>,
         state' \in [Object -> {"none", "ctor", "live", "dtor"}],
         \A c \in Object : state'[c] # "none" => state[c] # "none",
         Held => \A c \in Object : state[c] # "none" => state'[c] # "none",
         main' \in {"run", "notify", "join", "gone"},
         main # "run" => main' # "run",
         signalled' \in BOOLEAN
  PROVE  IInv'
<1> USE DEF IInv, data
<1>1. TypeOK'
  BY DEF TypeOK
<1>2. RoundShape'
  BY DEF TypeOK, RoundShape, Held, Dir, Members, Audience, Object
<1>3. BufferIsTail'
  BY DEF BufferIsTail, Drained
<1>4. BaseInPast'
  BY DEF BaseInPast, Drained
<1>5. ExitInv'
  BY DEF ExitInv
<1>6. ReceivedInOrder'
  BY DEF ReceivedInOrder, Drained, Object
<1> QED BY <1>1, <1>2, <1>3, <1>4, <1>5, <1>6

\* What a transfer appends, and that it does not touch what was handed out.
LEMMA TransferEffect ==
  ASSUME IInv, NEW c \in Object, Transfer(c), UNCHANGED crashed
  PROVE  /\ ~Held /\ main = "run" /\ signalled' \in BOOLEAN
         /\ UNCHANGED <<state, got, base, wpc, todo, quit, main>>
         /\ \A e \in Dir : Drained(e)' = Drained(e)
         /\ \E n \in Nat \ {0} :
              /\ sent[Feeds(c)] \in Nat
              /\ Run(sent[Feeds(c)], sent[Feeds(c)] + n) \in Seq(Nat)
              /\ sent' = [sent EXCEPT ![Feeds(c)] = @ + n]
              /\ buffer' = [buffer EXCEPT ![Feeds(c)] =
                              @ \o Run(sent[Feeds(c)], sent[Feeds(c)] + n)]
<1> USE DEF IInv
<1>1. PICK d \in Dir : d = Feeds(c)
  BY DirOfTyped
<1>2. PICK n \in 1 .. MaxChunk :
        /\ buffer' = [buffer EXCEPT ![d] = @ \o Run(sent[d], sent[d] + n)]
        /\ sent' = [sent EXCEPT ![d] = @ + n]
  BY <1>1 DEF Transfer
<1>3. /\ ~Held /\ main = "run" /\ signalled' \in BOOLEAN
      /\ UNCHANGED <<state, got, base, wpc, todo, quit, main>>
  BY DEF Transfer, Idle, Notified, TypeOK
<1>4. n \in Nat \ {0} /\ sent[d] \in Nat /\ buffer[d] \in Seq(Nat)
  BY <1>1, BoundsAssumption DEF TypeOK
<1>5. /\ Run(sent[d], sent[d] + n) \in Seq(Nat)
      /\ Len(Run(sent[d], sent[d] + n)) = n
  <2>1. sent[d] + n \in Nat /\ sent[d] <= sent[d] + n /\ (sent[d] + n) - sent[d] = n
    BY <1>4
  <2> QED BY <1>4, <2>1, RunIsSeq
<1>6. /\ buffer'[d] = buffer[d] \o Run(sent[d], sent[d] + n)
      /\ sent'[d] = sent[d] + n
      /\ \A e \in Dir : e # d => buffer'[e] = buffer[e] /\ sent'[e] = sent[e]
  BY <1>1, <1>2 DEF TypeOK
<1>7. buffer'[d] \in Seq(Nat) /\ Len(buffer'[d]) = Len(buffer[d]) + n /\ Len(buffer[d]) \in Nat
  <2>1. Len(buffer[d]) \in Nat
    BY <1>4, LenProperties
  <2>2. /\ buffer[d] \o Run(sent[d], sent[d] + n) \in Seq(Nat)
        /\ Len(buffer[d] \o Run(sent[d], sent[d] + n)) = Len(buffer[d]) + n
    BY <1>4, <1>5, ConcatProperties
  <2> QED BY <2>1, <2>2, <1>6
<1>8. \A e \in Dir : Drained(e)' = Drained(e)
  <2>1. Drained(d)' = Drained(d)
    <3>1. Drained(d)' = sent'[d] - Len(buffer'[d])
      BY DEF Drained
    <3>2. (sent[d] + n) - (Len(buffer[d]) + n) = sent[d] - Len(buffer[d])
      BY <1>4, <1>7
    <3> QED BY <3>1, <3>2, <1>6, <1>7 DEF Drained
  <2> QED BY <2>1, <1>6 DEF Drained
<1> QED BY <1>1, <1>2, <1>3, <1>4, <1>5, <1>8

LEMMA TransferKeeps ==
  ASSUME IInv, NEW c \in Object, Transfer(c), UNCHANGED crashed
  PROVE  IInv'
<1> USE DEF IInv
<1>1. PICK d \in Dir : d = Feeds(c)
  BY DirOfTyped
<1>2. PICK n \in Nat \ {0} :
        /\ sent[d] \in Nat
        /\ Run(sent[d], sent[d] + n) \in Seq(Nat)
        /\ sent' = [sent EXCEPT ![d] = @ + n]
        /\ buffer' = [buffer EXCEPT ![d] = @ \o Run(sent[d], sent[d] + n)]
  BY <1>1, TransferEffect
<1>3. /\ ~Held /\ main = "run" /\ signalled' \in BOOLEAN
      /\ UNCHANGED <<state, got, base, wpc, todo, quit, main>>
  BY TransferEffect
<1>4. \A e \in Dir : Drained(e)' = Drained(e)
  BY TransferEffect
<1>5. buffer[d] \in Seq(Nat) /\ Len(buffer[d]) \in Nat
  BY LenProperties DEF TypeOK
<1>6. /\ buffer'[d] = buffer[d] \o Run(sent[d], sent[d] + n)
      /\ sent'[d] = sent[d] + n
      /\ \A e \in Dir : e # d => buffer'[e] = buffer[e] /\ sent'[e] = sent[e]
  BY <1>2 DEF TypeOK
<1>7. buffer'[d] \in Seq(Nat)
  BY <1>2, <1>5, <1>6, ConcatProperties
<1>8. Drained(d) \in Nat /\ Drained(d) <= sent[d]
  BY <1>2, <1>5 DEF BufferIsTail, Drained
<1>9. TypeOK'
  <2>1. buffer' \in [Dir -> Seq(Nat)]
    BY <1>2, <1>6, <1>7 DEF TypeOK
  <2>2. sent' \in [Dir -> Nat]
    BY <1>2 DEF TypeOK
  <2> QED BY <1>3, <2>1, <2>2 DEF TypeOK
<1>10. RoundShape'
  BY <1>3 DEF RoundShape, Held, Members
<1>11. BufferIsTail'
  <2>1. buffer[d] = Run(Drained(d), sent[d])
    BY DEF BufferIsTail
  <2>2. buffer'[d] = Run(Drained(d), sent[d] + n)
    <3>1. sent[d] + n \in Nat /\ sent[d] <= sent[d] + n
      BY <1>2
    <3>2. Run(Drained(d), sent[d]) \o Run(sent[d], sent[d] + n) = Run(Drained(d), sent[d] + n)
      BY <3>1, <1>2, <1>8, RunConcat
    <3> QED BY <2>1, <3>2, <1>6
  <2>3. \A e \in Dir : Drained(e)' \in Nat /\ buffer'[e] = Run(Drained(e)', sent'[e])
    BY <2>2, <1>4, <1>6 DEF BufferIsTail
  <2> QED BY <2>3 DEF BufferIsTail
<1>12. BaseInPast'
  BY <1>3, <1>4, DirOfTyped DEF BaseInPast
<1>13. ExitInv'
  BY <1>3 DEF ExitInv, Held, Dir
<1>14. ReceivedInOrder'
  <2>1. \A e \in Dir : wpc # e
    BY <1>3 DEF Held
  <2> QED BY <1>3, <1>4, <2>1, DirOfTyped DEF ReceivedInOrder, Object
<1> QED BY <1>9, <1>10, <1>11, <1>12, <1>13, <1>14

LEMMA RegisterKeeps ==
  ASSUME IInv, NEW c \in Object, Register(c), UNCHANGED crashed
  PROVE  IInv'
<1> USE DEF IInv
<1>1. /\ ~Held
      /\ state' = [state EXCEPT ![c] = "ctor"]
      /\ got' = [got EXCEPT ![c] = <<>>]
      /\ base' = [base EXCEPT ![c] = Drained(DirOf(c))]
      /\ UNCHANGED <<buffer, sent, worker, quit, main>>
  BY DEF Register
<1>2. \A e \in Dir : Drained(e)' = Drained(e) /\ Drained(e) \in Nat
  BY <1>1 DEF Drained, BufferIsTail
<1>3. TypeOK'
  <2>1. got' \in [Object -> Seq(Nat)]
    BY <1>1, EmptySeq DEF TypeOK
  <2>2. base' \in [Object -> Nat]
    BY <1>1, <1>2, DirOfTyped DEF TypeOK
  <2> QED BY <1>1, <2>1, <2>2 DEF TypeOK, worker
<1>4. RoundShape'
  BY <1>1 DEF RoundShape, Held, worker
<1>5. BufferIsTail'
  BY <1>1 DEF BufferIsTail, Drained
<1>6. BaseInPast'
  BY SMTT(20), <1>1, <1>2, DirOfTyped DEF BaseInPast, TypeOK
<1>7. ExitInv'
  BY <1>1 DEF ExitInv, worker
<1>8. ReceivedInOrder'
  <2>1. \A e \in Dir : wpc' # e
    BY <1>1 DEF Held, worker
  <2>2. got'[c] = Run(base'[c], Drained(DirOf(c))')
    BY <1>1, <1>2, DirOfTyped, EmptyRun DEF TypeOK
  <2>3. ASSUME NEW e \in Clients \union Serials, e # c, state'[e] # "none"
        PROVE  got'[e] = Run(base'[e], Drained(DirOf(e))')
    <3>1. e \in Object /\ wpc # DirOf(e)
      BY <2>1, <1>1, DirOfTyped DEF Object, worker
    <3> QED BY <3>1, <2>3, <1>1, <1>2, DirOfTyped DEF ReceivedInOrder, TypeOK
  <2>4. ASSUME NEW e \in Clients \union Serials, state'[e] # "none"
        PROVE  got'[e] = Run(base'[e], IF wpc' = DirOf(e) /\ e \notin todo' THEN sent'[DirOf(e)]
                                                               ELSE Drained(DirOf(e))')
    <3>1. wpc' # DirOf(e)
      BY <2>1, DirOfTyped DEF Object
    <3> QED BY <3>1, <2>2, <2>3, <2>4
  <2> QED BY <2>4 DEF ReceivedInOrder
<1> QED BY <1>3, <1>4, <1>5, <1>6, <1>7, <1>8

\* Entering a round of direction d: whoever is called in it has received what
\* was handed out before, whoever is not called has nothing to receive.
LEMMA TargetsShape ==
  ASSUME IInv, NEW d \in Dir
  PROVE  /\ Targets(d) \subseteq Members(d)
         /\ Targets(d) \subseteq Object
         /\ \A c \in Members(d) \ Targets(d) : Drained(d) = sent[d]
<1>1. buffer[d] = <<>> => Drained(d) = sent[d]
  BY DEF IInv, TypeOK, Drained
<1> QED BY <1>1 DEF Targets, Members, Audience, Object

LEMMA AcquireKeeps ==
  ASSUME IInv, Acquire, UNCHANGED crashed
  PROVE  IInv'
<1> USE DEF IInv
<1>1. ~Held /\ UNCHANGED <<data, state, quit, main>>
  BY DEF Acquire, Held, Dir
<1>2. /\ wpc' \in {"sock", "wait"} /\ signalled' \in BOOLEAN
      /\ wpc' = "sock" => todo' = Targets("sock")
      /\ wpc' = "wait" => todo' = todo
  BY DEF Acquire, TypeOK
<1>3. todo = {}
  BY <1>1 DEF RoundShape
<1>4. Targets("sock") \subseteq Members("sock") /\ Targets("sock") \subseteq Object
  BY TargetsShape DEF Dir
<1>5. TypeOK'
  BY <1>1, <1>2, <1>4 DEF TypeOK, data, Dir
<1>6. RoundShape'
  BY <1>1, <1>2, <1>3, <1>4 DEF RoundShape, Held, Members, Dir
<1>7. BufferIsTail' /\ BaseInPast'
  BY <1>1 DEF BufferIsTail, BaseInPast, Drained, data
<1>8. ExitInv'
  BY <1>1, <1>2 DEF ExitInv, data
<1>9. ReceivedInOrder'
  <2>1. ASSUME NEW c \in Clients \union Serials, state[c] # "none"
        PROVE  got[c] = Run(base[c], IF wpc' = DirOf(c) /\ c \notin todo' THEN sent[DirOf(c)]
                                                              ELSE Drained(DirOf(c)))
    <3>1. wpc # DirOf(c)
      BY <1>1, DirOfTyped DEF Held, Object
    <3>2. got[c] = Run(base[c], Drained(DirOf(c)))
      BY <2>1, <3>1 DEF ReceivedInOrder
    <3>3. CASE wpc' = DirOf(c) /\ c \notin todo'
      <4>1. DirOf(c) = "sock" /\ c \in Members("sock") \ Targets("sock")
        BY <2>1, <3>3, <1>2, ObjectsAssumption DEF DirOf, Members, Audience
      <4>2. Drained("sock") = sent["sock"]
        BY <4>1, TargetsShape DEF Dir
      <4> QED BY <3>2, <3>3, <4>1, <4>2
    <3> QED BY <3>2, <3>3
  <2> QED BY <2>1, <1>1 DEF ReceivedInOrder, Drained, data
<1> QED BY <1>5, <1>6, <1>7, <1>8, <1>9

LEMMA ReceiveKeeps ==
  ASSUME IInv, NEW c \in Object, Receive(c)
  PROVE  IInv'
<1> USE DEF IInv
<1>1. /\ Held /\ c \in todo
      /\ UNCHANGED <<buffer, sent, base, state, wpc, signalled, quit, main>>
  BY DEF Receive
<1>2. PICK d \in Dir : wpc = d
  BY <1>1 DEF Held
<1>3. c \in Members(d) /\ DirOf(c) = d /\ state[c] # "none"
  BY <1>1, <1>2, ObjectsAssumption DEF RoundShape, Members, Audience, DirOf, Dir
<1>4. CASE /\ todo' = todo \ {c}
           /\ got' = IF c \in Admins THEN got ELSE [got EXCEPT ![c] = @ \o buffer[wpc]]
           /\ UNCHANGED crashed
  <2>1. buffer[d] \in Seq(Nat) /\ got[c] \in Seq(Nat)
    BY DEF TypeOK
  <2>2. got[c] \o buffer[d] \in Seq(Nat)
    BY <2>1, ConcatProperties
  <2>3. TypeOK'
    BY <1>1, <1>2, <1>4, <2>2 DEF TypeOK
  <2>4. RoundShape' /\ BufferIsTail' /\ BaseInPast' /\ ExitInv'
    BY <1>1, <1>4 DEF RoundShape, Held, Members, BufferIsTail, BaseInPast, ExitInv, Drained
  <2>5. ReceivedInOrder'
    <3>1. ASSUME NEW e \in Clients \union Serials, state[e] # "none"
          PROVE  got'[e] = Run(base[e], IF wpc = DirOf(e) /\ e \notin todo' THEN sent[DirOf(e)]
                                                                ELSE Drained(DirOf(e)))
      <4>1. CASE e = c
        <5>1. got'[c] = got[c] \o buffer[d] /\ c \notin todo'
          BY <1>2, <1>4, <4>1, ObjectsAssumption DEF TypeOK, Object
        <5>2. got[c] = Run(base[c], Drained(d))
          BY <1>1, <1>3, <4>1 DEF ReceivedInOrder
        <5>3. buffer[d] = Run(Drained(d), sent[d]) /\ base[c] \in Nat /\ base[c] <= Drained(d)
              /\ Drained(d) \in Nat /\ sent[d] \in Nat /\ Drained(d) <= sent[d]
          <6>1. Len(buffer[d]) \in Nat
            BY <2>1, LenProperties
          <6> QED BY <6>1, <1>3 DEF BufferIsTail, BaseInPast, TypeOK, Drained
        <5>4. Run(base[c], Drained(d)) \o Run(Drained(d), sent[d]) = Run(base[c], sent[d])
          BY <5>3, RunConcat
        <5> QED BY <5>1, <5>2, <5>3, <5>4, <4>1, <1>2, <1>3
      <4>2. CASE e # c
        <5>1. got'[e] = got[e] /\ (e \in todo' <=> e \in todo)
          BY <1>4, <4>2 DEF TypeOK, Object
        <5> QED BY <5>1, <3>1 DEF ReceivedInOrder
      <4> QED BY <4>1, <4>2
    <3> QED BY <3>1, <1>1 DEF ReceivedInOrder, Drained
  <2> QED BY <2>3, <2>4, <2>5
<1>5. CASE crashed' = TRUE /\ UNCHANGED <<todo, got>>
  BY <1>1, <1>5
     DEF TypeOK, RoundShape, Held, Members, BufferIsTail, BaseInPast, ExitInv, Drained,
         ReceivedInOrder
<1> QED BY <1>4, <1>5 DEF Receive

LEMMA EndRoundKeeps ==
  ASSUME IInv, EndRound, UNCHANGED crashed
  PROVE  IInv'
<1> USE DEF IInv
<1>1. PICK d \in Dir : wpc = d
  BY DEF EndRound, Held
<1>2. /\ todo = {}
      /\ buffer' = [buffer EXCEPT ![d] = <<>>]
      /\ UNCHANGED <<sent, got, base, state, signalled, quit, main>>
  BY <1>1 DEF EndRound
<1>3. /\ buffer'[d] = <<>>
      /\ \A e \in Dir : e # d => buffer'[e] = buffer[e]
  BY <1>2 DEF TypeOK
<1>4. /\ Drained(d)' = sent[d]
      /\ \A e \in Dir : e # d => Drained(e)' = Drained(e)
      /\ sent[d] \in Nat
  <2>1. sent[d] \in Nat /\ Len(<<>>) = 0
    BY EmptySeq DEF TypeOK
  <2>2. Drained(d)' = sent[d] - Len(buffer'[d])
    BY <1>2 DEF Drained
  <2>3. \A e \in Dir : e # d => Drained(e)' = Drained(e)
    BY <1>2, <1>3 DEF Drained
  <2> QED BY <1>3, <2>1, <2>2, <2>3
<1>5. /\ d = "sock" => wpc' = "serial" /\ todo' = Targets("serial")
      /\ d = "serial" => wpc' = (IF quit THEN "exited" ELSE "lock") /\ todo' = {}
  BY <1>1, <1>2 DEF EndRound
<1>6. Targets("serial") \subseteq Members("serial") /\ Targets("serial") \subseteq Object
  BY TargetsShape DEF Dir
<1>7. TypeOK'
  <2>1. buffer' \in [Dir -> Seq(Nat)]
    BY <1>2, EmptySeq DEF TypeOK
  <2>2. wpc' \in Dir \union {"lock", "wait", "exited"} /\ todo' \subseteq Object
    BY <1>5, <1>6 DEF Dir
  <2> QED BY <1>2, <2>1, <2>2 DEF TypeOK
<1>8. RoundShape'
  BY <1>2, <1>5, <1>6 DEF RoundShape, Held, Members, Dir
<1>9. BufferIsTail'
  <2>1. buffer'[d] = Run(Drained(d)', sent'[d]) /\ Drained(d)' \in Nat
    BY <1>2, <1>3, <1>4, EmptyRun
  <2> QED BY <1>2, <1>3, <1>4, <2>1 DEF BufferIsTail
<1>10. \A e \in Dir : Drained(e) <= Drained(e)' /\ Drained(e) \in Nat /\ Drained(e)' \in Nat
  <2>1. Len(buffer[d]) \in Nat /\ Drained(d) \in Nat
    BY LenProperties DEF TypeOK, BufferIsTail
  <2>2. Drained(d) <= sent[d]
    BY <2>1, <1>4 DEF Drained
  <2>3. \A e \in Dir : Drained(e) \in Nat
    BY DEF BufferIsTail
  <2> QED BY <1>4, <2>2, <2>3
<1>11. BaseInPast'
  <2>1. ASSUME NEW c \in Object, state[c] # "none"
        PROVE  base[c] <= Drained(DirOf(c))'
    <3>1. base[c] \in Nat /\ base[c] <= Drained(DirOf(c)) /\ DirOf(c) \in Dir
      BY <2>1, DirOfTyped DEF BaseInPast, TypeOK
    <3>2. PICK e \in Dir : e = DirOf(c)
      BY <3>1
    <3> QED BY <3>1, <3>2, <1>10
  <2> QED BY <2>1, <1>2 DEF BaseInPast
<1>12. ExitInv'
  BY <1>1, <1>2, <1>3, <1>5 DEF ExitInv, Dir
<1>13. ReceivedInOrder'
  <2>1. ASSUME NEW c \in Clients \union Serials, state[c] # "none"
        PROVE  got[c] = Run(base[c], IF wpc' = DirOf(c) /\ c \notin todo' THEN sent[DirOf(c)]
                                                              ELSE Drained(DirOf(c))')
    <3>1. PICK e \in Dir : e = DirOf(c)
      BY DirOfTyped DEF Object
    <3>2. CASE e = d
      <4>1. got[c] = Run(base[c], sent[d])
        BY <2>1, <3>1, <3>2, <1>1, <1>2 DEF ReceivedInOrder
      <4> QED BY <4>1, <3>1, <3>2, <1>4
    <3>3. CASE e # d
      <4>1. got[c] = Run(base[c], Drained(e)) /\ Drained(e)' = Drained(e)
        BY <2>1, <3>1, <3>3, <1>1, <1>4 DEF ReceivedInOrder
      <4>2. CASE wpc' = e /\ c \notin todo'
        <5>1. e = "serial" /\ c \in Members("serial") \ Targets("serial")
          BY <2>1, <3>1, <3>3, <4>2, <1>5, ObjectsAssumption DEF Dir, DirOf, Members, Audience
        <5>2. Drained("serial") = sent["serial"]
          BY <5>1, TargetsShape DEF Dir
        <5> QED BY <4>1, <4>2, <5>1, <5>2, <3>1
      <4>3. CASE ~(wpc' = e /\ c \notin todo')
        BY <4>1, <4>3, <3>1
      <4> QED BY <4>2, <4>3
    <3> QED BY <3>2, <3>3
  <2> QED BY <2>1, <1>2 DEF ReceivedInOrder
<1> QED BY <1>7, <1>8, <1>9, <1>11, <1>12, <1>13

LEMMA NextIInv == IInv /\ [Next]_vars => IInv'
<1> SUFFICES ASSUME IInv, [Next]_vars PROVE IInv'
  OBVIOUS
<1>1. ASSUME NEW c \in Object, Receive(c) PROVE IInv'
  BY <1>1, ReceiveKeeps
<1>2. ASSUME NEW c \in Object, Transfer(c), UNCHANGED crashed PROVE IInv'
  BY <1>2, TransferKeeps
<1>3. ASSUME NEW c \in Object, Register(c), UNCHANGED crashed PROVE IInv'
  BY <1>3, RegisterKeeps
<1>4. ASSUME NEW c \in Object, Destroy(c) \/ Constructed(c), UNCHANGED crashed PROVE IInv'
  BY <1>4, LifeKeeps DEF Destroy, Constructed, IInv, TypeOK, worker
<1>5. ASSUME NEW c \in Object, Deregister(c), UNCHANGED crashed PROVE IInv'
  BY <1>5, LifeKeeps DEF Deregister, IInv, TypeOK, worker
<1>6. CASE Quit /\ UNCHANGED crashed
  <2>1. ~Held /\ main' = "notify" /\ quit' = TRUE /\ UNCHANGED <<data, state, worker, crashed>>
    BY <1>6 DEF Quit
  <2>2. TypeOK' /\ RoundShape' /\ BufferIsTail' /\ BaseInPast' /\ ReceivedInOrder'
    BY <2>1
       DEF IInv, TypeOK, RoundShape, Held, Members, BufferIsTail, BaseInPast, ReceivedInOrder,
           Drained, data, worker
  <2>3. ExitInv'
    BY <2>1 DEF IInv, ExitInv, data, worker
  <2> QED BY <2>2, <2>3 DEF IInv
<1>7. CASE (NotifyQuit \/ Join \/ Wake \/ SpuriousWake) /\ UNCHANGED crashed
  <2>1. CASE NotifyQuit \/ Join
    BY <1>7, <2>1, LifeKeeps DEF NotifyQuit, Join, Notified, IInv, TypeOK, worker
  <2>2. CASE Wake \/ SpuriousWake
    BY <1>7, <2>2
       DEF Wake, SpuriousWake, data, IInv, TypeOK, RoundShape, Held, Dir, Members, BufferIsTail,
           BaseInPast, ExitInv, ReceivedInOrder, Drained, DirOf
  <2> QED BY <1>7, <2>1, <2>2
<1>8. CASE Acquire /\ UNCHANGED crashed
  BY <1>8, AcquireKeeps
<1>9. CASE EndRound /\ UNCHANGED crashed
  BY <1>9, EndRoundKeeps
<1>10. CASE UNCHANGED vars
  BY <1>10
     DEF vars, IInv, TypeOK, RoundShape, Held, Members, BufferIsTail, BaseInPast, ExitInv,
         ReceivedInOrder, Drained
<1> QED
  BY <1>1, <1>2, <1>3, <1>4, <1>5, <1>6, <1>7, <1>8, <1>9, <1>10 DEF Next, Work, Housekeeping

-----------------------------------------------------------------------------
(* The theorems about DataProxy itself.                                    *)

\* IInv holds of every reachable state.
THEOREM Invariance == Spec => []IInv
  BY InitIInv, NextIInv, PTL DEF Spec

\* Type correctness of the proxy.
THEOREM TypeCorrect == Spec => []TypeOK
<1>1. IInv => TypeOK
  BY DEF IInv
<1> QED BY Invariance, <1>1, PTL

\* The worker never calls an object that has left the proxy.
THEOREM NoUseAfterFree == Spec => []TargetsRegistered
<1>1. IInv => TargetsRegistered
  BY DEF IInv, TargetsRegistered, RoundShape, Members, Audience, Object, Held
<1> QED BY Invariance, <1>1, PTL

\* Every registered object receives each byte handed out since it registered,
\* once and in order.
THEOREM DeliveryCorrect == Spec => []ReceivedInOrder
<1>1. IInv => ReceivedInOrder
  BY DEF IInv
<1> QED BY Invariance, <1>1, PTL

\* Nothing is left behind when the worker ends.
THEOREM ExitCorrect == Spec => []ExitDrains
<1>1. IInv => ExitDrains
  BY DEF IInv, ExitInv, ExitDrains, TypeOK, Dir
<1> QED BY Invariance, <1>1, PTL

\* No wake-up is lost, the safety half of NoByteStuck and JoinReturns: while the
\* worker waits and nobody has signalled it there is nothing to hand over, and
\* if quit_ is set already the notify_one of ~DataProxy is still to come.
WaitsForNothing ==
  wpc = "wait" /\ ~signalled =>
    buffer["sock"] = <<>> /\ buffer["serial"] = <<>> /\ (quit => main = "notify")

THEOREM NoLostWakeup == Spec => []WaitsForNothing
<1>1. Init => WaitsForNothing
  BY DEF Init, WaitsForNothing
<1>2. ASSUME IInv, WaitsForNothing, [Next]_vars PROVE WaitsForNothing'
  <2>1. ASSUME NEW c \in Object, Transfer(c) PROVE WaitsForNothing'
    BY <2>1 DEF Transfer, Notified, WaitsForNothing
  <2>2. ASSUME NEW c \in Object, Receive(c) PROVE WaitsForNothing'
    BY <2>2 DEF Receive, Held, Dir, WaitsForNothing
  <2>3. CASE Acquire
    BY <2>3 DEF Acquire, WorkToDo, data, WaitsForNothing
  <2>4. CASE EndRound
    <3>1. wpc' # "wait"
      BY <2>4 DEF EndRound
    <3> QED BY <1>2, <3>1 DEF WaitsForNothing
  <2>5. CASE Quit
    <3>1. buffer' = buffer /\ wpc' = wpc /\ signalled' = signalled /\ main' = "notify"
      BY <2>5 DEF Quit, data, worker
    <3> QED BY <1>2, <3>1 DEF WaitsForNothing
  <2>6. CASE NotifyQuit
    BY <2>6 DEF NotifyQuit, Notified, data, WaitsForNothing
  <2>7. CASE Join
    BY <2>7 DEF Join, data, worker, WaitsForNothing
  <2>8. CASE Wake \/ SpuriousWake
    BY <2>8 DEF Wake, SpuriousWake, WaitsForNothing
  <2>9. ASSUME NEW c \in Object, Register(c) \/ Constructed(c) \/ Destroy(c) \/ Deregister(c)
        PROVE  WaitsForNothing'
    <3>1. /\ buffer' = buffer /\ wpc' = wpc /\ signalled' = signalled
          /\ quit' = quit /\ main' = main
      BY <2>9 DEF Register, Constructed, Destroy, Deregister, data, worker
    <3> QED BY <1>2, <3>1 DEF WaitsForNothing
  <2>10. CASE UNCHANGED vars
    <3>1. /\ buffer' = buffer /\ wpc' = wpc /\ signalled' = signalled
          /\ quit' = quit /\ main' = main
      BY <2>10 DEF vars
    <3> QED BY <1>2, <3>1 DEF WaitsForNothing
  <2> QED BY <1>2, <2>1, <2>2, <2>3, <2>4, <2>5, <2>6, <2>7, <2>8, <2>9, <2>10
          DEF Next, Work, Housekeeping
<1> QED BY <1>1, <1>2, Invariance, PTL DEF Spec

\* The run proxy_pure finds the worker calling the pure virtual received(). There
\* is one way to it: the object is being constructed or destroyed, and is still,
\* or already, registered. A live object and a freed one are never called so.
CrashHasCause == crashed => \E c \in todo : state[c] \in {"ctor", "dtor"}

THEOREM CrashCorrect == Spec => []CrashHasCause
<1>1. Init => CrashHasCause
  BY DEF Init, CrashHasCause
<1>2. ASSUME IInv, TargetsRegistered, CrashHasCause, [Next]_vars PROVE CrashHasCause'
  <2>1. CASE UNCHANGED vars
    <3>1. UNCHANGED <<crashed, todo, state>>
      BY <2>1 DEF vars
    <3> QED BY <1>2, <3>1 DEF CrashHasCause
  <2>2. CASE UNCHANGED crashed /\ ~crashed
    BY <2>2 DEF CrashHasCause
  <2>3. ASSUME NEW c \in Object, Receive(c), ~crashed, crashed' PROVE CrashHasCause'
    <3>1. c \in todo /\ state[c] # "live" /\ UNCHANGED <<todo, state>>
      <4>1. ~UNCHANGED crashed
        BY <2>3
      <4> QED BY <2>3, <4>1 DEF Receive
    <3>2. state[c] # "none"
      BY <1>2, <3>1 DEF TargetsRegistered
    <3>3. state[c] \in {"none", "ctor", "live", "dtor"}
      BY <1>2 DEF IInv, TypeOK
    <3> QED BY <3>1, <3>2, <3>3 DEF CrashHasCause
  <2>4. ~crashed' => CrashHasCause'
    BY DEF CrashHasCause
  <2> QED BY <1>2, <2>1, <2>2, <2>3, <2>4 DEF Next
<1> QED BY <1>1, <1>2, Invariance, NoUseAfterFree, PTL DEF Spec

-----------------------------------------------------------------------------
(* Each direction implements Broadcast.                                    *)

\* Broadcast seen from direction d, for the listeners L.
Channel(d, L) == INSTANCE Broadcast WITH
  Listener <- L, sent <- sent[d], done <- HandedOut(d),
  attached <- Attached(L), got <- [c \in L |-> Seen(c)]

Listens(d, L) == L \subseteq Clients \union Serials /\ \A c \in L : DirOf(c) = d

LEMMA ListenerSets == Listens("serial", Clients) /\ Listens("sock", Serials)
  BY ObjectsAssumption DEF Listens, DirOf

\* A step that shows nothing of direction d.
LEMMA Stutters ==
  ASSUME NEW d \in Dir, NEW L,
         sent'[d] = sent[d], HandedOut(d)' = HandedOut(d),
         \A c \in L : (state'[c] # "none") = (state[c] # "none"),
         \A c \in L : Seen(c)' = Seen(c)
  PROVE  UNCHANGED Channel(d, L)!vars
<1>1. Attached(L)' = Attached(L)
  BY DEF Attached
<1>2. [c \in L |-> Seen(c)]' = [c \in L |-> Seen(c)]
  OBVIOUS
<1> QED BY <1>1, <1>2 DEF Channel!vars

\* The worker enters a round of direction d.
LEMMA EnterRound ==
  ASSUME IInv, NEW d \in Dir, NEW L, Listens(d, L),
         wpc # d, wpc' = d, todo' = Targets(d), buffer'[d] = buffer[d],
         UNCHANGED <<sent, got, state>>
  PROVE  Channel(d, L)!Deliver \/ UNCHANGED Channel(d, L)!vars
<1>1. HandedOut(d) = Drained(d) /\ HandedOut(d)' = sent[d]
  BY DEF HandedOut
<1>2. /\ sent[d] \in Nat /\ Drained(d) \in Nat /\ buffer[d] \in Seq(Nat)
      /\ buffer[d] = Run(Drained(d), sent[d])
  BY DEF IInv, TypeOK, BufferIsTail
<1>3. L \subseteq Audience(d)
  BY ObjectsAssumption DEF Listens, Audience, DirOf, Dir
<1>4. \A c \in L : Seen(c) = got[c]
  BY DEF Seen, Listens
<1>5. CASE buffer[d] = <<>>
  <2>1. HandedOut(d)' = HandedOut(d)
    BY <1>1, <1>2, <1>5, EmptySeq DEF Drained
  <2>2. \A c \in L : Seen(c)' = Seen(c)
    BY <1>4, <1>5 DEF Seen, Targets
  <2> QED BY <2>1, <2>2, Stutters
<1>6. CASE buffer[d] # <<>>
  <2>1. HandedOut(d)' \in (HandedOut(d) + 1) .. sent[d]
    <3>1. Len(buffer[d]) \in Nat \ {0}
      BY <1>2, <1>6, EmptySeq
    <3> QED BY <3>1, <1>1, <1>2 DEF Drained
  <2>2. ASSUME NEW c \in L
        PROVE  Seen(c)' = IF c \in Attached(L) THEN Seen(c) \o Run(HandedOut(d), HandedOut(d)')
                                               ELSE Seen(c)
    <3>1. c \in Targets(d) <=> c \in Attached(L)
      BY <1>3, <1>6 DEF Targets, Members, Attached
    <3>2. Run(HandedOut(d), HandedOut(d)') = buffer[d]
      BY <1>1, <1>2
    <3>3. Seen(c)' = IF c \in Targets(d) THEN got[c] \o buffer[d] ELSE got[c]
      BY DEF Seen, Listens
    <3> QED BY <1>4, <3>1, <3>2, <3>3
  <2>3. [c \in L |-> Seen(c)]' =
          [c \in L |-> IF c \in Attached(L)
                         THEN [e \in L |-> Seen(e)][c] \o Run(HandedOut(d), HandedOut(d)')
                         ELSE [e \in L |-> Seen(e)][c]]
    BY <2>2
  <2>4. UNCHANGED Attached(L)
    BY DEF Attached
  <2> QED BY <2>1, <2>3, <2>4 DEF Channel!Deliver, Channel!Run, Run
<1> QED BY <1>5, <1>6

\* Outside a round, what is seen of a direction is what the buffers say.
LEMMA OutsideRounds ==
  ASSUME IInv, ~Held, ~Held', NEW d \in Dir
  PROVE  /\ HandedOut(d) = Drained(d) /\ HandedOut(d)' = Drained(d)'
         /\ \A c \in Object : Seen(c) = got[c] /\ Seen(c)' = got'[c]
  BY DirOfTyped DEF Held, HandedOut, Seen

LEMMA NextMaps ==
  ASSUME IInv, [Next]_vars, NEW d \in Dir, NEW L, Listens(d, L)
  PROVE  [Channel(d, L)!Next]_(Channel(d, L)!vars)
<1>1. L \subseteq Object /\ \A c \in L : DirOf(c) = d /\ c \notin Admins
  BY ObjectsAssumption DEF Listens, Object
<1>2. ASSUME NEW c \in Object, Receive(c)
      PROVE  UNCHANGED Channel(d, L)!vars
  <2>1. UNCHANGED <<buffer, sent, state, wpc>>
    BY <1>2 DEF Receive
  <2>2. ASSUME NEW e \in L PROVE Seen(e)' = Seen(e)
    <3>1. CASE UNCHANGED <<todo, got>>
      BY <2>1, <3>1 DEF Seen
    <3>2. CASE /\ todo' = todo \ {c} /\ c \in todo
               /\ got' = IF c \in Admins THEN got ELSE [got EXCEPT ![c] = @ \o buffer[wpc]]
      <4>1. CASE e = c
        <5>1. wpc = DirOf(c)
          BY <1>2, <3>2, ObjectsAssumption
             DEF Receive, IInv, RoundShape, Held, Members, Audience, DirOf, Dir
        <5>2. got'[c] = got[c] \o buffer[wpc]
          BY <3>2, <4>1, <1>1 DEF IInv, TypeOK
        <5> QED BY <2>1, <3>2, <4>1, <5>1, <5>2 DEF Seen
      <4>2. CASE e # c
        <5>1. got'[e] = got[e] /\ (e \in todo' <=> e \in todo)
          BY <3>2, <4>2, <1>1 DEF IInv, TypeOK
        <5> QED BY <2>1, <5>1 DEF Seen
      <4> QED BY <4>1, <4>2
    <3> QED BY <1>2, <3>1, <3>2 DEF Receive
  <2>3. HandedOut(d)' = HandedOut(d)
    BY <2>1 DEF HandedOut, Drained
  <2> QED BY <2>1, <2>2, <2>3, Stutters
<1>3. ASSUME NEW c \in Object, Transfer(c), UNCHANGED crashed
      PROVE  Channel(d, L)!Publish \/ UNCHANGED Channel(d, L)!vars
  <2>1. PICK n \in Nat \ {0} :
          sent[Feeds(c)] \in Nat /\ sent' = [sent EXCEPT ![Feeds(c)] = @ + n]
    BY <1>3, TransferEffect
  <2>2. ~Held /\ ~Held' /\ UNCHANGED <<state, got>> /\ Drained(d)' = Drained(d)
    BY <1>3, TransferEffect DEF Held
  <2>3. HandedOut(d)' = HandedOut(d) /\ \A e \in L : Seen(e)' = Seen(e)
    BY <2>2, <1>1, OutsideRounds
  <2>4. CASE Feeds(c) = d
    <3>1. sent'[d] \in Nat /\ sent'[d] > sent[d]
      BY <2>1, <2>4 DEF IInv, TypeOK
    <3>2. Attached(L)' = Attached(L) /\ [e \in L |-> Seen(e)]' = [e \in L |-> Seen(e)]
      BY <2>2, <2>3 DEF Attached
    <3> QED BY <2>3, <3>1, <3>2 DEF Channel!Publish
  <2>5. CASE Feeds(c) # d
    <3>1. sent'[d] = sent[d]
      BY <2>1, <2>5 DEF IInv, TypeOK
    <3> QED BY <2>2, <2>3, <3>1, Stutters
  <2> QED BY <2>4, <2>5
<1>4. ASSUME NEW c \in Object, Register(c), UNCHANGED crashed
      PROVE  Channel(d, L)!Next \/ UNCHANGED Channel(d, L)!vars
  <2>1. /\ ~Held /\ ~Held' /\ state[c] = "none"
        /\ state' = [state EXCEPT ![c] = "ctor"]
        /\ got' = [got EXCEPT ![c] = <<>>]
        /\ UNCHANGED <<buffer, sent>>
    BY <1>4 DEF Register, worker, Held
  <2>2. HandedOut(d)' = HandedOut(d) /\ sent'[d] = sent[d]
    BY <2>1, OutsideRounds DEF Drained
  <2>3. \A e \in L : Seen(e) = got[e] /\ Seen(e)' = got'[e]
    BY <2>1, <1>1, OutsideRounds
  <2>4. CASE c \in L
    <3>1. c \notin Attached(L) /\ Attached(L)' = Attached(L) \union {c}
      BY <2>1, <2>4, <1>1 DEF Attached, IInv, TypeOK
    <3>2. [e \in L |-> Seen(e)]' = [[e \in L |-> Seen(e)] EXCEPT ![c] = <<>>]
      <4>1. \A e \in L : Seen(e)' = IF e = c THEN <<>> ELSE Seen(e)
        BY <2>1, <2>3, <1>1 DEF IInv, TypeOK
      <4> QED BY <4>1
    <3>3. Channel(d, L)!Attach(c)
      BY <2>2, <3>1, <3>2 DEF Channel!Attach
    <3> QED BY <2>4, <3>3 DEF Channel!Next
  <2>5. CASE c \notin L
    <3>1. \A e \in L : Seen(e)' = Seen(e) /\ state'[e] = state[e]
      BY <2>1, <2>3, <2>5, <1>1 DEF IInv, TypeOK
    <3> QED BY <2>2, <3>1, Stutters
  <2> QED BY <2>4, <2>5
<1>5. ASSUME NEW c \in Object, Deregister(c)
      PROVE  Channel(d, L)!Next \/ UNCHANGED Channel(d, L)!vars
  <2>1. /\ ~Held /\ ~Held' /\ state[c] # "none"
        /\ state' = [state EXCEPT ![c] = "none"]
        /\ UNCHANGED <<buffer, sent, got>>
    BY <1>5 DEF Deregister, worker, data, Held
  <2>2. HandedOut(d)' = HandedOut(d) /\ sent'[d] = sent[d]
    BY <2>1, OutsideRounds DEF Drained
  <2>3. \A e \in L : Seen(e)' = Seen(e)
    BY <2>1, <1>1, OutsideRounds
  <2>4. CASE c \in L
    <3>1. c \in Attached(L) /\ Attached(L)' = Attached(L) \ {c}
      BY <2>1, <2>4, <1>1 DEF Attached, IInv, TypeOK
    <3>2. [e \in L |-> Seen(e)]' = [e \in L |-> Seen(e)]
      BY <2>3
    <3>3. Channel(d, L)!Detach(c)
      BY <2>2, <3>1, <3>2 DEF Channel!Detach
    <3> QED BY <2>4, <3>3 DEF Channel!Next
  <2>5. CASE c \notin L
    <3>1. \A e \in L : state'[e] = state[e]
      BY <2>1, <2>5, <1>1 DEF IInv, TypeOK
    <3> QED BY <2>2, <2>3, <3>1, Stutters
  <2> QED BY <2>4, <2>5
<1>6. ASSUME NEW c \in Object, Destroy(c) \/ Constructed(c)
      PROVE  UNCHANGED Channel(d, L)!vars
  <2>1. /\ UNCHANGED <<buffer, sent, got, wpc, todo>>
        /\ \A e \in L : (state'[e] # "none") = (state[e] # "none")
    BY <1>1, <1>6 DEF Destroy, Constructed, data, worker, IInv, TypeOK
  <2>2. HandedOut(d)' = HandedOut(d) /\ \A e \in L : Seen(e)' = Seen(e)
    BY <2>1 DEF HandedOut, Drained, Seen
  <2> QED BY <2>1, <2>2, Stutters
<1>7. CASE Quit \/ NotifyQuit \/ Join
  <2>1. UNCHANGED <<buffer, sent, got, state, wpc, todo>>
    BY <1>7 DEF Quit, NotifyQuit, Join, data, worker
  <2>2. HandedOut(d)' = HandedOut(d) /\ \A e \in L : Seen(e)' = Seen(e)
    BY <2>1 DEF HandedOut, Drained, Seen
  <2> QED BY <2>1, <2>2, Stutters
<1>8. CASE Wake \/ SpuriousWake
  <2>1. ~Held /\ ~Held' /\ UNCHANGED <<buffer, sent, got, state>>
    BY <1>8 DEF Wake, SpuriousWake, data, Held, Dir
  <2>2. HandedOut(d)' = HandedOut(d) /\ \A e \in L : Seen(e)' = Seen(e)
    BY <2>1, <1>1, OutsideRounds DEF Drained
  <2> QED BY <2>1, <2>2, Stutters
<1>9. CASE Acquire
  <2>1. ~Held /\ UNCHANGED <<buffer, sent, got, state>>
    BY <1>9 DEF Acquire, data, Held, Dir
  <2>2. CASE wpc' = "sock" /\ d = "sock"
    <3>1. wpc # d /\ todo' = Targets(d)
      BY <1>9, <2>2 DEF Acquire
    <3> QED BY <2>1, <2>2, <3>1, EnterRound DEF Channel!Next
  <2>3. CASE ~(wpc' = "sock" /\ d = "sock")
    <3>1. wpc # d /\ wpc' # d
      BY <1>9, <2>1, <2>3 DEF Acquire, Held, Dir
    <3>2. HandedOut(d)' = HandedOut(d) /\ \A e \in L : Seen(e)' = Seen(e)
      BY <2>1, <3>1, <1>1 DEF HandedOut, Drained, Seen
    <3> QED BY <2>1, <3>2, Stutters
  <2> QED BY <2>2, <2>3
<1>10. CASE EndRound
  <2>1. PICK e \in Dir : wpc = e
    BY <1>10 DEF EndRound, Held
  <2>2. /\ todo = {} /\ UNCHANGED <<sent, got, state>>
        /\ buffer' = [buffer EXCEPT ![e] = <<>>]
    BY <1>10, <2>1 DEF EndRound
  <2>3. CASE e = d
    <3>1. wpc' # d
      BY <1>10, <2>1, <2>3 DEF EndRound, Dir
    <3>2. HandedOut(d)' = HandedOut(d)
      <4>1. HandedOut(d) = sent[d] /\ HandedOut(d)' = sent[d] - Len(buffer'[d])
        BY <2>1, <2>2, <2>3, <3>1 DEF HandedOut, Drained
      <4>2. buffer'[d] = <<>> /\ Len(<<>>) = 0 /\ sent[d] \in Nat
        BY <2>2, <2>3, EmptySeq DEF IInv, TypeOK
      <4> QED BY <4>1, <4>2
    <3>3. \A c \in L : Seen(c)' = Seen(c)
      BY <2>2, <3>1, <1>1 DEF Seen
    <3> QED BY <2>2, <3>2, <3>3, Stutters
  <2>4. CASE e # d
    <3>1. buffer'[d] = buffer[d] /\ wpc # d
      BY <2>1, <2>2, <2>4 DEF IInv, TypeOK
    <3>2. CASE wpc' = d
      <4>1. todo' = Targets(d)
        BY <1>10, <2>1, <2>4, <3>2 DEF EndRound, Dir
      <4> QED BY <2>2, <3>1, <3>2, <4>1, EnterRound DEF Channel!Next
    <3>3. CASE wpc' # d
      <4>1. HandedOut(d)' = HandedOut(d) /\ \A c \in L : Seen(c)' = Seen(c)
        BY <2>2, <3>1, <3>3, <1>1 DEF HandedOut, Drained, Seen
      <4> QED BY <2>2, <4>1, Stutters
    <3> QED BY <3>2, <3>3
  <2> QED BY <2>3, <2>4
<1>11. CASE UNCHANGED vars
  <2>1. HandedOut(d)' = HandedOut(d) /\ \A e \in L : Seen(e)' = Seen(e)
    BY <1>11 DEF vars, HandedOut, Drained, Seen
  <2> QED BY <1>11, <2>1, Stutters DEF vars
<1> QED
  BY <1>2, <1>3, <1>4, <1>5, <1>6, <1>7, <1>8, <1>9, <1>10, <1>11
     DEF Next, Work, Housekeeping, Channel!Next

\* What the port sends is broadcast to the clients.
THEOREM SerialToSockCorrect == Spec => SerialToSock
<1>1. Init => ToSock!Init
  BY EmptySeq
     DEF Init, ToSock!Init, HandedOut, Drained, Attached, Seen, Object, Dir
<1>2. IInv /\ [Next]_vars => [ToSock!Next]_(ToSock!vars)
  <2> SUFFICES ASSUME IInv, [Next]_vars PROVE [ToSock!Next]_(ToSock!vars)
    OBVIOUS
  <2>1. [Channel("serial", Clients)!Next]_(Channel("serial", Clients)!vars)
    BY NextMaps, ListenerSets DEF Dir
  <2> QED
    BY <2>1
       DEF ToSock!Next, ToSock!vars, ToSock!Publish, ToSock!Deliver, ToSock!Attach,
           ToSock!Detach, ToSock!Run,
           Channel!Next, Channel!vars, Channel!Publish, Channel!Deliver, Channel!Attach,
           Channel!Detach, Channel!Run
<1> QED BY <1>1, <1>2, Invariance, PTL DEF Spec, SerialToSock, ToSock!Spec

\* What the clients send is broadcast to the port.
THEOREM SockToSerialCorrect == Spec => SockToSerial
<1>1. Init => ToSerial!Init
  BY EmptySeq
     DEF Init, ToSerial!Init, HandedOut, Drained, Attached, Seen, Object, Dir
<1>2. IInv /\ [Next]_vars => [ToSerial!Next]_(ToSerial!vars)
  <2> SUFFICES ASSUME IInv, [Next]_vars PROVE [ToSerial!Next]_(ToSerial!vars)
    OBVIOUS
  <2>1. [Channel("sock", Serials)!Next]_(Channel("sock", Serials)!vars)
    BY NextMaps, ListenerSets DEF Dir
  <2> QED
    BY <2>1
       DEF ToSerial!Next, ToSerial!vars, ToSerial!Publish, ToSerial!Deliver, ToSerial!Attach,
           ToSerial!Detach, ToSerial!Run,
           Channel!Next, Channel!vars, Channel!Publish, Channel!Deliver, Channel!Attach,
           Channel!Detach, Channel!Run
<1> QED BY <1>1, <1>2, Invariance, PTL DEF Spec, SockToSerial, ToSerial!Spec
=============================================================================
