------------------------- MODULE ConnectionTx_proofs -------------------------
(***************************************************************************)
(* The invariants of ConnectionTx, for every size of the buffer, of an     *)
(* append and of the kernel's room.                                        *)
(***************************************************************************)
EXTENDS ConnectionTx, Streams_proofs

-----------------------------------------------------------------------------
(* The invariant.                                                          *)

\* The bytes that left the buffer.
Popped == Len(wire) - InFlight

\* The buffer is the end of what was appended, from the first byte not popped;
\* write() and pop work on its front.
BufferIsTail ==
  /\ Popped \in 0 .. appended /\ txbuf = Run(Popped, appended)
  /\ lpc = "args" => arg.len <= Len(txbuf)
  /\ lpc = "pop" => arg.len \in 0 .. Len(txbuf)

\* A byte on the wire is in its place, or was read from freed memory there.
WireInPlace == \A i \in 1 .. Len(wire) : wire[i] \in {i, 0}

\* Something will bring the loop thread to flush.
Due == ready \/ (nospace /\ consumed < Len(wire)) \/ swallowed

\* OutputEventDue, also while the loop thread reads.
DueInv == txbuf # <<>> /\ lpc \in {"wait", "in"} /\ wpc = "idle" => Due

IInv == TypeOK /\ BufferIsTail /\ WireInPlace /\ DueInv

\* The numbers the steps calculate with.
LEMMA Numbers ==
  ASSUME TypeOK
  PROVE  /\ MaxBytes \in Nat \ {0} /\ Capacity \in Nat \ {0} /\ MaxChunk \in Nat \ {0}
         /\ appended \in Nat /\ appended <= MaxBytes
         /\ Len(wire) \in Nat /\ Len(txbuf) \in Nat
         /\ consumed \in Nat /\ consumed <= Len(wire)
         /\ Free = Capacity - (Len(wire) - consumed) /\ Free \in Nat
<1>1. MaxBytes \in Nat \ {0} /\ Capacity \in Nat \ {0} /\ MaxChunk \in Nat \ {0}
  BY SizesAssumption
<1>2. Len(wire) \in Nat /\ Len(txbuf) \in Nat
  BY LenProperties DEF TypeOK
<1>3. appended \in Nat /\ appended <= MaxBytes /\ consumed \in Nat /\ consumed <= Len(wire)
  BY <1>1, <1>2 DEF TypeOK
<1>4. Free = Capacity - (Len(wire) - consumed) /\ Free \in Nat
  BY <1>1, <1>2, <1>3 DEF TypeOK, Free
<1> QED BY <1>1, <1>2, <1>3, <1>4

\* A full socket holds something the peer has not taken.
LEMMA FullSocket ==
  ASSUME TypeOK, Free = 0
  PROVE  consumed < Len(wire)
  BY Numbers

\* How long the buffer is.
LEMMA BufferLength ==
  ASSUME TypeOK, BufferIsTail
  PROVE  Popped \in Nat /\ Popped <= appended /\ Len(txbuf) = appended - Popped
<1>1. Popped \in Nat /\ Popped <= appended /\ appended \in Nat
  BY Numbers DEF BufferIsTail
<1> QED BY <1>1, RunIsSeq DEF BufferIsTail

LEMMA InitIInv == Init => IInv
<1> SUFFICES ASSUME Init PROVE IInv
  OBVIOUS
<1> USE DEF Init
<1>1. appended \in Nat /\ <<>> \in Seq(0 .. MaxBytes) /\ Len(<<>>) = 0
  BY EmptySeq
<1>2. Popped = 0
  BY <1>1 DEF Popped, InFlight
<1>3. BufferIsTail
  <2>1. arg.len = -1
    BY DEF NoArg
  <2> QED BY <1>1, <1>2, <2>1 DEF BufferIsTail
<1>4. WireInPlace /\ DueInv
  BY DEF WireInPlace, DueInv, Due
<1>5. TypeOK
  <2>1. appended \in 0 .. MaxBytes
    BY SizesAssumption
  <2>2. txbuf \in Seq(1 .. MaxBytes)
    BY SMTT(20), <2>1, SizesAssumption, RunOfBytes
  <2>3. Free \in 0 .. Capacity
    BY <1>1, SizesAssumption DEF Free
  <2>4. arg \in [data : BOOLEAN, len : -1 .. MaxBytes, moved : BOOLEAN]
    BY SizesAssumption DEF NoArg
  <2>5. consumed \in 0 .. Len(wire)
    BY <1>1
  <2> QED BY <1>1, <2>1, <2>2, <2>3, <2>4, <2>5 DEF TypeOK
<1> QED BY <1>3, <1>4, <1>5 DEF IInv

-----------------------------------------------------------------------------
(* Steps that leave the bytes alone.                                       *)

LEMMA BytesKept ==
  ASSUME IInv, UNCHANGED <<txbuf, appended, wire>>,
         UNCHANGED <<lpc, arg>> \/ (lpc # "pop" /\ lpc' # "pop"),
         lpc' = "args" => arg'.len <= Len(txbuf)
  PROVE  BufferIsTail' /\ WireInPlace'
<1>1. UNCHANGED InFlight
  BY DEF InFlight
<1>2. UNCHANGED Popped
  BY <1>1 DEF Popped
<1> QED BY <1>2 DEF IInv, BufferIsTail, WireInPlace

\* modifyHandler: what is ready now is an event, and a full socket will be one.
LEMMA RearmKeeps ==
  ASSUME IInv, Rearm
  PROVE  /\ ready' \in BOOLEAN /\ nospace' \in BOOLEAN /\ UNCHANGED <<consumed, indata>>
         /\ ready' \/ (nospace' /\ consumed < Len(wire))
<1>1. ready' \in BOOLEAN /\ nospace' \in BOOLEAN /\ UNCHANGED <<consumed, indata>>
  BY DEF Rearm, Polled, IInv, TypeOK
<1>2. CASE Free = 0
  BY <1>2, FullSocket DEF Rearm, Polled, IInv
<1>3. CASE Free # 0
  <2>1. Free > 0
    BY <1>3, Numbers DEF IInv
  <2>2. ready' = TRUE
    BY <2>1 DEF Rearm
  <2> QED BY <1>1, <2>2
<1> QED BY <1>1, <1>2, <1>3

LEMMA ArriveKeeps == ASSUME IInv, Arrive, UNCHANGED admin PROVE IInv'
<1>1. BufferIsTail' /\ WireInPlace'
  <2>1. lpc = "args" => arg.len <= Len(txbuf)
    BY DEF IInv, BufferIsTail
  <2> QED BY <2>1, BytesKept DEF Arrive, buf
<1>2. TypeOK' /\ DueInv'
  BY DEF Arrive, buf, IInv, TypeOK, Free, DueInv, Due
<1> QED BY <1>1, <1>2 DEF IInv

LEMMA ConsumeKeeps == ASSUME IInv, Consume, UNCHANGED admin PROVE IInv'
<1>1. BufferIsTail' /\ WireInPlace'
  <2>1. lpc = "args" => arg.len <= Len(txbuf)
    BY DEF IInv, BufferIsTail
  <2> QED BY <2>1, BytesKept DEF Consume, buf
<1>2. TypeOK'
  <2>1. consumed' \in 0 .. Len(wire)
    BY Numbers DEF IInv, Consume
  <2>2. consumed' >= consumed
    BY Numbers DEF IInv, Consume
  <2>3. Free' = Capacity - (Len(wire) - consumed')
    BY DEF Free, Consume
  <2>4. Free' \in 0 .. Capacity
    BY <2>1, <2>2, <2>3, Numbers DEF IInv
  <2> QED BY <2>1, <2>4 DEF Consume, buf, IInv, TypeOK
<1>3. DueInv'
  BY DEF Consume, buf, IInv, TypeOK, DueInv, Due
<1> QED BY <1>1, <1>2, <1>3 DEF IInv

LEMMA ModKeeps == ASSUME IInv, WorkerMod \/ AnswerMod, UNCHANGED admin PROVE IInv'
<1>1. /\ UNCHANGED <<txbuf, appended, wire, arg, swallowed, quit>>
      /\ wpc' \in {"idle", "mod"} /\ Rearm
      /\ lpc' = lpc \/ (lpc = "mod" /\ lpc' = "in")
  BY DEF WorkerMod, AnswerMod, buf, IInv, TypeOK
<1>2. BufferIsTail' /\ WireInPlace'
  <2>1. lpc' = "args" => arg'.len <= Len(txbuf)
    BY <1>1 DEF IInv, BufferIsTail
  <2> QED BY <1>1, <2>1, BytesKept
<1>3. TypeOK'
  BY <1>1, RearmKeeps DEF IInv, TypeOK, Free
<1>4. DueInv'
  BY <1>1, RearmKeeps DEF DueInv, Due
<1> QED BY <1>2, <1>3, <1>4 DEF IInv

\* The edge is consumed: either the loop thread goes on to flush, or an output
\* event was swallowed, or the socket is full.
LEMMA EpollWaitKeeps == ASSUME IInv, EpollWait, UNCHANGED admin PROVE IInv'
<1>1. BufferIsTail' /\ WireInPlace'
  BY BytesKept DEF EpollWait, buf
<1>2. TypeOK'
  BY DEF EpollWait, Polled, buf, IInv, TypeOK, Free
<1>3. DueInv'
  <2>1. CASE Free = 0
    BY <2>1, FullSocket DEF IInv, EpollWait, Polled, DueInv, Due
  <2>2. CASE Free # 0
    <3>1. Free > 0
      BY <2>2, Numbers DEF IInv
    <3> QED BY <3>1 DEF EpollWait, DueInv, Due
  <2> QED BY <2>1, <2>2
<1> QED BY <1>1, <1>2, <1>3 DEF IInv

LEMMA ReadAllKeeps == ASSUME IInv, ReadAll, UNCHANGED admin PROVE IInv'
<1>1. BufferIsTail' /\ WireInPlace'
  BY BytesKept DEF ReadAll, buf
<1>2. TypeOK' /\ DueInv'
  BY DEF ReadAll, buf, IInv, TypeOK, Free, DueInv, Due
<1> QED BY <1>1, <1>2 DEF IInv

\* flush starts a round, or leaves an empty buffer behind.
LEMMA FlushTestKeeps == ASSUME IInv, FlushTest, UNCHANGED admin PROVE IInv'
<1>1. arg'.len = -1 /\ arg' \in [data : BOOLEAN, len : -1 .. MaxBytes, moved : BOOLEAN]
  BY SizesAssumption DEF FlushTest, NoArg
<1>2. BufferIsTail' /\ WireInPlace'
  <2>1. -1 <= Len(txbuf)
    BY Numbers DEF IInv
  <2> QED BY <1>1, <2>1, BytesKept DEF FlushTest, Flushed, buf
<1>3. TypeOK'
  BY <1>1 DEF FlushTest, Flushed, buf, kernel, IInv, TypeOK, Free
<1>4. DueInv'
  BY DEF FlushTest, Flushed, buf, DueInv
<1> QED BY <1>2, <1>3, <1>4 DEF IInv

LEMMA TakeKeeps == ASSUME IInv, TakeData \/ TakeLength, UNCHANGED admin PROVE IInv'
<1>1. /\ UNCHANGED <<txbuf, appended, wire, consumed, indata, ready, nospace, wpc, lpc, swallowed, quit>>
      /\ lpc = "args"
  BY DEF TakeData, TakeLength, buf, kernel
<1>2. /\ arg'.len = arg.len \/ arg'.len = Len(txbuf)
      /\ arg' \in [data : BOOLEAN, len : -1 .. MaxBytes, moved : BOOLEAN]
  <2>1. Len(txbuf) \in -1 .. MaxBytes
    BY Numbers, BufferLength DEF IInv
  <2> QED BY <2>1 DEF TakeData, TakeLength, IInv, TypeOK
<1>3. BufferIsTail' /\ WireInPlace'
  <2>1. arg'.len <= Len(txbuf)
    BY <1>1, <1>2, Numbers DEF IInv, BufferIsTail
  <2> QED BY <1>1, <2>1, BytesKept
<1>4. TypeOK'
  BY <1>1, <1>2 DEF IInv, TypeOK, Free
<1>5. DueInv'
  BY <1>1 DEF DueInv
<1> QED BY <1>3, <1>4, <1>5 DEF IInv

\* EAGAIN: the kernel will say when there is room.
LEMMA WriteRefusedKeeps == ASSUME IInv, WriteRefused, UNCHANGED admin PROVE IInv'
<1>1. BufferIsTail' /\ WireInPlace'
  BY BytesKept DEF WriteRefused, Flushed, buf
<1>2. TypeOK'
  BY SizesAssumption DEF WriteRefused, Flushed, NoArg, buf, IInv, TypeOK, Free
<1>3. DueInv'
  BY FullSocket DEF WriteRefused, IInv, DueInv, Due
<1> QED BY <1>1, <1>2, <1>3 DEF IInv

-----------------------------------------------------------------------------
(* Steps that move bytes.                                                  *)

\* What is appended continues what is in the buffer; write() still has as many
\* bytes there as it was told.
LEMMA AppendKeeps ==
  ASSUME IInv, NEW n \in 1 .. MaxChunk, AppendBytes(n),
         lpc' = lpc \/ (lpc = "in" /\ lpc' = "mod"),
         UNCHANGED <<admin, wire, consumed, indata, ready, nospace, swallowed>>,
         wpc' \in {"idle", "mod"}, lpc' = "mod" \/ wpc' = "mod", quit' \in BOOLEAN
  PROVE  IInv'
<1>1. /\ n \in Nat /\ appended' = appended + n /\ appended' \in 0 .. MaxBytes
      /\ txbuf' = txbuf \o Run(appended, appended + n)
      /\ arg' = arg \/ (lpc = "args" /\ arg' = [arg EXCEPT !.moved = TRUE])
  BY Numbers DEF IInv, AppendBytes
<1>2. arg' \in [data : BOOLEAN, len : -1 .. MaxBytes, moved : BOOLEAN] /\ arg'.len = arg.len
  BY <1>1 DEF IInv, TypeOK
<1>3. /\ Popped \in Nat /\ Popped <= appended /\ appended \in Nat /\ Len(txbuf) = appended - Popped
  BY BufferLength, Numbers DEF IInv
<1>4. Popped' = Popped
  BY <1>1 DEF Popped, InFlight
<1>5. txbuf' = Run(Popped, appended')
  <2>1. Run(Popped, appended) \o Run(appended, appended + n) = Run(Popped, appended + n)
    <3>1. appended + n \in Nat /\ appended <= appended + n
      BY <1>1, <1>3
    <3> QED BY <1>3, <3>1, RunConcat
  <2> QED BY <1>1, <2>1 DEF IInv, BufferIsTail
<1>6. txbuf' \in Seq(1 .. MaxBytes) /\ Len(txbuf') = appended' - Popped
  <2>1. Popped \in Nat /\ appended' \in Nat /\ MaxBytes \in Nat /\ Popped <= appended' /\ appended' <= MaxBytes
    BY <1>1, <1>3, SizesAssumption
  <2>2. Run(Popped, appended') \in Seq(1 .. MaxBytes)
    BY <2>1, RunOfBytes
  <2>3. Len(Run(Popped, appended')) = appended' - Popped
    BY <2>1, RunIsSeq
  <2> QED BY <1>5, <2>2, <2>3
<1>7. TypeOK'
  BY <1>1, <1>2, <1>6 DEF IInv, TypeOK, Free
<1>8. BufferIsTail'
  <2>1. Popped \in 0 .. appended'
    BY <1>1, <1>3
  <2>2. Len(txbuf) <= Len(txbuf') /\ Len(txbuf) \in Int /\ Len(txbuf') \in Int
    BY <1>1, <1>3, <1>6
  <2>3. lpc' = "args" => arg'.len <= Len(txbuf')
    <3>1. lpc' = "args" => arg.len <= Len(txbuf) /\ arg.len \in Int
      BY DEF IInv, BufferIsTail, TypeOK
    <3> QED BY <1>2, <2>2, <3>1
  <2>4. lpc' = "pop" => arg'.len \in 0 .. Len(txbuf')
    <3>1. lpc' = "pop" => arg.len \in 0 .. Len(txbuf)
      BY DEF IInv, BufferIsTail
    <3> QED BY <1>2, <2>2, <3>1
  <2> QED BY <1>4, <1>5, <2>1, <2>3, <2>4 DEF BufferIsTail
<1>9. WireInPlace' /\ DueInv'
  BY DEF IInv, WireInPlace, DueInv
<1> QED BY <1>7, <1>8, <1>9 DEF IInv

LEMMA WorkerAppendKeeps == ASSUME IInv, WorkerAppend, UNCHANGED admin PROVE IInv'
<1> PICK n \in 1 .. MaxChunk : AppendBytes(n)
  BY DEF WorkerAppend
<1>1. quit' \in BOOLEAN /\ wpc' = "mod"
  BY DEF WorkerAppend, IInv, TypeOK
<1> QED BY <1>1, AppendKeeps DEF WorkerAppend, kernel

LEMMA AnswerKeeps == ASSUME IInv, Answer, UNCHANGED admin PROVE IInv'
<1> PICK n \in 1 .. MaxChunk : AppendBytes(n)
  BY DEF Answer
<1>1. quit' \in BOOLEAN /\ wpc' \in {"idle", "mod"}
  BY DEF Answer, IInv, TypeOK
<1> QED BY <1>1, AppendKeeps DEF Answer, kernel

\* As many bytes as the kernel has room for come from the front of the buffer,
\* or from where the buffer was.
LEMMA WriteKeeps == ASSUME IInv, Write, UNCHANGED admin PROVE IInv'
<1> DEFINE k == Smaller(arg.len, Free)
           f == Fetched(k)
<1>1. /\ wire' = wire \o f /\ arg' = [arg EXCEPT !.len = k] /\ lpc = "args" /\ lpc' = "pop"
      /\ UNCHANGED <<admin, txbuf, appended, consumed, indata, ready, nospace, wpc, swallowed, quit>>
  BY DEF Write, buf, kernel
<1>2. k \in Nat /\ k <= Free /\ k <= Len(txbuf) /\ k <= MaxBytes
  <2>1. arg.len \in Nat /\ arg.len <= Len(txbuf) /\ arg.len <= MaxBytes
    BY DEF Write, IInv, TypeOK, BufferIsTail
  <2> QED BY <2>1, Numbers DEF IInv, Smaller
<1>3. /\ Popped = Len(wire) /\ Len(wire) \in Nat /\ Len(txbuf) \in Nat
      /\ Len(txbuf) = appended - Len(wire) /\ appended \in Nat /\ appended <= MaxBytes
  BY <1>1, BufferLength, Numbers DEF IInv, Popped, InFlight
<1> HIDE DEF k
<1>4. f \in Seq(0 .. MaxBytes) /\ Len(f) = k /\ \A i \in 1 .. k : f[i] \in {Len(wire) + i, 0}
  <2>1. CASE arg.moved
    <3>1. f = [i \in 1 .. k |-> 0]
      BY <2>1 DEF Fetched
    <3>2. f \in [1 .. k -> 0 .. MaxBytes]
      BY <3>1, SizesAssumption
    <3>3. Seq(0 .. MaxBytes) = UNION {[1 .. m -> 0 .. MaxBytes] : m \in Nat}
      BY SeqDef
    <3>4. f \in Seq(0 .. MaxBytes)
      BY <1>2, <3>2, <3>3
    <3>5. Len(f) = k
      BY <1>2, <3>1, <3>4, LenProperties
    <3> QED BY <3>1, <3>4, <3>5
  <2>2. CASE ~arg.moved
    <3>1. f = SubSeq(txbuf, 1, k)
      BY <2>2 DEF Fetched
    <3>2. \A i \in 1 .. k : txbuf[i] = Len(wire) + i /\ txbuf[i] \in 0 .. MaxBytes
      <4> SUFFICES ASSUME NEW i \in 1 .. k
                   PROVE  txbuf[i] = Len(wire) + i /\ txbuf[i] \in 0 .. MaxBytes
        OBVIOUS
      <4>1. i \in 1 .. (appended - Len(wire)) /\ Len(wire) + i \in 0 .. MaxBytes
        BY <1>2, <1>3, SizesAssumption
      <4>2. Run(Len(wire), appended)[i] = Len(wire) + i
        BY <1>3, <4>1, RunElement
      <4> QED BY <1>3, <4>1, <4>2 DEF IInv, BufferIsTail
    <3>3. /\ f \in Seq(0 .. MaxBytes) /\ Len(f) = IF 1 <= k THEN k - 1 + 1 ELSE 0
          /\ \A i \in 1 .. k - 1 + 1 : f[i] = txbuf[1 + i - 1]
      BY <1>2, <3>1, <3>2, SubSeqProperties
    <3> QED BY <1>2, <3>2, <3>3
  <2> QED BY <2>1, <2>2 DEF IInv, TypeOK
<1> HIDE DEF f
<1>5. /\ wire' \in Seq(0 .. MaxBytes) /\ Len(wire') = Len(wire) + k
      /\ \A i \in 1 .. Len(wire) + k :
           wire'[i] = IF i <= Len(wire) THEN wire[i] ELSE f[i - Len(wire)]
  <2>1. wire \in Seq(0 .. MaxBytes)
    BY DEF IInv, TypeOK
  <2>2. /\ wire \o f \in Seq(0 .. MaxBytes) /\ Len(wire \o f) = Len(wire) + Len(f)
        /\ \A i \in 1 .. Len(wire) + Len(f) :
             (wire \o f)[i] = IF i <= Len(wire) THEN wire[i] ELSE f[i - Len(wire)]
    BY <1>4, <2>1, ConcatProperties
  <2> QED BY <1>1, <1>4, <2>2
<1>6. arg'.len = k /\ arg' \in [data : BOOLEAN, len : -1 .. MaxBytes, moved : BOOLEAN]
  <2>1. k \in -1 .. MaxBytes
    BY <1>2, SizesAssumption
  <2>2. arg \in [data : BOOLEAN, len : -1 .. MaxBytes, moved : BOOLEAN]
    BY DEF IInv, TypeOK
  <2> QED BY <1>1, <2>1, <2>2
<1>7. TypeOK'
  <2>1. consumed \in 0 .. Len(wire') /\ Free' \in 0 .. Capacity
    <3>1. Free' = Capacity - ((Len(wire) + k) - consumed)
      <4>1. Len(wire') = Len(wire) + k /\ consumed' = consumed
        BY <1>1, <1>5
      <4> QED BY <4>1 DEF Free
    <3> QED BY SMTT(20), <1>2, <1>5, <3>1, Numbers DEF IInv
  <2> QED BY <1>1, <1>5, <1>6, <2>1 DEF IInv, TypeOK
<1>8. BufferIsTail'
  <2>1. InFlight' = k
    BY <1>1, <1>6 DEF InFlight
  <2>2. Popped' = Popped
    BY <1>2, <1>3, <1>5, <2>1 DEF Popped
  <2>3. k \in 0 .. Len(txbuf)
    BY <1>2, <1>3
  <2> QED BY <1>1, <1>6, <2>2, <2>3 DEF IInv, BufferIsTail
<1>9. WireInPlace'
  <2>1. ASSUME NEW i \in 1 .. Len(wire') PROVE wire'[i] \in {i, 0}
    <3>1. i \in 1 .. Len(wire) + k /\ i \in Nat
      BY <1>2, <1>3, <1>5
    <3>2. CASE i <= Len(wire)
      <4>1. i \in 1 .. Len(wire) /\ wire'[i] = wire[i]
        BY <1>2, <1>3, <1>5, <3>1, <3>2
      <4> QED BY <4>1 DEF IInv, WireInPlace
    <3>3. CASE i > Len(wire)
      <4>1. wire'[i] = f[i - Len(wire)] /\ i - Len(wire) \in 1 .. k
            /\ Len(wire) + (i - Len(wire)) = i
        BY <1>2, <1>3, <1>5, <3>1, <3>3
      <4> QED BY <1>4, <4>1
    <3> QED BY <1>3, <3>1, <3>2, <3>3
  <2> QED BY <2>1 DEF WireInPlace
<1>10. DueInv'
  BY <1>1 DEF DueInv
<1> QED BY <1>7, <1>8, <1>9, <1>10 DEF IInv

\* pop removes what write() took.
LEMMA PopKeeps == ASSUME IInv, Pop, UNCHANGED admin PROVE IInv'
<1>1. /\ txbuf' = SubSeq(txbuf, arg.len + 1, Len(txbuf)) /\ lpc = "pop" /\ lpc' = "test"
      /\ UNCHANGED <<admin, appended, wire, consumed, indata, ready, nospace, wpc, arg, swallowed, quit>>
  BY DEF Pop, kernel
<1>2. /\ Popped = Len(wire) - arg.len /\ Popped \in Nat /\ Popped <= appended /\ appended \in Nat
      /\ arg.len \in 0 .. (appended - Popped) /\ Len(wire) \in Nat
      /\ txbuf = Run(Popped, appended) /\ appended <= MaxBytes
  BY <1>1, BufferLength, Numbers DEF IInv, BufferIsTail, Popped, InFlight
<1>3. Popped' = Len(wire) /\ Popped + arg.len = Len(wire) /\ Len(wire) \in 0 .. appended
  BY <1>1, <1>2 DEF Popped, InFlight
<1>4. txbuf' = Run(Len(wire), appended)
  <2>1. SubSeq(Run(Popped, appended), arg.len + 1, Len(Run(Popped, appended)))
          = Run(Popped + arg.len, appended)
    BY <1>2, RunRest
  <2> QED BY <1>1, <1>2, <1>3, <2>1
<1>5. txbuf' \in Seq(1 .. MaxBytes)
  BY <1>2, <1>3, <1>4, SizesAssumption, RunOfBytes
<1>6. TypeOK'
  BY <1>1, <1>5 DEF IInv, TypeOK, Free
<1>7. BufferIsTail'
  BY <1>1, <1>3, <1>4 DEF BufferIsTail
<1>8. WireInPlace' /\ DueInv'
  BY <1>1 DEF IInv, WireInPlace, DueInv
<1> QED BY <1>6, <1>7, <1>8 DEF IInv

-----------------------------------------------------------------------------
(* The theorems.                                                           *)

LEMMA NextIInv == IInv /\ [Next]_vars => IInv'
<1> SUFFICES ASSUME IInv, [Next]_vars PROVE IInv'
  OBVIOUS
<1>1. CASE UNCHANGED vars
  <2>1. TypeOK' /\ DueInv'
    BY <1>1 DEF vars, IInv, TypeOK, Free, DueInv, Due
  <2>2. BufferIsTail' /\ WireInPlace'
    BY <1>1 DEF vars, IInv, BufferIsTail, Popped, InFlight, WireInPlace
  <2> QED BY <2>1, <2>2 DEF IInv
<1>2. CASE LoopStep /\ UNCHANGED admin
  BY <1>2, EpollWaitKeeps, ReadAllKeeps, ModKeeps, FlushTestKeeps, TakeKeeps, WriteKeeps,
     WriteRefusedKeeps, PopKeeps DEF LoopStep
<1>3. CASE (Answer \/ WorkerAppend \/ WorkerMod \/ Arrive \/ Consume) /\ UNCHANGED admin
  BY <1>3, AnswerKeeps, WorkerAppendKeeps, ModKeeps, ArriveKeeps, ConsumeKeeps
<1> QED BY <1>1, <1>2, <1>3 DEF Next

THEOREM Invariance == Spec => []IInv
  BY InitIInv, NextIInv, PTL DEF Spec

\* The types hold, and the kernel never holds more than it has room for.
THEOREM TypeCorrect == Spec => []TypeOK
<1>1. IInv => TypeOK
  BY DEF IInv
<1> QED BY <1>1, Invariance, PTL

\* connection.cc:44-62: every byte is on the wire or in the buffer once and in its
\* place, whatever write_txbuf does between the arguments of flush's write().
THEOREM BytesCorrect == Spec => []NothingLostOrRepeated
<1>1. IInv => NothingLostOrRepeated
  <2> SUFFICES ASSUME IInv PROVE NothingLostOrRepeated
    OBVIOUS
  <2> DEFINE rest == SubSeq(txbuf, InFlight + 1, Len(txbuf))
             n == Len(wire)
  <2>1. /\ InFlight \in 0 .. (appended - Popped) /\ Popped \in Nat /\ Popped <= appended
        /\ appended \in Nat /\ n \in Nat /\ Popped + InFlight = n /\ n <= appended
        /\ txbuf = Run(Popped, appended)
    <3>1. Popped \in Nat /\ Popped <= appended /\ Len(txbuf) = appended - Popped
      BY BufferLength DEF IInv
    <3>2. appended \in Nat /\ n \in Nat
      BY Numbers DEF IInv
    <3>3. InFlight \in 0 .. Len(txbuf)
      BY <3>1, <3>2 DEF IInv, BufferIsTail, InFlight
    <3>4. Popped = n - InFlight
      BY DEF Popped
    <3>5. txbuf = Run(Popped, appended)
      BY DEF IInv, BufferIsTail
    <3> QED BY <3>1, <3>2, <3>3, <3>4, <3>5
  <2>2. rest = Run(n, appended)
    BY <2>1, RunRest
  <2>3. /\ rest \in Seq(Nat) /\ Len(rest) = appended - n
        /\ \A i \in 1 .. (appended - n) : rest[i] = n + i
    <3>1. Run(n, appended) \in Seq(Nat) /\ Len(Run(n, appended)) = appended - n
      BY <2>1, RunIsSeq
    <3>2. \A i \in 1 .. (appended - n) : Run(n, appended)[i] = n + i
      BY <2>1, RunElement
    <3> QED BY <2>2, <3>1, <3>2
  <2>4. wire \in Seq(Nat)
    <3>1. 0 .. MaxBytes \subseteq Nat
      OBVIOUS
    <3> QED BY <3>1, SeqMonotonic DEF IInv, TypeOK
  <2> HIDE DEF rest
  <2>5. /\ Len(wire \o rest) = n + Len(rest)
        /\ \A i \in 1 .. n + Len(rest) :
             (wire \o rest)[i] = IF i <= n THEN wire[i] ELSE rest[i - n]
    BY <2>3, <2>4, ConcatProperties
  <2>6. Len(wire \o rest) = appended
    BY <2>1, <2>3, <2>5
  <2>7. ASSUME NEW i \in 1 .. appended PROVE (wire \o rest)[i] \in {i, 0}
    <3>1. i \in 1 .. n + Len(rest)
      BY <2>1, <2>3
    <3>2. CASE i <= n
      <4>1. (wire \o rest)[i] = wire[i] /\ i \in 1 .. Len(wire)
        BY <2>1, <2>5, <3>1, <3>2
      <4> QED BY <4>1 DEF IInv, WireInPlace
    <3>3. CASE i > n
      <4>1. (wire \o rest)[i] = rest[i - n] /\ i - n \in 1 .. (appended - n) /\ n + (i - n) = i
        BY <2>1, <2>5, <3>1, <3>3
      <4> QED BY <2>3, <4>1
    <3>4. i <= n \/ i > n
      BY <2>1
    <3> QED BY <3>2, <3>3, <3>4
  <2>8. \A i \in 1 .. Len(rest) : rest[i] # 0
    BY <2>1, <2>3
  <2> QED BY <2>6, <2>7, <2>8 DEF NothingLostOrRepeated, rest
<1> QED BY <1>1, Invariance, PTL

\* sockserver.cc:183-225: unsent bytes are never without an event to come, except
\* behind one that was handled as input.
THEOREM DueCorrect == Spec => []OutputEventDue
<1>1. IInv => OutputEventDue
  BY DEF IInv, DueInv, Due, OutputEventDue
<1> QED BY <1>1, Invariance, PTL
=============================================================================
