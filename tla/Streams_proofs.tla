--------------------------- MODULE Streams_proofs ---------------------------
(* Runs of bytes: what continues a run is a longer run, and a buffer that is *)
(* cut in two is still whole.                                                *)
EXTENDS Streams, SequenceTheorems, TLAPS

LEMMA RunIsSeq ==
  ASSUME NEW a \in Nat, NEW b \in Nat, a <= b
  PROVE  Run(a, b) \in Seq(Nat) /\ Len(Run(a, b)) = b - a
<1>1. b - a \in Nat /\ \A i \in 1 .. (b - a) : a + i \in Nat
  OBVIOUS
<1> QED BY <1>1 DEF Run

\* ... of bytes up to any bound on its last.
LEMMA RunOfBytes ==
  ASSUME NEW a \in Nat, NEW b \in Nat, NEW c \in Nat, a <= b, b <= c
  PROVE  Run(a, b) \in Seq(1 .. c)
<1>1. b - a \in Nat
  OBVIOUS
<1>2. Run(a, b) \in [1 .. (b - a) -> 1 .. c]
  BY DEF Run
<1>3. Seq(1 .. c) = UNION {[1 .. n -> 1 .. c] : n \in Nat}
  BY SeqDef
<1> QED BY <1>1, <1>2, <1>3

LEMMA RunElement ==
  ASSUME NEW a \in Nat, NEW b \in Nat, NEW i \in 1 .. (b - a)
  PROVE  Run(a, b)[i] = a + i
  BY DEF Run

LEMMA EmptyRun ==
  ASSUME NEW a \in Nat
  PROVE  Run(a, a) = <<>>
<1>1. Run(a, a) \in Seq(Nat) /\ Len(Run(a, a)) = 0
  BY RunIsSeq
<1>2. \A s \in Seq(Nat) : s # <<>> => Len(s) \in Nat \ {0}
  BY EmptySeq
<1> QED BY <1>1, <1>2

\* What arrives later continues what arrived before.
LEMMA RunConcat ==
  ASSUME NEW a \in Nat, NEW b \in Nat, NEW c \in Nat, a <= b, b <= c
  PROVE  Run(a, b) \o Run(b, c) = Run(a, c)
<1> DEFINE s == Run(a, b)
           t == Run(b, c)
           u == Run(a, c)
<1>1. /\ s \in Seq(Nat) /\ Len(s) = b - a
      /\ t \in Seq(Nat) /\ Len(t) = c - b
      /\ u \in Seq(Nat) /\ Len(u) = c - a
  <2>1. a <= c
    OBVIOUS
  <2> HIDE DEF s, t, u
  <2>2. s \in Seq(Nat) /\ Len(s) = b - a
    BY RunIsSeq DEF s
  <2>3. t \in Seq(Nat) /\ Len(t) = c - b
    BY RunIsSeq DEF t
  <2>4. u \in Seq(Nat) /\ Len(u) = c - a
    BY <2>1, RunIsSeq DEF u
  <2> QED BY <2>2, <2>3, <2>4
<1>2. /\ \A i \in 1 .. (b - a) : s[i] = a + i
      /\ \A i \in 1 .. (c - b) : t[i] = b + i
      /\ \A i \in 1 .. (c - a) : u[i] = a + i
  BY RunElement
<1> HIDE DEF s, t, u
<1>3. /\ s \o t \in Seq(Nat)
      /\ Len(s \o t) = c - a
      /\ \A i \in 1 .. (c - a) :
           (s \o t)[i] = IF i <= b - a THEN s[i] ELSE t[i - (b - a)]
  <2>1. /\ s \o t \in Seq(Nat)
        /\ Len(s \o t) = Len(s) + Len(t)
        /\ \A i \in 1 .. Len(s) + Len(t) :
             (s \o t)[i] = IF i <= Len(s) THEN s[i] ELSE t[i - Len(s)]
    BY <1>1, ConcatProperties
  <2>2. Len(s) + Len(t) = c - a
    BY <1>1
  <2> QED BY <1>1, <2>1, <2>2
<1>4. \A i \in 1 .. (c - a) : (s \o t)[i] = u[i]
  BY <1>2, <1>3
<1>5. s \o t = u
  BY <1>1, <1>3, <1>4, SeqEqual
<1> QED BY <1>5 DEF s, t, u

\* A sequence is its first k elements and the rest.
LEMMA CutInTwo ==
  ASSUME NEW S, NEW s \in Seq(S), NEW k \in 0 .. Len(s)
  PROVE  /\ SubSeq(s, 1, k) \in Seq(S) /\ Len(SubSeq(s, 1, k)) = k
         /\ SubSeq(s, k + 1, Len(s)) \in Seq(S)
         /\ SubSeq(s, 1, k) \o SubSeq(s, k + 1, Len(s)) = s
<1>1. Len(s) \in Nat /\ \A i \in 1 .. Len(s) : s[i] \in S
  BY LenProperties, ElementOfSeq
<1>2. SubSeq(s, 1, k) \in Seq(S) /\ Len(SubSeq(s, 1, k)) = k
  <2>1. \A i \in 1 .. k : s[i] \in S
    BY <1>1
  <2>2. SubSeq(s, 1, k) \in Seq(S) /\ Len(SubSeq(s, 1, k)) = IF 1 <= k THEN k - 1 + 1 ELSE 0
    BY <1>1, <2>1, SubSeqProperties
  <2> QED BY <1>1, <2>2
<1>3. SubSeq(s, k + 1, Len(s)) \in Seq(S)
  <2>1. \A i \in k + 1 .. Len(s) : s[i] \in S
    BY <1>1
  <2> QED BY <1>1, <2>1, SubSeqProperties
<1>4. SubSeq(s, 1, k) \o SubSeq(s, k + 1, Len(s)) = SubSeq(s, 1, Len(s))
  <2>1. 1 \in 1 .. Len(s) + 1 /\ k \in 1 - 1 .. Len(s) /\ Len(s) \in k .. Len(s)
    BY <1>1
  <2> QED BY <2>1, ConcatAdjacentSubSeq
<1> QED BY <1>2, <1>3, <1>4, SubSeqFull

\* Sequences that start alike.
LEMMA SameStart ==
  ASSUME NEW S, NEW s \in Seq(S), NEW t \in Seq(S), NEW n \in Nat,
         n <= Len(s), n <= Len(t), \A i \in 1 .. n : s[i] = t[i]
  PROVE  SubSeq(s, 1, n) = SubSeq(t, 1, n)
<1>1. n \in 0 .. Len(s) /\ n \in 0 .. Len(t)
  BY LenProperties
<1>2. /\ SubSeq(s, 1, n) \in Seq(S) /\ Len(SubSeq(s, 1, n)) = n
      /\ SubSeq(t, 1, n) \in Seq(S) /\ Len(SubSeq(t, 1, n)) = n
  BY <1>1, CutInTwo
<1>3. /\ \A i \in 1 .. n : SubSeq(s, 1, n)[i] = s[i]
      /\ \A i \in 1 .. n : SubSeq(t, 1, n)[i] = t[i]
  <2>1. (\A i \in 1 .. n : s[i] \in S) /\ (\A i \in 1 .. n : t[i] \in S)
    <3>1. (\A i \in 1 .. Len(s) : s[i] \in S) /\ (\A i \in 1 .. Len(t) : t[i] \in S)
      BY ElementOfSeq
    <3>2. \A i \in 1 .. n : i \in 1 .. Len(s) /\ i \in 1 .. Len(t)
      BY <1>1
    <3> QED BY <3>1, <3>2
  <2>2. /\ \A i \in 1 .. n - 1 + 1 : SubSeq(s, 1, n)[i] = s[1 + i - 1]
        /\ \A i \in 1 .. n - 1 + 1 : SubSeq(t, 1, n)[i] = t[1 + i - 1]
    BY <2>1, SubSeqProperties
  <2>3. n - 1 + 1 = n /\ \A i \in 1 .. n : 1 + i - 1 = i
    OBVIOUS
  <2> QED BY <2>2, <2>3
<1> QED BY <1>2, <1>3, SeqEqual

\* What follows the first n elements of a sequence.
LEMMA RestOfSeq ==
  ASSUME NEW S, NEW s \in Seq(S), NEW n \in 1 .. Len(s)
  PROVE  /\ SubSeq(s, n + 1, Len(s)) \in Seq(S)
         /\ Len(SubSeq(s, n + 1, Len(s))) = Len(s) - n
         /\ \A i \in 1 .. Len(s) - n : SubSeq(s, n + 1, Len(s))[i] = s[n + i]
<1> DEFINE t == SubSeq(s, n + 1, Len(s))
<1>1. Len(s) \in Nat
  BY LenProperties
<1>2. \A i \in n + 1 .. Len(s) : s[i] \in S
  <2>1. \A i \in 1 .. Len(s) : s[i] \in S
    BY ElementOfSeq
  <2> QED BY <1>1, <2>1
<1>3. /\ t \in Seq(S)
      /\ Len(t) = IF n + 1 <= Len(s) THEN Len(s) - (n + 1) + 1 ELSE 0
      /\ \A i \in 1 .. Len(s) - (n + 1) + 1 : t[i] = s[n + 1 + i - 1]
  <2>1. n + 1 \in Int /\ Len(s) \in Int
    BY <1>1
  <2> QED BY <1>2, <2>1, SubSeqProperties
<1> HIDE DEF t
<1>4. \A i \in 1 .. Len(s) - n : i \in 1 .. Len(s) - (n + 1) + 1 /\ n + 1 + i - 1 = n + i
  BY <1>1
<1>5. Len(t) = Len(s) - n
  BY <1>1, <1>3
<1>6. \A i \in 1 .. Len(s) - n : t[i] = s[n + i]
  BY <1>3, <1>4
<1> QED BY <1>3, <1>5, <1>6 DEF t

\* Moving the first k elements from one sequence to the end of another keeps
\* the whole.
LEMMA MoveFirst ==
  ASSUME NEW S, NEW w \in Seq(S), NEW t \in Seq(S), NEW k \in 0 .. Len(t)
  PROVE  (w \o SubSeq(t, 1, k)) \o SubSeq(t, k + 1, Len(t)) = w \o t
<1> DEFINE first == SubSeq(t, 1, k)
           rest == SubSeq(t, k + 1, Len(t))
<1>1. first \in Seq(S) /\ rest \in Seq(S) /\ first \o rest = t
  BY CutInTwo
<1> HIDE DEF first, rest
<1>2. \A a, b \in Seq(S) : (w \o a) \o b = w \o (a \o b)
  BY ConcatAssociative
<1>3. (w \o first) \o rest = w \o t
  BY <1>1, <1>2
<1> QED BY <1>3 DEF first, rest

\* What is left of a run behind its first k bytes.
LEMMA RunRest ==
  ASSUME NEW a \in Nat, NEW b \in Nat, a <= b, NEW k \in 0 .. (b - a)
  PROVE  SubSeq(Run(a, b), k + 1, Len(Run(a, b))) = Run(a + k, b)
<1> DEFINE s == Run(a, b)
           r == SubSeq(s, k + 1, b - a)
           u == Run(a + k, b)
<1>1. a + k \in Nat /\ a + k <= b /\ b - a \in Nat
  OBVIOUS
<1>2. s \in Seq(Nat) /\ Len(s) = b - a
  BY RunIsSeq
<1>3. u \in Seq(Nat) /\ Len(u) = b - (a + k)
  BY <1>1, RunIsSeq
<1>4. \A i \in 1 .. (b - a) : s[i] = a + i
  BY RunElement
<1>5. \A i \in 1 .. (b - (a + k)) : u[i] = a + k + i
  BY <1>1, RunElement
<1> HIDE DEF s, u
<1>6. /\ r \in Seq(Nat)
      /\ Len(r) = IF k + 1 <= b - a THEN (b - a) - (k + 1) + 1 ELSE 0
      /\ \A i \in 1 .. (b - a) - (k + 1) + 1 : r[i] = s[k + 1 + i - 1]
  <2>1. k + 1 \in Int /\ b - a \in Int /\ \A i \in k + 1 .. b - a : s[i] \in Nat
    BY <1>4
  <2> QED BY <2>1, SubSeqProperties
<1>7. Len(r) = b - (a + k)
  BY <1>6
<1>8. \A i \in 1 .. Len(r) : r[i] = u[i]
  <2> SUFFICES ASSUME NEW i \in 1 .. Len(r) PROVE r[i] = u[i]
    OBVIOUS
  <2>1. i \in 1 .. (b - (a + k)) /\ i \in 1 .. (b - a) - (k + 1) + 1
    BY <1>7
  <2>2. k + 1 + i - 1 \in 1 .. (b - a) /\ k + 1 + i - 1 = k + i
    BY <2>1
  <2> QED BY <1>4, <1>5, <1>6, <2>1, <2>2
<1> HIDE DEF r
<1>9. r = u
  BY <1>3, <1>6, <1>7, <1>8, SeqEqual
<1> QED BY <1>2, <1>9 DEF r, s, u
=============================================================================
