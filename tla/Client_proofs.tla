--------------------------- MODULE Client_proofs ----------------------------
(***************************************************************************)
(* The client program.  First the invariants of SockClient, for any number *)
(* of keys, of bytes and of connections to the panel; then those of        *)
(* Console, for any text, any history and any number of keys, and that it  *)
(* implements Editor.                                                      *)
(***************************************************************************)
EXTENDS SockClient, Console, Streams_proofs, FiniteSetTheorems, WellFoundedInduction

-----------------------------------------------------------------------------
(* SockClient: the invariant.                                              *)

\* Only panels are shut down, and only those that were connected.
ShutArePanels == shut \subseteq 1 .. panels

\* What waits to be sent is for the socket fd_ names, unless fd_ changed.
Purpose == IF panel = "none" THEN "port" ELSE "panel"
WaitsForMode == ~strayed => \A i \in 1 .. Len(txbuf) : txbuf[i] = Purpose

\* An error is reported only of what has ended, and typing only of the terminal.
ErrorsAreEnds ==
  /\ \A e \in batch : e.kind = "error" => Ended(e.fd)
  /\ pc = "error" => Ended(event.fd)
  /\ pc = "stdin" => event.fd = Terminal

ModeInv == ModeConsistent /\ ShutArePanels
RouteInv == MisroutedOnlyAcrossSwitch /\ WaitsForMode
ExitInv == ExitHasCause /\ ErrorsAreEnds

IInv == TypeOK /\ ModeInv /\ PortShownInOrder /\ RouteInv /\ ExitInv

-----------------------------------------------------------------------------
(* SockClient: bytes in order.                                             *)

\* The bytes in s are those up to m but for the ones in u, each once, in order.
InOrder(s, m, u) ==
  /\ \A i, j \in DOMAIN s : i < j => s[i] < s[j]
  /\ {s[i] : i \in DOMAIN s} = (1 .. m) \ u

\* The next bytes of the stream go behind those.
LEMMA RunBehind ==
  ASSUME NEW s \in Seq(Nat), NEW a \in Nat, NEW b \in Nat, a <= b,
         NEW u \in SUBSET (1 .. a), InOrder(s, a, u)
  PROVE  InOrder(s \o Run(a, b), b, u)
<1> DEFINE r == Run(a, b)
           w == s \o r
<1>1. r \in Seq(Nat) /\ Len(r) = b - a /\ \A i \in 1 .. b - a : r[i] = a + i
  BY RunIsSeq, RunElement
<1>2. Len(s) \in Nat /\ DOMAIN s = 1 .. Len(s)
  BY LenProperties
<1> HIDE DEF r
<1>3. /\ w \in Seq(Nat) /\ Len(w) = Len(s) + (b - a)
      /\ \A i \in 1 .. Len(s) + (b - a) : w[i] = IF i <= Len(s) THEN s[i] ELSE r[i - Len(s)]
  <2>1. /\ w \in Seq(Nat) /\ Len(w) = Len(s) + Len(r)
        /\ \A i \in 1 .. Len(s) + Len(r) : w[i] = IF i <= Len(s) THEN s[i] ELSE r[i - Len(s)]
    BY <1>1, ConcatProperties
  <2> HIDE DEF w
  <2> QED BY <1>1, <2>1
<1> HIDE DEF w
<1>4. DOMAIN w = 1 .. Len(s) + (b - a)
  BY <1>3, LenProperties
<1>5. \A i \in 1 .. Len(s) : w[i] = s[i] /\ s[i] \in (1 .. a) \ u
  <2>1. \A i \in 1 .. Len(s) : s[i] \in (1 .. a) \ u
    BY <1>2 DEF InOrder
  <2>2. ASSUME NEW i \in 1 .. Len(s) PROVE w[i] = s[i]
    <3>1. i \in 1 .. Len(s) + (b - a) /\ i <= Len(s)
      BY <1>2
    <3> QED BY <1>3, <3>1
  <2> QED BY <2>1, <2>2
<1>6. \A i \in 1 .. b - a : w[Len(s) + i] = a + i
  <2> SUFFICES ASSUME NEW i \in 1 .. b - a PROVE w[Len(s) + i] = a + i
    OBVIOUS
  <2>1. Len(s) + i \in 1 .. Len(s) + (b - a) /\ ~(Len(s) + i <= Len(s)) /\ (Len(s) + i) - Len(s) = i
    BY <1>2
  <2> QED BY <1>1, <1>3, <2>1
<1>7. ASSUME NEW i \in DOMAIN w, ~(i <= Len(s))
      PROVE  i - Len(s) \in 1 .. b - a /\ w[i] = a + (i - Len(s))
  <2>1. i - Len(s) \in 1 .. b - a /\ Len(s) + (i - Len(s)) = i
    BY <1>2, <1>4, <1>7
  <2> QED BY <1>6, <2>1
<1>8. ASSUME NEW i \in DOMAIN w, NEW j \in DOMAIN w, i < j
      PROVE  w[i] < w[j]
  <2>1. i \in Nat /\ j \in Nat /\ i >= 1
    BY <1>2, <1>4
  <2>2. CASE j <= Len(s)
    <3>1. i \in 1 .. Len(s) /\ j \in 1 .. Len(s)
      BY <1>2, <1>8, <2>1, <2>2
    <3>2. s[i] < s[j]
      BY <1>2, <1>8, <3>1 DEF InOrder
    <3> QED BY <1>5, <3>1, <3>2
  <2>3. CASE ~(j <= Len(s))
    <3>1. j - Len(s) \in 1 .. b - a /\ w[j] = a + (j - Len(s))
      BY <1>7, <2>3
    <3>2. CASE i <= Len(s)
      <4>1. w[i] \in 1 .. a
        BY <1>2, <1>5, <2>1, <3>2
      <4> QED BY <1>2, <3>1, <4>1
    <3>3. CASE ~(i <= Len(s))
      BY <1>2, <1>7, <1>8, <2>1, <3>1, <3>3
    <3> QED BY <3>2, <3>3
  <2> QED BY <2>2, <2>3
<1>9. ASSUME NEW i \in DOMAIN w PROVE w[i] \in (1 .. b) \ u
  <2>1. CASE i <= Len(s)
    <3>1. w[i] \in (1 .. a) \ u
      BY <1>2, <1>4, <1>5, <2>1
    <3> QED BY <3>1
  <2>2. CASE ~(i <= Len(s))
    <3>1. w[i] \in a + 1 .. b
      BY <1>2, <1>7, <2>2
    <3> QED BY <3>1
  <2> QED BY <2>1, <2>2
<1>10. ASSUME NEW x \in (1 .. b) \ u PROVE \E i \in DOMAIN w : w[i] = x
  <2>1. CASE x <= a
    <3>1. x \in (1 .. a) \ u
      BY <2>1
    <3>2. PICK i \in DOMAIN s : s[i] = x
      BY <3>1 DEF InOrder
    <3>3. i \in DOMAIN w /\ w[i] = s[i]
      BY <1>2, <1>4, <1>5
    <3> QED BY <3>2, <3>3
  <2>2. CASE ~(x <= a)
    <3>1. x - a \in 1 .. b - a /\ a + (x - a) = x
      BY <2>2
    <3>2. Len(s) + (x - a) \in DOMAIN w
      BY <1>2, <1>4, <3>1
    <3> QED BY <1>6, <3>1, <3>2
  <2> QED BY <2>1, <2>2
<1>11. {w[i] : i \in DOMAIN w} = (1 .. b) \ u
  BY <1>9, <1>10
<1> QED BY <1>8, <1>11 DEF InOrder, w, r

\* Of what is to be shown behind them, the terminal takes the first n.
LEMMA FirstShown ==
  ASSUME NEW s \in Seq(Nat), NEW b \in Seq(Nat), NEW m \in Nat, NEW u,
         NEW n \in 0 .. Len(b), InOrder(s \o b, m, u)
  PROVE  InOrder(s \o SubSeq(b, 1, n), m, u \union {b[i] : i \in n + 1 .. Len(b)})
<1> DEFINE w == s \o b
           f == SubSeq(b, 1, n)
           v == s \o f
           lost == {b[i] : i \in n + 1 .. Len(b)}
<1>1. Len(s) \in Nat /\ Len(b) \in Nat
  BY LenProperties
<1>2. /\ w \in Seq(Nat) /\ Len(w) = Len(s) + Len(b)
      /\ \A i \in 1 .. Len(s) + Len(b) : w[i] = IF i <= Len(s) THEN s[i] ELSE b[i - Len(s)]
  BY ConcatProperties
<1>3. f \in Seq(Nat) /\ Len(f) = n /\ \A i \in 1 .. n : f[i] = b[i]
  <2>1. f \in Seq(Nat) /\ Len(f) = n
    BY CutInTwo
  <2>2. \A i \in 1 .. n : b[i] \in Nat
    <3>1. \A i \in 1 .. Len(b) : b[i] \in Nat
      BY ElementOfSeq
    <3> QED BY <1>1, <3>1
  <2>3. \A i \in 1 .. n - 1 + 1 : f[i] = b[1 + i - 1]
    BY <2>2, SubSeqProperties
  <2>4. n - 1 + 1 = n /\ \A i \in 1 .. n : 1 + i - 1 = i
    BY <1>1
  <2> QED BY <2>1, <2>3, <2>4
<1> HIDE DEF f
<1>4. /\ v \in Seq(Nat) /\ Len(v) = Len(s) + n
      /\ \A i \in 1 .. Len(s) + n : v[i] = IF i <= Len(s) THEN s[i] ELSE f[i - Len(s)]
  BY <1>3, ConcatProperties
<1>5. \A x \in DOMAIN w, y \in DOMAIN w : x < y => w[x] < w[y]
  BY DEF InOrder
<1>6. {w[i] : i \in DOMAIN w} = (1 .. m) \ u
  BY DEF InOrder
<1> HIDE DEF w, v
<1>7. DOMAIN w = 1 .. Len(s) + Len(b) /\ DOMAIN v = 1 .. Len(s) + n
  BY <1>2, <1>4, LenProperties
<1>8. \A i \in DOMAIN v : i \in DOMAIN w /\ v[i] = w[i]
  <2> SUFFICES ASSUME NEW i \in DOMAIN v PROVE i \in DOMAIN w /\ v[i] = w[i]
    OBVIOUS
  <2>1. i \in 1 .. Len(s) + Len(b) /\ i \in 1 .. Len(s) + n
    BY <1>1, <1>7
  <2>2. ~(i <= Len(s)) => i - Len(s) \in 1 .. n
    BY <1>1, <2>1
  <2> QED BY <1>2, <1>3, <1>4, <1>7, <2>1, <2>2
<1>9. \A i \in n + 1 .. Len(b) : Len(s) + i \in DOMAIN w /\ w[Len(s) + i] = b[i]
  <2> SUFFICES ASSUME NEW i \in n + 1 .. Len(b)
               PROVE  Len(s) + i \in DOMAIN w /\ w[Len(s) + i] = b[i]
    OBVIOUS
  <2>1. /\ Len(s) + i \in 1 .. Len(s) + Len(b) /\ ~(Len(s) + i <= Len(s))
        /\ (Len(s) + i) - Len(s) = i
    BY <1>1
  <2> QED BY <1>2, <1>7, <2>1
<1>10. \A i, j \in DOMAIN v : i < j => v[i] < v[j]
  BY <1>5, <1>8
<1>11. ASSUME NEW i \in DOMAIN v PROVE v[i] \in (1 .. m) \ (u \union lost)
  <2>1. v[i] \in (1 .. m) \ u
    BY <1>6, <1>8
  <2>2. ASSUME NEW k \in n + 1 .. Len(b), v[i] = b[k] PROVE FALSE
    <3>1. i < Len(s) + k
      BY <1>1, <1>7
    <3>2. w[i] < w[Len(s) + k]
      BY <1>5, <1>8, <1>9, <3>1
    <3>3. b[k] \in Nat
      <4>1. k \in 1 .. Len(b)
        BY <1>1
      <4> QED BY <4>1, ElementOfSeq
    <3>4. b[k] < b[k]
      BY <1>8, <1>9, <2>2, <3>2
    <3> QED BY <3>3, <3>4
  <2> QED BY <2>1, <2>2
<1>12. ASSUME NEW x \in (1 .. m) \ (u \union lost) PROVE \E i \in DOMAIN v : v[i] = x
  <2>1. PICK i \in DOMAIN w : w[i] = x
    BY <1>6
  <2>2. CASE i \in DOMAIN v
    BY <1>8, <2>1, <2>2
  <2>3. CASE i \notin DOMAIN v
    <3>1. i - Len(s) \in n + 1 .. Len(b) /\ Len(s) + (i - Len(s)) = i
      BY <1>1, <1>7, <2>3
    <3>2. b[i - Len(s)] = x
      BY <1>9, <2>1, <3>1
    <3> QED BY <3>1, <3>2
  <2> QED BY <2>2, <2>3
<1>13. {v[i] : i \in DOMAIN v} = (1 .. m) \ (u \union lost)
  BY <1>11, <1>12
<1> QED BY <1>10, <1>13 DEF InOrder, v, f

-----------------------------------------------------------------------------
(* SockClient: the operations.                                             *)

LEMMA SocketsAreNumbers ==
  /\ Socks = 0 .. MaxPanels /\ MaxPanels \in Nat /\ MaxBytes \in Nat /\ MaxKeys \in Nat
  /\ Port \in Socks /\ Port = 0
  /\ NoFd \notin Socks /\ Terminal \notin Socks
  BY ClientBounds DEF Socks, Port, NoFd, Terminal

\* write_rxbuf keeps the order, and what the terminal does not take is unshown.
LEMMA ShowKeeps ==
  ASSUME IInv, NEW b \in Seq(1 .. MaxBytes), NEW m \in 0 .. MaxBytes, taken <= m,
         Show(b), InOrder(shown \o b, m, unshown)
  PROVE  /\ shown' \in Seq(1 .. MaxBytes) /\ unshown' \subseteq 1 .. m
         /\ InOrder(shown', m, unshown')
<1>1. MaxBytes \in Nat /\ Len(b) \in Nat /\ shown \in Seq(1 .. MaxBytes)
  BY SocketsAreNumbers, LenProperties DEF IInv, TypeOK
<1>2. PICK n \in 0 .. Len(b) :
        /\ shown' = shown \o SubSeq(b, 1, n)
        /\ unshown' = unshown \union {b[i] : i \in n + 1 .. Len(b)}
  BY DEF Show
<1>3. shown' \in Seq(1 .. MaxBytes)
  <2>1. SubSeq(b, 1, n) \in Seq(1 .. MaxBytes)
    BY CutInTwo
  <2> QED BY <1>1, <1>2, <2>1, ConcatProperties
<1>4. InOrder(shown', m, unshown')
  <2>1. shown \in Seq(Nat) /\ b \in Seq(Nat) /\ m \in Nat
    BY <1>1
  <2>2. InOrder(shown \o SubSeq(b, 1, n), m, unshown \union {b[i] : i \in n + 1 .. Len(b)})
    BY <2>1, FirstShown
  <2> QED BY <1>2, <2>2
<1>5. unshown' \subseteq 1 .. m
  <2>1. /\ shown \o b \in Seq(1 .. MaxBytes) /\ Len(shown \o b) = Len(shown) + Len(b)
        /\ \A i \in 1 .. Len(shown) + Len(b) :
             (shown \o b)[i] = IF i <= Len(shown) THEN shown[i] ELSE b[i - Len(shown)]
    BY <1>1, ConcatProperties
  <2>2. Len(shown) \in Nat
    BY <1>1, LenProperties
  <2>3. ASSUME NEW i \in n + 1 .. Len(b) PROVE b[i] \in 1 .. m
    <3>1. /\ Len(shown) + i \in 1 .. Len(shown) + Len(b) /\ ~(Len(shown) + i <= Len(shown))
          /\ (Len(shown) + i) - Len(shown) = i
      BY <1>1, <2>2
    <3>2. b[i] = (shown \o b)[Len(shown) + i] /\ Len(shown) + i \in DOMAIN (shown \o b)
      BY <2>1, <3>1, LenProperties
    <3> QED BY <3>2 DEF InOrder
  <2>4. unshown \subseteq 1 .. m
    BY DEF IInv, TypeOK
  <2> QED BY <1>2, <2>3, <2>4
<1> QED BY <1>3, <1>4, <1>5

\* switch_admin_connection(false) gives fd_ and the watched sockets back to the
\* port, and shows what was stored.
LEMMA SwitchOffKeeps ==
  ASSUME IInv, SwitchOff, pc = "stdin", panel # "none", UNCHANGED <<arrived, pc>>
  PROVE  /\ ModeInv' /\ PortShownInOrder'
         /\ panel' \in Modes /\ fd' = Port /\ client_fd' \in Socks
         /\ panels' \in 0 .. MaxPanels /\ shut' \subseteq Socks /\ watched' \subseteq Socks
         /\ client_buf' \in Seq(1 .. MaxBytes) /\ shown' \in Seq(1 .. MaxBytes)
         /\ unshown' \subseteq 1 .. taken'
<1>1. client_fd = Port /\ panels \in Nat /\ panels <= MaxPanels
  BY SocketsAreNumbers DEF IInv, TypeOK, ModeInv, ModeConsistent
<1>2. shut' = shut \union ({fd} \ {NoFd}) /\ shut' \subseteq 1 .. panels
  BY DEF IInv, TypeOK, Modes, ModeInv, ModeConsistent, ShutArePanels, SwitchOff
<1>3. watched' = {Port}
  BY SocketsAreNumbers DEF IInv, TypeOK, Modes, ModeInv, ModeConsistent, SwitchOff
<1>4. ModeInv'
  BY <1>1, <1>2, <1>3 DEF SwitchOff, ModeInv, ModeConsistent, ShutArePanels
<1>5. client_buf' = <<>> /\ Show(client_buf) /\ taken' = taken
  BY DEF SwitchOff
<1>6. /\ shown' \in Seq(1 .. MaxBytes) /\ unshown' \subseteq 1 .. taken
      /\ InOrder(shown', taken, unshown')
  <2>1. client_buf \in Seq(1 .. MaxBytes) /\ taken \in 0 .. MaxBytes /\ taken <= taken
    BY SocketsAreNumbers DEF IInv, TypeOK
  <2>2. InOrder(shown \o client_buf, taken, unshown)
    BY DEF IInv, PortShownInOrder, Kept, InOrder
  <2> QED BY <1>5, <2>1, <2>2, ShowKeeps
<1>7. client_buf' \in Seq(1 .. MaxBytes)
  BY <1>5, EmptySeq
<1>8. PortShownInOrder'
  <2>1. Kept' = shown'
    BY <1>5, <1>6, ConcatEmptySeq DEF Kept
  <2> QED BY <1>5, <1>6, <2>1 DEF PortShownInOrder, InOrder
<1> QED BY <1>1, <1>2, <1>3, <1>4, <1>5, <1>6, <1>7, <1>8, SocketsAreNumbers
        DEF SwitchOff, Modes, IInv, TypeOK

\* What is appended to txbuf_ is of the types of txbuf_.
LEMMA Appended ==
  ASSUME NEW t \in Seq(Purposes), NEW w \in Seq(Purposes)
  PROVE  /\ t \o w \in Seq(Purposes) /\ Len(t \o w) = Len(t) + Len(w)
         /\ \A i \in 1 .. Len(t \o w) :
              (t \o w)[i] = IF i <= Len(t) THEN t[i] ELSE w[i - Len(t)]
  BY ConcatProperties

\* A key or a line leaves the mode as it is.
LEMMA WriteTxKeeps ==
  ASSUME IInv, NEW w \in Purposes, w = Purpose, WriteTx(<<w>>),
         UNCHANGED <<panel, sentTo, strayed>>
  PROVE  /\ RouteInv' /\ txbuf' \in Seq(Purposes)
         /\ (watched \subseteq Socks => outMask' \subseteq Socks /\ edge' \subseteq Socks)
<1>1. <<w>> \in Seq(Purposes) /\ Len(<<w>>) = 1 /\ <<w>>[1] = w
  OBVIOUS
<1>2. txbuf \in Seq(Purposes) /\ Len(txbuf) \in Nat
  BY LenProperties DEF IInv, TypeOK
<1>3. /\ txbuf' \in Seq(Purposes) /\ Len(txbuf') = Len(txbuf) + 1
      /\ \A i \in 1 .. Len(txbuf') : txbuf'[i] = IF i <= Len(txbuf) THEN txbuf[i] ELSE w
  <2>1. txbuf' = txbuf \o <<w>>
    BY DEF WriteTx
  <2>2. /\ txbuf \o <<w>> \in Seq(Purposes) /\ Len(txbuf \o <<w>>) = Len(txbuf) + 1
        /\ \A i \in 1 .. Len(txbuf \o <<w>>) :
             (txbuf \o <<w>>)[i] = IF i <= Len(txbuf) THEN txbuf[i] ELSE <<w>>[i - Len(txbuf)]
    BY <1>1, <1>2, Appended
  <2>3. ASSUME NEW i \in 1 .. (Len(txbuf) + 1), ~(i <= Len(txbuf))
        PROVE  i - Len(txbuf) = 1
    BY <1>2, <2>3
  <2> QED BY <1>1, <2>1, <2>2, <2>3
<1>4. WaitsForMode'
  BY <1>2, <1>3 DEF IInv, RouteInv, WaitsForMode, Purpose
<1>5. MisroutedOnlyAcrossSwitch'
  BY DEF IInv, RouteInv, MisroutedOnlyAcrossSwitch
<1> QED BY <1>3, <1>4, <1>5 DEF WriteTx, Modify, RouteInv, IInv, TypeOK

-----------------------------------------------------------------------------
(* The steps.                                                              *)

LEMMA InitIInv == Init => IInv
<1> SUFFICES ASSUME Init PROVE IInv
  OBVIOUS
<1>1. <<>> \in Seq(1 .. MaxBytes) /\ <<>> \in Seq(Purposes) /\ Len(<<>>) = 0
  BY EmptySeq
<1>2. TypeOK
  <2>1. event \in Events /\ batch \subseteq Events
    BY DEF Init, Events, NoEvent
  <2>2. sentTo \in [Socks -> SUBSET Purposes] /\ txbuf \in Seq(Purposes)
        /\ client_buf \in Seq(1 .. MaxBytes) /\ shown \in Seq(1 .. MaxBytes)
    BY <1>1 DEF Init
  <2>3. /\ panels \in 0 .. MaxPanels /\ arrived \in 0 .. MaxBytes /\ taken \in 0 .. arrived
        /\ keys \in 0 .. MaxKeys /\ unshown \subseteq 1 .. taken
    BY SocketsAreNumbers DEF Init
  <2>4. fd \in Socks /\ client_fd \in Socks /\ watched \subseteq Socks
    BY SocketsAreNumbers DEF Init
  <2> QED BY <2>1, <2>2, <2>3, <2>4 DEF Init, TypeOK, Modes
<1>3. PortShownInOrder
  <2>1. Kept = <<>>
    BY ConcatEmptySeq, EmptySeq DEF Init, Kept
  <2>2. DOMAIN Kept = {}
    BY <2>1
  <2> QED BY <2>2 DEF PortShownInOrder, Init
<1> QED BY <1>1, <1>2, <1>3, SocketsAreNumbers
        DEF Init, IInv, ModeInv, ModeConsistent, ShutArePanels, RouteInv, NoEvent,
            MisroutedOnlyAcrossSwitch, WaitsForMode, ExitInv, ExitHasCause, ErrorsAreEnds

\* What has ended stays so.
LEMMA EndedStays ==
  ASSUME closed \subseteq closed', hungup => hungup'
  PROVE  \A d : Ended(d) => Ended(d)'
  BY DEF Ended

\* What the server and the terminal do changes nothing the invariant relates, but
\* adds to what has ended.
LEMMA ServerKeeps ==
  ASSUME IInv, PortSends \/ HangUp \/ \E d \in Socks : PanelSends(d) \/ ServerCloses(d)
  PROVE  IInv'
<1>1. /\ UNCHANGED <<modeVars, inVars, outVars, watched, outMask, keys, loopVars>>
      /\ closed \subseteq closed' /\ (hungup => hungup') /\ hungup' \in BOOLEAN
  BY DEF PortSends, PanelSends, ServerCloses, HangUp, epollVars, IInv, TypeOK
<1>2. /\ closed' \subseteq Socks /\ panelOut' \subseteq Socks /\ edge' \subseteq Socks
      /\ arrived' \in 0 .. MaxBytes /\ arrived <= arrived' /\ arrived \in Nat
  <2>1. arrived \in Nat /\ arrived <= MaxBytes /\ MaxBytes \in Nat /\ Port \in Socks
    BY SocketsAreNumbers DEF IInv, TypeOK
  <2>2. closed \subseteq Socks /\ panelOut \subseteq Socks /\ edge \subseteq Socks
    BY DEF IInv, TypeOK
  <2>3. CASE PortSends
    BY <2>1, <2>2, <2>3 DEF PortSends
  <2>4. CASE HangUp
    BY <2>1, <2>2, <2>4 DEF HangUp, epollVars
  <2>5. CASE \E d \in Socks : PanelSends(d) \/ ServerCloses(d)
    <3>1. /\ arrived' = arrived
          /\ \E d \in Socks : /\ closed' \subseteq closed \union {d}
                             /\ panelOut' \subseteq panelOut \union {d}
                             /\ edge' = edge \union {d}
      BY <2>5 DEF PanelSends, ServerCloses
    <3> QED BY <2>1, <2>2, <3>1
  <2> QED BY <2>3, <2>4, <2>5
<1>3. TypeOK'
  <2>1. taken' \in 0 .. arrived'
    BY <1>1, <1>2 DEF IInv, TypeOK, inVars
  <2> QED BY <1>1, <1>2, <2>1 DEF IInv, TypeOK, modeVars, inVars, outVars, loopVars
<1>4. ModeInv' /\ PortShownInOrder' /\ RouteInv'
  BY <1>1 DEF IInv, ModeInv, ModeConsistent, ShutArePanels, PortShownInOrder, Kept, RouteInv,
     MisroutedOnlyAcrossSwitch, WaitsForMode, Purpose, modeVars, inVars, outVars, loopVars
<1>5. ExitInv'
  <2>1. \A d : Ended(d) => Ended(d)'
    BY <1>1, EndedStays
  <2> QED BY <1>1, <2>1 DEF IInv, ExitInv, ExitHasCause, ErrorsAreEnds, Ended, modeVars, loopVars
<1> QED BY <1>3, <1>4, <1>5 DEF IInv

\* epoll_wait and its loop, and the ends of a handler.
LEMMA LoopKeeps ==
  ASSUME IInv, EpollWait \/ Dispatch \/ EndOfBatch \/ HandleError \/ ReadClosed \/ ReadAgain
  PROVE  IInv'
<1>1. UNCHANGED <<modeVars, netVars, inVars, outVars, outMask, keys>>
  BY DEF EpollWait, Dispatch, EndOfBatch, HandleError, ReadClosed, ReadAgain, epollVars
<1>2. PortShownInOrder' /\ RouteInv'
  BY <1>1 DEF IInv, PortShownInOrder, Kept, RouteInv, MisroutedOnlyAcrossSwitch, WaitsForMode,
     Purpose, modeVars, inVars, outVars
<1>3. watched' \subseteq watched /\ (pc' # "exited" => watched' = watched /\ pc # "exited")
  BY DEF EpollWait, Dispatch, EndOfBatch, HandleError, ReadClosed, ReadAgain, epollVars
<1>4. ModeInv'
  BY <1>1, <1>3 DEF IInv, ModeInv, ModeConsistent, ShutArePanels, modeVars
<1>5. /\ edge' \subseteq edge
      /\ batch' \subseteq Events /\ event' \in Events
      /\ pc' \in {"poll", "dispatch", "stdin", "in", "out", "error", "exited"}
      /\ ExitInv'
  <2>1. CASE EpollWait
    <3> DEFINE News(t) == {d \in (edge \intersect watched) \union t : Kinds(d) # {}}
    <3>1. PICK terminal \in SUBSET {Terminal} :
            \E kind \in [News(terminal) -> {"in", "out", "error"}] :
              /\ \A d \in News(terminal) : kind[d] \in Kinds(d)
              /\ batch' = {[fd |-> d, kind |-> kind[d]] : d \in News(terminal)}
      BY <2>1 DEF EpollWait
    <3> DEFINE news == News(terminal)
    <3>2. news \subseteq Socks \union {Terminal}
      BY DEF IInv, TypeOK
    <3>3. \A d \in news : "error" \in Kinds(d) => Ended(d)
      BY DEF Kinds
    <3> HIDE DEF news
    <3>4. PICK kind \in [news -> {"in", "out", "error"}] :
            /\ \A d \in news : kind[d] \in Kinds(d)
            /\ batch' = {[fd |-> d, kind |-> kind[d]] : d \in news}
      BY <3>1 DEF news
    <3>5. \A d \in news :
            [fd |-> d, kind |-> kind[d]] \in Events /\ (kind[d] = "error" => Ended(d))
      BY <3>2, <3>3, <3>4 DEF Events
    <3>6. batch' \subseteq Events /\ \A e \in batch' : e.kind = "error" => Ended(e.fd)
      BY <3>4, <3>5
    <3>7. edge' \subseteq edge /\ event' = event /\ pc' = "dispatch" /\ \A d : Ended(d)' <=> Ended(d)
      BY <1>1, <2>1 DEF EpollWait, netVars, Ended
    <3> QED BY <3>6, <3>7 DEF IInv, TypeOK, ExitInv, ExitHasCause, ErrorsAreEnds
  <2>2. CASE Dispatch
    <3>1. PICK e \in batch :
            /\ event' = e
            /\ batch' = batch \ {e}
            /\ pc' = IF e.fd = Terminal /\ e.kind = "in" THEN "stdin" ELSE e.kind
      BY <2>2 DEF Dispatch
    <3>2. e \in Events /\ e.kind \in {"in", "out", "error"} /\ (e.kind = "error" => Ended(e.fd))
      BY DEF IInv, TypeOK, Events, ExitInv, ErrorsAreEnds
    <3>3. /\ pc' \in {"stdin", "in", "out", "error"} /\ (pc' = "error" => e.kind = "error")
          /\ pc' = "stdin" => e.fd = Terminal
      BY <3>1, <3>2
    <3>4. \A d : Ended(d)' <=> Ended(d)
      BY <1>1 DEF netVars, Ended
    <3> QED BY <2>2, <3>1, <3>2, <3>3, <3>4
            DEF Dispatch, epollVars, IInv, TypeOK, ExitInv, ExitHasCause, ErrorsAreEnds
  <2>3. CASE EndOfBatch
    BY <2>3 DEF EndOfBatch, epollVars, netVars, IInv, TypeOK, ExitInv, ExitHasCause,
       ErrorsAreEnds, Events, NoEvent
  <2>4. CASE HandleError
    <3>1. Ended(event.fd)' <=> Ended(event.fd)
      BY <1>1, <2>4 DEF HandleError, netVars, Ended
    <3> QED BY <2>4, <3>1 DEF HandleError, IInv, TypeOK, ExitInv, ExitHasCause, ErrorsAreEnds, Ended, netVars
  <2>5. CASE ReadClosed
    <3>1. event.fd \in closed \union shut \/ (event.fd = Terminal /\ hungup)
      BY <2>5 DEF ReadClosed, IInv, ExitInv, ErrorsAreEnds
    <3>2. UNCHANGED <<edge, batch, event, closed, hungup, shut>> /\ pc' = "exited"
      BY <1>1, <2>5 DEF ReadClosed, epollVars, netVars, modeVars
    <3>3. ExitHasCause'
      BY <3>1, <3>2 DEF ExitHasCause, Ended
    <3>4. ErrorsAreEnds'
      BY <3>2 DEF IInv, ExitInv, ErrorsAreEnds, Ended
    <3> QED BY <3>2, <3>3, <3>4 DEF IInv, TypeOK, ExitInv
  <2>6. CASE ReadAgain
    BY <2>6 DEF ReadAgain, epollVars, netVars, IInv, TypeOK, ExitInv, ExitHasCause,
       ErrorsAreEnds, Ended
  <2> QED BY <2>1, <2>2, <2>3, <2>4, <2>5, <2>6
<1>6. TypeOK'
  BY <1>1, <1>3, <1>5 DEF IInv, TypeOK, modeVars, netVars, inVars, outVars
<1> QED BY <1>2, <1>4, <1>5, <1>6 DEF IInv

\* flush sends what waits to the socket of the mode, if that is connected.
LEMMA HandleOutputKeeps ==
  ASSUME IInv, HandleOutput
  PROVE  IInv'
<1>1. /\ UNCHANGED <<modeVars, netVars, inVars, strayed, epollVars, keys, batch, event>>
      /\ pc = "out" /\ pc' = "dispatch"
  BY DEF HandleOutput
<1>2. TypeOK' /\ RouteInv'
  <2>1. CASE fd = NoFd /\ UNCHANGED <<txbuf, sentTo>>
    BY <1>1, <2>1 DEF IInv, TypeOK, RouteInv, MisroutedOnlyAcrossSwitch, WaitsForMode, Purpose,
       modeVars, netVars, inVars, epollVars
  <2>2. CASE /\ fd # NoFd
             /\ sentTo' = [sentTo EXCEPT ![fd] = @ \union {txbuf[i] : i \in DOMAIN txbuf}]
             /\ txbuf' = <<>>
    <3> DEFINE what == {txbuf[i] : i \in DOMAIN txbuf}
    <3>1. fd \in Socks /\ (panel = "none" <=> fd = Port)
      BY <2>2, SocketsAreNumbers DEF IInv, TypeOK, Modes, ModeInv, ModeConsistent
    <3>2. what \subseteq Purposes /\ (~strayed => what \subseteq {Purpose})
      BY LenProperties, ElementOfSeq DEF IInv, TypeOK, RouteInv, WaitsForMode
    <3> HIDE DEF what
    <3>3. sentTo' = [sentTo EXCEPT ![fd] = @ \union what]
      BY <2>2 DEF what
    <3>4. sentTo' \in [Socks -> SUBSET Purposes] /\ sentTo'[fd] = sentTo[fd] \union what
          /\ \A d \in Socks \ {fd} : sentTo'[d] = sentTo[d]
      BY <3>1, <3>2, <3>3 DEF IInv, TypeOK
    <3>5. txbuf' \in Seq(Purposes) /\ Len(txbuf') = 0
      BY <2>2, EmptySeq
    <3>6. MisroutedOnlyAcrossSwitch'
      BY <1>1, <3>1, <3>2, <3>4, SocketsAreNumbers
         DEF IInv, RouteInv, MisroutedOnlyAcrossSwitch, Purpose, modeVars
    <3>7. WaitsForMode'
      BY <3>5 DEF WaitsForMode
    <3> QED BY <1>1, <3>4, <3>5, <3>6, <3>7
            DEF IInv, TypeOK, RouteInv, modeVars, netVars, inVars, epollVars
  <2> QED BY <2>1, <2>2 DEF HandleOutput
<1>3. ModeInv' /\ PortShownInOrder' /\ ExitInv'
  BY <1>1 DEF IInv, ModeInv, ModeConsistent, ShutArePanels, PortShownInOrder, Kept, ExitInv,
     ExitHasCause, ErrorsAreEnds, Ended, modeVars, netVars, inVars, epollVars
<1> QED BY <1>2, <1>3 DEF IInv

\* A read of the port continues what is shown or what is stored.
LEMMA ReadPortKeeps ==
  ASSUME IInv, ReadPort
  PROVE  IInv'
<1>1. /\ UNCHANGED <<modeVars, netVars, outVars, epollVars, keys, loopVars>>
      /\ taken' \in taken + 1 .. arrived
  BY DEF ReadPort
<1>2. /\ taken \in Nat /\ arrived \in Nat /\ arrived <= MaxBytes /\ MaxBytes \in Nat
      /\ taken' \in Nat /\ taken <= taken' /\ taken' <= arrived
  BY <1>1, SocketsAreNumbers DEF IInv, TypeOK
<1> DEFINE new == Run(taken, taken')
<1>3. new \in Seq(1 .. MaxBytes)
  <2>1. taken' <= MaxBytes
    BY <1>2
  <2> QED BY <1>2, <2>1, RunOfBytes
<1>4. shown \in Seq(1 .. MaxBytes) /\ client_buf \in Seq(1 .. MaxBytes)
      /\ Kept \in Seq(1 .. MaxBytes)
  BY ConcatProperties DEF IInv, TypeOK, Kept
<1>5. InOrder(Kept \o new, taken', unshown)
  <2>1. Kept \in Seq(Nat)
    BY <1>2, <1>4
  <2>2. unshown \in SUBSET (1 .. taken) /\ InOrder(Kept, taken, unshown)
    BY DEF IInv, TypeOK, PortShownInOrder, InOrder
  <2> QED BY <1>2, <2>1, <2>2, RunBehind
<1> HIDE DEF new
<1>6. /\ client_buf' \in Seq(1 .. MaxBytes) /\ shown' \in Seq(1 .. MaxBytes)
      /\ unshown' \subseteq 1 .. taken'
      /\ InOrder(Kept', taken', unshown')
      /\ panel = "none" => client_buf' = <<>>
  <2>1. CASE /\ client_fd = Port /\ panel # "none"
             /\ client_buf' = client_buf \o new
             /\ UNCHANGED <<shown, unshown>>
    <3>1. client_buf \o new \in Seq(1 .. MaxBytes)
      BY <1>3, <1>4, ConcatProperties
    <3>2. Kept' = Kept \o new
      BY <1>3, <1>4, <2>1, ConcatAssociative DEF Kept
    <3>3. unshown' \subseteq 1 .. taken'
      BY <1>2, <2>1 DEF IInv, TypeOK
    <3>4. InOrder(Kept', taken', unshown')
      BY <1>5, <2>1, <3>2
    <3>5. shown' \in Seq(1 .. MaxBytes) /\ client_buf' \in Seq(1 .. MaxBytes)
      BY <1>4, <2>1, <3>1
    <3>6. panel # "none"
      BY <2>1
    <3> QED BY <3>3, <3>4, <3>5, <3>6
  <2>2. CASE /\ ~(client_fd = Port /\ panel # "none")
             /\ Show(new)
             /\ UNCHANGED client_buf
    <3>1. client_buf = <<>>
      BY <2>2 DEF IInv, ModeInv, ModeConsistent, PortShownInOrder
    <3>2. Kept = shown
      BY <1>4, <3>1, ConcatEmptySeq DEF Kept
    <3>3. taken' \in 0 .. MaxBytes /\ InOrder(shown \o new, taken', unshown)
      BY <1>2, <1>5, <3>2
    <3>4. /\ shown' \in Seq(1 .. MaxBytes) /\ unshown' \subseteq 1 .. taken'
          /\ InOrder(shown', taken', unshown')
      BY <1>2, <1>3, <2>2, <3>3, ShowKeeps
    <3>5. Kept' = shown'
      BY <2>2, <3>1, <3>4, ConcatEmptySeq DEF Kept
    <3> QED BY <1>4, <2>2, <3>1, <3>4, <3>5
  <2> QED BY <2>1, <2>2 DEF ReadPort, new
<1>7. PortShownInOrder'
  BY <1>1, <1>6 DEF PortShownInOrder, InOrder, modeVars
<1>8. TypeOK'
  <2>1. UNCHANGED <<panel, fd, client_fd, panels, shut, closed, arrived, panelOut, hungup, watched,
                    outMask, edge, txbuf, sentTo, strayed, keys, batch, event, pc>>
    BY <1>1 DEF modeVars, netVars, outVars, epollVars, loopVars
  <2>2. taken' \in 0 .. arrived'
    BY <1>2, <2>1
  <2> QED BY <1>6, <2>1, <2>2 DEF IInv, TypeOK
<1>9. ModeInv' /\ RouteInv' /\ ExitInv'
  BY <1>1 DEF IInv, ModeInv, ModeConsistent, ShutArePanels, RouteInv,
     MisroutedOnlyAcrossSwitch, WaitsForMode, Purpose, ExitInv, ExitHasCause, ErrorsAreEnds, Ended,
     modeVars, netVars, outVars, epollVars, loopVars
<1> QED BY <1>7, <1>8, <1>9 DEF IInv

LEMMA ReadPanelKeeps ==
  ASSUME IInv, ReadPanel
  PROVE  IInv'
<1>1. /\ UNCHANGED <<modeVars, closed, arrived, hungup, inVars, outVars, epollVars, keys, loopVars>>
      /\ panelOut' \subseteq panelOut
  BY DEF ReadPanel
<1>2. TypeOK'
  BY <1>1 DEF IInv, TypeOK, modeVars, inVars, outVars, epollVars, loopVars
<1>3. ModeInv' /\ PortShownInOrder' /\ RouteInv' /\ ExitInv'
  BY <1>1 DEF IInv, ModeInv, ModeConsistent, ShutArePanels, PortShownInOrder, Kept, RouteInv,
     MisroutedOnlyAcrossSwitch, WaitsForMode, Purpose, ExitInv, ExitHasCause, ErrorsAreEnds, Ended,
     modeVars, inVars, outVars, epollVars, loopVars
<1> QED BY <1>2, <1>3 DEF IInv

\* A key to the port, a line to the panel.
LEMMA TypeKeeps ==
  ASSUME IInv, TypeKey \/ TypeLine
  PROVE  IInv'
<1>1. /\ UNCHANGED <<modeVars, netVars, inVars, sentTo, strayed, watched, loopVars>>
      /\ keys < MaxKeys /\ keys' = keys + 1
  BY DEF TypeKey, TypeLine, Typed
<1>2. RouteInv' /\ txbuf' \in Seq(Purposes) /\ outMask' \subseteq Socks /\ edge' \subseteq Socks
  <2>1. watched \subseteq Socks /\ UNCHANGED panel
    BY <1>1 DEF IInv, TypeOK, modeVars
  <2>2. CASE TypeKey
    <3>1. "port" \in Purposes /\ "port" = Purpose /\ WriteTx(<<"port">>)
      BY <2>2 DEF TypeKey, Purposes, Purpose
    <3> QED BY <1>1, <2>1, <3>1, WriteTxKeeps
  <2>3. CASE TypeLine
    <3>1. "panel" \in Purposes /\ "panel" = Purpose /\ WriteTx(<<"panel">>)
      BY <2>3 DEF TypeLine, Purposes, Purpose
    <3> QED BY <1>1, <2>1, <3>1, WriteTxKeeps
  <2> QED BY <2>2, <2>3
<1>3. keys' \in 0 .. MaxKeys
  BY <1>1, SocketsAreNumbers DEF IInv, TypeOK
<1>4. TypeOK'
  BY <1>1, <1>2, <1>3 DEF IInv, TypeOK, modeVars, netVars, inVars, loopVars
<1>5. ModeInv' /\ PortShownInOrder' /\ ExitInv'
  BY <1>1 DEF IInv, ModeInv, ModeConsistent, ShutArePanels, PortShownInOrder, Kept, ExitInv,
     ExitHasCause, ErrorsAreEnds, Ended, modeVars, netVars, inVars, loopVars
<1> QED BY <1>2, <1>4, <1>5 DEF IInv

\* Control+Q at the port.
LEMMA EnterPanelKeeps ==
  ASSUME IInv, EnterPanel
  PROVE  IInv'
<1>1. /\ UNCHANGED <<shut, netVars, inVars, txbuf, sentTo, outMask, edge, loopVars>>
      /\ pc = "stdin" /\ keys < MaxKeys /\ keys' = keys + 1
      /\ panel = "none" /\ client_fd' = fd
      /\ strayed' = (strayed \/ txbuf # <<>>)
  BY DEF EnterPanel, Typed
<1>2. fd = Port /\ client_fd' = Port /\ watched = {Port} /\ panels \in Nat
  BY <1>1, SocketsAreNumbers DEF IInv, TypeOK, ModeInv, ModeConsistent
<1>3. /\ panel' \in Modes /\ panel' # "none"
      /\ fd' \in Socks \union {NoFd} /\ panels' \in 0 .. MaxPanels
      /\ watched' \subseteq Socks
      /\ ModeInv'
  <2>1. CASE /\ panels < MaxPanels
             /\ panel' = "connected"
             /\ panels' = panels + 1 /\ fd' = panels'
             /\ watched' = watched \union {fd'}
    <3>1. panels' \in 1 .. MaxPanels /\ fd' \in 1 .. panels' /\ fd' \in Socks
      BY <1>2, <2>1, SocketsAreNumbers
    <3>2. shut' \subseteq 1 .. panels' /\ fd' \notin shut'
      BY <1>1, <1>2, <2>1 DEF IInv, ModeInv, ShutArePanels
    <3> QED BY <1>1, <1>2, <2>1, <3>1, <3>2, SocketsAreNumbers
            DEF Modes, ModeInv, ModeConsistent, ShutArePanels
  <2>2. CASE /\ panel' = "failed"
             /\ fd' = NoFd
             /\ UNCHANGED <<panels, watched>>
    BY <1>1, <1>2, <2>2 DEF IInv, TypeOK, Modes, ModeInv, ModeConsistent, ShutArePanels
  <2> QED BY <2>1, <2>2 DEF EnterPanel
<1>4. RouteInv'
  <2>1. MisroutedOnlyAcrossSwitch'
    BY <1>1 DEF IInv, RouteInv, MisroutedOnlyAcrossSwitch
  <2>2. WaitsForMode'
    <3>1. ASSUME ~strayed' PROVE txbuf' = <<>>
      BY <1>1, <3>1
    <3>2. txbuf' = <<>> => Len(txbuf') = 0
      BY EmptySeq
    <3> QED BY <3>1, <3>2 DEF WaitsForMode
  <2> QED BY <2>1, <2>2 DEF RouteInv
<1>5. PortShownInOrder'
  BY <1>1, <1>3 DEF IInv, PortShownInOrder, Kept, inVars
<1>6. ExitInv'
  BY <1>1 DEF IInv, ExitInv, ExitHasCause, ErrorsAreEnds, Ended, netVars, loopVars
<1>7. TypeOK'
  <2>1. keys' \in 0 .. MaxKeys /\ strayed' \in BOOLEAN
    BY <1>1, SocketsAreNumbers DEF IInv, TypeOK
  <2> QED BY <1>1, <1>2, <1>3, <2>1, SocketsAreNumbers DEF IInv, TypeOK, netVars, inVars, loopVars
<1> QED BY <1>3, <1>4, <1>5, <1>6, <1>7 DEF IInv

\* Control+Q at the panel, and a snippet there.
LEMMA LeaveKeeps ==
  ASSUME IInv, LeavePanel \/ TypeSnippet
  PROVE  IInv'
<1>1. /\ UNCHANGED <<netVars, sentTo, loopVars>>
      /\ pc = "stdin" /\ keys < MaxKeys /\ keys' = keys + 1
      /\ panel # "none" /\ SwitchOff
      /\ strayed' \in BOOLEAN /\ (~strayed' => ~strayed /\ txbuf' = <<>>)
  BY DEF LeavePanel, TypeSnippet, Typed, IInv, TypeOK
<1>2. UNCHANGED <<arrived, pc>>
  BY <1>1 DEF netVars, loopVars
<1>3. /\ ModeInv' /\ PortShownInOrder'
      /\ panel' \in Modes /\ fd' = Port /\ client_fd' \in Socks
      /\ panels' \in 0 .. MaxPanels /\ shut' \subseteq Socks /\ watched' \subseteq Socks
      /\ client_buf' \in Seq(1 .. MaxBytes) /\ shown' \in Seq(1 .. MaxBytes)
      /\ unshown' \subseteq 1 .. taken'
  BY <1>1, <1>2, SwitchOffKeeps
<1>4. RouteInv'
  <2>1. MisroutedOnlyAcrossSwitch'
    BY <1>1 DEF IInv, RouteInv, MisroutedOnlyAcrossSwitch
  <2>2. WaitsForMode'
    <3>1. txbuf' = <<>> => Len(txbuf') = 0
      BY EmptySeq
    <3> QED BY <1>1, <3>1 DEF WaitsForMode
  <2> QED BY <2>1, <2>2 DEF RouteInv
<1>5. ExitInv'
  BY <1>1 DEF IInv, ExitInv, ExitHasCause, ErrorsAreEnds, Ended, netVars, loopVars
<1>6. txbuf' \in Seq(Purposes) /\ outMask' \subseteq Socks /\ edge' \subseteq Socks
  <2>1. CASE LeavePanel
    BY <2>1 DEF LeavePanel, IInv, TypeOK
  <2>2. CASE TypeSnippet
    <3>1. <<"port", "panel">> \in Seq(Purposes)
      BY DEF Purposes
    <3> QED BY <2>2, <3>1, ConcatProperties DEF TypeSnippet, Modify, IInv, TypeOK
  <2> QED BY <1>1, <2>1, <2>2
<1>7. taken' = taken /\ keys' \in 0 .. MaxKeys
  BY <1>1, SocketsAreNumbers DEF SwitchOff, IInv, TypeOK
<1>8. TypeOK'
  BY <1>1, <1>3, <1>6, <1>7, SocketsAreNumbers DEF IInv, TypeOK, netVars, loopVars
<1> QED BY <1>3, <1>4, <1>5, <1>8 DEF IInv

LEMMA NextIInv == IInv /\ [Next]_vars => IInv'
<1> SUFFICES ASSUME IInv, [Next]_vars PROVE IInv'
  OBVIOUS
<1>1. CASE UNCHANGED vars
  <2>1. TypeOK' /\ ModeInv' /\ PortShownInOrder'
    BY <1>1 DEF vars, IInv, TypeOK, ModeInv, ModeConsistent, ShutArePanels, PortShownInOrder, Kept
  <2>2. RouteInv' /\ ExitInv'
    BY <1>1 DEF vars, IInv, RouteInv, MisroutedOnlyAcrossSwitch, WaitsForMode, Purpose, ExitInv,
       ExitHasCause, ErrorsAreEnds, Ended
  <2> QED BY <2>1, <2>2 DEF IInv
<1> QED BY <1>1, ServerKeeps, LoopKeeps, HandleOutputKeeps, ReadPortKeeps, ReadPanelKeeps,
           TypeKeeps, EnterPanelKeeps, LeaveKeeps DEF Next

-----------------------------------------------------------------------------
(* The theorems.                                                           *)

THEOREM Invariance == Spec => []IInv
  BY InitIInv, NextIInv, PTL DEF Spec

\* The state of the client is what its types say.
THEOREM TypeCorrect == Spec => []TypeOK
<1>1. IInv => TypeOK
  BY DEF IInv
<1> QED BY <1>1, Invariance, PTL

\* sockclient.cc:396-421: after any number of switches, fd_, client_fd_ and the
\* registrations are those of the mode.
THEOREM ModeCorrect == Spec => []ModeConsistent
<1>1. IInv => ModeConsistent
  BY DEF IInv, ModeInv
<1> QED BY <1>1, Invariance, PTL

\* sockclient.cc:261-272, :370-375, :410-421: the bytes of the port are shown once at
\* most and in order, however often the panel was open in between, and only those
\* that a write() to the terminal did not take go missing.
THEOREM ShownCorrect == Spec => []PortShownInOrder
<1>1. IInv => PortShownInOrder
  BY DEF IInv
<1> QED BY <1>1, Invariance, PTL

\* sockclient.cc:396-421 and connection.cc:44-50: what is typed in one mode goes to the
\* other mode's socket only if a switch overtakes it.
THEOREM RouteCorrect == Spec => []MisroutedOnlyAcrossSwitch
<1>1. IInv => MisroutedOnlyAcrossSwitch
  BY DEF IInv, RouteInv
<1> QED BY <1>1, Invariance, PTL

\* sockclient.cc:232-246, :276-279, :301-308: no handler exits but for a socket that
\* was closed, a terminal that was hung up, or an event of a panel that was left.
THEOREM ExitCorrect == Spec => []ExitHasCause
<1>1. IInv => ExitHasCause
  BY DEF IInv, ExitInv
<1> QED BY <1>1, Invariance, PTL

-----------------------------------------------------------------------------
(* Console: words.                                                         *)

\* A set of naturals has a smallest element.
LEMMA SmallestNat ==
  ASSUME NEW T \in SUBSET Nat, T # {}
  PROVE  \E m \in T : \A i \in T : m <= i
<1>1. PICK m \in T : \A i \in T : <<i, m>> \notin OpToRel(<, Nat)
  BY NatLessThanWellFounded, WFMin
<1>2. \A i \in T : ~(i < m)
  BY <1>1 DEF OpToRel
<1>3. \A i \in T : m <= i
  BY <1>2
<1> QED BY <1>3

\* A set of numbers up to n has a k-th element for each k up to its size: a
\* smallest n for which it has none would have a predecessor.
LEMMA HasKth ==
  ASSUME NEW n \in Nat, NEW S \in SUBSET (1 .. n), NEW k \in 1 .. Cardinality(S)
  PROVE  \E i \in S : Cardinality({j \in S : j < i}) = k - 1
<1> DEFINE Fails(m, s, h) ==
             s \in SUBSET (1 .. m) /\ h \in 1 .. Cardinality(s)
             /\ \A i \in s : Cardinality({j \in s : j < i}) # h - 1
           T == {m \in Nat : \E s \in SUBSET (1 .. m), h \in Nat : Fails(m, s, h)}
<1>1. ASSUME T # {} PROVE FALSE
  <2>1. PICK m \in T : \A i \in T : m <= i
    <3>1. T \in SUBSET Nat
      OBVIOUS
    <3> QED BY <1>1, <3>1, SmallestNat
  <2>2. PICK s \in SUBSET (1 .. m), h \in Nat : Fails(m, s, h)
    BY <2>1
  <2>3. m \in Nat
    BY <2>1
  <2>4. IsFiniteSet(1 .. m)
    BY <2>3, FS_Interval
  <2>5. IsFiniteSet(s) /\ Cardinality(s) \in Nat
    BY <2>4, FS_Subset, FS_CardinalityType
  <2>6. m > 0
    <3>1. CASE m = 0
      <4>1. s = {}
        BY <3>1
      <4>2. Cardinality(s) = 0
        BY <4>1, FS_EmptySet
      <4> QED BY <2>2, <4>2
    <3> QED BY <2>3, <3>1
  <2>7. m - 1 \in Nat /\ m - 1 \notin T
    <3> HIDE DEF T
    <3> QED BY <2>1, <2>3, <2>6
  <2>8. m \in s
    <3>1. CASE m \notin s
      <4>1. s \in SUBSET (1 .. m - 1)
        BY <2>3, <3>1
      <4>2. Fails(m - 1, s, h)
        BY <2>2, <4>1
      <4> HIDE DEF Fails
      <4> QED BY <2>2, <2>7, <4>1, <4>2
    <3> QED BY <3>1
  <2> DEFINE r == s \ {m}
  <2>9. r \in SUBSET (1 .. m - 1) /\ Cardinality(r) = Cardinality(s) - 1
    BY <2>3, <2>5, <2>8, FS_RemoveElement
  <2>10. {j \in s : j < m} = r
    <3>1. \A j \in s : j < m <=> j # m
      BY <2>3
    <3> QED BY <3>1
  <2>11. h # Cardinality(s)
    BY <2>2, <2>8, <2>9, <2>10
  <2>12. h \in 1 .. Cardinality(r)
    BY <2>2, <2>5, <2>9, <2>11
  <2>13. PICK i \in r : Cardinality({j \in r : j < i}) = h - 1
    <3>1. ~Fails(m - 1, r, h)
      <4> HIDE DEF Fails, r
      <4> QED BY <2>2, <2>7, <2>9
    <3> QED BY <2>9, <2>12, <3>1
  <2>14. {j \in r : j < i} = {j \in s : j < i}
    BY <2>3
  <2>15. i \in s
    OBVIOUS
  <2> QED BY <2>2, <2>13, <2>14, <2>15
<1>2. k \in Nat /\ ~Fails(n, S, k)
  <2>1. k \in Nat
    OBVIOUS
  <2> HIDE DEF Fails
  <2> QED BY <1>1, <2>1
<1> QED BY <1>2

\* The k-th word of a line has a first byte.
LEMMA WordStartExists ==
  ASSUME NEW s \in Seq(Byte), NEW k \in 1 .. Cardinality(WordStarts(s))
  PROVE  WordStart(s, k) \in WordStarts(s)
<1>1. Len(s) \in Nat /\ WordStarts(s) \in SUBSET (1 .. Len(s))
  BY LenProperties DEF WordStarts
<1>2. \E i \in WordStarts(s) : Cardinality({j \in WordStarts(s) : j < i}) = k - 1
  BY <1>1, HasKth
<1> QED BY <1>2 DEF WordStart

\* A word has a last byte.
LEMMA WordEndExists ==
  ASSUME NEW s \in Seq(Byte), NEW i \in WordStarts(s)
  PROVE  WordEnd(s, i) \in i .. Len(s)
<1> DEFINE T == {e \in i .. Len(s) : e = Len(s) \/ s[e + 1] \in Blanks}
<1>1. Len(s) \in Nat /\ i \in 1 .. Len(s) /\ s[i] \notin Blanks
  BY LenProperties DEF WordStarts
<1>2. PICK e \in T : \A j \in T : e <= j
  <2>1. T \in SUBSET Nat /\ Len(s) \in T
    BY <1>1
  <2> QED BY <2>1, SmallestNat
<1>3. ASSUME NEW j \in i .. e PROVE s[j] \notin Blanks
  <2>1. CASE j = i
    BY <1>1, <2>1
  <2>2. CASE j > i /\ s[j] \in Blanks
    <3>1. j - 1 \in i .. Len(s) /\ s[(j - 1) + 1] \in Blanks /\ ~(e <= j - 1)
      BY <1>1, <1>2, <2>2
    <3>2. j - 1 \in T
      BY <3>1
    <3> HIDE DEF T
    <3> QED BY <1>2, <3>1, <3>2
  <2> QED BY <1>1, <2>1, <2>2
<1>4. \E e2 \in i .. Len(s) :
        /\ \A j \in i .. e2 : s[j] \notin Blanks
        /\ e2 = Len(s) \/ s[e2 + 1] \in Blanks
  BY <1>2, <1>3
<1> QED BY <1>4 DEF WordEnd

LEMMA WordsAreLines ==
  ASSUME NEW s \in Seq(Byte)
  PROVE  Words(s) \in Seq(Seq(Byte))
<1>1. Len(s) \in Nat /\ WordStarts(s) \in SUBSET (1 .. Len(s))
  BY LenProperties DEF WordStarts
<1>2. Cardinality(WordStarts(s)) \in Nat
  <2>1. IsFiniteSet(1 .. Len(s))
    BY <1>1, FS_Interval
  <2>2. IsFiniteSet(WordStarts(s))
    BY <1>1, <2>1, FS_Subset
  <2> QED BY <2>2, FS_CardinalityType
<1>3. ASSUME NEW k \in 1 .. Cardinality(WordStarts(s))
      PROVE  SubSeq(s, WordStart(s, k), WordEnd(s, WordStart(s, k))) \in Seq(Byte)
  <2> DEFINE a == WordStart(s, k)
             b == WordEnd(s, a)
  <2>1. a \in 1 .. Len(s) /\ b \in a .. Len(s)
    BY <1>1, WordStartExists, WordEndExists
  <2> HIDE DEF a, b
  <2>2. \A i \in a .. b : s[i] \in Byte
    BY <1>1, <2>1, ElementOfSeq
  <2>3. SubSeq(s, a, b) \in Seq(Byte)
    BY <1>1, <2>1, <2>2, SubSeqProperties
  <2> QED BY <2>3 DEF a, b
<1> DEFINE f == [k \in 1 .. Cardinality(WordStarts(s)) |->
                   SubSeq(s, WordStart(s, k), WordEnd(s, WordStart(s, k)))]
<1>4. f \in [1 .. Cardinality(WordStarts(s)) -> Seq(Byte)]
  BY <1>3
<1> HIDE DEF f
<1>5. f \in Seq(Seq(Byte))
  BY <1>2, <1>4, SeqDef
<1> QED BY <1>5 DEF Words, f

\* The newline that ends a line is in none of its words.
LEMMA WordsOfLine ==
  ASSUME NEW s \in Seq(Byte)
  PROVE  Words(s \o <<LF>>) = Words(s)
<1> DEFINE t == s \o <<LF>>
<1>1. Len(s) \in Nat /\ DOMAIN s = 1 .. Len(s) /\ LF \in Blanks /\ <<LF>> \in Seq(Byte)
  <2>1. LF \in Byte /\ LF \in Blanks
    BY ByteAssumption DEF Blanks
  <2>2. <<LF>> \in Seq(Byte)
    BY <2>1
  <2> QED BY <2>1, <2>2, LenProperties
<1>2. /\ t \in Seq(Byte) /\ Len(t) = Len(s) + 1 /\ DOMAIN t = 1 .. Len(s) + 1
      /\ \A i \in 1 .. Len(s) : t[i] = s[i]
      /\ t[Len(s) + 1] = LF
  <2>1. Len(<<LF>>) = 1 /\ <<LF>>[1] = LF
    OBVIOUS
  <2>2. /\ t \in Seq(Byte) /\ Len(t) = Len(s) + 1
        /\ \A i \in 1 .. Len(s) + 1 : t[i] = IF i <= Len(s) THEN s[i] ELSE <<LF>>[i - Len(s)]
    BY <1>1, <2>1, ConcatProperties
  <2> HIDE DEF t
  <2>3. DOMAIN t = 1 .. Len(t)
    BY <2>2, LenProperties
  <2> QED BY <1>1, <2>1, <2>2, <2>3
<1> HIDE DEF t
<1>3. WordStarts(t) = WordStarts(s)
  <2>1. ASSUME NEW i \in 1 .. Len(s) PROVE i \in WordStarts(t) <=> i \in WordStarts(s)
    BY <1>1, <1>2 DEF WordStarts
  <2>2. Len(s) + 1 \notin WordStarts(t)
    BY <1>1, <1>2 DEF WordStarts
  <2>3. WordStarts(t) \subseteq 1 .. Len(s) + 1 /\ WordStarts(s) \subseteq 1 .. Len(s)
    BY <1>1, <1>2 DEF WordStarts
  <2>4. 1 .. Len(s) + 1 = (1 .. Len(s)) \union {Len(s) + 1}
    BY <1>1
  <2> QED BY <2>1, <2>2, <2>3, <2>4
<1>4. ASSUME NEW i \in WordStarts(s) PROVE WordEnd(t, i) = WordEnd(s, i)
  <2> DEFINE Ends(r, e) == (\A j \in i .. e : r[j] \notin Blanks)
                           /\ (e = Len(r) \/ r[e + 1] \in Blanks)
  <2>1. i \in 1 .. Len(s)
    BY <1>1 DEF WordStarts
  <2>2. ASSUME NEW e \in i .. Len(s) PROVE Ends(t, e) <=> Ends(s, e)
    <3>1. \A j \in i .. e : t[j] = s[j]
      BY <1>1, <1>2, <2>1
    <3>2. CASE e = Len(s)
      <4>1. t[e + 1] \in Blanks
        BY <1>1, <1>2, <3>2
      <4> QED BY <3>1, <3>2, <4>1
    <3>3. CASE e # Len(s)
      <4>1. t[e + 1] = s[e + 1] /\ e # Len(t)
        <5>1. e + 1 \in 1 .. Len(s) /\ e # Len(s) + 1
          <6>1. Len(s) \in Nat /\ i \in Nat /\ i >= 1
            BY <1>1, <2>1
          <6> QED BY <3>3, <6>1
        <5>2. t[e + 1] = s[e + 1]
          BY <1>2, <5>1
        <5>3. Len(t) = Len(s) + 1
          BY <1>2
        <5> QED BY <5>1, <5>2, <5>3
      <4> QED BY <3>1, <3>3, <4>1
    <3> QED BY <3>2, <3>3
  <2>3. ~Ends(t, Len(s) + 1)
    BY <1>1, <1>2, <2>1
  <2>4. \A e : (e \in i .. Len(t) /\ Ends(t, e)) <=> (e \in i .. Len(s) /\ Ends(s, e))
    <3>1. i .. Len(t) = (i .. Len(s)) \union {Len(s) + 1}
      BY <1>1, <1>2, <2>1
    <3> HIDE DEF Ends
    <3> QED BY <1>1, <2>1, <2>2, <2>3, <3>1
  <2>5. (CHOOSE e \in i .. Len(t) : Ends(t, e)) = (CHOOSE e \in i .. Len(s) : Ends(s, e))
    <3> HIDE DEF Ends
    <3> QED BY <2>4
  <2> QED BY <2>5 DEF WordEnd
<1>5. ASSUME NEW k \in 1 .. Cardinality(WordStarts(s))
      PROVE  SubSeq(t, WordStart(s, k), WordEnd(t, WordStart(s, k)))
               = SubSeq(s, WordStart(s, k), WordEnd(s, WordStart(s, k)))
  <2> DEFINE a == WordStart(s, k)
             b == WordEnd(s, a)
  <2>1. a \in WordStarts(s) /\ a \in 1 .. Len(s) /\ b \in a .. Len(s)
    BY <1>1, WordStartExists, WordEndExists DEF WordStarts
  <2>2. WordEnd(t, a) = b
    BY <1>4, <2>1
  <2> HIDE DEF a, b
  <2>3. b \in 1 .. Len(s)
    BY <1>1, <2>1
  <2>4. SubSeq(t, a, b) = SubSeq(s, a, b)
    BY <1>1, <2>1, <2>3, SubSeqOfConcat1 DEF t
  <2> QED BY <2>2, <2>4 DEF a, b
<1>6. \A k : WordStart(t, k) = WordStart(s, k)
  BY <1>3 DEF WordStart
<1> QED BY <1>3, <1>5, <1>6 DEF Words, t

\* An empty line has no words.
LEMMA NoWords == Words(<<>>) = <<>>
<1>1. WordStarts(<<>>) = {}
  BY DEF WordStarts
<1>2. Cardinality(WordStarts(<<>>)) = 0
  BY <1>1, FS_EmptySet
<1>3. DOMAIN Words(<<>>) = 1 .. 0
  BY <1>2 DEF Words
<1>4. <<>> \in Seq(Byte)
  BY EmptySeq
<1>5. Words(<<>>) \in Seq(Seq(Byte))
  BY <1>4, WordsAreLines
<1> HIDE DEF Words
<1>6. Len(Words(<<>>)) \in Nat /\ DOMAIN Words(<<>>) = 1 .. Len(Words(<<>>))
  BY <1>5, LenProperties
<1>7. Len(Words(<<>>)) = 0
  BY <1>3, <1>6
<1> QED BY <1>5, <1>7, EmptySeq

-----------------------------------------------------------------------------
(* Console: types.                                                         *)

\* The line is what stands before the cursor and what stands after it.
LEMMA CutAtCursor ==
  ASSUME ConsoleTypeOK
  PROVE  /\ Before \in Seq(Byte) /\ After \in Seq(Byte) /\ Before \o After = cmdline
         /\ Len(Before) = cursor_pos /\ Len(After) = Len(cmdline) - cursor_pos
         /\ cursor_pos \in Nat /\ Len(cmdline) \in Nat
<1>1. cmdline \in Seq(Byte) /\ cursor_pos \in 0 .. Len(cmdline)
  BY DEF ConsoleTypeOK
<1>2. /\ Before \in Seq(Byte) /\ After \in Seq(Byte) /\ Before \o After = cmdline
      /\ Len(Before) = cursor_pos
  BY <1>1, CutInTwo DEF Before, After
<1>3. Len(cmdline) = Len(Before) + Len(After) /\ Len(After) \in Nat /\ Len(cmdline) \in Nat
  BY <1>1, <1>2, ConcatProperties, LenProperties
<1> QED BY <1>1, <1>2, <1>3

\* What one Enter sends, as it arrives.
LEMMA MarkedBytes ==
  ASSUME NEW bytes \in Seq(Byte)
  PROVE  /\ Marked(bytes) \in Seq([byte : Byte, last : BOOLEAN])
         /\ Len(Marked(bytes)) = Len(bytes)
         /\ \A i \in 1 .. Len(bytes) : Marked(bytes)[i].byte = bytes[i]
         /\ \A i \in 1 .. Len(bytes) : Marked(bytes)[i].last <=> i = Len(bytes)
<1>1. Len(bytes) \in Nat /\ DOMAIN bytes = 1 .. Len(bytes)
  BY LenProperties
<1>2. \A i \in 1 .. Len(bytes) :
        [byte |-> bytes[i], last |-> i = Len(bytes)] \in [byte : Byte, last : BOOLEAN]
  BY ElementOfSeq
<1>3. /\ Marked(bytes) \in Seq([byte : Byte, last : BOOLEAN])
      /\ Len(Marked(bytes)) = Len(bytes)
  BY <1>1, <1>2 DEF Marked
<1>4. ASSUME NEW i \in 1 .. Len(bytes)
      PROVE  /\ Marked(bytes)[i].byte = bytes[i]
             /\ Marked(bytes)[i].last <=> i = Len(bytes)
  <2>1. Marked(bytes)[i] = [byte |-> bytes[i], last |-> i = Len(bytes)]
    BY <1>1 DEF Marked
  <2>2. Marked(bytes)[i].byte = bytes[i]
    BY <2>1
  <2>3. Marked(bytes)[i].last = (i = Len(bytes))
    BY <2>1
  <2>4. Marked(bytes)[i].last <=> i = Len(bytes)
    BY <2>3, Zenon
  <2> QED BY <2>2, <2>4
<1> QED BY <1>3, <1>4

LEMMA SendTyped ==
  ASSUME ConsoleTypeOK, NEW bytes \in Seq(Byte), Send(bytes)
  PROVE  wire' \in Seq([byte : Byte, last : BOOLEAN])
  BY MarkedBytes, ConcatProperties DEF ConsoleTypeOK, Send

LEMMA ConsoleInitTyped == ConsoleInit => ConsoleTypeOK
<1> SUFFICES ASSUME ConsoleInit PROVE ConsoleTypeOK
  OBVIOUS
<1>1. /\ <<>> \in Seq(Byte) /\ <<>> \in Seq(Seq(Seq(Byte)))
      /\ <<>> \in Seq(Seq(Seq(Byte)) \union {Stamp})
      /\ <<>> \in Seq([byte : Byte, last : BOOLEAN])
  BY EmptySeq
<1>2. cmdline \in Seq(Byte) /\ cursor_pos \in 0 .. Len(cmdline)
  BY <1>1, EmptySeq DEF ConsoleInit
<1>3. history \in Seq(Seq(Byte)) /\ history_idx \in 0 .. Len(history)
  <2>1. history \in Seq(Seq(Byte)) /\ history_idx = 0
    BY HistoriesAssumption DEF ConsoleInit
  <2> QED BY <2>1, LenProperties
<1>4. pressed \in 0 .. MaxPressed
  BY ConsoleBounds DEF ConsoleInit
<1> QED BY <1>1, <1>2, <1>3, <1>4 DEF ConsoleInit, ConsoleTypeOK

\* A key counts.
LEMMA KeyCounts ==
  ASSUME ConsoleTypeOK, Key
  PROVE  pressed' \in 0 .. MaxPressed
  BY ConsoleBounds DEF ConsoleTypeOK, Key

LEMMA InsertTyped ==
  ASSUME ConsoleTypeOK, Insert
  PROVE  ConsoleTypeOK'
<1>1. PICK text \in Texts : /\ cmdline' = Before \o text \o After
                            /\ cursor_pos' = cursor_pos + Len(text)
  BY DEF Insert
<1>2. text \in Seq(Byte) /\ Len(text) \in Nat
  BY TextsAssumption, LenProperties
<1>3. /\ Before \o text \in Seq(Byte) /\ Len(Before \o text) = cursor_pos + Len(text)
      /\ cursor_pos \in Nat /\ Len(After) \in Nat
  BY <1>2, CutAtCursor, ConcatProperties, LenProperties
<1>4. cmdline' \in Seq(Byte) /\ Len(cmdline') = cursor_pos + Len(text) + Len(After)
  <2>1. /\ (Before \o text) \o After \in Seq(Byte)
        /\ Len((Before \o text) \o After) = Len(Before \o text) + Len(After)
    BY <1>3, CutAtCursor, ConcatProperties
  <2> QED BY <1>1, <1>3, <2>1
<1>5. cursor_pos' \in 0 .. Len(cmdline')
  BY <1>1, <1>2, <1>3, <1>4
<1> QED BY <1>4, <1>5, KeyCounts DEF Insert, stream, server, ConsoleTypeOK

LEMMA EraseTyped ==
  ASSUME ConsoleTypeOK, Erase
  PROVE  ConsoleTypeOK'
<1>1. CASE cursor_pos = 0 /\ UNCHANGED <<cmdline, cursor_pos>>
  BY <1>1, KeyCounts DEF Erase, stream, server, ConsoleTypeOK
<1>2. CASE /\ cursor_pos > 0
           /\ cmdline' = SubSeq(cmdline, 1, cursor_pos - 1) \o After
           /\ cursor_pos' = cursor_pos - 1
  <2>1. cursor_pos - 1 \in 0 .. Len(cmdline) /\ cursor_pos \in Nat
    BY <1>2, CutAtCursor DEF ConsoleTypeOK
  <2>2. /\ SubSeq(cmdline, 1, cursor_pos - 1) \in Seq(Byte)
        /\ Len(SubSeq(cmdline, 1, cursor_pos - 1)) = cursor_pos - 1
    BY <2>1, CutInTwo DEF ConsoleTypeOK
  <2>3. cmdline' \in Seq(Byte) /\ Len(cmdline') = cursor_pos - 1 + Len(After) /\ Len(After) \in Nat
    BY <1>2, <2>2, CutAtCursor, ConcatProperties, LenProperties
  <2>4. cursor_pos' \in 0 .. Len(cmdline')
    BY <1>2, <2>1, <2>3
  <2> QED BY <2>3, <2>4, KeyCounts DEF Erase, stream, server, ConsoleTypeOK
<1> QED BY <1>1, <1>2 DEF Erase

LEMMA MoveCursorTyped ==
  ASSUME ConsoleTypeOK, MoveCursor
  PROVE  ConsoleTypeOK'
<1>1. cursor_pos' \in 0 .. Len(cmdline)
  BY DEF MoveCursor
<1> QED BY <1>1, KeyCounts DEF MoveCursor, stream, server, ConsoleTypeOK

\* The index stays within the history, and what is recalled is a line.
LEMMA RecalledLine ==
  ASSUME ConsoleTypeOK, history # <<>>, NEW d \in {1, -1}
  PROVE  /\ Clamped(history_idx + d) \in 0 .. Len(history)
         /\ Recalled(Clamped(history_idx + d)) \in Seq(Byte)
         /\ Clamped(history_idx + d) \in {history_idx - 1, history_idx, history_idx + 1}
<1>1. Len(history) \in Nat /\ history_idx \in 0 .. Len(history)
  BY LenProperties DEF ConsoleTypeOK
<1>2. /\ Clamped(history_idx + d) \in 0 .. Len(history)
      /\ Clamped(history_idx + d) \in {history_idx - 1, history_idx, history_idx + 1}
  BY <1>1 DEF Clamped
<1>3. ASSUME NEW n \in 0 .. Len(history) PROVE Recalled(n) \in Seq(Byte)
  <2>1. CASE n = 0
    BY <2>1, EmptySeq DEF Recalled
  <2>2. CASE n # 0
    <3>1. Len(history) - n + 1 \in 1 .. Len(history)
      BY <1>1, <2>2
    <3> QED BY <2>2, <3>1, ElementOfSeq DEF Recalled, ConsoleTypeOK
  <2> QED BY <2>1, <2>2
<1> QED BY <1>2, <1>3

LEMMA RecallTyped ==
  ASSUME ConsoleTypeOK, Recall
  PROVE  ConsoleTypeOK'
<1>1. CASE history = <<>> /\ UNCHANGED line
  BY <1>1, KeyCounts DEF Recall, line, stream, server, ConsoleTypeOK
<1>2. CASE history # <<>> /\ ~UNCHANGED line
  <2>1. PICK d \in {1, -1} : history_idx' = Clamped(history_idx + d)
    BY <1>2 DEF Recall
  <2>2. cmdline' = Recalled(history_idx') /\ cursor_pos' = Len(cmdline') /\ history' = history
    BY <1>2 DEF Recall
  <2>3. cmdline' = Recalled(Clamped(history_idx + d))
    BY <2>1, <2>2 DEF Recalled
  <2>4. cmdline' \in Seq(Byte) /\ history_idx' \in 0 .. Len(history')
    BY <1>2, <2>1, <2>2, <2>3, RecalledLine
  <2>5. cursor_pos' \in 0 .. Len(cmdline')
    BY <2>2, <2>4, LenProperties
  <2> QED BY <2>2, <2>4, <2>5, KeyCounts DEF Recall, stream, server, ConsoleTypeOK
<1> QED BY <1>1, <1>2, KeyCounts DEF Recall, line, stream, server, ConsoleTypeOK

LEMMA CancelTyped ==
  ASSUME ConsoleTypeOK, Cancel
  PROVE  ConsoleTypeOK'
<1>1. <<>> \in Seq(Byte) /\ Len(<<>>) = 0
  BY EmptySeq
<1> QED BY <1>1, KeyCounts DEF Cancel, stream, server, ConsoleTypeOK

\* The newline alone, and a line with its newline.
LEMMA NewlineTyped ==
  /\ LF \in Byte /\ LF \in Blanks /\ <<LF>> \in Seq(Byte)
  /\ \A s \in Seq(Byte) : s \o <<LF>> \in Seq(Byte)
<1>1. LF \in Byte /\ LF \in Blanks
  BY ByteAssumption DEF Blanks
<1>2. <<LF>> \in Seq(Byte)
  BY <1>1
<1> QED BY <1>1, <1>2, ConcatProperties

LEMMA EnterEmptyTyped ==
  ASSUME ConsoleTypeOK, EnterEmpty
  PROVE  ConsoleTypeOK'
<1>1. cursor_pos' \in 0 .. Len(cmdline') /\ history_idx' \in 0 .. Len(history')
  BY LenProperties DEF EnterEmpty, ConsoleTypeOK
<1>2. wire' \in Seq([byte : Byte, last : BOOLEAN])
  BY NewlineTyped, SendTyped DEF EnterEmpty
<1> QED BY <1>1, <1>2, KeyCounts DEF EnterEmpty, server, ConsoleTypeOK

LEMMA EnterBlanksTyped ==
  ASSUME ConsoleTypeOK, EnterBlanks
  PROVE  ConsoleTypeOK'
  BY KeyCounts DEF EnterBlanks, line, stream, server, ConsoleTypeOK

\* What Enter does with a command: the newline alone is sent, nothing is, or the
\* command is.
LEMMA EnterCommandSends ==
  ASSUME EnterCommand
  PROVE  \/ Send(<<LF>>) /\ entered' = entered
         \/ wire' = wire /\ entered' = entered
         \/ Send(cmdline \o <<LF>>) /\ entered' = Append(entered, Words(cmdline))
<1>1. \/ Send(<<LF>>) /\ UNCHANGED entered
      \/ UNCHANGED <<wire, entered>>
      \/ /\ Send(cmdline \o <<LF>>)
         /\ entered' = Append(entered, Words(cmdline))
  BY DEF EnterCommand
<1> QED BY <1>1

LEMMA EnterCommandTyped ==
  ASSUME ConsoleTypeOK, EnterCommand
  PROVE  ConsoleTypeOK'
<1>1. cmdline' = <<>> /\ cursor_pos' = 0 /\ history_idx' = 0 /\ history' = Append(history, cmdline)
  BY DEF EnterCommand
<1>2. cmdline' \in Seq(Byte) /\ cursor_pos' \in 0 .. Len(cmdline')
  <2>1. <<>> \in Seq(Byte) /\ Len(<<>>) = 0
    BY EmptySeq
  <2> QED BY <1>1, <2>1
<1>3. history' \in Seq(Seq(Byte))
  BY <1>1, AppendProperties DEF ConsoleTypeOK
<1>4. history_idx' \in 0 .. Len(history')
  BY <1>1, <1>3, LenProperties
<1>5. wire' \in Seq([byte : Byte, last : BOOLEAN])
  <2>1. cmdline \o <<LF>> \in Seq(Byte)
    BY NewlineTyped DEF ConsoleTypeOK
  <2> QED BY <2>1, NewlineTyped, SendTyped, EnterCommandSends DEF ConsoleTypeOK
<1>6. entered' \in Seq(Seq(Seq(Byte)))
  <2>1. Append(entered, Words(cmdline)) \in Seq(Seq(Seq(Byte)))
    BY WordsAreLines, AppendProperties DEF ConsoleTypeOK
  <2> QED BY <2>1, EnterCommandSends DEF ConsoleTypeOK
<1>7. at_panel' \in BOOLEAN
  BY DEF EnterCommand
<1> QED BY <1>2, <1>3, <1>4, <1>5, <1>6, <1>7, KeyCounts DEF EnterCommand, server, ConsoleTypeOK

\* The bytes from one position of a stream to another.
Bytes(w, b, e) == [i \in 1 .. e - b |-> w[b + i].byte]

LEMMA BytesTyped ==
  ASSUME NEW w \in Seq([byte : Byte, last : BOOLEAN]),
         NEW b \in 0 .. Len(w), NEW e \in b .. Len(w)
  PROVE  /\ Bytes(w, b, e) \in Seq(Byte) /\ Len(Bytes(w, b, e)) = e - b
         /\ \A i \in 1 .. e - b : Bytes(w, b, e)[i] = w[b + i].byte
<1>1. Len(w) \in Nat /\ e - b \in Nat
  BY LenProperties
<1>2. ASSUME NEW i \in 1 .. e - b PROVE w[b + i].byte \in Byte
  <2>1. b + i \in 1 .. Len(w)
    BY <1>1
  <2>2. w[b + i] \in [byte : Byte, last : BOOLEAN]
    BY <2>1, ElementOfSeq
  <2> QED BY <2>2
<1> QED BY <1>1, <1>2 DEF Bytes

\* What process_cmd is called for.
Runnable == Seq(Seq(Byte)) \union {Stamp}

LEMMA StampedTyped ==
  ASSUME ConsoleTypeOK
  PROVE  Stamped \in Seq(Runnable)
<1>1. executed \in Seq(Runnable) /\ Stamp \in Runnable
  BY DEF ConsoleTypeOK, Runnable
<1>2. Append(executed, Stamp) \in Seq(Runnable)
  BY <1>1, AppendProperties
<1> QED BY <1>1, <1>2 DEF Stamped

\* What a read() of the server takes, and what it does with it.
LEMMA ServerReadTakes ==
  ASSUME ConsoleTypeOK, ServerRead
  PROVE  \E n \in 1 .. Len(wire) :
           /\ wire' = SubSeq(wire, n + 1, Len(wire))
           /\ misframed' = (misframed \/ \E i \in 1 .. n : wire[i].last # (i = n))
           /\ Bytes(wire, 0, n) \in Seq(Byte)
           /\ \/ Bytes(wire, 0, n) = <<LF>> /\ executed' = Stamped /\ UNCHANGED <<quit, crashed>>
              \/ /\ Bytes(wire, 0, n) # <<LF>> /\ Words(Bytes(wire, 0, n)) # <<>>
                 /\ executed' = Append(Stamped, Words(Bytes(wire, 0, n)))
                 /\ quit' = IF Words(Bytes(wire, 0, n))[1] = Exit THEN "asked" ELSE quit
                 /\ UNCHANGED crashed
              \/ /\ Bytes(wire, 0, n) # <<LF>> /\ Words(Bytes(wire, 0, n)) = <<>>
                 /\ executed' = Stamped
                 /\ crashed' = "server" /\ UNCHANGED quit
<1> DEFINE chunk(n) == SubSeq(wire, 1, n)
           bytes(n) == [i \in 1 .. n |-> chunk(n)[i].byte]
           T == [byte : Byte, last : BOOLEAN]
<1>1. PICK n \in 1 .. Len(wire) :
        /\ wire' = SubSeq(wire, n + 1, Len(wire))
        /\ misframed' = (misframed \/ \E i \in 1 .. n : chunk(n)[i].last # (i = n))
        /\ \/ Prompted(bytes(n)) /\ executed' = Stamped /\ UNCHANGED <<quit, crashed>>
           \/ /\ ~Prompted(bytes(n)) /\ Words(bytes(n)) # <<>>
              /\ executed' = Append(Stamped, Words(bytes(n)))
              /\ quit' = IF Words(bytes(n))[1] = Exit THEN "asked" ELSE quit
              /\ UNCHANGED crashed
           \/ /\ ~Prompted(bytes(n)) /\ Words(bytes(n)) = <<>>
              /\ executed' = Stamped
              /\ crashed' = "server" /\ UNCHANGED quit
  BY DEF ServerRead
<1>2. wire \in Seq(T) /\ Len(wire) \in Nat /\ n \in 0 .. Len(wire)
  BY LenProperties DEF ConsoleTypeOK
<1>3. \A i \in 1 .. n : chunk(n)[i] = wire[i]
  <2>1. \A i \in 1 .. n : wire[i] \in T
    <3>1. \A i \in 1 .. Len(wire) : wire[i] \in T
      BY <1>2, ElementOfSeq
    <3> QED BY <1>2, <3>1
  <2>2. \A i \in 1 .. n - 1 + 1 : chunk(n)[i] = wire[1 + i - 1]
    BY <1>2, <2>1, SubSeqProperties
  <2> QED BY <1>2, <2>2
<1>4. bytes(n) = Bytes(wire, 0, n)
  <2>1. n - 0 = n /\ \A i \in 1 .. n : 0 + i = i
    BY <1>2
  <2> HIDE DEF chunk
  <2> QED BY <1>3, <2>1 DEF Bytes
<1>5. Bytes(wire, 0, n) \in Seq(Byte)
  <2>1. 0 \in 0 .. Len(wire)
    BY <1>2
  <2> QED BY <1>2, <2>1, BytesTyped
<1>6. (\E i \in 1 .. n : chunk(n)[i].last # (i = n)) <=> (\E i \in 1 .. n : wire[i].last # (i = n))
  BY <1>3
<1> HIDE DEF chunk, bytes
<1> QED BY <1>1, <1>4, <1>5, <1>6 DEF Prompted

LEMMA ServerReadTyped ==
  ASSUME ConsoleTypeOK, ServerRead
  PROVE  ConsoleTypeOK'
<1> DEFINE T == [byte : Byte, last : BOOLEAN]
<1>1. PICK n \in 1 .. Len(wire) :
           /\ wire' = SubSeq(wire, n + 1, Len(wire))
           /\ misframed' = (misframed \/ \E i \in 1 .. n : wire[i].last # (i = n))
           /\ Bytes(wire, 0, n) \in Seq(Byte)
           /\ \/ executed' = Stamped
              \/ executed' = Append(Stamped, Words(Bytes(wire, 0, n)))
           /\ quit' \in {quit, "asked"} /\ crashed' \in {crashed, "server"}
  BY ServerReadTakes
<1>2. wire' \in Seq(T)
  <2>1. wire \in Seq(T) /\ n \in 0 .. Len(wire)
    BY LenProperties DEF ConsoleTypeOK
  <2> QED BY <1>1, <2>1, CutInTwo
<1>3. executed' \in Seq(Runnable)
  <2>1. Words(Bytes(wire, 0, n)) \in Runnable
    BY <1>1, WordsAreLines DEF Runnable
  <2>2. Append(Stamped, Words(Bytes(wire, 0, n))) \in Seq(Runnable)
    BY <2>1, StampedTyped, AppendProperties
  <2> QED BY <1>1, <2>2, StampedTyped
<1>4. /\ misframed' \in BOOLEAN /\ crashed' \in {"none", "client", "server"}
      /\ quit' \in {"no", "asked", "flushing"}
  BY <1>1 DEF ConsoleTypeOK
<1> QED BY <1>2, <1>3, <1>4 DEF ServerRead, line, ConsoleTypeOK, Runnable

LEMMA ServerElseTyped ==
  ASSUME ConsoleTypeOK, LineOfPort \/ OutputEvent
  PROVE  ConsoleTypeOK'
<1>1. UNCHANGED <<line, at_panel, pressed, stream, crashed>>
  BY DEF LineOfPort, OutputEvent
<1>2. new_ts' \in BOOLEAN /\ quit' \in {"no", "asked", "flushing"}
  BY DEF LineOfPort, OutputEvent, ConsoleTypeOK
<1> QED BY <1>1, <1>2 DEF line, stream, ConsoleTypeOK

LEMMA ConsoleNextTyped == ConsoleTypeOK /\ [ConsoleNext]_consoleVars => ConsoleTypeOK'
<1> SUFFICES ASSUME ConsoleTypeOK, [ConsoleNext]_consoleVars PROVE ConsoleTypeOK'
  OBVIOUS
<1>1. CASE UNCHANGED consoleVars
  BY <1>1 DEF consoleVars, ConsoleTypeOK
<1> QED BY <1>1, InsertTyped, EraseTyped, MoveCursorTyped, RecallTyped, CancelTyped,
           EnterEmptyTyped, EnterBlanksTyped, EnterCommandTyped, ServerReadTyped, ServerElseTyped
        DEF ConsoleNext

\* The cursor stays within the line and the history index within the history,
\* so that no key reads beyond either; lines and commands are made of bytes.
THEOREM ConsoleTypeCorrect == ConsoleSpec => []ConsoleTypeOK
<1> QED BY ConsoleInitTyped, ConsoleNextTyped, PTL DEF ConsoleSpec

-----------------------------------------------------------------------------
(* Console: the stream to the server.                                      *)

\* The bytes b + 1 .. e of the stream are what one Enter sent.
Packet(w, b, e) ==
  /\ b > 0 => w[b].last
  /\ w[e].last
  /\ \A i \in b + 1 .. e - 1 : ~w[i].last

\* They are the newline alone, or the next command.
Carries(w, at, b, e, commands) ==
  \/ Bytes(w, b, e) = <<LF>> /\ at[e] = at[b]
  \/ /\ Bytes(w, b, e) # <<LF>> /\ Words(Bytes(w, b, e)) # <<>>
     /\ at[e] = at[b] + 1
     /\ Words(Bytes(w, b, e)) = commands[at[e]]

\* The stream w carries, packet by packet, the commands after the first done;
\* at[b] of the commands have been entered when its first b bytes are sent.
CarriesAll(w, at, done, commands) ==
  /\ at \in [0 .. Len(w) -> 0 .. Len(commands)]
  /\ at[0] = done /\ at[Len(w)] = Len(commands)
  /\ \A b \in 0 .. Len(w) : \A e \in b + 1 .. Len(w) :
       Packet(w, b, e) => Carries(w, at, b, e, commands)

\* What was run is a stamp or the next of the commands.
AsEntered(run, commands) ==
  \A i \in 1 .. Len(run) :
    run[i] # Stamp =>
      /\ Proper(run, i) \in 1 .. Len(commands)
      /\ run[i] = commands[Proper(run, i)]

StreamInv ==
  ~misframed =>
    /\ crashed # "server"
    /\ wire # <<>> => wire[Len(wire)].last
    /\ AsEntered(executed, entered)
    /\ quit # "no" => \E k \in 1 .. Len(entered) : entered[k][1] = Exit
    /\ \E at \in [0 .. Len(wire) -> 0 .. Len(entered)] :
         CarriesAll(wire, at, Proper(executed, Len(executed)), entered)

Sent == [byte : Byte, last : BOOLEAN]
Commands == Seq(Seq(Seq(Byte)))

LEMMA StreamInvImplies ==
  ASSUME ConsoleTypeOK, StreamInv
  PROVE  CommandsAsEntered
<1> SUFFICES ASSUME ~misframed
             PROVE  /\ \A i \in DOMAIN executed :
                         executed[i] # Stamp =>
                           /\ Proper(executed, i) <= Len(entered)
                           /\ executed[i] = entered[Proper(executed, i)]
                    /\ wire = <<>> => Proper(executed, Len(executed)) = Len(entered)
                    /\ quit # "no" => \E k \in DOMAIN entered : entered[k][1] = Exit
                    /\ crashed # "server"
  BY DEF CommandsAsEntered
<1>1. PICK at \in [0 .. Len(wire) -> 0 .. Len(entered)] :
        at[0] = Proper(executed, Len(executed)) /\ at[Len(wire)] = Len(entered)
  BY DEF StreamInv, CarriesAll
<1>2. DOMAIN executed = 1 .. Len(executed) /\ DOMAIN entered = 1 .. Len(entered) /\ Len(entered) \in Nat
  BY LenProperties DEF ConsoleTypeOK
<1>3. \A i \in 1 .. Len(executed) :
        executed[i] # Stamp =>
          Proper(executed, i) \in 1 .. Len(entered) /\ executed[i] = entered[Proper(executed, i)]
  BY DEF StreamInv, AsEntered
<1>4. \A i \in DOMAIN executed :
        executed[i] # Stamp =>
          /\ Proper(executed, i) <= Len(entered)
          /\ executed[i] = entered[Proper(executed, i)]
  BY <1>2, <1>3
<1>5. ASSUME wire = <<>> PROVE Proper(executed, Len(executed)) = Len(entered)
  <2>1. Len(wire) = 0
    BY <1>5, EmptySeq
  <2> QED BY <1>1, <2>1
<1> QED BY <1>2, <1>4, <1>5 DEF StreamInv

\* Of a sequence with one element more, as many are not stamps, or one more.
LEMMA ProperAppended ==
  ASSUME NEW S, NEW run \in Seq(S), NEW x \in S
  PROVE  /\ Append(run, x) \in Seq(S) /\ Len(Append(run, x)) = Len(run) + 1
         /\ \A i \in 1 .. Len(run) : Append(run, x)[i] = run[i]
         /\ Append(run, x)[Len(run) + 1] = x
         /\ \A i \in 0 .. Len(run) : Proper(Append(run, x), i) = Proper(run, i)
         /\ Proper(run, Len(run)) \in Nat
         /\ Proper(Append(run, x), Len(run) + 1)
              = IF x = Stamp THEN Proper(run, Len(run)) ELSE Proper(run, Len(run)) + 1
<1> DEFINE more == Append(run, x)
           n == Len(run)
           T == {i \in 1 .. n : run[i] # Stamp}
<1>1. /\ more \in Seq(S) /\ Len(more) = n + 1 /\ n \in Nat
      /\ \A i \in 1 .. n : more[i] = run[i]
      /\ more[n + 1] = x
  BY AppendProperties, LenProperties
<1> HIDE DEF more, n
<1>2. ASSUME NEW i \in 0 .. n PROVE Proper(more, i) = Proper(run, i)
  <2>1. \A j \in 1 .. i : more[j] = run[j]
    BY <1>1
  <2>2. {j \in 1 .. i : more[j] # Stamp} = {j \in 1 .. i : run[j] # Stamp}
    BY <2>1
  <2> QED BY <2>2 DEF Proper
<1>3. IsFiniteSet(T) /\ Cardinality(T) \in Nat
  <2>1. IsFiniteSet(1 .. n)
    BY <1>1, FS_Interval
  <2> QED BY <2>1, FS_Subset, FS_CardinalityType
<1>4. {i \in 1 .. n + 1 : more[i] # Stamp} = IF x = Stamp THEN T ELSE T \union {n + 1}
  BY <1>1
<1>5. n + 1 \notin T
  BY <1>1
<1>6. Cardinality(T \union {n + 1}) = Cardinality(T) + 1
  <2> HIDE DEF T
  <2> QED BY <1>3, <1>5, FS_AddElement
<1>7. /\ Proper(run, n) \in Nat
      /\ Proper(more, n + 1) = IF x = Stamp THEN Proper(run, n) ELSE Proper(run, n) + 1
  <2>1. Proper(run, n) = Cardinality(T)
    BY DEF Proper
  <2>2. Proper(more, n + 1) = IF x = Stamp THEN Cardinality(T) ELSE Cardinality(T \union {n + 1})
    BY <1>4 DEF Proper
  <2> HIDE DEF T
  <2> QED BY <1>3, <1>6, <2>1, <2>2
<1> QED BY <1>1, <1>2, <1>7 DEF more, n

\* A stamp is run in between, or the next command is.
LEMMA RunOneMore ==
  ASSUME NEW run \in Seq(Runnable), NEW commands \in Seq(Seq(Seq(Byte))), AsEntered(run, commands),
         NEW x \in Runnable, NEW done, done = Proper(run, Len(run)),
         x # Stamp => done + 1 \in 1 .. Len(commands) /\ x = commands[done + 1]
  PROVE  /\ AsEntered(Append(run, x), commands)
         /\ Proper(Append(run, x), Len(Append(run, x))) = IF x = Stamp THEN done ELSE done + 1
<1> DEFINE more == Append(run, x)
<1>1. /\ Len(more) = Len(run) + 1 /\ Len(run) \in Nat
      /\ \A i \in 1 .. Len(run) : more[i] = run[i]
      /\ more[Len(run) + 1] = x
      /\ \A i \in 0 .. Len(run) : Proper(more, i) = Proper(run, i)
      /\ Proper(more, Len(run) + 1) = IF x = Stamp THEN done ELSE done + 1
  BY ProperAppended, LenProperties
<1> HIDE DEF more
<1>2. ASSUME NEW i \in 1 .. Len(more), more[i] # Stamp
      PROVE  Proper(more, i) \in 1 .. Len(commands) /\ more[i] = commands[Proper(more, i)]
  <2>1. CASE i \in 1 .. Len(run)
    <3>1. more[i] = run[i] /\ Proper(more, i) = Proper(run, i)
      BY <1>1, <2>1
    <3> QED BY <1>2, <2>1, <3>1 DEF AsEntered
  <2>2. CASE i = Len(run) + 1
    BY <1>1, <1>2, <2>2
  <2> QED BY <1>1, <2>1, <2>2
<1>3. AsEntered(more, commands)
  BY <1>2 DEF AsEntered
<1> QED BY <1>1, <1>3 DEF more

\* A packet of a stream that goes on is a packet of the stream.
LEMMA PacketStays ==
  ASSUME NEW w \in Seq(Sent), NEW t \in Seq(Sent),
         NEW b \in 0 .. Len(w), NEW e \in b + 1 .. Len(w)
  PROVE  /\ Packet(w \o t, b, e) <=> Packet(w, b, e)
         /\ Bytes(w \o t, b, e) = Bytes(w, b, e)
<1>1. Len(w) \in Nat /\ Len(t) \in Nat
  BY LenProperties
<1>2. \A i \in 1 .. Len(w) : (w \o t)[i] = w[i]
  BY <1>1, ConcatProperties
<1>3. \A i \in b + 1 .. e : (w \o t)[i] = w[i]
  BY <1>1, <1>2
<1>4. b > 0 => (w \o t)[b] = w[b]
  BY <1>1, <1>2
<1>5. \A i \in 1 .. e - b : (w \o t)[b + i] = w[b + i]
  <2>1. \A i \in 1 .. e - b : b + i \in b + 1 .. e
    BY <1>1
  <2> QED BY <1>3, <2>1
<1>6. Bytes(w \o t, b, e) = Bytes(w, b, e)
  BY <1>5 DEF Bytes
<1>7. e \in b + 1 .. e /\ \A i \in b + 1 .. e - 1 : i \in b + 1 .. e
  BY <1>1
<1>8. (w \o t)[e] = w[e] /\ \A i \in b + 1 .. e - 1 : (w \o t)[i] = w[i]
  BY <1>3, <1>7
<1> QED BY <1>4, <1>6, <1>8 DEF Packet

\* The packet that what one Enter sends ends with is all that it sends.
LEMMA PacketSent ==
  ASSUME NEW w \in Seq(Sent), w # <<>> => w[Len(w)].last,
         NEW bytes \in Seq(Byte), bytes # <<>>,
         NEW b \in 0 .. Len(w) + Len(bytes), NEW e \in b + 1 .. Len(w) + Len(bytes),
         e > Len(w), Packet(w \o Marked(bytes), b, e)
  PROVE  b = Len(w) /\ e = Len(w) + Len(bytes) /\ Bytes(w \o Marked(bytes), b, e) = bytes
<1> DEFINE t == w \o Marked(bytes)
<1>1. Len(w) \in Nat /\ Len(bytes) \in Nat \ {0}
  BY LenProperties, EmptySeq
<1>2. /\ \A i \in 1 .. Len(w) : t[i] = w[i]
      /\ \A i \in 1 .. Len(bytes) : t[Len(w) + i].byte = bytes[i]
      /\ \A i \in 1 .. Len(bytes) : t[Len(w) + i].last <=> i = Len(bytes)
  <2>1. /\ Marked(bytes) \in Seq(Sent) /\ Len(Marked(bytes)) = Len(bytes)
        /\ \A i \in 1 .. Len(bytes) : Marked(bytes)[i].byte = bytes[i]
        /\ \A i \in 1 .. Len(bytes) : Marked(bytes)[i].last <=> i = Len(bytes)
    BY MarkedBytes DEF Sent
  <2>2. \A i \in 1 .. Len(w) + Len(bytes) :
          t[i] = IF i <= Len(w) THEN w[i] ELSE Marked(bytes)[i - Len(w)]
    BY <2>1, ConcatProperties
  <2> HIDE DEF t
  <2>3. \A i \in 1 .. Len(w) : t[i] = w[i]
    BY <1>1, <2>2
  <2>4. ASSUME NEW i \in 1 .. Len(bytes) PROVE t[Len(w) + i] = Marked(bytes)[i]
    <3>1. /\ Len(w) + i \in 1 .. Len(w) + Len(bytes) /\ ~(Len(w) + i <= Len(w))
          /\ (Len(w) + i) - Len(w) = i
      BY <1>1
    <3> QED BY <2>2, <3>1
  <2> QED BY <2>1, <2>3, <2>4
<1>3. /\ b > 0 => t[b].last
      /\ t[e].last
      /\ \A i \in b + 1 .. e - 1 : ~t[i].last
  BY DEF Packet
<1> HIDE DEF t
<1>4. \A i \in Len(w) + 1 .. Len(w) + Len(bytes) : t[i].last <=> i = Len(w) + Len(bytes)
  <2> TAKE i \in Len(w) + 1 .. Len(w) + Len(bytes)
  <2>1. i - Len(w) \in 1 .. Len(bytes) /\ Len(w) + (i - Len(w)) = i
    BY <1>1
  <2> DEFINE j == i - Len(w)
  <2>2. t[Len(w) + j].last <=> j = Len(bytes)
    BY <1>2, <2>1
  <2>3. j = Len(bytes) <=> i = Len(w) + Len(bytes)
    BY <1>1
  <2>4. Len(w) + j = i
    BY <2>1
  <2> HIDE DEF j
  <2> QED BY <2>2, <2>3, <2>4
<1>5. e = Len(w) + Len(bytes)
  BY <1>1, <1>3, <1>4
<1>6. b = Len(w)
  <2>1. CASE b > Len(w)
    <3>1. b \in Len(w) + 1 .. Len(w) + Len(bytes) /\ b > 0 /\ b # Len(w) + Len(bytes)
      BY <1>1, <1>5, <2>1
    <3> QED BY <1>3, <1>4, <3>1
  <2>2. CASE b < Len(w)
    <3>1. Len(w) \in b + 1 .. e - 1 /\ Len(w) \in 1 .. Len(w) /\ Len(w) > 0
      BY <1>1, <1>5, <2>2
    <3>2. w # <<>>
      BY <3>1, EmptySeq
    <3> QED BY <1>2, <1>3, <3>1, <3>2
  <2> QED BY <1>1, <2>1, <2>2
<1>7. Bytes(t, b, e) = bytes
  <2>1. e - b = Len(bytes)
    BY <1>1, <1>5, <1>6
  <2>2. \A i \in 1 .. Len(bytes) : t[b + i].byte = bytes[i]
    <3>1. \A i \in 1 .. Len(bytes) : t[Len(w) + i].byte = bytes[i]
      BY <1>2
    <3> QED BY <1>6, <3>1
  <2>3. bytes = [i \in 1 .. Len(bytes) |-> bytes[i]]
    BY LenProperties
  <2> QED BY <2>1, <2>2, <2>3 DEF Bytes
<1> QED BY <1>5, <1>6, <1>7 DEF t

\* A line cut before the byte left of the cursor.
LEMMA StartOfBefore ==
  ASSUME ConsoleTypeOK, cursor_pos # 0
  PROVE  /\ SubSeq(cmdline, 1, cursor_pos - 1) = SubSeq(Before, 1, Len(Before) - 1)
         /\ Before[Len(Before)] = cmdline[cursor_pos]
<1>1. /\ cmdline \in Seq(Byte) /\ Len(cmdline) \in Nat
      /\ cursor_pos \in 1 .. Len(cmdline) /\ cursor_pos - 1 \in Nat
      /\ Before \in Seq(Byte) /\ Len(Before) = cursor_pos
  BY CutAtCursor DEF ConsoleTypeOK
<1>2. \A i \in 1 .. cursor_pos : Before[i] = cmdline[i]
  <2>1. \A i \in 1 .. cursor_pos : cmdline[i] \in Byte
    <3>1. \A i \in 1 .. Len(cmdline) : cmdline[i] \in Byte
      BY <1>1, ElementOfSeq
    <3> QED BY <1>1, <3>1
  <2>2. \A i \in 1 .. cursor_pos - 1 + 1 : Before[i] = cmdline[1 + i - 1]
    BY <1>1, <2>1, SubSeqProperties DEF Before
  <2>3. cursor_pos - 1 + 1 = cursor_pos /\ \A i \in 1 .. cursor_pos : 1 + i - 1 = i
    BY <1>1
  <2> QED BY <2>2, <2>3
<1>3. SubSeq(cmdline, 1, cursor_pos - 1) = SubSeq(Before, 1, cursor_pos - 1)
  <2>1. cursor_pos - 1 <= Len(cmdline) /\ cursor_pos - 1 <= Len(Before)
    BY <1>1
  <2>2. \A i \in 1 .. cursor_pos - 1 : cmdline[i] = Before[i]
    BY <1>1, <1>2
  <2> QED BY <1>1, <2>1, <2>2, SameStart
<1> QED BY <1>1, <1>2, <1>3

\* Enter adds a packet, and the command that it carries.
LEMMA SendKeeps ==
  ASSUME ConsoleTypeOK, StreamInv, NEW bytes \in Seq(Byte), bytes # <<>>, Send(bytes),
         UNCHANGED <<executed, misframed, quit, crashed>>,
         \/ bytes = <<LF>> /\ entered' = entered
         \/ /\ bytes # <<LF>> /\ Words(bytes) # <<>>
            /\ entered' = Append(entered, Words(bytes))
  PROVE  StreamInv'
<1> SUFFICES ASSUME ~misframed
             PROVE  /\ wire' # <<>> => wire'[Len(wire')].last
                    /\ AsEntered(executed, entered')
                    /\ quit # "no" => \E k \in 1 .. Len(entered') : entered'[k][1] = Exit
                    /\ \E at \in [0 .. Len(wire') -> 0 .. Len(entered')] :
                         CarriesAll(wire', at, Proper(executed, Len(executed)), entered')
  BY DEF StreamInv
<1>1. /\ wire \in Seq(Sent) /\ Len(wire) \in Nat
      /\ entered \in Commands /\ Len(entered) \in Nat
      /\ Len(bytes) \in Nat \ {0}
  BY LenProperties, EmptySeq DEF ConsoleTypeOK, Sent, Commands
<1>2. /\ Marked(bytes) \in Seq(Sent) /\ Len(Marked(bytes)) = Len(bytes)
      /\ Marked(bytes)[Len(bytes)].last
  <2>1. Len(bytes) \in 1 .. Len(bytes)
    BY <1>1
  <2>2. \A i \in 1 .. Len(bytes) : Marked(bytes)[i].last <=> i = Len(bytes)
    BY MarkedBytes
  <2>3. Marked(bytes)[Len(bytes)].last
    BY <2>1, <2>2
  <2> QED BY <2>3, MarkedBytes DEF Sent
<1>3. /\ wire' = wire \o Marked(bytes) /\ wire' \in Seq(Sent)
      /\ Len(wire') = Len(wire) + Len(bytes)
      /\ wire'[Len(wire')].last
  <2>1. wire' = wire \o Marked(bytes)
    BY DEF Send
  <2>2. /\ wire' \in Seq(Sent) /\ Len(wire') = Len(wire) + Len(bytes)
        /\ \A i \in 1 .. Len(wire) + Len(bytes) :
             wire'[i] = IF i <= Len(wire) THEN wire[i] ELSE Marked(bytes)[i - Len(wire)]
    <3>1. LET t == wire \o Marked(bytes)
          IN  /\ t \in Seq(Sent) /\ Len(t) = Len(wire) + Len(Marked(bytes))
              /\ \A i \in 1 .. Len(wire) + Len(Marked(bytes)) :
                   t[i] = IF i <= Len(wire) THEN wire[i] ELSE Marked(bytes)[i - Len(wire)]
      BY <1>1, <1>2, ConcatProperties
    <3> QED BY <1>2, <2>1, <3>1
  <2>3. /\ Len(wire') \in 1 .. Len(wire) + Len(bytes) /\ ~(Len(wire') <= Len(wire))
        /\ Len(wire') - Len(wire) = Len(bytes)
    BY <1>1, <2>2
  <2>4. wire'[Len(wire')] = Marked(bytes)[Len(bytes)]
    BY <2>2, <2>3
  <2> QED BY <1>2, <2>1, <2>2, <2>4
<1>4. /\ entered' \in Commands /\ Len(entered') \in Len(entered) .. Len(entered) + 1
      /\ \A i \in 1 .. Len(entered) : entered'[i] = entered[i]
  <2>1. Words(bytes) \in Seq(Seq(Byte))
    BY WordsAreLines
  <2>2. CASE entered' = entered
    BY <1>1, <2>2
  <2>3. CASE entered' = Append(entered, Words(bytes))
    <3>1. /\ entered' \in Commands /\ Len(entered') = Len(entered) + 1
          /\ \A i \in 1 .. Len(entered) : entered'[i] = entered[i]
      BY <2>1, <2>3, <1>1, AppendProperties DEF Commands
    <3> QED BY <1>1, <3>1
  <2> QED BY <2>2, <2>3
<1>5. ASSUME NEW k \in 1 .. Len(entered)
      PROVE  k \in 1 .. Len(entered') /\ entered'[k] = entered[k]
  BY <1>1, <1>4
<1>6. /\ AsEntered(executed, entered')
      /\ quit # "no" => \E k \in 1 .. Len(entered') : entered'[k][1] = Exit
  <2>1. /\ AsEntered(executed, entered)
        /\ quit # "no" => \E k \in 1 .. Len(entered) : entered[k][1] = Exit
    BY DEF StreamInv
  <2>2. AsEntered(executed, entered')
    BY <1>5, <2>1 DEF AsEntered
  <2> QED BY <1>5, <2>1, <2>2
<1>7. PICK at \in [0 .. Len(wire) -> 0 .. Len(entered)] :
        CarriesAll(wire, at, Proper(executed, Len(executed)), entered)
  BY DEF StreamInv
<1> DEFINE now == [i \in 0 .. Len(wire') |-> IF i <= Len(wire) THEN at[i] ELSE Len(entered')]
<1>8. /\ now \in [0 .. Len(wire') -> 0 .. Len(entered')]
      /\ \A i \in 0 .. Len(wire) : now[i] = at[i]
      /\ now[Len(wire')] = Len(entered')
  BY <1>1, <1>3, <1>4
<1>9. now[0] = Proper(executed, Len(executed))
  BY <1>1, <1>7, <1>8 DEF CarriesAll
<1> HIDE DEF now
<1>10. ASSUME NEW b \in 0 .. Len(wire'), NEW e \in b + 1 .. Len(wire'), Packet(wire', b, e)
       PROVE  Carries(wire', now, b, e, entered')
  <2>1. CASE e <= Len(wire)
    <3>1. b \in 0 .. Len(wire) /\ e \in b + 1 .. Len(wire) /\ e \in 0 .. Len(wire)
      BY <1>1, <1>3, <2>1
    <3>2. Packet(wire, b, e) /\ Bytes(wire', b, e) = Bytes(wire, b, e)
      BY <1>1, <1>2, <1>3, <1>10, <3>1, PacketStays
    <3>3. Carries(wire, at, b, e, entered)
      BY <1>7, <3>1, <3>2 DEF CarriesAll
    <3>4. /\ now[b] = at[b] /\ now[e] = at[e]
          /\ at[b] \in 0 .. Len(entered) /\ at[e] \in 0 .. Len(entered)
      BY <1>7, <1>8, <3>1
    <3>5. ASSUME at[e] = at[b] + 1 PROVE entered'[at[e]] = entered[at[e]]
      <4>1. at[e] \in 1 .. Len(entered)
        BY <1>1, <3>4, <3>5
      <4> QED BY <1>4, <4>1
    <3> QED BY <3>2, <3>3, <3>4, <3>5 DEF Carries
  <2>2. CASE e > Len(wire)
    <3>1. b = Len(wire) /\ e = Len(wire') /\ Bytes(wire', b, e) = bytes
      <4>1. wire # <<>> => wire[Len(wire)].last
        BY DEF StreamInv
      <4> QED BY <1>1, <1>3, <1>10, <2>2, <4>1, PacketSent
    <3>2. now[b] = Len(entered) /\ now[e] = Len(entered')
      <4>1. Len(wire) \in 0 .. Len(wire) /\ at[Len(wire)] = Len(entered)
        BY <1>1, <1>7 DEF CarriesAll
      <4> QED BY <1>8, <3>1, <4>1
    <3>3. CASE bytes = <<LF>> /\ entered' = entered
      BY <3>1, <3>2, <3>3 DEF Carries
    <3>4. CASE /\ bytes # <<LF>> /\ Words(bytes) # <<>>
               /\ entered' = Append(entered, Words(bytes))
      <4>1. Len(entered') = Len(entered) + 1 /\ entered'[Len(entered')] = Words(bytes)
        BY <1>1, <3>4, WordsAreLines, AppendProperties DEF Commands
      <4> QED BY <3>1, <3>2, <3>4, <4>1 DEF Carries
    <3> QED BY <3>3, <3>4
  <2> QED BY <1>1, <1>3, <2>1, <2>2
<1>11. CarriesAll(wire', now, Proper(executed, Len(executed)), entered')
  BY <1>8, <1>9, <1>10 DEF CarriesAll
<1> QED BY <1>3, <1>6, <1>8, <1>11

\* A packet behind the first n bytes, which end with a packet.
LEMMA PacketBehind ==
  ASSUME NEW w \in Seq(Sent), NEW n \in 1 .. Len(w), w[n].last,
         NEW b \in 0 .. Len(w) - n, NEW e \in b + 1 .. Len(w) - n,
         Packet(SubSeq(w, n + 1, Len(w)), b, e)
  PROVE  /\ Packet(w, b + n, e + n)
         /\ Bytes(SubSeq(w, n + 1, Len(w)), b, e) = Bytes(w, b + n, e + n)
<1> DEFINE t == SubSeq(w, n + 1, Len(w))
<1>1. Len(w) \in Nat /\ n \in Nat /\ b \in Nat /\ e \in Nat
  BY LenProperties
<1>2. \A i \in 1 .. Len(w) - n : t[i] = w[i + n]
  <2>1. \A i \in 1 .. Len(w) - n : t[i] = w[n + i]
    BY RestOfSeq
  <2> HIDE DEF t
  <2>2. \A i \in 1 .. Len(w) - n : n + i = i + n
    BY <1>1
  <2> QED BY <2>1, <2>2
<1>3. /\ b > 0 => t[b].last
      /\ t[e].last
      /\ \A i \in b + 1 .. e - 1 : ~t[i].last
  BY DEF Packet
<1> HIDE DEF t
<1>4. w[b + n].last
  <2>1. CASE b = 0
    BY <1>1, <2>1
  <2>2. CASE b > 0
    <3>1. b \in 1 .. Len(w) - n
      BY <1>1, <2>2
    <3> QED BY <1>2, <1>3, <2>2, <3>1
  <2> QED BY <1>1, <2>1, <2>2
<1>5. w[e + n].last
  <2>1. e \in 1 .. Len(w) - n
    BY <1>1
  <2> QED BY <1>2, <1>3, <2>1
<1>6. ASSUME NEW i \in (b + n) + 1 .. (e + n) - 1 PROVE ~w[i].last
  <2>1. i - n \in b + 1 .. e - 1 /\ i - n \in 1 .. Len(w) - n /\ (i - n) + n = i
    BY <1>1
  <2> QED BY <1>2, <1>3, <2>1
<1>7. Bytes(t, b, e) = Bytes(w, b + n, e + n)
  <2>1. (e + n) - (b + n) = e - b
    BY <1>1
  <2>2. ASSUME NEW i \in 1 .. e - b PROVE t[b + i].byte = w[(b + n) + i].byte
    <3>1. b + i \in 1 .. Len(w) - n /\ (b + i) + n = (b + n) + i
      BY <1>1
    <3> QED BY <1>2, <3>1
  <2> QED BY <2>1, <2>2 DEF Bytes
<1> QED BY <1>4, <1>5, <1>6, <1>7 DEF Packet, t

\* A read() that returns one packet leaves the others, and carries out its
\* command.
LEMMA ServerReadKeeps ==
  ASSUME ConsoleTypeOK, StreamInv, ServerRead
  PROVE  StreamInv'
<1> SUFFICES ASSUME ~misframed'
             PROVE  /\ crashed' # "server"
                    /\ wire' # <<>> => wire'[Len(wire')].last
                    /\ AsEntered(executed', entered')
                    /\ quit' # "no" => \E k \in 1 .. Len(entered') : entered'[k][1] = Exit
                    /\ \E at \in [0 .. Len(wire') -> 0 .. Len(entered')] :
                         CarriesAll(wire', at, Proper(executed', Len(executed')), entered')
  BY DEF StreamInv
<1>1. PICK n \in 1 .. Len(wire) :
        /\ wire' = SubSeq(wire, n + 1, Len(wire))
        /\ misframed' = (misframed \/ \E i \in 1 .. n : wire[i].last # (i = n))
        /\ Bytes(wire, 0, n) \in Seq(Byte)
        /\ \/ Bytes(wire, 0, n) = <<LF>> /\ executed' = Stamped /\ UNCHANGED <<quit, crashed>>
           \/ /\ Bytes(wire, 0, n) # <<LF>> /\ Words(Bytes(wire, 0, n)) # <<>>
              /\ executed' = Append(Stamped, Words(Bytes(wire, 0, n)))
              /\ quit' = IF Words(Bytes(wire, 0, n))[1] = Exit THEN "asked" ELSE quit
              /\ UNCHANGED crashed
           \/ /\ Bytes(wire, 0, n) # <<LF>> /\ Words(Bytes(wire, 0, n)) = <<>>
              /\ executed' = Stamped
              /\ crashed' = "server" /\ UNCHANGED quit
  BY ServerReadTakes
<1>2. ~misframed /\ entered' = entered /\ \A i \in 1 .. n : wire[i].last = (i = n)
  BY <1>1 DEF ServerRead, ConsoleTypeOK
<1>3. /\ wire \in Seq(Sent) /\ Len(wire) \in Nat /\ n \in Nat
      /\ entered \in Commands /\ Len(entered) \in Nat
      /\ executed \in Seq(Runnable) /\ Stamped \in Seq(Runnable)
  BY LenProperties, StampedTyped DEF ConsoleTypeOK, Sent, Commands, Runnable
<1>4. PICK at \in [0 .. Len(wire) -> 0 .. Len(entered)] :
        CarriesAll(wire, at, Proper(executed, Len(executed)), entered)
  BY <1>2 DEF StreamInv
<1>5. /\ AsEntered(executed, entered)
      /\ quit # "no" => \E k \in 1 .. Len(entered) : entered[k][1] = Exit
      /\ crashed # "server"
      /\ wire # <<>> => wire[Len(wire)].last
  BY <1>2 DEF StreamInv
<1>6. wire[n].last /\ Carries(wire, at, 0, n, entered) /\ at[0] = Proper(executed, Len(executed))
  <2>1. wire[n].last /\ \A i \in 0 + 1 .. n - 1 : ~wire[i].last
    <3>1. n \in 1 .. n /\ \A i \in 0 + 1 .. n - 1 : i \in 1 .. n /\ i # n
      BY <1>3
    <3> QED BY <1>2, <3>1
  <2>2. Packet(wire, 0, n)
    BY <2>1 DEF Packet
  <2>3. 0 \in 0 .. Len(wire) /\ n \in 0 + 1 .. Len(wire)
    BY <1>3
  <2> QED BY <1>4, <2>1, <2>2, <2>3 DEF CarriesAll
<1>7. /\ wire' \in Seq(Sent) /\ Len(wire') = Len(wire) - n
      /\ \A i \in 1 .. Len(wire) - n : wire'[i] = wire[n + i]
  BY <1>1, <1>3, RestOfSeq
<1>8. wire' # <<>> => wire'[Len(wire')].last
  <2> SUFFICES ASSUME wire' # <<>> PROVE wire'[Len(wire')].last
    OBVIOUS
  <2>1. Len(wire') \in Nat \ {0}
    BY <1>7, EmptySeq
  <2>2. wire'[Len(wire')] = wire[Len(wire)]
    <3>1. Len(wire') \in 1 .. Len(wire) - n /\ n + Len(wire') = Len(wire)
      BY <1>3, <1>7, <2>1
    <3>2. wire'[Len(wire')] = wire[n + Len(wire')]
      BY <1>7, <3>1
    <3> QED BY <3>1, <3>2
  <2>3. wire # <<>>
    BY <1>3, <1>7, <2>1, EmptySeq
  <2> QED BY <1>5, <2>2, <2>3
<1>9. /\ AsEntered(Stamped, entered)
      /\ Proper(Stamped, Len(Stamped)) = at[0]
  <2>1. CASE ~new_ts
    BY <1>5, <1>6, <2>1 DEF Stamped
  <2>2. CASE new_ts
    <3>1. Stamped = Append(executed, Stamp) /\ Stamp \in Runnable
      BY <2>2 DEF Stamped, Runnable
    <3> QED BY <1>3, <1>5, <1>6, <3>1, RunOneMore DEF Commands
  <2> QED BY <2>1, <2>2
<1>10. /\ crashed' # "server" /\ AsEntered(executed', entered)
       /\ Proper(executed', Len(executed')) = at[n]
       /\ quit' # "no" => \E k \in 1 .. Len(entered) : entered[k][1] = Exit
  <2>1. 0 \in 0 .. Len(wire) /\ n \in 0 .. Len(wire)
        /\ at[0] \in 0 .. Len(entered) /\ at[n] \in 0 .. Len(entered)
    <3>1. 0 \in 0 .. Len(wire) /\ n \in 0 .. Len(wire)
      BY <1>3, <1>4
    <3> QED BY <3>1
  <2>2. CASE Bytes(wire, 0, n) = <<LF>>
    <3>1. executed' = Stamped /\ crashed' = crashed /\ quit' = quit
      BY <1>1, <2>2
    <3>2. at[n] = at[0]
      BY <1>6, <2>2 DEF Carries
    <3> QED BY <1>5, <1>9, <3>1, <3>2
  <2>3. CASE Bytes(wire, 0, n) # <<LF>>
    <3> DEFINE words == Words(Bytes(wire, 0, n))
    <3>1. words # <<>> /\ at[n] = at[0] + 1 /\ words = entered[at[n]]
      BY <1>6, <2>3 DEF Carries
    <3>2. /\ executed' = Append(Stamped, words) /\ crashed' = crashed
          /\ quit' = IF words[1] = Exit THEN "asked" ELSE quit
      BY <1>1, <2>3, <3>1
    <3>3. words \in Runnable /\ words # Stamp
      BY <1>1, WordsAreLines, StampAssumption DEF Runnable
    <3> HIDE DEF words
    <3>4. at[n] \in 1 .. Len(entered)
      BY <1>3, <2>1, <3>1
    <3>5. AsEntered(executed', entered) /\ Proper(executed', Len(executed')) = at[n]
      BY <1>3, <1>9, <3>1, <3>2, <3>3, <3>4, RunOneMore DEF Commands
    <3>6. quit' # "no" => \E k \in 1 .. Len(entered) : entered[k][1] = Exit
      BY <1>5, <3>1, <3>2, <3>4
    <3> QED BY <1>5, <3>2, <3>5, <3>6
  <2> QED BY <2>2, <2>3
<1> DEFINE now == [i \in 0 .. Len(wire') |-> at[i + n]]
<1>11. /\ \A i \in 0 .. Len(wire') : i + n \in 0 .. Len(wire)
       /\ 0 + n = n /\ Len(wire') + n = Len(wire) /\ Len(wire') \in Nat
  BY <1>3, <1>7
<1>12. /\ now \in [0 .. Len(wire') -> 0 .. Len(entered)]
       /\ \A i \in 0 .. Len(wire') : now[i] = at[i + n]
  BY <1>4, <1>11
<1> HIDE DEF now
<1>13. now[0] = Proper(executed', Len(executed')) /\ now[Len(wire')] = Len(entered)
  <2>1. at[Len(wire)] = Len(entered)
    BY <1>4 DEF CarriesAll
  <2>2. 0 \in 0 .. Len(wire') /\ Len(wire') \in 0 .. Len(wire')
    BY <1>11
  <2>3. now[0] = at[n] /\ now[Len(wire')] = at[Len(wire)]
    BY <1>11, <1>12, <2>2
  <2> QED BY <1>10, <2>1, <2>3
<1>14. ASSUME NEW b \in 0 .. Len(wire'), NEW e \in b + 1 .. Len(wire'), Packet(wire', b, e)
       PROVE  Carries(wire', now, b, e, entered)
  <2>1. b \in 0 .. Len(wire) - n /\ e \in b + 1 .. Len(wire) - n /\ e \in 0 .. Len(wire')
    BY <1>3, <1>7
  <2>2. Packet(wire, b + n, e + n) /\ Bytes(wire', b, e) = Bytes(wire, b + n, e + n)
    BY <1>1, <1>3, <1>6, <1>14, <2>1, PacketBehind
  <2>3. b + n \in 0 .. Len(wire) /\ e + n \in (b + n) + 1 .. Len(wire)
    BY <1>3, <2>1
  <2>4. Carries(wire, at, b + n, e + n, entered)
    BY <1>4, <2>2, <2>3 DEF CarriesAll
  <2>5. now[b] = at[b + n] /\ now[e] = at[e + n]
    BY <1>12, <2>1
  <2> QED BY <2>2, <2>4, <2>5 DEF Carries
<1>15. CarriesAll(wire', now, Proper(executed', Len(executed')), entered)
  BY <1>12, <1>13, <1>14 DEF CarriesAll
<1> QED BY <1>2, <1>8, <1>10, <1>12, <1>15

LEMMA ConsoleInitStream == ConsoleInit => StreamInv
<1> SUFFICES ASSUME ConsoleInit PROVE StreamInv
  OBVIOUS
<1>1. wire = <<>> /\ entered = <<>> /\ executed = <<>> /\ quit = "no" /\ crashed = "none"
  BY DEF ConsoleInit
<1>2. Len(wire) = 0 /\ Len(entered) = 0 /\ Len(executed) = 0
  BY <1>1, EmptySeq
<1>3. AsEntered(executed, entered) /\ Proper(executed, Len(executed)) = 0
  <2>1. {i \in 1 .. Len(executed) : executed[i] # Stamp} = {}
    BY <1>2
  <2>2. Proper(executed, Len(executed)) = 0
    BY <2>1, FS_EmptySet DEF Proper
  <2> QED BY <1>2, <2>2 DEF AsEntered
<1> DEFINE at == [i \in 0 .. 0 |-> 0]
<1>4. at \in [0 .. 0 -> 0 .. 0] /\ at[0] = 0
  OBVIOUS
<1> HIDE DEF at
<1>5. \A b \in 0 .. 0 : b + 1 .. 0 = {}
  OBVIOUS
<1>6. CarriesAll(wire, at, Proper(executed, Len(executed)), entered)
  BY <1>2, <1>3, <1>4, <1>5 DEF CarriesAll
<1> QED BY <1>1, <1>2, <1>3, <1>4, <1>6 DEF StreamInv

LEMMA EnterEmptyKeeps ==
  ASSUME ConsoleTypeOK, StreamInv, EnterEmpty
  PROVE  StreamInv'
  BY NewlineTyped, SendKeeps DEF EnterEmpty, server

LEMMA EnterCommandKeeps ==
  ASSUME ConsoleTypeOK, StreamInv, EnterCommand
  PROVE  StreamInv'
<1>1. /\ cmdline \in Seq(Byte) /\ Words(cmdline) # <<>>
      /\ UNCHANGED <<executed, misframed, quit, crashed>>
  BY DEF EnterCommand, server, ConsoleTypeOK
<1>2. CASE Send(<<LF>>) /\ entered' = entered
  BY <1>1, <1>2, NewlineTyped, SendKeeps
<1>3. CASE wire' = wire /\ entered' = entered
  BY <1>1, <1>3 DEF StreamInv, CarriesAll
<1>4. CASE Send(cmdline \o <<LF>>) /\ entered' = Append(entered, Words(cmdline))
  <2> DEFINE bytes == cmdline \o <<LF>>
  <2>1. bytes \in Seq(Byte) /\ Words(bytes) = Words(cmdline)
    BY <1>1, NewlineTyped, WordsOfLine
  <2>2. Len(bytes) # 1 /\ Len(bytes) # 0
    <3>1. Len(cmdline) \in Nat /\ Len(<<LF>>) = 1
      BY <1>1, LenProperties
    <3>2. Len(bytes) = Len(cmdline) + 1
      BY <1>1, <3>1, NewlineTyped, ConcatProperties
    <3>3. cmdline # <<>>
      BY <1>1, NoWords
    <3> QED BY <1>1, <3>1, <3>2, <3>3, EmptySeq
  <2> HIDE DEF bytes
  <2>3. bytes # <<>> /\ bytes # <<LF>>
    <3> DEFINE newline == <<LF>>
    <3>1. Len(<<>>) = 0 /\ Len(newline) = 1
      OBVIOUS
    <3> HIDE DEF newline
    <3>2. bytes # newline
      BY <2>2, <3>1
    <3> QED BY <2>2, <3>1, <3>2 DEF newline
  <2>4. Send(bytes) /\ entered' = Append(entered, Words(bytes)) /\ Words(bytes) # <<>>
    BY <1>1, <1>4, <2>1 DEF bytes
  <2> QED BY <1>1, <2>1, <2>3, <2>4, SendKeeps
<1> QED BY <1>2, <1>3, <1>4, EnterCommandSends

LEMMA ConsoleNextStream ==
  ConsoleTypeOK /\ StreamInv /\ [ConsoleNext]_consoleVars => StreamInv'
<1> SUFFICES ASSUME ConsoleTypeOK, StreamInv, [ConsoleNext]_consoleVars PROVE StreamInv'
  OBVIOUS
<1>1. ASSUME UNCHANGED <<stream, quit, crashed>> PROVE StreamInv'
  BY <1>1 DEF StreamInv, stream, CarriesAll
<1>2. CASE UNCHANGED consoleVars
  BY <1>1, <1>2 DEF consoleVars, stream
<1>3. CASE Insert \/ Erase \/ MoveCursor \/ Recall \/ Cancel
  BY <1>1, <1>3 DEF Insert, Erase, MoveCursor, Recall, Cancel, server
<1>4. CASE EnterBlanks
  BY <1>4 DEF EnterBlanks, StreamInv, stream, server, CarriesAll
<1>5. CASE LineOfPort
  BY <1>1, <1>5 DEF LineOfPort
<1>6. CASE OutputEvent
  <2>1. quit # "no" /\ UNCHANGED <<stream, crashed>>
    BY <1>6 DEF OutputEvent
  <2> QED BY <2>1 DEF StreamInv, stream, CarriesAll
<1> QED BY <1>2, <1>3, <1>4, <1>5, <1>6, EnterEmptyKeeps, EnterCommandKeeps, ServerReadKeeps DEF ConsoleNext

\* As long as each read() of the server returns what one Enter sent, however
\* many lines of whatever length are entered, the server runs the commands that
\* were entered, in order and word for word, with nothing but time stamps in
\* between; it leaves none unread but behind an exit, and does not crash.
THEOREM CommandsCorrect == ConsoleSpec => []CommandsAsEntered
<1>1. ConsoleInit => ConsoleTypeOK /\ StreamInv
  BY ConsoleInitTyped, ConsoleInitStream
<1>2. ConsoleTypeOK /\ StreamInv /\ [ConsoleNext]_consoleVars => (ConsoleTypeOK /\ StreamInv)'
  BY ConsoleNextTyped, ConsoleNextStream
<1>3. ConsoleTypeOK /\ StreamInv => CommandsAsEntered
  BY StreamInvImplies
<1> QED BY <1>1, <1>2, <1>3, PTL DEF ConsoleSpec

-----------------------------------------------------------------------------
(* Console: the line editor.                                               *)

\* A line cut behind its first part.
LEMMA CutBehind ==
  ASSUME NEW a \in Seq(Byte), NEW b \in Seq(Byte), NEW n, n = Len(a)
  PROVE  /\ SubSeq(a \o b, 1, n) = a
         /\ SubSeq(a \o b, n + 1, Len(a \o b)) = b
<1> DEFINE s == a \o b
<1>1. /\ s \in Seq(Byte) /\ Len(s) = Len(a) + Len(b)
      /\ Len(a) \in Nat /\ Len(b) \in Nat
      /\ \A i \in 1 .. Len(a) + Len(b) : s[i] = IF i <= Len(a) THEN a[i] ELSE b[i - Len(a)]
  BY ConcatProperties, LenProperties
<1> HIDE DEF s
<1>2. SubSeq(s, 1, n) = a
  <2>1. \A i \in 1 .. n : s[i] = a[i]
    BY <1>1
  <2>2. SubSeq(s, 1, n) = SubSeq(a, 1, n)
    BY <1>1, <2>1, SameStart
  <2> QED BY <2>2, SubSeqFull
<1>3. SubSeq(s, n + 1, Len(s)) = b
  <2> DEFINE t == SubSeq(s, n + 1, Len(s))
  <2>1. \A i \in n + 1 .. Len(s) : s[i] \in Byte
    <3>1. \A i \in 1 .. Len(s) : s[i] \in Byte
      BY <1>1, ElementOfSeq
    <3> QED BY <1>1, <3>1
  <2>2. n + 1 \in Int /\ Len(s) \in Int
    BY <1>1
  <2>3. /\ t \in Seq(Byte)
        /\ Len(t) = IF n + 1 <= Len(s) THEN Len(s) - (n + 1) + 1 ELSE 0
        /\ \A i \in 1 .. Len(s) - (n + 1) + 1 : t[i] = s[n + 1 + i - 1]
    BY <2>1, <2>2, SubSeqProperties
  <2> HIDE DEF t
  <2>4. Len(t) = Len(b)
    BY <1>1, <2>3
  <2>5. ASSUME NEW i \in 1 .. Len(t) PROVE t[i] = b[i]
    <3>1. /\ i \in 1 .. Len(s) - (n + 1) + 1 /\ n + 1 + i - 1 = n + i
          /\ n + i \in 1 .. Len(a) + Len(b) /\ ~(n + i <= Len(a)) /\ (n + i) - Len(a) = i
      BY <1>1, <2>4
    <3>2. t[i] = s[n + i]
      BY <2>3, <3>1
    <3>3. s[n + i] = b[(n + i) - Len(a)]
      BY <1>1, <3>1
    <3> QED BY <3>1, <3>2, <3>3
  <2> QED BY <2>3, <2>4, <2>5, SeqEqual DEF t
<1> QED BY <1>2, <1>3 DEF s

\* The empty line, and a line with the cursor at its end.
LEMMA CutEnds ==
  /\ SubSeq(<<>>, 1, 0) = <<>> /\ SubSeq(<<>>, 1, Len(<<>>)) = <<>>
  /\ SubSeq(<<>>, 0 + 1, Len(<<>>)) = <<>>
  /\ \A s \in Seq(Byte) : SubSeq(s, 1, Len(s)) = s /\ SubSeq(s, Len(s) + 1, Len(s)) = <<>>
<1>1. <<>> \in Seq(Byte) /\ Len(<<>>) = 0
  BY EmptySeq
<1>2. ASSUME NEW s \in Seq(Byte)
      PROVE  SubSeq(s, 1, Len(s)) = s /\ SubSeq(s, Len(s) + 1, Len(s)) = <<>>
  <2>1. Len(s) \in Int /\ Len(s) + 1 \in Int /\ Len(s) < Len(s) + 1
    BY LenProperties
  <2> QED BY <2>1, SubSeqFull, SubSeqEmpty
<1>3. SubSeq(<<>>, 1, 0) = <<>>
  BY SubSeqEmpty
<1>4. SubSeq(<<>>, 0 + 1, 0) = <<>>
  BY SubSeqEmpty
<1> QED BY <1>1, <1>2, <1>3, <1>4

LEMMA EditorInit == ConsoleInit => EditorView!Init
<1> SUFFICES ASSUME ConsoleInit PROVE EditorView!Init
  OBVIOUS
<1>1. Before = <<>> /\ After = <<>>
  BY CutEnds DEF ConsoleInit, Before, After
<1> QED BY <1>1, HistoriesAssumption DEF ConsoleInit, EditorView!Init

LEMMA InsertTypes ==
  ASSUME ConsoleTypeOK, Insert
  PROVE  EditorView!Type
<1>1. PICK text \in Texts : /\ cmdline' = Before \o text \o After
                            /\ cursor_pos' = cursor_pos + Len(text)
  BY DEF Insert
<1>2. text \in Seq(Byte) /\ Len(text) \in Nat
  BY TextsAssumption, LenProperties
<1>3. /\ Before \in Seq(Byte) /\ After \in Seq(Byte) /\ Len(Before) = cursor_pos
      /\ cursor_pos \in Nat
  BY CutAtCursor
<1>4. Before \o text \in Seq(Byte) /\ Len(Before \o text) = cursor_pos'
  BY <1>1, <1>2, <1>3, ConcatProperties
<1>5. Before' = Before \o text /\ After' = After
  <2>1. Before' = SubSeq(cmdline', 1, cursor_pos')
    BY DEF Before
  <2>2. After' = SubSeq(cmdline', cursor_pos' + 1, Len(cmdline'))
    BY DEF After
  <2>3. cmdline' = (Before \o text) \o After
    BY <1>1
  <2>4. /\ SubSeq(cmdline', 1, Len(Before \o text)) = Before \o text
        /\ SubSeq(cmdline', Len(Before \o text) + 1, Len(cmdline')) = After
    BY <1>3, <1>4, <2>3, CutBehind
  <2> QED BY <1>4, <2>1, <2>2, <2>4
<1>6. Len(Before') >= Len(Before)
  BY <1>1, <1>2, <1>3, <1>4, <1>5
<1>7. SubSeq(Before', 1, Len(Before)) = Before
  BY <1>2, <1>3, <1>5, CutBehind
<1> QED BY <1>5, <1>6, <1>7 DEF Insert, EditorView!Type

LEMMA EraseErases ==
  ASSUME ConsoleTypeOK, Erase
  PROVE  EditorView!Erase \/ UNCHANGED EditorView!vars
<1>1. CASE cursor_pos = 0 /\ UNCHANGED <<cmdline, cursor_pos>>
  BY <1>1 DEF Erase, Before, After, EditorView!vars
<1>2. CASE /\ cursor_pos > 0
           /\ cmdline' = SubSeq(cmdline, 1, cursor_pos - 1) \o After
           /\ cursor_pos' = cursor_pos - 1
  <2>1. /\ cmdline \in Seq(Byte) /\ Len(cmdline) \in Nat
        /\ cursor_pos \in 1 .. Len(cmdline) /\ cursor_pos \in Nat
        /\ Before \in Seq(Byte) /\ After \in Seq(Byte) /\ Len(Before) = cursor_pos
        /\ cursor_pos - 1 \in 0 .. Len(cmdline)
    BY <1>2, CutAtCursor DEF ConsoleTypeOK
  <2> DEFINE first == SubSeq(cmdline, 1, cursor_pos - 1)
  <2>2. first \in Seq(Byte) /\ Len(first) = cursor_pos'
    BY <1>2, <2>1, CutInTwo
  <2>3. Before' = SubSeq(cmdline', 1, cursor_pos')
    BY DEF Before
  <2>4. After' = SubSeq(cmdline', cursor_pos' + 1, Len(cmdline'))
    BY DEF After
  <2>5. first = SubSeq(Before, 1, Len(Before) - 1)
    BY <2>1, StartOfBefore
  <2> HIDE DEF first
  <2>6. Before' = first /\ After' = After
    BY <1>2, <2>1, <2>2, <2>3, <2>4, CutBehind DEF first
  <2>7. Before # <<>>
    BY <2>1, EmptySeq
  <2> QED BY <2>5, <2>6, <2>7 DEF Erase, EditorView!Erase
<1> QED BY <1>1, <1>2 DEF Erase

LEMMA MoveCursorMoves ==
  ASSUME ConsoleTypeOK, MoveCursor
  PROVE  EditorView!Back \/ EditorView!Forward \/ UNCHANGED EditorView!vars
<1>1. /\ cmdline \in Seq(Byte) /\ Len(cmdline) \in Nat
      /\ cursor_pos \in 0 .. Len(cmdline) /\ cursor_pos' \in 0 .. Len(cmdline)
      /\ Before \in Seq(Byte) /\ After \in Seq(Byte)
      /\ Len(Before) = cursor_pos /\ Len(After) = Len(cmdline) - cursor_pos
  BY CutAtCursor DEF MoveCursor, ConsoleTypeOK
<1>2. /\ Before' = SubSeq(cmdline, 1, cursor_pos')
      /\ After' = SubSeq(cmdline, cursor_pos' + 1, Len(cmdline))
  BY DEF MoveCursor, Before, After
<1>3. CASE cursor_pos' = cursor_pos
  BY <1>3 DEF MoveCursor, Before, After, EditorView!vars
<1>4. CASE cursor_pos' = cursor_pos - 1
  <2>1. cursor_pos \in 1 .. Len(cmdline) /\ cursor_pos' + 1 = cursor_pos
    BY <1>1, <1>4
  <2>2. Before # <<>>
    BY <1>1, <2>1, EmptySeq
  <2>3. Before' = SubSeq(Before, 1, Len(Before) - 1) /\ Before[Len(Before)] = cmdline[cursor_pos]
    BY <1>1, <1>2, <1>4, <2>1, StartOfBefore
  <2>4. After' = <<cmdline[cursor_pos]>> \o After
    <3>1. Len(cmdline) \in cursor_pos .. Len(cmdline)
      BY <1>1
    <3>2. SubSeq(cmdline, cursor_pos, Len(cmdline))
            = <<cmdline[cursor_pos]>> \o SubSeq(cmdline, cursor_pos + 1, Len(cmdline))
      BY <1>1, <2>1, <3>1, SubSeqRecursiveFirst
    <3> QED BY <1>2, <2>1, <3>2 DEF After
  <2> QED BY <2>2, <2>3, <2>4 DEF MoveCursor, EditorView!Back
<1>5. CASE cursor_pos' = cursor_pos + 1
  <2>1. cursor_pos' \in 1 .. Len(cmdline) /\ Len(cmdline) \in cursor_pos' .. Len(cmdline)
        /\ cursor_pos' - 1 = cursor_pos /\ 1 \in 1 .. Len(cmdline)
    BY <1>1, <1>5
  <2>2. After = SubSeq(cmdline, cursor_pos', Len(cmdline))
    BY <1>5 DEF After
  <2>3. Head(After) = cmdline[cursor_pos'] /\ Tail(After) = After'
    BY <1>1, <1>2, <2>1, <2>2, HeadTailOfSubSeq
  <2>4. After # <<>>
    BY <1>1, <1>5, EmptySeq
  <2>5. Before' = Append(Before, cmdline[cursor_pos'])
    <3>1. cmdline[cursor_pos'] \in Byte
      BY <1>1, <2>1, ElementOfSeq
    <3>2. cursor_pos' \in 1 .. cursor_pos'
      BY <1>1, <2>1
    <3>3. SubSeq(cmdline, 1, cursor_pos')
            = SubSeq(cmdline, 1, cursor_pos' - 1) \o <<cmdline[cursor_pos']>>
      BY <1>1, <2>1, <3>2, SubSeqRecursiveSecond
    <3>4. Before' = Before \o <<cmdline[cursor_pos']>>
      BY <1>2, <2>1, <3>3 DEF Before
    <3> QED BY <1>1, <3>1, <3>4, AppendIsConcat
  <2> QED BY <2>3, <2>4, <2>5 DEF MoveCursor, EditorView!Forward
<1> QED BY <1>3, <1>4, <1>5 DEF MoveCursor

LEMMA RecallRecalls ==
  ASSUME ConsoleTypeOK, Recall
  PROVE  EditorView!Recall \/ UNCHANGED EditorView!vars
<1>1. CASE UNCHANGED line
  BY <1>1 DEF line, Before, After, EditorView!vars
<1>2. CASE ~UNCHANGED line
  <2>1. /\ history # <<>> /\ history' = history
        /\ cmdline' = Recalled(history_idx') /\ cursor_pos' = Len(cmdline')
    BY <1>2 DEF Recall
  <2>2. PICK d \in {1, -1} : history_idx' = Clamped(history_idx + d)
    BY <1>2 DEF Recall
  <2>3. /\ history_idx' \in 0 .. Len(history) /\ cmdline' \in Seq(Byte)
        /\ history_idx' \in {history_idx - 1, history_idx, history_idx + 1}
    BY <2>1, <2>2, RecalledLine
  <2>4. Before' = cmdline' /\ After' = <<>>
    <3>1. Before' = SubSeq(cmdline', 1, cursor_pos')
      BY DEF Before
    <3>2. After' = SubSeq(cmdline', cursor_pos' + 1, Len(cmdline'))
      BY DEF After
    <3> QED BY <2>1, <2>3, <3>1, <3>2, CutEnds
  <2> QED BY <2>1, <2>3, <2>4 DEF Recalled, EditorView!Recall
<1> QED BY <1>1, <1>2

\* An empty line afterwards.
LEMMA ClearedLine ==
  ASSUME cmdline' = <<>>, cursor_pos' = 0
  PROVE  Before' = <<>> /\ After' = <<>>
<1>1. Before' = SubSeq(cmdline', 1, cursor_pos')
  BY DEF Before
<1>2. After' = SubSeq(cmdline', cursor_pos' + 1, Len(cmdline'))
  BY DEF After
<1>3. SubSeq(<<>>, 0 + 1, Len(<<>>)) = <<>> /\ SubSeq(<<>>, 1, 0) = <<>>
  BY CutEnds
<1> QED BY <1>1, <1>2, <1>3

LEMMA EnterEnters ==
  ASSUME ConsoleTypeOK, EnterEmpty \/ EnterCommand
  PROVE  EditorView!Enter
<1>1. Before \o After = cmdline
  BY CutAtCursor
<1>2. CASE EnterEmpty
  <2>1. /\ cmdline = <<>> /\ cmdline' = <<>> /\ cursor_pos' = 0
        /\ history_idx' = 0 /\ history' = history
    BY <1>2 DEF EnterEmpty
  <2> QED BY <1>1, <2>1, ClearedLine DEF EditorView!Enter
<1>3. CASE EnterCommand
  <2>1. /\ cmdline' = <<>> /\ cursor_pos' = 0 /\ history_idx' = 0
        /\ history' = Append(history, cmdline)
    BY <1>3 DEF EnterCommand
  <2>2. cmdline # <<>>
    <3>1. Words(cmdline) # <<>>
      BY <1>3 DEF EnterCommand
    <3> QED BY <3>1, NoWords
  <2> QED BY <1>1, <2>1, <2>2, ClearedLine DEF EditorView!Enter
<1> QED BY <1>2, <1>3

LEMMA EditorStep ==
  ConsoleTypeOK /\ [ConsoleNext]_consoleVars => [EditorView!Next]_(EditorView!vars)
<1> SUFFICES ASSUME ConsoleTypeOK, [ConsoleNext]_consoleVars
             PROVE  EditorView!Next \/ UNCHANGED EditorView!vars
  OBVIOUS
<1>1. ASSUME UNCHANGED line PROVE UNCHANGED EditorView!vars
  BY <1>1 DEF line, Before, After, EditorView!vars
<1>2. CASE UNCHANGED consoleVars \/ EnterBlanks \/ ServerRead \/ LineOfPort \/ OutputEvent
  BY <1>1, <1>2 DEF consoleVars, line, EnterBlanks, ServerRead, LineOfPort, OutputEvent
<1>3. CASE Insert
  BY <1>3, InsertTypes DEF EditorView!Next
<1>4. CASE Erase
  BY <1>4, EraseErases DEF EditorView!Next
<1>5. CASE MoveCursor
  BY <1>5, MoveCursorMoves DEF EditorView!Next
<1>6. CASE Recall
  BY <1>6, RecallRecalls DEF EditorView!Next
<1>7. CASE Cancel
  BY <1>7, ClearedLine DEF Cancel, EditorView!Cancel, EditorView!Next
<1>8. CASE EnterEmpty \/ EnterCommand
  BY <1>8, EnterEnters DEF EditorView!Next
<1> QED BY <1>2, <1>3, <1>4, <1>5, <1>6, <1>7, <1>8 DEF ConsoleNext

\* The keys of the panel edit the line as a line editor promises, whatever is
\* typed, pasted or recalled and however long the lines and the history are.
THEOREM EditsCorrect == ConsoleSpec => EditsLine
<1>1. ConsoleInit => ConsoleTypeOK /\ EditorView!Init
  BY ConsoleInitTyped, EditorInit
<1>2. ConsoleTypeOK /\ [ConsoleNext]_consoleVars
        => ConsoleTypeOK' /\ [EditorView!Next]_(EditorView!vars)
  BY ConsoleNextTyped, EditorStep
<1> QED BY <1>1, <1>2, PTL DEF ConsoleSpec, EditsLine, EditorView!Spec
=============================================================================
