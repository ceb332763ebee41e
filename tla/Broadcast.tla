----------------------------- MODULE Broadcast ------------------------------
(***************************************************************************)
(* What DataProxy promises in one direction: the bytes given to it form    *)
(* one stream, and every listener receives, from the moment it attaches to *)
(* the moment it detaches, each byte of the stream once and in order.      *)
(*                                                                         *)
(* A byte is named by its position in the stream, so that a byte that is   *)
(* lost, repeated or overtaken shows in what a listener got.               *)
(***************************************************************************)
EXTENDS Streams

CONSTANT Listener

VARIABLES
  sent,      \* bytes given to the proxy so far
  done,      \* bytes handed out so far
  attached,  \* who is listening
  got        \* what each listener received since it attached

vars == <<sent, done, attached, got>>

Init ==
  /\ sent = 0 /\ done = 0
  /\ attached = {}
  /\ got = [l \in Listener |-> <<>>]

Publish ==
  /\ sent' \in Nat /\ sent' > sent
  /\ UNCHANGED <<done, attached, got>>

\* Bytes are handed out to everyone at once.
Deliver ==
  /\ done' \in (done + 1) .. sent
  /\ got' = [l \in Listener |-> IF l \in attached THEN got[l] \o Run(done, done') ELSE got[l]]
  /\ UNCHANGED <<sent, attached>>

Attach(l) ==
  /\ l \notin attached
  /\ attached' = attached \union {l}
  /\ got' = [got EXCEPT ![l] = <<>>]
  /\ UNCHANGED <<sent, done>>

Detach(l) ==
  /\ l \in attached
  /\ attached' = attached \ {l}
  /\ UNCHANGED <<sent, done, got>>

Next ==
  \/ Publish
  \/ Deliver
  \/ \E l \in Listener : Attach(l) \/ Detach(l)

Spec == Init /\ [][Next]_vars
=============================================================================
