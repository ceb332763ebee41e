------------------------------ MODULE Streams -------------------------------
(* A byte stream names each byte by its position: the bytes of a stream are  *)
(* 1, 2, 3, ... in the order in which they were given.                       *)
EXTENDS Integers, Sequences

\* The bytes after position a up to position b.
Run(a, b) == [i \in 1 .. (b - a) |-> a + i]
=============================================================================
