--------------------------- MODULE MCConnectionTx ---------------------------
(* Instances of ConnectionTx are chosen by the .cfg files alone. *)
EXTENDS ConnectionTx
=============================================================================
