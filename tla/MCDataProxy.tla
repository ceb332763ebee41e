---------------------------- MODULE MCDataProxy -----------------------------
(* Two clients and the port: a round of the port's bytes can be cut by one
   listener that comes or goes while the other keeps listening. *)
EXTENDS DataProxy

CONSTANTS k1, k2, p1
MCClients == {k1, k2}
MCSerials == {p1}
=============================================================================
