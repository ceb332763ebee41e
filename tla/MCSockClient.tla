---------------------------- MODULE MCSockClient ----------------------------
(* Instances of SockClient are chosen by the .cfg files alone. *)
EXTENDS SockClient
=============================================================================
