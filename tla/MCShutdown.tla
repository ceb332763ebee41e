----------------------------- MODULE MCShutdown -----------------------------
(* Any thread may be interrupted, and the singletons go in either order. *)
EXTENDS Shutdown

MCReceivers == Thread
MCFirsts == Singleton
=============================================================================
