---------------------------- MODULE MCSockServer ----------------------------
(* Values for the constants of SockServer: three descriptors are enough for the
   port, the admin that commands it and a client that inherits a number. *)
EXTENDS SockServer, TLC

MCFd == 1 .. 3
CONSTANTS c1, c2, c3, c4, c5
MCConn == {c1, c2, c3, c4, c5}
MCAllFaults == Faults
MCSetupFault == {"setup"}
MCHangupFault == {"hangup"}
MCNoFault == {}
CellSymmetry == Permutations(MCConn)
=============================================================================
