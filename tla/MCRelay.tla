------------------------------ MODULE MCRelay -------------------------------
(* Three peers for two descriptors, one of them asleep: it never reads, but
   it may hang up. *)
EXTENDS Relay

CONSTANTS awake, asleep, late

MCPeer == {awake, asleep, late}
MCReaders == {awake}
MCFd == {1, 2}
=============================================================================
