--------------------------- MODULE MCPacketQueue ---------------------------
(***************************************************************************)
(* PacketQueue on small instances: the cfg files give the bounds. Six      *)
(* packets against a queue of four and a socket of three fill both, and    *)
(* leave packets to come after the overrun.                                *)
(***************************************************************************)
EXTENDS PacketQueue
=============================================================================
