---------------------------- MODULE MCTcpServer ----------------------------
(***************************************************************************)
(* TcpServer on small instances: five connections over three descriptors,  *)
(* so that descriptors are used again and all can be taken.                *)
(***************************************************************************)
EXTENDS TcpServer
=============================================================================
