---------------------------- MODULE MCLogBuffer ----------------------------
(***************************************************************************)
(* LogBuffer with two threads that log and two connections that read; the  *)
(* text of all calls overfills the buffer.                                 *)
(***************************************************************************)
EXTENDS LogBuffer
=============================================================================
