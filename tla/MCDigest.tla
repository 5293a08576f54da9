------------------------------ MODULE MCDigest ------------------------------
(***************************************************************************)
(* Digest with a root scope and two more, two variables that are watched,  *)
(* one deferred and two derived promises, and digests of at most two       *)
(* passes, TTL + 1.                                                        *)
(***************************************************************************)
EXTENDS Digest

CONSTANTS x, y

MCWatched == <<x, y>>
MCStart == [v \in Vars |-> 0]
=============================================================================
