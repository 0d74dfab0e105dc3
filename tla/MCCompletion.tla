---------------------------- MODULE MCCompletion ----------------------------
(* Instances of Completion for TLC: every operation over every route.  The  *)
(* timeouts are none, one below the floor and one above it.                 *)
EXTENDS Completion

MCTimeouts == {0, 1, 3}
=============================================================================
