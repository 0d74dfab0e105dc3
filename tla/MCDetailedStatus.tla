-------------------------- MODULE MCDetailedStatus --------------------------
(* One transfer of each kind, a budget of two misses, one unanswered question. *)
EXTENDS DetailedStatus
=============================================================================
