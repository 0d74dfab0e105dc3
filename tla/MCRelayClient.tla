--------------------------- MODULE MCRelayClient ----------------------------
(* Instances of RelayClient for TLC.  One unit of time is a second: the     *)
(* code sleeps two between polls and before a retry, and the deadline of an *)
(* odd budget cuts a sleep short.  The request timeout and the budgets are  *)
(* scaled down, so that several polls fit into one, three requests into one *)
(* poll, and an abort comes before and at the deadline.                     *)
EXTENDS RelayClient

CONSTANTS p1, p2, q, NaN

MCOwn == {p1, p2}
MCForeign == {q}
MCTimeouts == {NaN, -1, 0, 3, 8}
=============================================================================
