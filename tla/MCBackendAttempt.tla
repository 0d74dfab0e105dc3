-------------------------- MODULE MCBackendAttempt --------------------------
(* Instances of BackendAttempt for TLC: budgets of none, one poll and       *)
(* several; service timeouts above and below them and unusable ones.        *)
EXTENDS BackendAttempt

MCTimeouts == {0, 1, 3, 6}
MCServiceTimeouts == {Unusable, -1, 2, 9}

=============================================================================
