---------------------------- MODULE MCSponsoring ----------------------------
(* Two calls about one account, each possibly with a forced refresh.        *)
EXTENDS Sponsoring, TLC
CONSTANTS c1, c2
CallsDef == {c1, c2}
Interchangeable == Permutations(CallsDef)
=============================================================================
