----------------------------- MODULE MCSwapForm -----------------------------
(* A form with two different intents and two calls: a swap and the call     *)
(* that resumes it, or two swaps.                                           *)
EXTENDS SwapForm
=============================================================================
