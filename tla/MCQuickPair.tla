----------------------------- MODULE MCQuickPair -----------------------------
(* The instance of QuickPair for TLC: one flow may try again.              *)
EXTENDS QuickPair, TLC

CONSTANTS f1, f2

OneRetries == f1 :> 2 @@ f2 :> 1
=============================================================================
