----------------------------- MODULE MCRunGuard -----------------------------
(* Bounded instances of RunGuard for TLC: the run's own token, and a        *)
(* reissued control token that could set the guard up with another budget.  *)
EXTENDS RunGuard, TLC

CONSTANTS runToken, controlToken

MCScopes == (runToken :> Operations) @@ (controlToken :> {"destroy", "status"})
MCBudget == (runToken :> 2) @@ (controlToken :> 1)
=============================================================================
