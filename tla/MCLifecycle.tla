------------------------------ MODULE MCLifecycle ------------------------------
(***************************************************************************)
(* Lifecycle for TLC: how often a call may fail, an answer be lost.        *)
(***************************************************************************)
EXTENDS Lifecycle

CONSTANTS Failures, Losses

-------------------------------------------------------------------------------
MCBudget == [kind \in {"fail", "lost"} |-> IF kind = "fail" THEN Failures ELSE Losses]
===============================================================================
