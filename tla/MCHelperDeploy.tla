----------------------------- MODULE MCHelperDeploy -----------------------------
(***************************************************************************)
(* HelperDeploy with two helpers of different sizes.                       *)
(***************************************************************************)
EXTENDS HelperDeploy, TLC

CONSTANTS v1, v2

TwoSizes == (v1 :> 2) @@ (v2 :> 1)

Interchangeable == Permutations(Instance)

===============================================================================
