----------------------------- MODULE MCConnecting -----------------------------
(***************************************************************************)
(* Connecting with attempts that may change places.                        *)
(***************************************************************************)
EXTENDS Connecting, TLC

SameAttempts == Permutations(Attempt)

===============================================================================
