------------------------------ MODULE MCLssClient ------------------------------
(***************************************************************************)
(* LssClient on a few keys and resizes; the width wraps at Modulus.        *)
(***************************************************************************)
EXTENDS LssClient, TLC

Interchangeable == Permutations(Client)

===============================================================================
