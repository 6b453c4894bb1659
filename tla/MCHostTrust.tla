------------------------------ MODULE MCHostTrust ------------------------------
(***************************************************************************)
(* HostTrust with two keys of one algorithm and one of another.            *)
(***************************************************************************)
EXTENDS HostTrust, TLC

CONSTANTS k1, k2, k3, h1

TwoAlgorithms == [k \in {k1, k2, k3} |-> IF k = k3 THEN "rsa" ELSE "ed25519"]

Known(k) == [host |-> h1, key |-> k, revoked |-> FALSE]
Banned(k) == [host |-> h1, key |-> k, revoked |-> TRUE]

\* No file, an empty one, a known host, a banned key, both.
SomeFiles == {None, <<>>, <<Known(k1)>>, <<Banned(k2)>>, <<Banned(k2), Known(k3)>>}

Interchangeable == Permutations(Instance)

===============================================================================
