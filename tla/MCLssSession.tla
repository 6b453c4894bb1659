----------------------------- MODULE MCLssSession -----------------------------
(***************************************************************************)
(* LssSession with its constants small enough to visit every state: one    *)
(* byte more than the scrollback holds, so that it is trimmed.             *)
(***************************************************************************)
EXTENDS LssSession, TLC

\* Connections are interchangeable (used where no liveness is checked).
Interchangeable == Permutations(Client)

===============================================================================
