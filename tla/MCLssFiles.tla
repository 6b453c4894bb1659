------------------------------ MODULE MCLssFiles ------------------------------
(***************************************************************************)
(* LssFiles with its crash points and symmetry.                               *)
(***************************************************************************)
EXTENDS LssFiles, TLC

\* Crashes from the moment the pid file names the daemon.
CrashServing == {"serve"} \cup Shutdown

Interchangeable == Permutations(Proc)

===============================================================================
