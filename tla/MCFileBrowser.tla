----------------------------- MODULE MCFileBrowser -----------------------------
(***************************************************************************)
(* FileBrowser with one directory and one file, the same on every level.   *)
(***************************************************************************)
EXTENDS FileBrowser

CONSTANTS d, f, j1, j2

AllListed == {{d, f}}

SameJobs == Permutations(Job)

===============================================================================
