------------------------------ MODULE MCTransfers ------------------------------
(***************************************************************************)
(* Transfers on a directory with files, a link and a subdirectory.         *)
(***************************************************************************)
EXTENDS Transfers

CONSTANTS top, sub, f, g, h, link

InTree ==
    [n \in {top, sub, f, g, h, link} |->
        CASE n = top -> None [] n \in {g, h} -> sub [] OTHER -> top]

KindOf ==
    [n \in {top, sub, f, g, h, link} |->
        CASE n \in {top, sub} -> "dir" [] n = link -> "link" [] OTHER -> "file"]

===============================================================================
