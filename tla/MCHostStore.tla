------------------------------ MODULE MCHostStore ------------------------------
(***************************************************************************)
(* HostStore with two texts, of which the search finds one, two master     *)
(* passwords, and files to start from and to import.                       *)
(***************************************************************************)
EXTENDS HostStore

Entry(i, t, p) == [id |-> i, text |-> t, pwd |-> p]

FindsFirst == {<<"f", "web">>}

FirstFiles == {Absent, <<Entry(1, "web", "m1")>>}

\* A host that is there with another password, and a new one; one identifier twice.
Files == {<<Entry(1, "web", "m2"), Entry(2, "db", "none")>>,
          <<Entry(2, "web", "clear"), Entry(2, "db", "none")>>}

===============================================================================
