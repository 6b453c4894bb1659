---------------------------- MODULE MirroredSession ----------------------------
(***************************************************************************)
(* What a persistent session promises the terminals that attach to it,     *)
(* without the goroutines, the lock and the sockets that provide it.       *)
(*                                                                         *)
(* The session records the output of one shell.  A mirror that attaches is *)
(* shown the last MaxScrollback bytes recorded so far and from then on     *)
(* every byte, once and in order, until it is dropped; the session never   *)
(* records a second piece of output while a mirror still waits for the     *)
(* first.  A dropped mirror is never shown anything again.                 *)
(***************************************************************************)
EXTENDS OutputWindow

CONSTANTS Client,          \* the connections that may attach
          MaxScrollback    \* bytes of output kept for replay

VARIABLES log,             \* how many bytes of output are recorded
          view,            \* what each mirror has been shown
          mirror           \* "absent", "attached" or "gone"

absVars == <<log, view, mirror>>

Seen(c) == IF view[c] = <<>> THEN 0 ELSE view[c][Len(view[c])]

Attached == {c \in Client : mirror[c] = "attached"}

AbsInit ==
    /\ log = 0
    /\ view = [c \in Client |-> <<>>]
    /\ mirror = [c \in Client |-> "absent"]

Record ==
    /\ \A c \in Attached : Seen(c) = log
    /\ log' \in Nat /\ log' > log
    /\ UNCHANGED <<view, mirror>>

Attach(c) ==
    /\ mirror[c] = "absent"
    /\ mirror' = [mirror EXCEPT ![c] = "attached"]
    /\ view' = [view EXCEPT ![c] = Window(TailStart(log, MaxScrollback), log)]
    /\ UNCHANGED log

\* The whole of what c has not been shown yet; never a part of it.
Forward(c) ==
    /\ mirror[c] = "attached"
    /\ Seen(c) < log
    /\ view' = [view EXCEPT ![c] = @ \o Window(Seen(c), log)]
    /\ UNCHANGED <<log, mirror>>

Drop(c) ==
    /\ mirror[c] # "gone"
    /\ mirror' = [mirror EXCEPT ![c] = "gone"]
    /\ UNCHANGED <<log, view>>

\* The daemon ends, and with it every mirror.
End ==
    /\ mirror' = [c \in Client |-> IF mirror[c] = "attached" THEN "gone" ELSE mirror[c]]
    /\ UNCHANGED <<log, view>>

AbsNext ==
    \/ Record
    \/ \E c \in Client : Attach(c) \/ Forward(c) \/ Drop(c)
    \/ End

AbsSpec == AbsInit /\ [][AbsNext]_absVars

===============================================================================
