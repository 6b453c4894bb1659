------------------------------- MODULE Transfers -------------------------------
(***************************************************************************)
(* What the file browser does in the background to whole trees: UploadDir, *)
(* DownloadDir and RemoveRemoteAll (internal/ssh/sftp.go), with the dialog *)
(* that may cancel the first two and the report that follows               *)
(* (internal/ui/filebrowser.go).                                           *)
(*                                                                         *)
(* The recursion is a stack of directories with the entries still to be    *)
(* visited, as they were listed.  Meanwhile any request may fail, and      *)
(* somebody else adds and removes files in the same tree.                  *)
(***************************************************************************)
EXTENDS Naturals, Sequences, FiniteSets

CONSTANTS Node,        \* the entries there may be
          Parent,      \* the directory each is in
          Kind,        \* "dir", "file" or "link"
          None,        \* no entry; the parent of the topmost ones
          MaxOps,      \* bound: operations started
          MaxMeddling  \* bound: changes somebody else makes

ASSUME TransferAssumption ==
    /\ Parent \in [Node -> Node \cup {None}]
    /\ Kind \in [Node -> {"dir", "file", "link"}]
    /\ None \notin Node
    /\ \A n \in Node : Parent[n] # None => Kind[Parent[n]] = "dir"
    \* Nothing is in itself.
    /\ \A S \in SUBSET Node : S # {} => \E n \in S : Parent[n] \notin S
    /\ MaxOps \in Nat /\ MaxMeddling \in Nat

VARIABLES
    op,        \* what is done: "upload", "download" or "delete"
    there,     \* the entries of the tree that is read, or deleted
    copied,    \* the copy: "absent", "dir", "part" or "whole", for each entry
    stack,     \* the recursion: [dir, left] per level, the deepest last
    current,   \* the file whose turn it is, or None
    opened,    \* are its two ends open?
    cancelled, \* has the user pressed Cancel?
    phase,     \* "idle", "run", "error" or "done" (returned, not reported yet)
    outcome,   \* the last report: "none", "cancelled", "error" or "ok"
    target,    \* the entry the operation was started on
    ops, meddling,
    \* history: what somebody else touched since the start, what they added to
    \* a directory already listed, the files begun since Cancel
    touched, late, after

tree == <<there, copied>>
walk == <<stack, current, opened>>
meta == <<op, target, ops>>
hist == <<touched, late, after>>
vars == <<meta, tree, walk, cancelled, phase, outcome, meddling, hist>>

ChildrenOf(d) == {n \in there : Parent[n] = d}

\* n is t, or in it at any depth: t is in every set that has n and, with each
\* entry, its directory.
Within(n, t) ==
    \A S \in SUBSET Node : n \in S /\ (\A m \in S : Parent[m] \in S \cup {None}) => t \in S

Init ==
    /\ op \in {"upload", "download", "delete"}
    /\ there \in SUBSET Node
    /\ \A n \in there : Parent[n] # None => Parent[n] \in there
    /\ \A n \in Node : Kind[n] = "dir" => n \in there
    /\ copied = [n \in Node |-> "absent"]
    /\ stack = <<>> /\ current = None /\ opened = FALSE
    /\ cancelled = FALSE /\ phase = "idle" /\ outcome = "none" /\ target = None
    /\ ops = 0 /\ meddling = 0
    /\ touched = {} /\ late = {} /\ after = {}

-------------------------------------------------------------------------------

\* The file browser starts the goroutine on the selected entry.
Start(n) ==
    /\ phase = "idle" /\ ops < MaxOps /\ n \in there
    /\ ops' = ops + 1
    /\ phase' = "run" /\ outcome' = "none" /\ cancelled' = FALSE
    /\ target' = n
    /\ stack' = <<[dir |-> None, left |-> {n}]>>
    /\ touched' = {} /\ late' = {} /\ after' = {}
    /\ UNCHANGED <<op, tree, current, opened, meddling>>

Top == stack[Len(stack)]
Rest == SubSeq(stack, 1, Len(stack) - 1)

\* Without the entry that is visited now.
Without(n) == Append(Rest, [Top EXCEPT !.left = @ \ {n}])

\* Faulty: cancelling is left to whoever reads the report.
VisitsWhatever(n) == phase = "run" /\ current = None /\ stack # <<>> /\ n \in Top.left

\* The next entry of the level, unless the walk is cancelled; what the user
\* selected is not checked when it is a file.
Visits(n) ==
    /\ phase = "run" /\ current = None /\ stack # <<>> /\ n \in Top.left
    /\ op = "delete" \/ ~cancelled \/ (n = target /\ Kind[n] # "dir")

StopsCancelled ==
    /\ phase = "run" /\ current = None /\ cancelled /\ op # "delete"
    /\ stack # <<>> /\ Top.left # {} /\ Kind[target] = "dir"
    /\ phase' = "error"
    /\ UNCHANGED <<meta, tree, walk, cancelled, outcome, meddling, hist>>

\* Listed, and for a copy created, before its entries are visited.
VisitDir(n) ==
    /\ Visits(n) /\ Kind[n] = "dir" /\ n \in there
    /\ stack' = Append(Without(n), [dir |-> n, left |-> ChildrenOf(n)])
    /\ copied' = IF op = "delete" THEN copied ELSE [copied EXCEPT ![n] = "dir"]
    /\ UNCHANGED <<meta, there, current, opened, cancelled, phase, outcome, meddling, hist>>

\* An upload of a directory passes over symbolic links.
PassedOver(n) == op = "upload" /\ Kind[n] = "link" /\ n # target

VisitFile(n) ==
    /\ Visits(n) /\ Kind[n] # "dir" /\ op # "delete"
    /\ stack' = Without(n)
    /\ current' = IF PassedOver(n) THEN None ELSE n
    /\ UNCHANGED <<meta, tree, opened, cancelled, phase, outcome, meddling, hist>>

\* Opening the copy truncates it.
OpenFile ==
    /\ phase = "run" /\ current # None /\ ~opened
    /\ current \in there
    /\ opened' = TRUE
    /\ copied' = [copied EXCEPT ![current] = "part"]
    /\ after' = IF cancelled THEN after \cup {current} ELSE after
    /\ UNCHANGED <<meta, there, stack, current, cancelled, phase, outcome, meddling,
                   touched, late>>

\* Faulty: a file that fails is left as it is, and the walk goes on.
FileCopiedOrNot ==
    /\ phase = "run" /\ opened
    /\ \/ copied' = [copied EXCEPT ![current] = "whole"]
       \/ UNCHANGED copied
    /\ current' = None /\ opened' = FALSE
    /\ UNCHANGED <<meta, there, stack, cancelled, phase, outcome, meddling, hist>>

FileCopied ==
    /\ phase = "run" /\ opened
    /\ copied' = [copied EXCEPT ![current] = "whole"]
    /\ current' = None /\ opened' = FALSE
    /\ UNCHANGED <<meta, there, stack, cancelled, phase, outcome, meddling, hist>>

RemoveFile(n) ==
    /\ Visits(n) /\ Kind[n] # "dir" /\ op = "delete" /\ n \in there
    /\ there' = there \ {n}
    /\ stack' = Without(n)
    /\ UNCHANGED <<meta, copied, current, opened, cancelled, phase, outcome, meddling, hist>>

LevelDone == phase = "run" /\ current = None /\ Len(stack) > 1 /\ Top.left = {}

LeaveDir ==
    /\ LevelDone /\ op # "delete"
    /\ stack' = Rest
    /\ UNCHANGED <<meta, tree, current, opened, cancelled, phase, outcome, meddling, hist>>

\* Faulty: the directory goes with whatever is in it by now.
RemoveDirAndContents ==
    /\ LevelDone /\ op = "delete"
    /\ there' = there \ ({Top.dir} \cup ChildrenOf(Top.dir))
    /\ stack' = Rest
    /\ UNCHANGED <<meta, copied, current, opened, cancelled, phase, outcome, meddling, hist>>

\* RemoveDirectory, which the server refuses for one that is not empty.
RemoveDir ==
    /\ LevelDone /\ op = "delete"
    /\ ChildrenOf(Top.dir) = {}
    /\ there' = there \ {Top.dir}
    /\ stack' = Rest
    /\ UNCHANGED <<meta, copied, current, opened, cancelled, phase, outcome, meddling, hist>>

\* Any request may fail: what is gone, what is not empty, a full disk, a lost
\* connection, a link to a directory.  The whole operation ends with it.
RequestFails ==
    /\ phase = "run"
    /\ \/ current # None
       \/ \E n \in Node : Visits(n)
       \/ LevelDone /\ op = "delete"
    /\ phase' = "error"
    /\ UNCHANGED <<meta, tree, walk, cancelled, outcome, meddling, hist>>

Returns ==
    /\ phase = "run" /\ current = None /\ Len(stack) = 1 /\ Top.left = {}
    /\ phase' = "done"
    /\ UNCHANGED <<meta, tree, walk, cancelled, outcome, meddling, hist>>

\* Cancel only tells the goroutine; deleting has no such button.
Cancel ==
    /\ phase \in {"run", "error", "done"} /\ op # "delete" /\ ~cancelled
    /\ cancelled' = TRUE
    /\ UNCHANGED <<meta, tree, walk, phase, outcome, meddling, hist>>

\* Faulty: the goroutine's own state is taken for the report.
ReportPhase ==
    /\ phase \in {"error", "done"}
    /\ outcome' = IF cancelled THEN "cancelled" ELSE phase
    /\ phase' = "idle"
    /\ stack' = <<>> /\ current' = None /\ opened' = FALSE
    /\ UNCHANGED <<meta, tree, cancelled, meddling, hist>>

Report ==
    /\ phase \in {"error", "done"}
    /\ outcome' = IF cancelled THEN "cancelled" ELSE IF phase = "error" THEN "error" ELSE "ok"
    /\ phase' = "idle"
    /\ stack' = <<>> /\ current' = None /\ opened' = FALSE
    /\ UNCHANGED <<meta, tree, cancelled, meddling, hist>>

-------------------------------------------------------------------------------
(* Somebody else, in the same tree.                                        *)

\* Its directory is being gone through, and it was not there to be listed.
MissedBy(n) ==
    /\ phase = "run"
    /\ \E i \in DOMAIN stack : stack[i].dir = Parent[n] /\ n \notin stack[i].left

OtherAdds(n) ==
    /\ meddling < MaxMeddling
    /\ Kind[n] # "dir" /\ n \notin there
    /\ Parent[n] \in there \cup {None}
    /\ there' = there \cup {n}
    /\ touched' = touched \cup {n}
    /\ late' = IF MissedBy(n) THEN late \cup {n} ELSE late
    /\ meddling' = meddling + 1
    /\ UNCHANGED <<meta, copied, walk, cancelled, phase, outcome, after>>

OtherRemoves(n) ==
    /\ meddling < MaxMeddling
    /\ Kind[n] # "dir" /\ n \in there
    /\ there' = there \ {n}
    /\ touched' = touched \cup {n}
    /\ late' = late \ {n}
    /\ meddling' = meddling + 1
    /\ UNCHANGED <<meta, copied, walk, cancelled, phase, outcome, after>>

-------------------------------------------------------------------------------

Next ==
    \/ \E n \in Node : \/ Start(n) \/ VisitDir(n) \/ VisitFile(n)
                       \/ RemoveFile(n) \/ OtherAdds(n) \/ OtherRemoves(n)
    \/ OpenFile \/ FileCopied \/ LeaveDir \/ RemoveDir \/ RequestFails \/ StopsCancelled
    \/ Returns \/ Cancel \/ Report

Spec == Init /\ [][Next]_vars

-------------------------------------------------------------------------------
(* What a transfer or a removal must guarantee.                            *)

TypeOK ==
    /\ op \in {"upload", "download", "delete"}
    /\ there \subseteq Node
    /\ copied \in [Node -> {"absent", "dir", "part", "whole"}]
    /\ stack \in Seq([dir : Node \cup {None}, left : SUBSET Node])
    /\ current \in Node \cup {None} /\ target \in Node \cup {None}
    /\ opened \in BOOLEAN /\ cancelled \in BOOLEAN
    /\ phase \in {"idle", "run", "error", "done"}
    /\ outcome \in {"none", "cancelled", "error", "ok"}
    /\ ops \in 0 .. MaxOps /\ meddling \in 0 .. MaxMeddling
    /\ touched \subseteq Node /\ late \subseteq Node /\ after \subseteq Node

(* A copy reported as done holds the whole of every file and directory     *)
(* that nobody touched meanwhile, whatever failed or vanished on the way   *)
(* (sftp.go:292-320, 341-364; links are not copied by an upload).          *)
DoneIsComplete ==
    outcome = "ok" /\ op # "delete" =>
        \A n \in there \ touched :
            Within(n, target) /\ ~(Kind[n] = "link" /\ n # target)
                => copied[n] \in {"dir", "whole"}

(* Cancel stops the walk after the file whose turn it is: at most that one *)
(* is begun after it, however long the directory (sftp.go:290, 325).       *)
CancelStopsTheWalk == Cardinality(after) <= 1

(* A removal deletes what it has listed: a file somebody puts into a       *)
(* directory afterwards is still there, and its directory too; and one     *)
(* reported as done has left nothing that was there before                 *)
(* (sftp.go:257-277).                                                      *)
RemovesWhatItListed ==
    /\ \A n \in late : n \in there /\ (Parent[n] # None => Parent[n] \in there)
    /\ outcome = "ok" /\ op = "delete" => \A n \in there \ touched : ~Within(n, target)

===============================================================================
