----------------------------- MODULE TransfersProofs -----------------------------
(***************************************************************************)
(* Proofs about transfers and removals of whole trees: for every tree, any *)
(* number of operations, and whatever others do to the tree meanwhile.     *)
(*                                                                         *)
(* What is still to be done is on the stack of the recursion: each part of *)
(* the invariant says of an entry that the work on it is over, or that it  *)
(* is on the stack, or in something that is.                               *)
(***************************************************************************)
EXTENDS Transfers, FiniteSetTheorems, TLAPS

-------------------------------------------------------------------------------
(* Invariants.                                                             *)

\* What is there is in directories that are there.
TreeInv == \A n \in there : Parent[n] # None => Parent[n] \in there

Ahead(n) == \E i \in DOMAIN stack : n \in stack[i].left

OnStack(n) == \E i \in DOMAIN stack : stack[i].dir = n

PhaseInv ==
    /\ phase = "idle" => stack = <<>> /\ current = None
    /\ phase # "idle" => stack # <<>> /\ target \in Node /\ outcome = "none"
    /\ opened => current # None

\* The levels of the recursion: the selected entry, then one directory in
\* another, each with some of its entries, but not with the one gone into.
StackInv ==
    /\ stack # <<>> => stack[1].dir = None /\ stack[1].left \subseteq {target}
    /\ \A i \in 2 .. Len(stack) :
        /\ stack[i].dir \in Node /\ Kind[stack[i].dir] = "dir"
        /\ stack[i].dir \notin stack[i - 1].left
        /\ \A n \in stack[i].left : Parent[n] = stack[i].dir
        /\ IF i = 2 THEN stack[i].dir = target ELSE Parent[stack[i].dir] = stack[i - 1].dir

\* n is to be visited, or is in what is.
Due(n) == \E m \in Node : Ahead(m) /\ Within(n, m)

\* The operation has been reported as done, or will be unless it is cancelled.
Succeeds == phase = "done" \/ outcome = "ok"

Wanted(n) == n \in there \ touched /\ Within(n, target) /\ ~(Kind[n] = "link" /\ n # target)

CopyInv ==
    op # "delete" => \A n \in Node :
        Wanted(n) =>
            /\ phase = "run" => copied[n] \in {"dir", "whole"} \/ n = current \/ Due(n)
            /\ Succeeds => copied[n] \in {"dir", "whole"}

RemovalInv ==
    op = "delete" => \A n \in there \ touched :
        Within(n, target) =>
            /\ phase = "run" => Due(n) \/ OnStack(n)
            /\ ~Succeeds

\* What others add to a directory already listed is ahead of nobody, and its
\* directory is not left until it is gone.
LateInv ==
    /\ \A n \in late : n \in there /\ Kind[n] # "dir"
    /\ op = "delete" /\ phase = "run" => \A n \in late :
        ~Ahead(n) /\ OnStack(Parent[n])

\* One selected file is visited once, in one directory nothing after Cancel.
CancelInv ==
    /\ after # {} => cancelled /\ \E n \in Node : after = {n}
    /\ phase = "run" /\ after # {} => current = None \/ opened
    /\ phase = "run" /\ Kind[target] # "dir" =>
        Len(stack) = 1 /\ (current # None \/ after # {} => stack[1].left = {})

TransfersInv ==
    TypeOK /\ TreeInv /\ PhaseInv /\ StackInv /\ CopyInv /\ RemovalInv /\ LateInv /\ CancelInv

-------------------------------------------------------------------------------
(* Trees.                                                                  *)

(* Everything is in itself.                                                *)
LEMMA WithinSelf == ASSUME NEW n \in Node PROVE Within(n, n)
  BY DEF Within

(* What is in something is in its directory.                               *)
LEMMA WithinUp ==
    ASSUME NEW n \in Node, NEW m \in Node, Within(n, m), Parent[m] # None
    PROVE  Within(n, Parent[m])
  BY TransferAssumption DEF Within

(* What is in a directory, other than itself, is in one of its entries.    *)
LEMMA WithinDown ==
    ASSUME NEW n \in Node, NEW t \in Node, Within(n, t), n # t
    PROVE  \E m \in Node : Parent[m] = t /\ Within(n, m)
  <1> SUFFICES ASSUME \A m \in Node : Parent[m] = t => ~Within(n, m)
               PROVE  FALSE
    OBVIOUS
  <1> DEFINE S == {m \in Node : Within(n, m) /\ m # t}
  <1>1. n \in S
    BY WithinSelf
  <1>2. ASSUME NEW m \in S
        PROVE  Parent[m] \in S \cup {None}
    <2>1. CASE Parent[m] # None
      BY <2>1, WithinUp, TransferAssumption
    <2> QED
      BY <2>1
  <1>3. S \in SUBSET Node /\ t \notin S
    OBVIOUS
  <1> HIDE DEF S
  <1> QED
    BY <1>1, <1>2, <1>3 DEF Within

(* Nothing but itself is in a file.                                        *)
LEMMA WithinFile ==
    ASSUME NEW n \in Node, NEW t \in Node, Kind[t] # "dir", Within(n, t)
    PROVE  n = t
  BY WithinDown, TransferAssumption

(* What something that is there is in, is there too.                       *)
LEMMA WithinThere ==
    ASSUME TypeOK, TreeInv, NEW n \in there, NEW m \in Node, Within(n, m)
    PROVE  m \in there
  <1>1. there \in SUBSET Node /\ \A k \in there : Parent[k] \in there \cup {None}
    BY TransferAssumption DEF TypeOK, TreeInv
  <1> QED
    BY <1>1 DEF Within

-------------------------------------------------------------------------------
(* The stack.                                                              *)

Level == [dir : Node \cup {None}, left : SUBSET Node]

(* Its levels, and what is below the last one.                             *)
LEMMA StackParts ==
    ASSUME TypeOK, stack # <<>>
    PROVE  /\ stack \in Seq(Level) /\ Len(stack) \in Nat \ {0} /\ Top \in Level
           /\ Top = stack[Len(stack)]
           /\ Rest \in Seq(Level) /\ Len(Rest) = Len(stack) - 1
           /\ \A i \in 1 .. Len(Rest) : Rest[i] = stack[i]
  <1>1. stack \in Seq(Level) /\ Len(stack) \in Nat \ {0}
    BY DEF TypeOK, Level
  <1>2. Top = stack[Len(stack)] /\ Top \in Level
    BY <1>1 DEF Top
  <1>3. /\ Rest \in Seq(Level) /\ Len(Rest) = Len(stack) - 1
        /\ \A i \in 1 .. Len(Rest) : Rest[i] = stack[i]
    <2> DEFINE n == Len(stack) - 1
    <2>1. n \in Nat /\ n <= Len(stack) /\ Rest = SubSeq(stack, 1, n)
      BY <1>1 DEF Rest
    <2> HIDE DEF n
    <2>2. /\ SubSeq(stack, 1, n) \in Seq(Level) /\ Len(SubSeq(stack, 1, n)) = n
          /\ \A i \in 1 .. n : SubSeq(stack, 1, n)[i] = stack[i]
      BY <1>1, <2>1
    <2> QED
      BY <2>1, <2>2 DEF n
  <1> QED
    BY <1>1, <1>2, <1>3

(* Taking an entry off the last level changes nothing else.                *)
LEMMA WithoutLevels ==
    ASSUME TypeOK, stack # <<>>, NEW n
    PROVE  /\ Without(n) \in Seq(Level) /\ Len(Without(n)) = Len(stack)
           /\ \A i \in 1 .. Len(stack) :
                /\ Without(n)[i].dir = stack[i].dir
                /\ Without(n)[i].left =
                     IF i = Len(stack) THEN stack[i].left \ {n} ELSE stack[i].left
  <1> DEFINE t == [Top EXCEPT !.left = @ \ {n}]
  <1>1. t \in Level /\ t.dir = Top.dir /\ t.left = Top.left \ {n}
    BY StackParts DEF Level
  <1>2. Without(n) = Append(Rest, t)
    BY DEF Without
  <1> HIDE DEF t
  <1>3. /\ Append(Rest, t) \in Seq(Level) /\ Len(Append(Rest, t)) = Len(stack)
        /\ \A i \in 1 .. Len(stack) :
              Append(Rest, t)[i] = IF i = Len(stack) THEN t ELSE Rest[i]
    BY <1>1, StackParts
  <1>4. ASSUME NEW i \in 1 .. Len(stack)
        PROVE  /\ Append(Rest, t)[i].dir = stack[i].dir
               /\ Append(Rest, t)[i].left =
                    IF i = Len(stack) THEN stack[i].left \ {n} ELSE stack[i].left
    <2>1. CASE i = Len(stack)
      BY <1>1, <1>3, <2>1, StackParts
    <2>2. CASE i # Len(stack)
      <3>1. i \in 1 .. Len(Rest)
        BY <2>2, StackParts
      <3>2. Append(Rest, t)[i] = stack[i]
        BY <1>3, <2>2, <3>1, StackParts
      <3> QED
        BY <2>2, <3>2
    <2> QED
      BY <2>1, <2>2
  <1> QED
    BY <1>2, <1>3, <1>4

(* The directories on the stack are in one another, so none of them is in  *)
(* the last of any part of them.                                           *)
LEMMA StackChain ==
    ASSUME TypeOK, StackInv, NEW i \in 2 .. Len(stack), NEW k \in i .. Len(stack)
    PROVE  Parent[stack[i].dir] # stack[k].dir
  <1> SUFFICES ASSUME Parent[stack[i].dir] = stack[k].dir
               PROVE  FALSE
    OBVIOUS
  <1>1. stack \in Seq(Level) /\ Len(stack) \in Nat
    BY DEF TypeOK, Level
  <1> DEFINE S == {stack[j].dir : j \in i .. k}
  <1>2. S \in SUBSET Node /\ S # {}
    BY <1>1 DEF StackInv
  <1>3. ASSUME NEW j \in i .. k
        PROVE  Parent[stack[j].dir] \in S
    <2>1. CASE j = i
      BY <2>1, <1>1
    <2>2. CASE j # i
      <3>1. j - 1 \in i .. k /\ j \in 2 .. Len(stack) /\ j # 2
        BY <1>1, <2>2
      <3> QED
        BY <3>1 DEF StackInv
    <2> QED
      BY <2>1, <2>2
  <1>4. \A n \in S : Parent[n] \in S
    BY <1>3
  <1> HIDE DEF S
  <1> QED
    BY <1>2, <1>4, TransferAssumption

(* No directory is on the stack twice.                                     *)
LEMMA StackDistinct ==
    ASSUME TypeOK, StackInv, NEW i \in DOMAIN stack, NEW k \in DOMAIN stack,
           stack[i].dir = stack[k].dir
    PROVE  i = k
  <1>1. stack \in Seq(Level) /\ Len(stack) \in Nat /\ DOMAIN stack = 1 .. Len(stack)
    BY DEF TypeOK, Level
  <1>2. ASSUME NEW a \in DOMAIN stack, NEW b \in DOMAIN stack, a < b, stack[a].dir = stack[b].dir
        PROVE  FALSE
    <2>1. CASE a = 1
      BY <1>1, <1>2, <2>1, TransferAssumption DEF StackInv
    <2>2. CASE a # 1
      <3>1. a + 1 \in 2 .. Len(stack) /\ b \in a + 1 .. Len(stack) /\ a + 1 # 2
        BY <1>1, <1>2, <2>2
      <3>2. (a + 1) - 1 = a
        BY <1>1
      <3>3. Parent[stack[a + 1].dir] = stack[a].dir
        BY <3>1, <3>2 DEF StackInv
      <3> QED
        BY <1>2, <3>1, <3>3, StackChain
    <2> QED
      BY <2>1, <2>2
  <1> QED
    BY <1>1, <1>2

(* What has been gone into is not ahead.                                   *)
LEMMA StackNotAhead ==
    ASSUME TypeOK, StackInv, NEW i \in DOMAIN stack, stack[i].dir # None
    PROVE  ~Ahead(stack[i].dir)
  <1>1. stack \in Seq(Level) /\ Len(stack) \in Nat /\ DOMAIN stack = 1 .. Len(stack)
    BY DEF TypeOK, Level
  <1>2. i \in 2 .. Len(stack) /\ stack # <<>>
    BY <1>1 DEF StackInv
  <1> SUFFICES ASSUME NEW j \in DOMAIN stack, stack[i].dir \in stack[j].left
               PROVE  FALSE
    BY DEF Ahead
  <1>3. CASE j = 1
    <2>1. stack[i].dir = target /\ 2 \in DOMAIN stack /\ stack[2].dir = target
      BY <1>1, <1>2, <1>3 DEF StackInv
    <2>2. i = 2
      BY <2>1, StackDistinct
    <2> QED
      BY <1>1, <1>2, <1>3, <2>2 DEF StackInv
  <1>4. CASE j # 1
    <2>1. j \in 2 .. Len(stack) /\ Parent[stack[i].dir] = stack[j].dir
      BY <1>1, <1>4 DEF StackInv
    <2>2. j < i
      BY <1>1, <1>2, <2>1, StackChain
    <2>3. i # 2 /\ i - 1 \in DOMAIN stack /\ stack[i - 1].dir = stack[j].dir
      BY <1>1, <1>2, <2>1, <2>2 DEF StackInv
    <2>4. j = i - 1
      BY <2>3, StackDistinct
    <2> QED
      BY <1>2, <2>4 DEF StackInv
  <1> QED
    BY <1>3, <1>4

(* An entry that the level of its directory does not have is not ahead.    *)
LEMMA StackMissed ==
    ASSUME TypeOK, StackInv, NEW n \in Node, NEW i \in DOMAIN stack,
           stack[i].dir = Parent[n], n \notin stack[i].left
    PROVE  ~Ahead(n)
  <1>1. stack \in Seq(Level) /\ Len(stack) \in Nat /\ DOMAIN stack = 1 .. Len(stack)
    BY DEF TypeOK, Level
  <1> SUFFICES ASSUME NEW j \in DOMAIN stack, n \in stack[j].left
               PROVE  FALSE
    BY DEF Ahead
  <1>2. CASE j = 1
    <2>1. stack # <<>> /\ n = target /\ i \in 2 .. Len(stack)
      BY <1>1, <1>2 DEF StackInv
    <2>2. 2 \in 2 .. Len(stack) /\ i \in 2 .. Len(stack) /\ stack[2].dir = target
      BY <1>1, <2>1 DEF StackInv
    <2> QED
      BY <2>1, <2>2, StackChain
  <1>3. CASE j # 1
    <2>1. stack[j].dir = Parent[n]
      BY <1>1, <1>3 DEF StackInv
    <2> QED
      BY <2>1, StackDistinct
  <1> QED
    BY <1>2, <1>3

-------------------------------------------------------------------------------
(* Types, and what is there.                                               *)

OtherTypes ==
    /\ op \in {"upload", "download", "delete"}
    /\ there \subseteq Node
    /\ copied \in [Node -> {"absent", "dir", "part", "whole"}]
    /\ current \in Node \cup {None} /\ target \in Node \cup {None}
    /\ opened \in BOOLEAN /\ cancelled \in BOOLEAN
    /\ phase \in {"idle", "run", "error", "done"}
    /\ outcome \in {"none", "cancelled", "error", "ok"}
    /\ ops \in 0 .. MaxOps /\ meddling \in 0 .. MaxMeddling
    /\ touched \subseteq Node /\ late \subseteq Node /\ after \subseteq Node

(* The stack has its type, and so has everything else.                     *)
LEMMA TypeParts ==
    /\ TypeOK <=> stack \in Seq(Level) /\ OtherTypes
    /\ TypeOK' <=> stack' \in Seq(Level) /\ OtherTypes'
  BY DEF TypeOK, OtherTypes, Level

(* Every step keeps the types.                                             *)
LEMMA NextTyped ==
    ASSUME TypeOK, PhaseInv, StackInv, Next
    PROVE  TypeOK'
  <1> SUFFICES stack' \in Seq(Level) /\ OtherTypes'
    BY TypeParts
  <1>a. stack \in Seq(Level) /\ OtherTypes
    BY TypeParts
  <1>1. ASSUME NEW n \in Node, Start(n)
        PROVE  stack' \in Seq(Level) /\ OtherTypes'
    <2>1. [dir |-> None, left |-> {n}] \in Level
      BY DEF Level
    <2>2. stack' \in Seq(Level)
      BY <1>1, <2>1 DEF Start
    <2>3. MaxOps \in Nat /\ n \in Node /\ None \notin Node
      BY TransferAssumption
    <2>4. ops' \in 0 .. MaxOps
      BY <1>a, <1>1, <2>3 DEF OtherTypes, Start
    <2>5. OtherTypes'
      BY <1>a, <1>1, <2>4 DEF OtherTypes, Start, tree
    <2> QED
      BY <2>2, <2>5
  <1>2. ASSUME NEW n \in Node, VisitDir(n)
        PROVE  stack' \in Seq(Level) /\ OtherTypes'
    <2>1. [dir |-> n, left |-> ChildrenOf(n)] \in Level /\ stack # <<>>
      BY <1>a, <1>2 DEF Level, ChildrenOf, OtherTypes, VisitDir, Visits
    <2>2. stack' \in Seq(Level)
      BY <1>2, <2>1, WithoutLevels DEF VisitDir
    <2> QED
      BY <1>a, <1>2, <2>2 DEF OtherTypes, VisitDir, meta, hist
  <1>3. ASSUME NEW n \in Node, VisitFile(n) \/ RemoveFile(n)
        PROVE  stack' \in Seq(Level) /\ OtherTypes'
    <2>1. stack' \in Seq(Level)
      BY <1>3, WithoutLevels DEF VisitFile, RemoveFile, Visits
    <2> QED
      BY <1>a, <1>3, <2>1 DEF OtherTypes, VisitFile, RemoveFile, meta, tree, hist
  <1>4. ASSUME NEW n \in Node, OtherAdds(n) \/ OtherRemoves(n)
        PROVE  stack' \in Seq(Level) /\ OtherTypes'
    BY <1>a, <1>4, TransferAssumption DEF OtherTypes, OtherAdds, OtherRemoves, meta, walk
  <1>5. CASE OpenFile
    BY <1>a, <1>5 DEF OtherTypes, OpenFile, meta
  <1>6. CASE FileCopied
    BY <1>a, <1>6 DEF OtherTypes, PhaseInv, FileCopied, meta, hist
  <1>7. CASE LeaveDir \/ RemoveDir
    <2>1. stack # <<>> /\ stack' = Rest
      BY <1>a, <1>7 DEF LeaveDir, RemoveDir, LevelDone
    <2>2. stack' \in Seq(Level)
      BY <2>1, StackParts
    <2> QED
      BY <1>a, <1>7, <2>2 DEF OtherTypes, LeaveDir, RemoveDir, meta, tree, hist
  <1>8. CASE RequestFails \/ StopsCancelled \/ Returns \/ Cancel
    BY <1>a, <1>8 DEF OtherTypes, RequestFails, StopsCancelled, Returns, Cancel, meta, tree,
       walk, hist
  <1>9. CASE Report
    <2>1. stack' \in Seq(Level)
      BY <1>9 DEF Report
    <2>2. OtherTypes'
      BY <1>a, <1>9 DEF OtherTypes, Report, meta, tree, hist
    <2> QED
      BY <2>1, <2>2
  <1> QED
    BY <1>1, <1>2, <1>3, <1>4, <1>5, <1>6, <1>7, <1>8, <1>9 DEF Next

(* Only files, and directories without entries, are removed, and files     *)
(* are added to directories only.                                          *)
LEMMA NextTree ==
    ASSUME TypeOK, TreeInv, StackInv, Next
    PROVE  TreeInv'
  <1>1. CASE there' = there
    BY <1>1 DEF TreeInv
  <1>2. ASSUME NEW n \in Node, RemoveFile(n) \/ OtherRemoves(n)
        PROVE  TreeInv'
    BY <1>2, TransferAssumption DEF TypeOK, TreeInv, RemoveFile, OtherRemoves
  <1>3. ASSUME NEW n \in Node, OtherAdds(n)
        PROVE  TreeInv'
    BY <1>3 DEF TreeInv, OtherAdds
  <1>4. CASE RemoveDir
    BY <1>4 DEF TreeInv, RemoveDir, ChildrenOf
  <1> QED
    BY <1>1, <1>2, <1>3, <1>4 DEF Next, Start, VisitDir, VisitFile, OpenFile, FileCopied, LeaveDir,
       RequestFails, StopsCancelled, Returns, Cancel, Report, tree

-------------------------------------------------------------------------------
(* The levels of the recursion.                                            *)

(* An entry is taken off the last level: nothing else is ahead any less.   *)
LEMMA VisitStack ==
    ASSUME TypeOK, StackInv, stack # <<>>, NEW n \in Node, stack' = Without(n)
    PROVE  /\ DOMAIN stack' = DOMAIN stack
           /\ \A i \in DOMAIN stack : stack'[i].dir = stack[i].dir
           /\ \A m : Ahead(m)' => Ahead(m)
           /\ \A m : Ahead(m) /\ m # n => Ahead(m)'
  <1>1. DOMAIN stack = 1 .. Len(stack) /\ DOMAIN stack' = 1 .. Len(stack)
    BY WithoutLevels, StackParts
  <1>2. \A i \in DOMAIN stack :
            /\ stack'[i].dir = stack[i].dir
            /\ stack'[i].left \in {stack[i].left, stack[i].left \ {n}}
    BY <1>1, WithoutLevels
  <1> QED
    BY <1>1, <1>2 DEF Ahead

(* A level without entries is left.                                        *)
LEMMA LeaveStack ==
    ASSUME TypeOK, StackInv, stack # <<>>, Top.left = {}, stack' = Rest
    PROVE  /\ DOMAIN stack' = DOMAIN stack \ {Len(stack)}
           /\ \A i \in DOMAIN stack' : stack'[i] = stack[i]
           /\ \A m : Ahead(m)' <=> Ahead(m)
  <1>1. /\ DOMAIN stack = 1 .. Len(stack) /\ DOMAIN stack' = 1 .. Len(stack')
        /\ Len(stack) \in Nat \ {0} /\ Len(stack') = Len(stack) - 1
        /\ stack[Len(stack)].left = {}
    BY StackParts
  <1>2. DOMAIN stack' = DOMAIN stack \ {Len(stack)}
    BY <1>1
  <1>3. \A i \in DOMAIN stack' : stack'[i] = stack[i]
    BY <1>1, StackParts
  <1> QED
    BY <1>1, <1>2, <1>3 DEF Ahead

(* A directory is gone into: its entries are ahead instead of it.          *)
LEMMA EnterStack ==
    ASSUME TypeOK, StackInv, stack # <<>>, NEW n \in Node, NEW S \in SUBSET Node,
           stack' = Append(Without(n), [dir |-> n, left |-> S])
    PROVE  /\ Len(stack) \in Nat \ {0} /\ Len(stack') = Len(stack) + 1
           /\ DOMAIN stack = 1 .. Len(stack) /\ DOMAIN stack' = 1 .. Len(stack')
           /\ stack'[Len(stack')].dir = n /\ stack'[Len(stack')].left = S
           /\ \A i \in DOMAIN stack :
                /\ i \in DOMAIN stack' /\ stack'[i].dir = stack[i].dir
                /\ stack'[i].left = IF i = Len(stack) THEN stack[i].left \ {n} ELSE stack[i].left
           /\ \A m : Ahead(m)' => Ahead(m) \/ m \in S
           /\ \A m : (Ahead(m) /\ m # n) \/ m \in S => Ahead(m)'
  <1> DEFINE w == Without(n)
             t == [dir |-> n, left |-> S]
  <1>1. t \in Level
    BY DEF Level
  <1>2. /\ w \in Seq(Level) /\ Len(w) = Len(stack) /\ Len(stack) \in Nat \ {0}
        /\ \A i \in 1 .. Len(stack) :
              /\ w[i].dir = stack[i].dir
              /\ w[i].left = IF i = Len(stack) THEN stack[i].left \ {n} ELSE stack[i].left
    BY WithoutLevels, StackParts
  <1>3. t.dir = n /\ t.left = S /\ stack' = Append(w, t)
    OBVIOUS
  <1>4. DOMAIN stack = 1 .. Len(stack)
    BY StackParts
  <1> HIDE DEF w, t
  <1>5. /\ DOMAIN stack' = 1 .. Len(stack') /\ Len(stack') = Len(stack) + 1
        /\ stack'[Len(stack) + 1] = t
        /\ \A i \in 1 .. Len(stack) : stack'[i] = w[i]
    BY <1>1, <1>2, <1>3
  <1>6. \A i \in DOMAIN stack :
            /\ i \in DOMAIN stack' /\ stack'[i].dir = stack[i].dir
            /\ stack'[i].left = IF i = Len(stack) THEN stack[i].left \ {n} ELSE stack[i].left
    <2>1. ASSUME NEW i \in 1 .. Len(stack)
          PROVE  i \in DOMAIN stack' /\ stack'[i] = w[i]
      BY <1>2, <1>5
    <2> QED
      BY <1>2, <1>4, <2>1
  <1>7. \A i \in DOMAIN stack' : i \in DOMAIN stack \/ i = Len(stack) + 1
    BY <1>2, <1>4, <1>5
  <1>8. /\ \A m : Ahead(m)' => Ahead(m) \/ m \in S
        /\ \A m : (Ahead(m) /\ m # n) \/ m \in S => Ahead(m)'
    <2>1. Len(stack) + 1 \in DOMAIN stack'
      BY <1>2, <1>5
    <2> QED
      BY <1>3, <1>5, <1>6, <1>7, <2>1 DEF Ahead
  <1> QED
    BY <1>2, <1>3, <1>4, <1>5, <1>6, <1>8

(* What goes on, and how far it is.                                        *)
LEMMA NextPhase ==
    ASSUME TypeOK, PhaseInv, Next
    PROVE  PhaseInv'
  <1>a. /\ phase = "idle" => stack = <<>> /\ current = None
        /\ phase # "idle" => stack # <<>> /\ target \in Node /\ outcome = "none"
        /\ opened => current # None
    BY DEF PhaseInv
  <1>1. ASSUME NEW n \in Node, Start(n)
        PROVE  PhaseInv'
    BY <1>a, <1>1 DEF PhaseInv, Start
  <1>2. ASSUME NEW n \in Node, VisitDir(n) \/ VisitFile(n) \/ RemoveFile(n)
        PROVE  PhaseInv'
    <2>1. phase = "run" /\ phase' = phase /\ target' = target /\ outcome' = outcome
      BY <1>2 DEF VisitDir, VisitFile, RemoveFile, Visits, meta
    <2>2. opened => ~VisitFile(n) /\ current' = current
      BY <1>a, <1>2 DEF VisitDir, VisitFile, RemoveFile, Visits
    <2>3. opened' = opened
      BY <1>2 DEF VisitDir, VisitFile, RemoveFile
    <2>4. stack' # <<>>
      <3>1. stack # <<>>
        BY <1>a, <2>1
      <3>2. Without(n) \in Seq(Level) /\ Len(Without(n)) # 0
        BY <3>1, WithoutLevels, StackParts
      <3>3. CASE stack' = Without(n)
        BY <3>2, <3>3
      <3>4. CASE VisitDir(n)
        <4>1. [dir |-> n, left |-> ChildrenOf(n)] \in Level
          BY <1>2 DEF Level, ChildrenOf, TypeOK
        <4> QED
          BY <3>2, <3>4, <4>1 DEF VisitDir
      <3> QED
        BY <1>2, <3>3, <3>4 DEF VisitFile, RemoveFile
    <2> QED
      BY <1>a, <2>1, <2>2, <2>3, <2>4 DEF PhaseInv
  <1>3. CASE LeaveDir \/ RemoveDir
    <2>1. LevelDone /\ stack' = Rest
      BY <1>3 DEF LeaveDir, RemoveDir
    <2>2. stack' # <<>>
      BY <1>a, <2>1, StackParts DEF LevelDone
    <2> QED
      BY <1>a, <1>3, <2>2 DEF PhaseInv, LeaveDir, RemoveDir, LevelDone, meta
  <1>4. CASE OpenFile \/ FileCopied
    BY <1>a, <1>4 DEF PhaseInv, OpenFile, FileCopied, meta
  <1>5. CASE \/ \E n \in Node : OtherAdds(n) \/ OtherRemoves(n)
             \/ RequestFails \/ StopsCancelled \/ Returns \/ Cancel \/ Report
    BY <1>a, <1>5 DEF PhaseInv, OtherAdds, OtherRemoves, RequestFails, StopsCancelled, Returns,
       Cancel, Report, meta, walk
  <1> QED
    BY <1>1, <1>2, <1>3, <1>4, <1>5 DEF Next

(* The levels stay one in another, and what is gone into is not ahead.     *)
LEMMA NextStack ==
    ASSUME TypeOK, PhaseInv, StackInv, Next
    PROVE  StackInv'
  <1>a. stack # <<>> => Len(stack) \in Nat \ {0} /\ DOMAIN stack = 1 .. Len(stack)
    BY StackParts
  <1>1. ASSUME NEW n \in Node, Start(n)
        PROVE  StackInv'
    <2> DEFINE t == [dir |-> None, left |-> {n}]
    <2>1. stack' = <<t>> /\ target' = n /\ t.dir = None /\ t.left = {n}
      BY <1>1 DEF Start
    <2> HIDE DEF t
    <2>2. Len(stack') = 1 /\ stack'[1] = t
      BY <2>1
    <2> QED
      BY <2>1, <2>2 DEF StackInv
  <1>2. ASSUME NEW n \in Node, VisitDir(n)
        PROVE  StackInv'
    <2>1. /\ stack # <<>> /\ n \in stack[Len(stack)].left /\ Kind[n] = "dir" /\ target' = target
          /\ stack' = Append(Without(n), [dir |-> n, left |-> ChildrenOf(n)])
          /\ ChildrenOf(n) \in SUBSET Node
      BY <1>2 DEF VisitDir, Visits, Top, meta, ChildrenOf, TypeOK
    <2>2. /\ Len(stack') = Len(stack) + 1
          /\ stack'[Len(stack')].dir = n /\ stack'[Len(stack')].left = ChildrenOf(n)
          /\ \A i \in 1 .. Len(stack) :
                /\ stack'[i].dir = stack[i].dir
                /\ stack'[i].left =
                     IF i = Len(stack) THEN stack[i].left \ {n} ELSE stack[i].left
      BY <1>a, <2>1, EnterStack
    <2>0. Len(stack) \in Nat \ {0} /\ Len(stack') = Len(stack) + 1
      BY <1>a, <2>1, <2>2
    <2>3. stack'[1].dir = None /\ stack'[1].left \subseteq {target'}
      <3>1. 1 \in 1 .. Len(stack) /\ stack[1].dir = None /\ stack[1].left \subseteq {target}
        BY <1>a, <2>1 DEF StackInv
      <3> QED
        BY <2>1, <2>2, <3>1
    <2>4. ASSUME NEW i \in 2 .. Len(stack')
          PROVE  /\ stack'[i].dir \in Node /\ Kind[stack'[i].dir] = "dir"
                 /\ stack'[i].dir \notin stack'[i - 1].left
                 /\ \A m \in stack'[i].left : Parent[m] = stack'[i].dir
                 /\ IF i = 2 THEN stack'[i].dir = target'
                             ELSE Parent[stack'[i].dir] = stack'[i - 1].dir
      <3>1. CASE i = Len(stack')
        <4>1. i - 1 = Len(stack) /\ i - 1 \in 1 .. Len(stack)
          BY <1>a, <2>1, <2>2, <3>1
        <4>2. stack'[i - 1].left = stack[i - 1].left \ {n} /\ stack'[i - 1].dir = stack[i - 1].dir
          BY <2>2, <4>1
        <4>3. IF i = 2 THEN n = target ELSE Parent[n] = stack[i - 1].dir
          <5>1. CASE i = 2
            <6>1. Len(stack) = 1
              BY <4>1, <5>1
            <6>2. n \in stack[1].left
              BY <2>1, <6>1
            <6> QED
              BY <2>1, <5>1, <6>2 DEF StackInv
          <5>2. CASE i # 2
            <6>1. i - 1 \in 2 .. Len(stack) /\ n \in stack[i - 1].left
              BY <2>1, <4>1, <5>2
            <6> QED
              BY <5>2, <6>1 DEF StackInv
          <5> QED
            BY <5>1, <5>2
        <4>4. stack'[i].dir = n /\ stack'[i].left = ChildrenOf(n)
          BY <2>2, <3>1
        <4>5. \A m \in ChildrenOf(n) : Parent[m] = n
          BY DEF ChildrenOf
        <4> QED
          BY <2>1, <4>2, <4>3, <4>4, <4>5
      <3>2. CASE i # Len(stack')
        <4>1. i \in 2 .. Len(stack) /\ i \in 1 .. Len(stack) /\ i - 1 \in 1 .. Len(stack)
          BY <2>0, <3>2
        <4>2. /\ stack'[i].dir = stack[i].dir /\ stack'[i].left \subseteq stack[i].left
              /\ stack'[i - 1].dir = stack[i - 1].dir
              /\ stack'[i - 1].left \subseteq stack[i - 1].left
          BY <2>2, <4>1
        <4>3. /\ stack[i].dir \in Node /\ Kind[stack[i].dir] = "dir"
              /\ stack[i].dir \notin stack[i - 1].left
              /\ \A m \in stack[i].left : Parent[m] = stack[i].dir
              /\ IF i = 2 THEN stack[i].dir = target ELSE Parent[stack[i].dir] = stack[i - 1].dir
          BY <4>1 DEF StackInv
        <4> QED
          BY <2>1, <4>2, <4>3
      <3> QED
        BY <3>1, <3>2
    <2> QED
      BY <2>3, <2>4 DEF StackInv
  <1>3. ASSUME NEW n \in Node, VisitFile(n) \/ RemoveFile(n)
        PROVE  StackInv'
    <2>1. stack # <<>> /\ stack' = Without(n) /\ target' = target
      BY <1>3 DEF VisitFile, RemoveFile, Visits, meta
    <2>2. /\ Len(stack') = Len(stack)
          /\ \A i \in 1 .. Len(stack) :
                /\ stack'[i].dir = stack[i].dir /\ stack'[i].left \subseteq stack[i].left
      BY <2>1, WithoutLevels
    <2>3. \A i \in 2 .. Len(stack) : i \in 1 .. Len(stack) /\ i - 1 \in 1 .. Len(stack)
      BY <1>a, <2>1
    <2> QED
      BY <1>a, <2>1, <2>2, <2>3 DEF StackInv
  <1>4. CASE LeaveDir \/ RemoveDir
    <2>1. stack # <<>> /\ stack' = Rest /\ target' = target /\ Len(stack) > 1
      BY <1>4 DEF LeaveDir, RemoveDir, LevelDone, meta, TypeOK
    <2>2. Len(stack') = Len(stack) - 1 /\ \A i \in 1 .. Len(stack') : stack'[i] = stack[i]
      BY <2>1, StackParts
    <2>3. /\ 1 \in 1 .. Len(stack')
          /\ \A i \in 2 .. Len(stack') :
                i \in 2 .. Len(stack) /\ i \in 1 .. Len(stack') /\ i - 1 \in 1 .. Len(stack')
      BY <1>a, <2>1, <2>2
    <2> QED
      BY <2>1, <2>2, <2>3 DEF StackInv
  <1>5. CASE Report
    <2>1. stack' = <<>> /\ Len(stack') = 0
      BY <1>5 DEF Report
    <2> QED
      BY <2>1 DEF StackInv
  <1>6. CASE UNCHANGED <<stack, target>>
    BY <1>6 DEF StackInv
  <1> QED
    BY <1>1, <1>2, <1>3, <1>4, <1>5, <1>6 DEF Next, OpenFile, FileCopied, RequestFails,
       StopsCancelled, Returns, Cancel, OtherAdds, OtherRemoves, meta, walk

-------------------------------------------------------------------------------
(* What is due.                                                            *)

(* When a directory is gone into, what is due in it stays due: it is in    *)
(* one of the entries that were there to be listed.                        *)
LEMMA EnterDue ==
    ASSUME TypeOK, TreeInv, StackInv, NEW n \in Node, VisitDir(n),
           NEW x \in there, Due(x), x # n
    PROVE  Due(x)'
  <1>1. x \in Node /\ ChildrenOf(n) \in SUBSET Node
    BY DEF TypeOK, ChildrenOf
  <1>2. stack # <<>> /\ stack' = Append(Without(n), [dir |-> n, left |-> ChildrenOf(n)])
    BY DEF VisitDir, Visits
  <1>3. \A m : (Ahead(m) /\ m # n) \/ m \in ChildrenOf(n) => Ahead(m)'
    BY <1>1, <1>2, EnterStack
  <1>4. PICK m \in Node : Ahead(m) /\ Within(x, m)
    BY DEF Due
  <1>5. CASE m = n
    <2>1. PICK c \in Node : Parent[c] = n /\ Within(x, c)
      BY <1>1, <1>4, <1>5, WithinDown
    <2>2. c \in ChildrenOf(n)
      BY <2>1, WithinThere DEF ChildrenOf
    <2> QED
      BY <1>3, <2>1, <2>2 DEF Due, Within
  <1> QED
    BY <1>3, <1>4, <1>5 DEF Due, Within

(* When a file is visited, everything else that is due stays due.          *)
LEMMA VisitDue ==
    ASSUME TypeOK, StackInv, stack # <<>>, NEW n \in Node, Kind[n] # "dir", stack' = Without(n),
           NEW x \in Node, Due(x), x # n
    PROVE  Due(x)'
  <1>1. PICK m \in Node : Ahead(m) /\ Within(x, m)
    BY DEF Due
  <1>2. m # n
    BY <1>1, WithinFile
  <1> QED
    BY <1>1, <1>2, VisitStack DEF Due, Within

(* When a level without entries is left, nothing ceases to be due.         *)
LEMMA LeaveDue ==
    ASSUME TypeOK, StackInv, stack # <<>>, Top.left = {}, stack' = Rest, NEW x, Due(x)
    PROVE  Due(x)'
  BY LeaveStack DEF Due, Within

(* All there is in the selected entry is due when an operation starts.     *)
LEMMA StartDue ==
    ASSUME NEW n \in Node, Start(n), NEW x, Within(x, n)
    PROVE  Due(x)'
  <1> DEFINE t == [dir |-> None, left |-> {n}]
  <1>1. stack' = <<t>> /\ t.left = {n}
    BY DEF Start
  <1> HIDE DEF t
  <1>2. 1 \in DOMAIN stack' /\ n \in stack'[1].left
    BY <1>1
  <1> QED
    BY <1>2 DEF Due, Ahead, Within

(* Nothing is due when an operation returns.                               *)
LEMMA NoneDue ==
    ASSUME TypeOK, StackInv, Returns, NEW x
    PROVE  ~Due(x) /\ \A i \in DOMAIN stack : stack[i].dir = None
  <1>0. stack \in Seq(Level)
    BY DEF TypeOK, Level
  <1>1. stack # <<>> /\ Len(stack) = 1 /\ Top.left = {}
    BY <1>0 DEF Returns
  <1>2. DOMAIN stack = {1} /\ stack[1].left = {} /\ stack[1].dir = None
    BY <1>1, StackParts DEF StackInv
  <1> QED
    BY <1>2 DEF Due, Ahead

-------------------------------------------------------------------------------
(* Copies.                                                                 *)

Whole(n) == copied[n] \in {"dir", "whole"}

(* What is to be copied is copied, or in the making, or due.               *)
LEMMA NextCopy ==
    ASSUME TypeOK, TreeInv, PhaseInv, StackInv, CopyInv, Next
    PROVE  CopyInv'
  <1>a. op' = op
    BY DEF Next, Start, VisitDir, VisitFile, RemoveFile, OtherAdds, OtherRemoves, OpenFile,
       FileCopied, LeaveDir, RemoveDir, RequestFails, StopsCancelled, Returns, Cancel, Report,
       meta
  <1> SUFFICES ASSUME op # "delete", NEW x \in Node, Wanted(x)'
               PROVE  /\ phase' = "run" => Whole(x)' \/ x = current' \/ Due(x)'
                      /\ Succeeds' => Whole(x)'
    BY <1>a DEF CopyInv, Whole
  <1>b. Wanted(x) =>
            /\ phase = "run" => Whole(x) \/ x = current \/ Due(x)
            /\ Succeeds => Whole(x)
    BY DEF CopyInv, Whole
  <1>c. copied \in [Node -> {"absent", "dir", "part", "whole"}] /\ None \notin Node
    BY TransferAssumption DEF TypeOK
  <1>1. ASSUME NEW n \in Node, Start(n)
        PROVE  Due(x)' /\ ~Succeeds'
    BY <1>1, StartDue DEF Start, Wanted, Within, Succeeds
  <1>2. ASSUME NEW n \in Node, VisitDir(n)
        PROVE  (Whole(x)' \/ x = current' \/ Due(x)') /\ ~Succeeds'
    <2>1. Wanted(x) /\ phase = "run" /\ current = None
      BY <1>2 DEF VisitDir, Visits, Wanted, Within, meta, hist
    <2>2. x = n \/ Whole(x) => Whole(x)'
      BY <1>2, <1>c DEF VisitDir, Whole
    <2>3. Due(x) /\ x # n => Due(x)'
      BY <1>2, <2>1, EnterDue DEF Wanted
    <2>4. ~Succeeds'
      BY <1>2, <2>1 DEF VisitDir, Succeeds, PhaseInv, meta
    <2> QED
      BY <1>b, <1>c, <2>1, <2>2, <2>3, <2>4
  <1>3. ASSUME NEW n \in Node, VisitFile(n)
        PROVE  (Whole(x)' \/ x = current' \/ Due(x)') /\ ~Succeeds'
    <2>1. Wanted(x) /\ phase = "run" /\ current = None /\ stack # <<>> /\ stack' = Without(n)
      BY <1>3 DEF VisitFile, Visits, Wanted, Within, meta, tree, hist
    <2>2. Whole(x) => Whole(x)'
      BY <1>3 DEF VisitFile, Whole, tree
    <2>3. x = n => x = current'
      BY <1>3, <2>1 DEF VisitFile, PassedOver, Wanted
    <2>4. Due(x) /\ x # n => Due(x)'
      BY <1>3, <2>1, VisitDue DEF VisitFile
    <2>5. ~Succeeds'
      BY <1>3, <2>1 DEF VisitFile, Succeeds, PhaseInv
    <2> QED
      BY <1>b, <1>c, <2>1, <2>2, <2>3, <2>4, <2>5
  <1>4. CASE OpenFile \/ FileCopied
    <2>1. Wanted(x) /\ phase = "run" /\ ~Succeeds' /\ stack' = stack
      BY <1>4 DEF OpenFile, FileCopied, Wanted, Within, Succeeds, PhaseInv, meta, hist
    <2>2. Due(x) => Due(x)'
      BY <2>1 DEF Due, Ahead, Within
    <2>3. x # current => copied'[x] = copied[x]
      BY <1>4, <1>c DEF OpenFile, FileCopied
    <2>4. x = current => x = current' \/ Whole(x)'
      BY <1>4, <1>c DEF OpenFile, FileCopied, Whole
    <2> QED
      BY <1>b, <2>1, <2>2, <2>3, <2>4 DEF Whole
  <1>5. CASE LeaveDir
    <2>1. Wanted(x) /\ phase = "run" /\ ~Succeeds' /\ current' = current /\ copied' = copied
      BY <1>5 DEF LeaveDir, LevelDone, Wanted, Within, Succeeds, PhaseInv, meta, tree, hist
    <2>2. Due(x) => Due(x)'
      BY <1>5, LeaveDue DEF LeaveDir, LevelDone, TypeOK
    <2> QED
      BY <1>b, <2>1, <2>2 DEF Whole
  <1>6. CASE Returns
    BY <1>6, <1>b, <1>c, NoneDue DEF Returns, Wanted, Within, Whole, Succeeds, meta, tree, hist
  <1>7. CASE RequestFails \/ StopsCancelled
    BY <1>7 DEF RequestFails, StopsCancelled, Succeeds, PhaseInv, Visits, LevelDone
  <1>8. CASE Cancel \/ \E n \in Node : OtherAdds(n) \/ OtherRemoves(n)
    <2>1. Wanted(x) /\ UNCHANGED <<phase, outcome, copied, current, stack>>
      BY <1>8 DEF Cancel, OtherAdds, OtherRemoves, Wanted, Within, meta, tree, walk, hist
    <2> QED
      BY <1>b, <2>1 DEF Whole, Succeeds, Due, Ahead, Within
  <1>9. CASE Report
    BY <1>9, <1>b DEF Report, Wanted, Within, Whole, Succeeds, meta, tree, hist
  <1>10. CASE RemoveDir \/ \E n \in Node : RemoveFile(n)
    BY <1>10 DEF RemoveDir, RemoveFile
  <1> QED
    BY <1>1, <1>2, <1>3, <1>4, <1>5, <1>6, <1>7, <1>8, <1>9, <1>10 DEF Next, VisitDir, VisitFile,
       Visits

-------------------------------------------------------------------------------
(* Removals.                                                               *)

(* What is to be removed is due, or a directory that has been gone into.   *)
LEMMA NextRemoval ==
    ASSUME TypeOK, TreeInv, PhaseInv, StackInv, RemovalInv, Next
    PROVE  RemovalInv'
  <1>a. op' = op
    BY DEF Next, Start, VisitDir, VisitFile, RemoveFile, OtherAdds, OtherRemoves, OpenFile,
       FileCopied, LeaveDir, RemoveDir, RequestFails, StopsCancelled, Returns, Cancel, Report,
       meta
  <1> SUFFICES ASSUME op = "delete", NEW x \in Node, x \in there', x \notin touched',
                      Within(x, target')
               PROVE  (phase' = "run" => Due(x)' \/ OnStack(x)') /\ ~Succeeds'
    <2>1. there' \subseteq Node
      BY NextTyped DEF TypeOK
    <2> QED
      BY <1>a, <2>1 DEF RemovalInv, OnStack, Within
  <1>b. x \in there \ touched /\ Within(x, target) =>
            (phase = "run" => Due(x) \/ OnStack(x)) /\ ~Succeeds
    BY DEF RemovalInv, OnStack
  <1>c. None \notin Node
    BY TransferAssumption
  <1>1. ASSUME NEW n \in Node, Start(n)
        PROVE  Due(x)' /\ ~Succeeds'
    BY <1>1, StartDue DEF Start, Succeeds
  <1>2. ASSUME NEW n \in Node, VisitDir(n)
        PROVE  (Due(x)' \/ OnStack(x)') /\ ~Succeeds'
    <2>1. /\ x \in there \ touched /\ Within(x, target) /\ phase = "run" /\ stack # <<>>
          /\ stack' = Append(Without(n), [dir |-> n, left |-> ChildrenOf(n)])
          /\ ChildrenOf(n) \in SUBSET Node
      BY <1>2 DEF VisitDir, Visits, ChildrenOf, TypeOK, meta, hist
    <2>2. Due(x) /\ x # n => Due(x)'
      BY <1>2, <2>1, EnterDue
    <2>3. /\ DOMAIN stack' = 1 .. Len(stack') /\ Len(stack') \in Nat \ {0}
          /\ stack'[Len(stack')].dir = n
          /\ \A i \in DOMAIN stack : i \in DOMAIN stack' /\ stack'[i].dir = stack[i].dir
      <3>1. /\ Len(stack) \in Nat /\ Len(stack') = Len(stack) + 1
            /\ DOMAIN stack' = 1 .. Len(stack') /\ stack'[Len(stack')].dir = n
            /\ \A i \in DOMAIN stack : i \in DOMAIN stack' /\ stack'[i].dir = stack[i].dir
        BY <2>1, EnterStack
      <3> QED
        BY <3>1
    <2>4. OnStack(x) \/ x = n => OnStack(x)'
      BY <2>3 DEF OnStack
    <2>5. ~Succeeds'
      BY <1>2, <2>1 DEF VisitDir, Succeeds, PhaseInv, meta
    <2> QED
      BY <1>b, <2>1, <2>2, <2>4, <2>5
  <1>3. ASSUME NEW n \in Node, RemoveFile(n)
        PROVE  (Due(x)' \/ OnStack(x)') /\ ~Succeeds'
    <2>1. /\ x \in there \ touched /\ Within(x, target) /\ phase = "run" /\ stack # <<>>
          /\ stack' = Without(n) /\ x # n /\ Kind[n] # "dir"
      BY <1>3 DEF RemoveFile, Visits, meta, hist
    <2>2. Due(x) => Due(x)'
      BY <2>1, VisitDue
    <2>3. OnStack(x) => OnStack(x)'
      <3>1. DOMAIN stack' = DOMAIN stack /\ \A i \in DOMAIN stack : stack'[i].dir = stack[i].dir
        BY <2>1, VisitStack
      <3> QED
        BY <3>1 DEF OnStack
    <2>4. ~Succeeds'
      BY <1>3, <2>1 DEF RemoveFile, Succeeds, PhaseInv, meta
    <2> QED
      BY <1>b, <2>1, <2>2, <2>3, <2>4
  <1>4. CASE RemoveDir
    <2>1. /\ x \in there \ touched /\ Within(x, target) /\ phase = "run" /\ stack # <<>>
          /\ Top.left = {} /\ stack' = Rest /\ x # Top.dir
      BY <1>4 DEF RemoveDir, LevelDone, PhaseInv, meta, hist
    <2>2. Due(x) => Due(x)'
      BY <2>1, LeaveDue
    <2>3. OnStack(x) => OnStack(x)'
      <3>1. /\ DOMAIN stack' = DOMAIN stack \ {Len(stack)}
            /\ \A i \in DOMAIN stack' : stack'[i] = stack[i]
        BY <2>1, LeaveStack
      <3>2. Top = stack[Len(stack)]
        BY <2>1, StackParts
      <3> QED
        BY <2>1, <3>1, <3>2 DEF OnStack
    <2>4. ~Succeeds'
      BY <1>4, <2>1 DEF RemoveDir, LevelDone, Succeeds, PhaseInv, meta
    <2> QED
      BY <1>b, <2>1, <2>2, <2>3, <2>4
  <1>5. CASE Returns
    <2>1. x \in there \ touched /\ Within(x, target) /\ phase = "run"
      BY <1>5 DEF Returns, meta, tree, hist
    <2>2. ~Due(x) /\ ~OnStack(x)
      BY <1>5, <1>c, NoneDue DEF OnStack
    <2> QED
      BY <1>b, <2>1, <2>2
  <1>6. CASE RequestFails \/ StopsCancelled
    <2>1. phase = "run" /\ phase' = "error" /\ outcome' = outcome
      BY <1>6 DEF RequestFails, StopsCancelled, meta
    <2> QED
      BY <2>1 DEF PhaseInv, Succeeds
  <1>7. CASE Cancel \/ \E n \in Node : OtherAdds(n) \/ OtherRemoves(n)
    <2>1. x \in there \ touched /\ Within(x, target) /\ UNCHANGED <<phase, outcome, stack>>
      BY <1>7 DEF Cancel, OtherAdds, OtherRemoves, meta, tree, walk, hist
    <2>2. (Due(x) => Due(x)') /\ (OnStack(x) => OnStack(x)') /\ (Succeeds' => Succeeds)
      BY <2>1 DEF Due, OnStack, Ahead, Within, Succeeds
    <2> QED
      BY <1>b, <2>1, <2>2
  <1>8. CASE Report
    <2>1. /\ x \in there \ touched /\ Within(x, target) /\ phase' = "idle"
          /\ phase = "error" => outcome' # "ok"
          /\ phase \in {"error", "done"}
      BY <1>8 DEF Report, meta, tree, hist
    <2> QED
      BY <1>b, <2>1 DEF Succeeds
  <1>9. CASE OpenFile \/ FileCopied
    <2>1. x \in there \ touched /\ Within(x, target) /\ UNCHANGED <<phase, outcome, stack>>
      BY <1>9 DEF OpenFile, FileCopied, meta, hist
    <2>2. (Due(x) => Due(x)') /\ (OnStack(x) => OnStack(x)') /\ (Succeeds' => Succeeds)
      BY <2>1 DEF Due, OnStack, Ahead, Within, Succeeds
    <2> QED
      BY <1>b, <2>1, <2>2
  <1>10. ~LeaveDir /\ \A n \in Node : ~VisitFile(n)
    BY DEF LeaveDir, VisitFile
  <1> QED
    BY <1>1, <1>2, <1>3, <1>4, <1>5, <1>6, <1>7, <1>8, <1>9, <1>10 DEF Next

(* What others add behind the walk stays behind it.                        *)
LEMMA NextLate ==
    ASSUME TypeOK, TreeInv, PhaseInv, StackInv, LateInv, Next
    PROVE  LateInv'
  <1> DEFINE Behind(n) == ~Ahead(n) /\ OnStack(Parent[n])
  <1>a. op' = op
    BY DEF Next, Start, VisitDir, VisitFile, RemoveFile, OtherAdds, OtherRemoves, OpenFile,
       FileCopied, LeaveDir, RemoveDir, RequestFails, StopsCancelled, Returns, Cancel, Report,
       meta
  <1>b. \A x \in late : x \in Node /\ Parent[x] \in Node \cup {None}
    BY TransferAssumption DEF TypeOK
  <1>c. \A x \in late :
            x \in there /\ Kind[x] # "dir" /\ (op = "delete" /\ phase = "run" => Behind(x))
    BY DEF LateInv, OnStack
  <1> SUFFICES ASSUME NEW x \in late'
               PROVE  /\ x \in there' /\ Kind[x] # "dir"
                      /\ op = "delete" /\ phase' = "run" => Behind(x)'
    BY <1>a DEF LateInv, OnStack
  <1>1. ASSUME NEW n \in Node, Start(n)
        PROVE  FALSE
    BY <1>1 DEF Start
  <1>2. ASSUME NEW n \in Node, VisitDir(n)
        PROVE  x \in there' /\ Kind[x] # "dir" /\ (op = "delete" => Behind(x)')
    <2>1. /\ x \in late /\ there' = there /\ phase = "run" /\ stack # <<>>
          /\ stack' = Append(Without(n), [dir |-> n, left |-> ChildrenOf(n)])
          /\ ChildrenOf(n) \in SUBSET Node
          /\ n \in stack[Len(stack)].left
      BY <1>2 DEF VisitDir, Visits, ChildrenOf, TypeOK, meta, hist, Top
    <2>2. /\ DOMAIN stack = 1 .. Len(stack) /\ Len(stack) \in Nat \ {0}
          /\ \A i \in DOMAIN stack : i \in DOMAIN stack' /\ stack'[i].dir = stack[i].dir
          /\ \A m : Ahead(m)' => Ahead(m) \/ m \in ChildrenOf(n)
      BY <2>1, EnterStack
    <2>3. OnStack(Parent[x]) => OnStack(Parent[x])'
      BY <2>2 DEF OnStack
    <2>4. ASSUME op = "delete", x \in ChildrenOf(n)
          PROVE  FALSE
      <3>1. PICK i \in DOMAIN stack : stack[i].dir = n
        BY <1>c, <2>1, <2>4 DEF OnStack, ChildrenOf
      <3>2. ~Ahead(n)
        BY <3>1, StackNotAhead, TransferAssumption
      <3> QED
        BY <2>1, <2>2, <3>2 DEF Ahead
    <2> QED
      BY <1>c, <2>1, <2>2, <2>3, <2>4
  <1>3. ASSUME NEW n \in Node, RemoveFile(n)
        PROVE  x \in there' /\ Kind[x] # "dir" /\ Behind(x)'
    <2>1. /\ x \in late /\ there' = there \ {n} /\ phase = "run" /\ stack # <<>>
          /\ stack' = Without(n) /\ op = "delete" /\ n \in Top.left
      BY <1>3 DEF RemoveFile, Visits, hist
    <2>2. DOMAIN stack' = DOMAIN stack /\ \A i \in DOMAIN stack : stack'[i].dir = stack[i].dir
      BY <2>1, VisitStack
    <2>3. Ahead(x)' => Ahead(x)
      BY <2>1, VisitStack
    <2>4. Ahead(n)
      <3>1. Top = stack[Len(stack)] /\ Len(stack) \in DOMAIN stack
        BY <2>1, StackParts
      <3> QED
        BY <2>1, <3>1 DEF Ahead
    <2>5. Behind(x)'
      BY <1>c, <2>1, <2>2, <2>3 DEF OnStack
    <2> QED
      BY <1>c, <2>1, <2>4, <2>5
  <1>4. CASE RemoveDir
    <2>1. /\ x \in late /\ phase = "run" /\ stack # <<>> /\ op = "delete"
          /\ Top.left = {} /\ stack' = Rest
          /\ there' = there \ {Top.dir} /\ ChildrenOf(Top.dir) = {} /\ Len(stack) > 1
      BY <1>4 DEF RemoveDir, LevelDone, PhaseInv, hist
    <2>2. x \in there /\ Kind[x] # "dir" /\ Behind(x)
      BY <1>c, <2>1
    <2>3. /\ DOMAIN stack' = DOMAIN stack \ {Len(stack)}
          /\ \A i \in DOMAIN stack' : stack'[i] = stack[i]
          /\ Ahead(x)' <=> Ahead(x)
      BY <2>1, LeaveStack
    <2>4. Top = stack[Len(stack)] /\ Parent[x] # Top.dir
      BY <2>1, <2>2, StackParts DEF ChildrenOf
    <2>5. OnStack(Parent[x])'
      BY <2>2, <2>3, <2>4 DEF OnStack
    <2>6. x # Top.dir
      <3>1. Len(stack) \in 2 .. Len(stack)
        BY <2>1, StackParts
      <3> QED
        BY <2>2, <2>4, <3>1 DEF StackInv
    <2> QED
      BY <2>1, <2>2, <2>3, <2>5, <2>6
  <1>5. ASSUME NEW n \in Node, OtherAdds(n)
        PROVE  x \in there' /\ Kind[x] # "dir" /\ (op = "delete" /\ phase = "run" => Behind(x)')
    <2>1. /\ there' = there \cup {n} /\ Kind[n] # "dir" /\ stack' = stack
          /\ x \in late \/ (x = n /\ MissedBy(n))
      BY <1>5 DEF OtherAdds, walk
    <2>2. Behind(x) => Behind(x)'
      BY <2>1 DEF OnStack, Ahead
    <2>3. ASSUME MissedBy(n)
          PROVE  Behind(n)
      BY <2>3, StackMissed DEF MissedBy, OnStack
    <2> QED
      BY <1>c, <2>1, <2>2, <2>3
  <1>6. ASSUME NEW n \in Node, OtherRemoves(n)
        PROVE  x \in there' /\ Kind[x] # "dir" /\ (op = "delete" /\ phase = "run" => Behind(x)')
    <2>1. x \in late /\ x # n /\ there' = there \ {n} /\ stack' = stack
      BY <1>6 DEF OtherRemoves, walk
    <2>2. Behind(x) => Behind(x)'
      BY <2>1 DEF OnStack, Ahead
    <2> QED
      BY <1>c, <2>1, <2>2
  <1>7. CASE RequestFails \/ StopsCancelled \/ Returns \/ Cancel \/ Report
    <2>1. x \in late /\ there' = there /\ (phase' = "run" => phase = "run" /\ stack' = stack)
      BY <1>7 DEF RequestFails, StopsCancelled, Returns, Cancel, Report, tree, walk, hist
    <2>2. stack' = stack /\ Behind(x) => Behind(x)'
      BY DEF OnStack, Ahead
    <2> QED
      BY <1>c, <2>1, <2>2
  <1>8. CASE OpenFile \/ FileCopied
    <2>1. x \in late /\ there' = there /\ phase' = phase /\ stack' = stack
      BY <1>8 DEF OpenFile, FileCopied, hist
    <2>2. Behind(x) => Behind(x)'
      BY <2>1 DEF OnStack, Ahead
    <2> QED
      BY <1>c, <2>1, <2>2
  <1>9. CASE LeaveDir \/ \E n \in Node : VisitFile(n)
    <2>1. x \in late /\ there' = there /\ op # "delete"
      BY <1>9 DEF LeaveDir, VisitFile, tree, hist
    <2> QED
      BY <1>c, <2>1
  <1> QED
    BY <1>1, <1>2, <1>3, <1>4, <1>5, <1>6, <1>7, <1>8, <1>9 DEF Next, VisitDir, Visits,
       RemoveFile, RemoveDir, LevelDone, OtherAdds, OtherRemoves, meta

-------------------------------------------------------------------------------
(* Cancelling.                                                             *)

(* One file at most is begun after Cancel.                                 *)
LEMMA NextCancel ==
    ASSUME TypeOK, PhaseInv, StackInv, CancelInv, Next
    PROVE  CancelInv'
  <1>a. /\ after # {} => cancelled /\ \E n \in Node : after = {n}
        /\ phase = "run" /\ after # {} => current = None \/ opened
        /\ phase = "run" /\ Kind[target] # "dir" =>
              Len(stack) = 1 /\ (current # None \/ after # {} => stack[1].left = {})
    BY DEF CancelInv
  <1>b. current \in Node \cup {None} /\ (opened => current # None)
    BY DEF TypeOK, PhaseInv
  \* The selected file is all that its level ever had.
  <1>c. ASSUME phase = "run", Kind[target] # "dir", stack # <<>>, NEW n \in Top.left
        PROVE  n = target /\ Len(stack) = 1 /\ Top = stack[1] /\ Top.left = {n}
    BY <1>a, <1>c, StackParts DEF StackInv
  <1>1. ASSUME NEW n \in Node, Start(n)
        PROVE  CancelInv'
    <2>1. after' = {} /\ current' = None /\ Len(stack') = 1
      BY <1>1 DEF Start, PhaseInv
    <2> QED
      BY <2>1 DEF CancelInv
  <1>2. ASSUME NEW n \in Node, VisitDir(n)
        PROVE  CancelInv'
    <2>1. /\ current = None /\ current' = current /\ target' = target /\ cancelled' = cancelled
          /\ phase = "run" /\ stack # <<>> /\ n \in Top.left /\ Kind[n] = "dir" /\ after' = after
      BY <1>2 DEF VisitDir, Visits, meta, hist
    <2>2. Kind[target] = "dir"
      BY <1>c, <2>1
    <2> QED
      BY <1>a, <2>1, <2>2 DEF CancelInv
  <1>3. ASSUME NEW n \in Node, VisitFile(n) \/ RemoveFile(n)
        PROVE  CancelInv'
    <2>1. /\ current = None /\ target' = target /\ cancelled' = cancelled
          /\ phase = "run" /\ stack # <<>> /\ n \in Top.left /\ after' = after
          /\ stack' = Without(n)
          /\ RemoveFile(n) => current' = None
          /\ VisitFile(n) => ~cancelled \/ (n = target /\ Kind[n] # "dir")
      BY <1>3 DEF VisitFile, RemoveFile, Visits, meta, hist
    <2>2. VisitFile(n) => after = {}
      BY <1>a, <1>c, <2>1
    <2>3. Kind[target] # "dir" => Len(stack') = 1 /\ stack'[1].left = {}
      <3>1. /\ Len(stack') = Len(stack)
            /\ \A i \in 1 .. Len(stack) :
                  stack'[i].left = IF i = Len(stack) THEN stack[i].left \ {n} ELSE stack[i].left
        BY <2>1, WithoutLevels
      <3>2. Len(stack) = 1 => stack'[1].left = stack[1].left \ {n}
        BY <3>1
      <3> QED
        BY <1>c, <2>1, <3>1, <3>2
    <2> QED
      BY <1>3, <1>a, <2>1, <2>2, <2>3 DEF CancelInv
  <1>4. CASE OpenFile
    <2>1. /\ phase = "run" /\ current # None /\ ~opened /\ opened' = TRUE
          /\ after' = IF cancelled THEN after \cup {current} ELSE after
          /\ UNCHANGED <<stack, current, cancelled, phase, target>>
      BY <1>4 DEF OpenFile, meta
    <2>2. after = {} /\ current \in Node
      BY <1>a, <1>b, <2>1
    <2> QED
      BY <1>a, <2>1, <2>2 DEF CancelInv
  <1>5. CASE FileCopied
    <2>1. phase = "run" /\ opened /\ current' = None /\ UNCHANGED <<stack, cancelled, phase, target, after>>
      BY <1>5 DEF FileCopied, meta, hist
    <2> QED
      BY <1>a, <1>b, <2>1 DEF CancelInv
  <1>6. CASE LeaveDir \/ RemoveDir
    <2>1. /\ phase = "run" /\ Len(stack) > 1
          /\ UNCHANGED <<current, opened, cancelled, phase, target, after>>
      BY <1>6 DEF LeaveDir, RemoveDir, LevelDone, meta, hist
    <2>2. Kind[target] = "dir"
      BY <1>a, <2>1
    <2> QED
      BY <1>a, <2>1, <2>2 DEF CancelInv
  <1>7. CASE RequestFails \/ StopsCancelled \/ Returns \/ Report
    <2>1. phase' # "run" /\ UNCHANGED <<cancelled, after>>
      BY <1>7 DEF RequestFails, StopsCancelled, Returns, Report, hist
    <2> QED
      BY <1>a, <2>1 DEF CancelInv
  <1>8. CASE Cancel \/ \E n \in Node : OtherAdds(n) \/ OtherRemoves(n)
    <2>1. /\ UNCHANGED <<stack, current, opened, phase, target, after>>
          /\ cancelled => cancelled'
      BY <1>8 DEF Cancel, OtherAdds, OtherRemoves, meta, walk, hist
    <2> QED
      BY <1>a, <2>1 DEF CancelInv
  <1> QED
    BY <1>1, <1>2, <1>3, <1>4, <1>5, <1>6, <1>7, <1>8 DEF Next

-------------------------------------------------------------------------------
(* The invariant, and what it shows.                                       *)

(* The invariant holds at first.                                           *)
LEMMA InitInv == ASSUME Init PROVE TransfersInv
  <1>1. stack \in Seq(Level) /\ DOMAIN stack = {} /\ stack = <<>> /\ Len(stack) = 0
    BY DEF Init
  <1>2. OtherTypes
    <2>1. MaxOps \in Nat /\ MaxMeddling \in Nat
      BY TransferAssumption
    <2>2. ops \in 0 .. MaxOps /\ meddling \in 0 .. MaxMeddling
      BY <2>1 DEF Init
    <2>3. copied \in [Node -> {"absent", "dir", "part", "whole"}]
      BY DEF Init
    <2> QED
      BY <2>2, <2>3 DEF Init, OtherTypes
  <1>3. TypeOK
    BY <1>1, <1>2, TypeParts
  <1>4. TreeInv /\ PhaseInv /\ StackInv
    BY <1>1 DEF Init, TreeInv, PhaseInv, StackInv
  <1>5. CopyInv /\ RemovalInv /\ LateInv /\ CancelInv
    BY DEF Init, CopyInv, RemovalInv, LateInv, CancelInv, Succeeds
  <1> QED
    BY <1>3, <1>4, <1>5 DEF TransfersInv

(* A stuttering step keeps it.                                             *)
LEMMA StutterInv == ASSUME TransfersInv, UNCHANGED vars PROVE TransfersInv'
  <1>1. /\ UNCHANGED <<op, target, ops, there, copied, stack, current, opened>>
        /\ UNCHANGED <<cancelled, phase, outcome, meddling, touched, late, after>>
    BY DEF vars, meta, tree, walk, hist
  <1>2. TypeOK'
    BY <1>1 DEF TransfersInv, TypeOK
  <1>3. TreeInv' /\ PhaseInv' /\ StackInv'
    BY <1>1 DEF TransfersInv, TreeInv, PhaseInv, StackInv
  <1>4. CopyInv'
    BY <1>1 DEF TransfersInv, CopyInv, Due, Ahead, Succeeds, Wanted, Within
  <1>5. RemovalInv'
    BY <1>1 DEF TransfersInv, RemovalInv, OnStack, Due, Ahead, Succeeds, Within
  <1>6. LateInv' /\ CancelInv'
    BY <1>1 DEF TransfersInv, LateInv, CancelInv, OnStack, Ahead
  <1> QED
    BY <1>2, <1>3, <1>4, <1>5, <1>6 DEF TransfersInv

(* Every step of a transfer, and of anybody else, keeps the invariant.     *)
THEOREM Invariance == Spec => []TransfersInv
  <1>1. Init => TransfersInv
    BY InitInv
  <1>2. TransfersInv /\ [Next]_vars => TransfersInv'
    <2>1. TransfersInv /\ Next => TransfersInv'
      BY NextTyped, NextTree, NextPhase, NextStack, NextCopy, NextRemoval, NextLate, NextCancel
         DEF TransfersInv
    <2> QED
      BY <2>1, StutterInv
  <1> QED
    BY <1>1, <1>2, PTL DEF Spec

(* Every variable keeps its type; the recursion is a sequence of levels.   *)
THEOREM TypeCorrect == Spec => []TypeOK
  <1>1. TransfersInv => TypeOK
    BY DEF TransfersInv
  <1> QED
    BY <1>1, Invariance, PTL

(* A copy reported as done has the whole of everything nobody touched      *)
(* (sftp.go:292-320, 341-364).                                             *)
THEOREM CompleteWhenDone == Spec => []DoneIsComplete
  <1>1. TransfersInv => DoneIsComplete
    BY DEF TransfersInv, TypeOK, CopyInv, Succeeds, Wanted, DoneIsComplete
  <1> QED
    BY <1>1, Invariance, PTL

(* At most one file is begun after Cancel, whatever the size of the        *)
(* directory (sftp.go:290, 325).                                           *)
THEOREM StopsWhenCancelled == Spec => []CancelStopsTheWalk
  <1>1. TransfersInv => CancelStopsTheWalk
    <2>1. ASSUME TransfersInv
          PROVE  Cardinality(after) \in {0, 1}
      <3>1. after = {} \/ \E n \in Node : after = {n}
        BY <2>1 DEF TransfersInv, CancelInv
      <3> QED
        BY <3>1, FS_EmptySet, FS_Singleton
    <2> QED
      BY <2>1 DEF CancelStopsTheWalk
  <1> QED
    BY <1>1, Invariance, PTL

(* A removal deletes what it has listed and nothing added behind it, and   *)
(* when it is reported as done nothing is left of what there was           *)
(* (sftp.go:257-277).                                                      *)
THEOREM RemovesTheListed == Spec => []RemovesWhatItListed
  <1>1. TransfersInv => RemovesWhatItListed
    BY DEF TransfersInv, TreeInv, RemovalInv, LateInv, Succeeds, RemovesWhatItListed
  <1> QED
    BY <1>1, Invariance, PTL

===============================================================================
