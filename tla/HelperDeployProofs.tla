---------------------------- MODULE HelperDeployProofs ----------------------------
(***************************************************************************)
(* Proofs about the deployment of the session helper: for any number of    *)
(* instances and versions, and binaries of any size.                       *)
(*                                                                         *)
(* There are two arguments.  An instance that is alone owns the name from  *)
(* Remove to Chmod.  Instances of one version may truncate each other's    *)
(* file and write into it, but whoever is behind has the missing chunks    *)
(* still to write.                                                         *)
(***************************************************************************)
EXTENDS HelperDeploy, FiniteSetTheorems, SequenceTheorems, TLAPS

-------------------------------------------------------------------------------
(* Invariants.                                                             *)

Active(p) == pc[p] \notin {"idle", "selector"}

\* The instances that may still create an inode.
Before == {p \in Instance :
              pc[p] \in {"arch", "home", "stat", "hash", "prompt", "remove", "open"}}

InodeInv == IsFiniteSet(Before) /\ Len(data) + Cardinality(Before) <= tries

WorkInv == \A p \in Instance :
    /\ conns[p] <= tries
    /\ Active(p) => conns[p] >= 1
    /\ pc[p] \in {"hash", "prompt", "remove", "open", "write", "hashopen", "hashwrite"} =>
          embedded[p] \in Version
    /\ pc[p] = "write" => handle[p] \in 1 .. Len(data) /\ sent[p] <= Chunks[embedded[p]]

HashInv == hash # Nothing => \E p \in Instance : hash = embedded[p]

\* All of the first n chunks of f are v's.
Begun(f, n, v) == Len(f) = n /\ \A k \in 1 .. n : f[k] = v

\* What an instance that is alone has done so far.
AloneInv ==
    ~overlapped =>
        /\ \A p, q \in Instance : Active(p) /\ Active(q) => p = q
        /\ \A p \in Instance :
            /\ pc[p] = "open" => bin = Nothing
            /\ pc[p] = "write" => bin = handle[p] /\ Begun(data[bin], sent[p], embedded[p])
            /\ pc[p] \in {"hashopen", "hashwrite"} => Installed(embedded[p])

\* With one version, there is no hash while its binary is not installed; a
\* deployment begins only where there is none, or fails with its connection.
OneVersionInv ==
    ~overlapped /\ OneVersion /\ hash # Nothing =>
        /\ Installed(hash)
        /\ \A p \in Instance :
            /\ pc[p] \notin {"open", "write"}
            /\ pc[p] \in {"prompt", "remove"} => ~link[p]

\* With several, the hash is the helper's unless one is being replaced.
ReplacedInv ==
    ~overlapped /\ ~torn /\ hash # Nothing =>
        Installed(hash) \/ \E p \in Instance : pc[p] \in {"open", "write", "hashopen"}

ReadyInv ==
    ~overlapped /\ (OneVersion \/ ~torn) =>
        \A p \in Instance : TakesForItsOwn(p) => Installed(embedded[p])

\* p has chunk k of inode i still to write.
Brings(p, i, k) == pc[p] = "write" /\ handle[p] = i /\ sent[p] < k

\* Every chunk of v is in its place in inode i or will be brought there.
Filled(i, v) ==
    /\ Len(data[i]) <= Chunks[v]
    /\ \A k \in 1 .. Chunks[v] :
        \/ k <= Len(data[i]) /\ data[i][k] = v
        \/ \E q \in Instance : Brings(q, i, k)

AllFilled(v) == (\E p \in Instance : embedded[p] = v) => \A i \in 1 .. Len(data) : Filled(i, v)

\* Who has created or truncated the helper will make it executable.
Executed == bin # Nothing => bin \in exec \/ \E p \in Instance : pc[p] = "write"

SameInv == OneVersion /\ ~torn => (\A v \in Version : AllFilled(v)) /\ Executed

DeployInv ==
    /\ TypeOK /\ InodeInv /\ WorkInv /\ HashInv
    /\ AloneInv /\ OneVersionInv /\ ReplacedInv /\ ReadyInv /\ SameInv

-------------------------------------------------------------------------------
(* Files.                                                                  *)

File == Seq(Version \cup {Hole})

(* A file of v's chunks only, as many as v has, is the whole of v.         *)
LEMMA BegunIsComplete ==
    ASSUME NEW v \in Version, NEW f \in File, Begun(f, Chunks[v], v)
    PROVE  f = Complete(v)
  <1>1. Complete(v) \in File /\ Len(Complete(v)) = Chunks[v]
        /\ \A k \in 1 .. Chunks[v] : Complete(v)[k] = v
    BY DeployAssumption DEF Complete, File
  <1>2. Len(f) = Chunks[v] /\ \A k \in 1 .. Chunks[v] : f[k] = v
    BY DEF Begun
  <1> QED
    BY <1>1, <1>2, SeqEqual DEF File

(* What Put does to a file.                                                *)
LEMMA PutChunk ==
    ASSUME NEW f \in File, NEW i \in Nat \ {0}, NEW v \in Version
    PROVE  /\ Put(f, i, v) \in File /\ Len(f) \in Nat
           /\ Len(Put(f, i, v)) = IF i > Len(f) THEN i ELSE Len(f)
           /\ \A k \in 1 .. Len(Put(f, i, v)) :
                Put(f, i, v)[k] = IF k = i THEN v ELSE IF k <= Len(f) THEN f[k] ELSE Hole
  <1> DEFINE n == IF i > Len(f) THEN i ELSE Len(f)
             e(k) == IF k = i THEN v ELSE IF k <= Len(f) THEN f[k] ELSE Hole
  <1>1. Len(f) \in Nat /\ n \in Nat
    BY DEF File
  <1>2. \A k \in 1 .. n : e(k) \in Version \cup {Hole}
    BY <1>1 DEF File
  <1>3. Put(f, i, v) = [k \in 1 .. n |-> e(k)]
    BY DEF Put
  <1> HIDE DEF n, e
  <1>4. /\ [k \in 1 .. n |-> e(k)] \in Seq(Version \cup {Hole})
        /\ Len([k \in 1 .. n |-> e(k)]) = n
        /\ \A k \in 1 .. n : [j \in 1 .. n |-> e(j)][k] = e(k)
    BY <1>1, <1>2
  <1> QED
    BY <1>1, <1>3, <1>4 DEF File, n, e

(* A new inode, or other contents of one.                                  *)
LEMMA NewInode ==
    ASSUME NEW d \in Seq(File)
    PROVE  /\ Append(d, <<>>) \in Seq(File) /\ Len(d) \in Nat /\ Len(Append(d, <<>>)) = Len(d) + 1
           /\ \A i \in 1 .. Len(d) : Append(d, <<>>)[i] = d[i]
           /\ Append(d, <<>>)[Len(d) + 1] = <<>>
  <1>1. <<>> \in File
    BY DEF File
  <1> DEFINE F == File
  <1>2. d \in Seq(F) /\ <<>> \in F
    BY <1>1
  <1> HIDE DEF F
  <1> QED
    BY <1>2 DEF F

LEMMA OtherContents ==
    ASSUME NEW d \in Seq(File), NEW i \in 1 .. Len(d), NEW f \in File
    PROVE  /\ [d EXCEPT ![i] = f] \in Seq(File)
           /\ Len([d EXCEPT ![i] = f]) = Len(d)
           /\ \A j \in 1 .. Len(d) : [d EXCEPT ![i] = f][j] = IF j = i THEN f ELSE d[j]
  BY ExceptSeq

-------------------------------------------------------------------------------
(* Steps.                                                                  *)

Step(p) == PrepareStep(p) \/ UploadStep(p) \/ Crash(p)

(* A step of one instance leaves the others where they are.                *)
LEMMA OthersSame ==
    ASSUME TypeOK, NEW p \in Instance, Step(p), NEW q \in Instance \ {p}
    PROVE  /\ pc'[q] = pc[q] /\ handle'[q] = handle[q] /\ sent'[q] = sent[q]
           /\ conns'[q] = conns[q] /\ link'[q] = link[q]
  <1>1. /\ DOMAIN pc = Instance /\ DOMAIN handle = Instance /\ DOMAIN sent = Instance
        /\ DOMAIN conns = Instance /\ DOMAIN link = Instance
    BY DEF TypeOK
  <1>2. CASE PrepareStep(p)
    BY <1>1, <1>2 DEF PrepareStep, Start, LinkLost, Unsupported, Supported, RemoteHome, Stat,
       Missing, ReadHash, Answer, List, Launch, Dismiss, Goes, Closes, upload
  <1>3. CASE UploadStep(p)
    BY <1>1, <1>3 DEF UploadStep, Remove, Open, Write, Chmod, HashOpen, HashWrite, HashFails,
       UploadFails, Returned, Goes, upload
  <1>4. CASE Crash(p)
    BY <1>1, <1>4 DEF Crash, Returned
  <1> QED
    BY <1>2, <1>3, <1>4 DEF Step

\* A step of prepareSession that only reads the server, in p.
Prepares(p) ==
    \/ LinkLost(p) \/ Unsupported(p) \/ Supported(p) \/ RemoteHome(p)
    \/ Stat(p) \/ ReadHash(p) \/ Answer(p) \/ List(p) \/ Dismiss(p)

(* How prepareSession goes on, and on which condition.                     *)
LEMMA PrepareMoves ==
    ASSUME TypeOK, NEW p \in Instance, Prepares(p)
    PROVE  /\ UNCHANGED <<embedded, server, upload, tries, history>>
           /\ link'[p] => link[p]
           /\ LinkLost(p) => UNCHANGED <<pc, conns>> /\ ~link'[p]
           /\ ~LinkLost(p) =>
                \/ pc'[p] = "idle" /\ pc[p] \in {"arch", "home", "stat", "prompt", "selector"}
                \/ pc[p] = "arch" /\ pc'[p] = "home"
                \/ pc[p] = "home" /\ pc'[p] = "stat"
                \/ pc[p] = "stat" /\ pc'[p] = "list" /\ embedded[p] = NoBinary
                \/ pc[p] = "stat" /\ pc'[p] = "hash" /\ embedded[p] # NoBinary /\ bin # Nothing
                \/ pc[p] = "stat" /\ pc'[p] = "prompt" /\ embedded[p] # NoBinary
                   /\ (bin = Nothing \/ ~link'[p])
                \/ pc[p] = "hash" /\ pc'[p] = "list" /\ hash = embedded[p]
                \/ pc[p] = "hash" /\ pc'[p] = "prompt" /\ (hash # embedded[p] \/ ~link'[p])
                \/ pc[p] = "prompt" /\ pc'[p] = "remove"
                \/ pc[p] = "list" /\ pc'[p] = "selector"
           /\ conns' = conns \/ (Active(p) /\ ~Active(p)' /\ conns' = [conns EXCEPT ![p] = @ - 1])
  <1>1. DOMAIN pc = Instance /\ DOMAIN link = Instance
    BY DEF TypeOK
  <1>2. CASE LinkLost(p)
    <2>1. ~(\E to : pc[p] # to /\ pc' = [pc EXCEPT ![p] = to])
      BY <1>1, <1>2 DEF LinkLost
    <2> QED
      BY <1>1, <1>2 DEF LinkLost
  <1>3. CASE Unsupported(p) \/ Supported(p) \/ RemoteHome(p)
    <2>1. ~LinkLost(p)
      BY <1>1, <1>3 DEF Unsupported, Supported, RemoteHome, Goes, LinkLost
    <2> QED
      BY <1>1, <1>3, <2>1 DEF Unsupported, Supported, RemoteHome, Goes, Closes, Active
  <1>4. CASE Stat(p) \/ ReadHash(p)
    <2>1. ~LinkLost(p)
      BY <1>1, <1>4 DEF Stat, Missing, ReadHash, Goes, LinkLost
    <2> QED
      BY <1>1, <1>4, <2>1 DEF Stat, Missing, ReadHash, Goes, Closes, Active
  <1>5. CASE Answer(p) \/ List(p) \/ Dismiss(p)
    <2>1. ~LinkLost(p)
      BY <1>1, <1>5 DEF Answer, List, Dismiss, Goes, LinkLost
    <2> QED
      BY <1>1, <1>5, <2>1 DEF Answer, List, Dismiss, Goes, Closes, Active
  <1> QED
    BY <1>2, <1>3, <1>4, <1>5 DEF Prepares

-------------------------------------------------------------------------------
(* Types.                                                                  *)

FileTypes ==
    /\ data \in Seq(File) /\ Len(data) <= MaxTries
    /\ bin \in {Nothing} \cup 1 .. Len(data)
    /\ exec \subseteq 1 .. Len(data) /\ running \subseteq exec
    /\ hash \in {Nothing} \cup Version

PlaceTypes ==
    /\ embedded \in [Instance -> Version \cup {NoBinary}]
    /\ pc \in [Instance -> {"idle", "arch", "home", "stat", "hash", "prompt", "remove",
                            "open", "write", "hashopen", "hashwrite", "list", "selector"}]
    /\ handle \in [Instance -> {Nothing} \cup 1 .. Len(data)]
    /\ sent \in [Instance -> Nat]
    /\ link \in [Instance -> BOOLEAN]

CountTypes ==
    /\ conns \in [Instance -> 0 .. MaxTries]
    /\ tries \in 0 .. MaxTries /\ torn \in BOOLEAN /\ overlapped \in BOOLEAN

(* The types in three parts.                                               *)
LEMMA TypeParts ==
    /\ TypeOK <=> FileTypes /\ PlaceTypes /\ CountTypes
    /\ TypeOK' <=> FileTypes' /\ PlaceTypes' /\ CountTypes'
  BY DEF TypeOK, FileTypes, PlaceTypes, CountTypes, File

(* The inodes are never more than the times sessions were asked for: only  *)
(* Open makes one, and a preparation opens the helper once.                *)
LEMMA NextInodes ==
    ASSUME TypeOK, InodeInv, Next
    PROVE  /\ InodeInv' /\ Len(data') \in Nat /\ tries' \in 0 .. MaxTries
           /\ Len(data) <= Len(data') /\ tries <= tries'
  <1> DEFINE Counted == /\ Len(data') \in Nat /\ tries' \in 0 .. MaxTries
                        /\ Len(data) <= Len(data') /\ tries <= tries'
  <1> SUFFICES InodeInv' /\ Counted
    OBVIOUS
  <1>a. /\ FileTypes /\ PlaceTypes /\ CountTypes /\ MaxTries \in Nat /\ Len(data) \in Nat
        /\ IsFiniteSet(Before) /\ Cardinality(Before) \in Nat
        /\ Len(data) + Cardinality(Before) <= tries
    BY DeployAssumption, TypeParts, FS_CardinalityType DEF InodeInv, FileTypes
  <1>1. ASSUME NEW p \in Instance, Start(p)
        PROVE  InodeInv' /\ Counted
    <2>1. Before' = Before \cup {p} /\ p \notin Before
      BY <1>a, <1>1 DEF Start, Goes, Before, PlaceTypes
    <2>2. tries' = tries + 1 /\ tries' \in 0 .. MaxTries /\ data' = data
      BY <1>a, <1>1 DEF Start, server, CountTypes
    <2>3. IsFiniteSet(Before') /\ Cardinality(Before') = Cardinality(Before) + 1
      BY <1>a, <2>1, FS_AddElement
    <2> QED
      BY <1>a, <2>2, <2>3 DEF InodeInv, CountTypes
  <1>2. ASSUME NEW p \in Instance, Open(p)
        PROVE  InodeInv' /\ Counted
    <2>1. Before' = Before \ {p} /\ p \in Before
      BY <1>a, <1>2 DEF Open, Goes, Before, PlaceTypes
    <2>2. Len(data') \in {Len(data), Len(data) + 1} /\ tries' = tries
      <3>1. CASE bin = Nothing
        BY <1>a, <1>2, <3>1, NewInode DEF Open, FileTypes
      <3>2. CASE bin # Nothing
        <4>1. <<>> \in File /\ bin \in 1 .. Len(data)
          BY <1>a, <3>2 DEF File, FileTypes
        <4> QED
          BY <1>a, <1>2, <3>2, <4>1, OtherContents DEF Open, FileTypes
      <3> QED
        BY <3>1, <3>2
    <2>3. IsFiniteSet(Before') /\ Cardinality(Before') = Cardinality(Before) - 1
      BY <1>a, <2>1, FS_RemoveElement
    <2> QED
      BY <1>a, <2>2, <2>3 DEF InodeInv, CountTypes
  <1>3. ASSUME Before' \subseteq Before, Len(data') = Len(data), tries' = tries
        PROVE  InodeInv' /\ Counted
    <2>1. IsFiniteSet(Before') /\ Cardinality(Before') <= Cardinality(Before)
      BY <1>a, <1>3, FS_Subset
    <2>2. Cardinality(Before') \in Nat
      BY <2>1, FS_CardinalityType
    <2> QED
      BY <1>a, <1>3, <2>1, <2>2 DEF InodeInv, CountTypes
  <1>4. ASSUME NEW p \in Instance, Prepares(p)
        PROVE  InodeInv' /\ Counted
    <2>1. tries' = tries /\ data' = data
      BY <1>4, PrepareMoves DEF server
    <2>2. \A q \in Instance : q # p => pc'[q] = pc[q]
      BY <1>4, OthersSame DEF Step, Prepares, PrepareStep
    <2>3. p \in Before' => p \in Before
      <3>1. CASE LinkLost(p)
        BY <3>1 DEF LinkLost, Before
      <3>2. CASE ~LinkLost(p)
        BY <1>4, <3>2, PrepareMoves DEF Before
      <3> QED
        BY <3>1, <3>2
    <2> QED
      BY <1>3, <2>1, <2>2, <2>3 DEF Before
  <1>5. ASSUME NEW p \in Instance,
               \/ Launch(p) \/ Remove(p) \/ Chmod(p) \/ HashOpen(p) \/ HashWrite(p)
               \/ HashFails(p) \/ UploadFails(p) \/ Crash(p)
        PROVE  InodeInv' /\ Counted
    <2>1. data' = data /\ tries' = tries
      BY <1>5 DEF Launch, Remove, Chmod, HashOpen, HashWrite, HashFails, UploadFails, Crash, server
    <2>2. Before' \subseteq Before
      BY <1>a, <1>5 DEF Launch, Remove, Chmod, HashOpen, HashWrite, HashFails, UploadFails, Crash,
         Goes, Before, PlaceTypes
    <2> QED
      BY <1>3, <2>1, <2>2
  <1>6. ASSUME NEW p \in Instance, Write(p)
        PROVE  InodeInv' /\ Counted
    <2>1. /\ data' = [data EXCEPT ![handle[p]] = Put(@, sent'[p], embedded[p])]
          /\ pc' = pc /\ tries' = tries
      BY <1>6 DEF Write
    <2>2. DOMAIN data' = 1 .. Len(data) /\ Len(data') = Len(data)
      BY <1>a, <2>1 DEF FileTypes
    <2> QED
      BY <1>3, <2>1, <2>2 DEF Before
  <1>7. ASSUME NEW i \in Inode, SessionEnds(i)
        PROVE  InodeInv' /\ Counted
    BY <1>3, <1>7 DEF SessionEnds, Before
  <1> QED
    BY <1>1, <1>2, <1>4, <1>5, <1>6, <1>7 DEF Next, PrepareStep, UploadStep, Prepares

(* What an instance needs for the step it takes.                           *)
LEMMA NextWork ==
    ASSUME TypeOK, InodeInv, WorkInv, Next
    PROVE  WorkInv'
  <1> DEFINE Work(p) ==
        /\ conns[p] <= tries
        /\ Active(p) => conns[p] >= 1
        /\ pc[p] \in {"hash", "prompt", "remove", "open", "write", "hashopen", "hashwrite"} =>
              embedded[p] \in Version
        /\ pc[p] = "write" => handle[p] \in 1 .. Len(data) /\ sent[p] <= Chunks[embedded[p]]
  <1>a. /\ PlaceTypes /\ CountTypes /\ Len(data) \in Nat /\ Len(data') \in Nat
        /\ tries \in Nat /\ tries' \in Nat /\ tries <= tries' /\ Len(data) <= Len(data')
    BY TypeParts, NextInodes, DeployAssumption DEF FileTypes, CountTypes
  <1>b. \A p \in Instance : Work(p)
    BY DEF WorkInv
  <1>c. embedded' = embedded
    BY DEF Next, PrepareStep, UploadStep, Start, LinkLost, Unsupported, Supported, RemoteHome, Stat,
       ReadHash, Answer, List, Launch, Dismiss, Remove, Open, Write, Chmod, HashOpen, HashWrite,
       HashFails, UploadFails, Crash, SessionEnds
  <1> SUFFICES \A p \in Instance : Work(p)'
    BY DEF WorkInv
  <1>d. \A p \in Instance : conns[p] \in Nat /\ sent[p] \in Nat
    BY <1>a, DeployAssumption DEF PlaceTypes, CountTypes
  <1>1. ASSUME NEW p \in Instance, pc'[p] = pc[p], conns'[p] = conns[p], handle'[p] = handle[p],
               sent'[p] = sent[p]
        PROVE  Work(p)'
    BY <1>a, <1>b, <1>c, <1>d, <1>1 DEF Active
  <1>2. ASSUME NEW p \in Instance, Step(p), NEW q \in Instance \ {p}
        PROVE  Work(q)'
    BY <1>1, <1>2, OthersSame
  <1>3. ASSUME NEW p \in Instance, Start(p)
        PROVE  Work(p)'
    <2>1. pc'[p] = "arch" /\ conns'[p] = conns[p] + 1 /\ tries' = tries + 1
      BY <1>a, <1>3 DEF Start, Goes, PlaceTypes, CountTypes
    <2> QED
      BY <1>a, <1>b, <1>d, <2>1 DEF Active
  <1>4. ASSUME NEW p \in Instance, Prepares(p)
        PROVE  Work(p)'
    <2>1. CASE LinkLost(p)
      BY <1>1, <2>1 DEF LinkLost, upload
    <2>2. CASE ~LinkLost(p)
      <3>1. pc'[p] # "write" /\ (pc[p] \in {"idle", "selector"} => pc'[p] \in {"idle", "selector"})
        BY <1>4, <2>2, PrepareMoves
      <3>2. pc'[p] \in {"hash", "prompt", "remove", "open", "write", "hashopen", "hashwrite"}
              => embedded[p] \in Version
        BY <1>4, <1>a, <1>b, <2>2, PrepareMoves DEF PlaceTypes
      <3>3. conns'[p] \in {conns[p], conns[p] - 1} /\ (Active(p)' => conns'[p] = conns[p])
        <4>1. conns' = conns \/ (~Active(p)' /\ conns' = [conns EXCEPT ![p] = @ - 1])
          BY <1>4, PrepareMoves
        <4>2. DOMAIN conns = Instance
          BY <1>a DEF CountTypes
        <4> QED
          BY <1>d, <4>1, <4>2
      <3> QED
        BY <1>a, <1>b, <1>c, <1>d, <3>1, <3>2, <3>3 DEF Active
    <2> QED
      BY <2>1, <2>2
  <1>5. ASSUME NEW p \in Instance, Open(p)
        PROVE  Work(p)'
    <2>1. /\ pc[p] = "open" /\ pc'[p] = "write" /\ handle'[p] = bin' /\ sent'[p] = 0
          /\ conns' = conns
      BY <1>a, <1>5 DEF Open, Goes, PlaceTypes
    <2>2. bin' \in 1 .. Len(data')
      <3>1. FileTypes
        BY TypeParts
      <3>2. CASE bin = Nothing
        <4>1. bin' = Len(data) + 1 /\ data' = Append(data, <<>>)
          BY <1>5, <3>2 DEF Open
        <4> QED
          BY <1>a, <3>1, <4>1, NewInode DEF FileTypes
      <3>3. CASE bin # Nothing
        BY <1>a, <1>5, <3>1, <3>3 DEF Open, FileTypes
      <3> QED
        BY <3>2, <3>3
    <2>3. Chunks[embedded[p]] \in Nat /\ embedded[p] \in Version
      BY <1>b, <2>1, DeployAssumption
    <2> QED
      BY <1>a, <1>b, <1>c, <1>d, <2>1, <2>2, <2>3 DEF Active
  <1>6. ASSUME NEW p \in Instance, Write(p)
        PROVE  Work(p)'
    <2>1. /\ pc[p] = "write" /\ UNCHANGED <<pc, handle, conns>>
          /\ sent'[p] = sent[p] + 1 /\ sent[p] < Chunks[embedded[p]]
      BY <1>a, <1>6 DEF Write, PlaceTypes
    <2>2. Chunks[embedded[p]] \in Nat
      BY <1>b, <2>1, DeployAssumption
    <2> QED
      BY <1>a, <1>b, <1>c, <1>d, <2>1, <2>2 DEF Active
  <1>7. ASSUME NEW p \in Instance, Remove(p) \/ Chmod(p) \/ HashOpen(p) \/ HashWrite(p) \/ HashFails(p)
        PROVE  Work(p)'
    <2>1. /\ pc[p] \in {"remove", "write", "hashopen", "hashwrite"} /\ conns' = conns
          /\ pc'[p] \in {"open", "hashopen", "hashwrite", "list"}
      BY <1>a, <1>7 DEF Remove, Chmod, HashOpen, HashWrite, HashFails, Goes, PlaceTypes
    <2> QED
      BY <1>a, <1>b, <1>c, <1>d, <2>1 DEF Active
  <1>8. ASSUME NEW p \in Instance, Launch(p) \/ UploadFails(p) \/ Crash(p)
        PROVE  Work(p)'
    <2>1. pc'[p] = "idle" /\ conns'[p] \in {0, conns[p]}
      BY <1>a, <1>8 DEF Launch, UploadFails, Crash, Goes, PlaceTypes, CountTypes
    <2> QED
      BY <1>a, <1>b, <1>c, <1>d, <2>1 DEF Active
  <1>9. ASSUME NEW i \in Inode, SessionEnds(i), NEW p \in Instance
        PROVE  Work(p)'
    BY <1>1, <1>9 DEF SessionEnds, upload
  <1> HIDE DEF Work
  <1>10. ASSUME NEW p \in Instance, Step(p)
         PROVE  Work(p)'
    BY <1>3, <1>4, <1>5, <1>6, <1>7, <1>8, <1>10 DEF Step, PrepareStep, UploadStep, Prepares
  <1> QED
    BY <1>2, <1>9, <1>10 DEF Next, Step

(* The binary an instance embeds stays the same.                           *)
LEMMA SameBinary ==
    ASSUME Next
    PROVE  embedded' = embedded /\ (OneVersion' <=> OneVersion)
  <1>1. embedded' = embedded
    BY DEF Next, PrepareStep, UploadStep, Start, LinkLost, Unsupported, Supported, RemoteHome, Stat,
       ReadHash, Answer, List, Launch, Dismiss, Remove, Open, Write, Chmod, HashOpen, HashWrite,
       HashFails, UploadFails, Crash, SessionEnds
  <1> QED
    BY <1>1 DEF OneVersion

(* What Open leaves on the server.                                         *)
LEMMA OpenFile ==
    ASSUME TypeOK, NEW p \in Instance, Open(p)
    PROVE  /\ data' \in Seq(File) /\ Len(data) \in Nat /\ Len(data') \in Nat
           /\ bin' \in 1 .. Len(data') /\ data'[bin'] = <<>>
           /\ bin = Nothing => bin' = Len(data) + 1 /\ Len(data') = Len(data) + 1
           /\ bin # Nothing => bin \in 1 .. Len(data) /\ bin' = bin /\ Len(data') = Len(data)
           /\ \A i \in 1 .. Len(data) : i # bin' => data'[i] = data[i]
           /\ pc[p] = "open" /\ pc'[p] = "write" /\ handle'[p] = bin' /\ sent'[p] = 0
           /\ UNCHANGED <<exec, running, hash, link, conns, tries, history>>
  <1>a. FileTypes /\ PlaceTypes
    BY TypeParts
  <1>1. /\ pc[p] = "open" /\ pc'[p] = "write" /\ handle'[p] = bin' /\ sent'[p] = 0
        /\ UNCHANGED <<exec, running, hash, link, conns, tries, history>>
    BY <1>a DEF Open, Goes, PlaceTypes
  <1>2. CASE bin = Nothing
    <2>1. data' = Append(data, <<>>) /\ bin' = Len(data) + 1
      BY <1>2 DEF Open
    <2>2. data' \in Seq(File) /\ Len(data) \in Nat /\ Len(data') = Len(data) + 1
          /\ (\A i \in 1 .. Len(data) : data'[i] = data[i]) /\ data'[bin'] = <<>>
      BY <1>a, <2>1, NewInode DEF FileTypes
    <2> QED
      BY <1>1, <1>2, <2>1, <2>2
  <1>3. CASE bin # Nothing
    <2>1. data' = [data EXCEPT ![bin] = <<>>] /\ bin' = bin /\ bin \in 1 .. Len(data)
      BY <1>a, <1>3 DEF Open, FileTypes
    <2>2. <<>> \in File /\ data \in Seq(File) /\ Len(data) \in Nat
      BY <1>a DEF FileTypes, File
    <2>3. data' \in Seq(File) /\ Len(data') = Len(data)
          /\ \A j \in 1 .. Len(data) : data'[j] = IF j = bin THEN <<>> ELSE data[j]
      BY <2>1, <2>2, OtherContents
    <2> QED
      BY <1>1, <1>3, <2>1, <2>2, <2>3
  <1> QED
    BY <1>2, <1>3

(* What Write leaves there.                                                *)
LEMMA WriteFile ==
    ASSUME TypeOK, WorkInv, NEW p \in Instance, Write(p)
    PROVE  /\ data' \in Seq(File) /\ Len(data) \in Nat /\ Len(data') = Len(data)
           /\ handle[p] \in 1 .. Len(data) /\ embedded[p] \in Version
           /\ data[handle[p]] \in File /\ sent[p] \in Nat
           /\ Chunks[embedded[p]] \in Nat /\ sent[p] + 1 <= Chunks[embedded[p]]
           /\ sent'[p] = sent[p] + 1 /\ pc[p] = "write"
           /\ data'[handle[p]] = Put(data[handle[p]], sent[p] + 1, embedded[p])
           /\ \A j \in 1 .. Len(data) : j # handle[p] => data'[j] = data[j]
           /\ UNCHANGED <<bin, exec, running, hash, pc, handle, link, conns, tries, history>>
  <1>a. FileTypes /\ PlaceTypes
    BY TypeParts
  <1>1. /\ pc[p] = "write" /\ sent[p] \in Nat /\ sent'[p] = sent[p] + 1
        /\ sent[p] < Chunks[embedded[p]]
        /\ data' = [data EXCEPT ![handle[p]] = Put(@, sent'[p], embedded[p])]
        /\ UNCHANGED <<bin, exec, running, hash, pc, handle, link, conns, tries, history>>
    BY <1>a DEF Write, PlaceTypes
  <1>2. /\ handle[p] \in 1 .. Len(data) /\ embedded[p] \in Version /\ Len(data) \in Nat
        /\ data \in Seq(File) /\ data[handle[p]] \in File
    BY <1>a, <1>1 DEF WorkInv, FileTypes
  <1>3. Chunks[embedded[p]] \in Nat
    BY <1>2, DeployAssumption
  <1> DEFINE f == Put(data[handle[p]], sent[p] + 1, embedded[p])
  <1>4. sent[p] + 1 \in Nat \ {0}
    BY <1>1
  <1>5. f \in File
    BY <1>2, <1>4, PutChunk
  <1>6. data' = [data EXCEPT ![handle[p]] = f]
    BY <1>1, <1>2
  <1> HIDE DEF f
  <1>7. data' \in Seq(File) /\ Len(data') = Len(data)
        /\ \A j \in 1 .. Len(data) : data'[j] = IF j = handle[p] THEN f ELSE data[j]
    BY <1>2, <1>5, <1>6, OtherContents
  <1> QED
    BY <1>1, <1>2, <1>3, <1>7 DEF f

(* The types again hold after a step.                                      *)
LEMMA NextTyped ==
    ASSUME TypeOK, InodeInv, WorkInv, Next
    PROVE  TypeOK'
  <1>a. FileTypes /\ PlaceTypes /\ CountTypes /\ embedded' = embedded /\ MaxTries \in Nat
        /\ Len(data) \in Nat
    BY TypeParts, SameBinary, DeployAssumption DEF FileTypes
  <1>b. Len(data') \in Nat /\ tries' \in 0 .. MaxTries /\ tries' \in Nat /\ Len(data) <= Len(data')
        /\ Len(data') <= MaxTries
    <2>1. Len(data') \in Nat /\ tries' \in 0 .. MaxTries /\ Len(data) <= Len(data')
      BY NextInodes
    <2>2. Cardinality(Before') \in Nat /\ Len(data') + Cardinality(Before') <= tries'
      BY NextInodes, FS_CardinalityType DEF InodeInv
    <2> QED
      BY <1>a, <2>1, <2>2
  <1>c. \A p \in Instance : pc[p] \in {"hash", "prompt", "remove", "open", "write", "hashopen",
           "hashwrite"} => embedded[p] \in Version
    BY DEF WorkInv
  <1>1. FileTypes'
    <2>1. ASSUME NEW p \in Instance, Open(p)
          PROVE  FileTypes'
      <3>1. /\ data' \in Seq(File) /\ bin' \in 1 .. Len(data')
            /\ exec' = exec /\ running' = running /\ hash' = hash
        BY <2>1, OpenFile
      <3>2. 1 .. Len(data) \subseteq 1 .. Len(data')
        BY <1>a, <1>b
      <3> QED
        BY <1>a, <1>b, <3>1, <3>2 DEF FileTypes
    <2>2. ASSUME NEW p \in Instance, Write(p)
          PROVE  FileTypes'
      BY <1>a, <1>b, <2>2, WriteFile DEF FileTypes
    <2>3. ASSUME NEW p \in Instance, Chmod(p) \/ Launch(p)
          PROVE  FileTypes'
      BY <1>a, <2>3 DEF FileTypes, Chmod, Launch, Executable
    <2>4. ASSUME NEW p \in Instance, HashOpen(p) \/ Remove(p)
          PROVE  FileTypes'
      BY <1>a, <2>4 DEF FileTypes, HashOpen, Remove
    <2>5. ASSUME NEW p \in Instance, HashWrite(p)
          PROVE  FileTypes'
      BY <1>a, <1>c, <2>5 DEF FileTypes, HashWrite, Goes
    <2>6. ASSUME NEW p \in Instance,
                 Start(p) \/ Prepares(p) \/ HashFails(p) \/ UploadFails(p) \/ Crash(p)
          PROVE  FileTypes'
      <3>1. UNCHANGED server
        BY <2>6, PrepareMoves DEF Start, HashFails, UploadFails, Crash
      <3> QED
        BY <1>a, <3>1 DEF FileTypes, server
    <2>7. ASSUME NEW i \in Inode, SessionEnds(i)
          PROVE  FileTypes'
      BY <1>a, <2>7 DEF FileTypes, SessionEnds
    <2> QED
      BY <2>1, <2>2, <2>3, <2>4, <2>5, <2>6, <2>7 DEF Next, PrepareStep, UploadStep, Prepares
  <1>2. PlaceTypes'
    <2>1. ASSUME NEW p \in Instance, Open(p)
          PROVE  PlaceTypes'
      <3>1. bin' \in 1 .. Len(data')
        BY <2>1, OpenFile
      <3> QED
        BY <1>a, <1>b, <2>1, <3>1 DEF PlaceTypes, Open, Goes
    <2>2. ASSUME NEW p \in Instance, Write(p)
          PROVE  PlaceTypes'
      <3>1. Len(data') = Len(data)
        BY <2>2, WriteFile
      <3> QED
        BY <1>a, <2>2, <3>1 DEF PlaceTypes, Write
    <2>3. ASSUME NEW p \in Instance,
                 HashWrite(p) \/ HashFails(p) \/ UploadFails(p) \/ Crash(p)
          PROVE  PlaceTypes'
      <3>1. /\ pc' \in {[pc EXCEPT ![p] = "list"], [pc EXCEPT ![p] = "idle"]}
            /\ Returned(p) /\ data' = data /\ link' = link
        BY <2>3 DEF HashWrite, HashFails, UploadFails, Crash, Goes, server
      <3> QED
        BY <1>a, <3>1 DEF PlaceTypes, Returned
    <2>6. ASSUME NEW p \in Instance, Remove(p) \/ Chmod(p) \/ HashOpen(p) \/ Launch(p)
          PROVE  PlaceTypes'
      BY <1>a, <2>6 DEF PlaceTypes, Remove, Chmod, HashOpen, Launch, Goes, upload
    <2>4. ASSUME NEW p \in Instance,
                 Start(p) \/ LinkLost(p) \/ Unsupported(p) \/ Supported(p) \/ RemoteHome(p)
                 \/ Stat(p) \/ ReadHash(p) \/ Answer(p) \/ List(p) \/ Dismiss(p)
          PROVE  PlaceTypes'
      BY <1>a, <2>4 DEF PlaceTypes, Start, LinkLost, Unsupported, Supported, RemoteHome, Stat, Missing,
         ReadHash, Answer, List, Dismiss, Goes, server, upload
    <2>5. ASSUME NEW i \in Inode, SessionEnds(i)
          PROVE  PlaceTypes'
      BY <1>a, <2>5 DEF PlaceTypes, SessionEnds, upload
    <2> QED
      BY <2>1, <2>2, <2>3, <2>4, <2>5, <2>6 DEF Next, PrepareStep, UploadStep
  <1>3. CountTypes'
    <2>a. \A p \in Instance : conns[p] \in Nat /\ conns[p] <= tries /\ (Active(p) => conns[p] >= 1)
      BY <1>a DEF WorkInv, CountTypes
    <2>1. ASSUME NEW p \in Instance, Start(p)
          PROVE  CountTypes'
      <3>1. conns[p] + 1 \in 0 .. MaxTries
        BY <1>a, <2>1, <2>a DEF Start, CountTypes
      <3> QED
        BY <1>a, <1>b, <2>1, <3>1 DEF CountTypes, Start
    <2>2. ASSUME NEW p \in Instance, Prepares(p)
          PROVE  CountTypes'
      <3>1. /\ UNCHANGED <<tries, history>>
            /\ conns' = conns \/ (Active(p) /\ conns' = [conns EXCEPT ![p] = @ - 1])
        BY <2>2, PrepareMoves
      <3>2. Active(p) => conns[p] - 1 \in 0 .. MaxTries
        BY <1>a, <2>a DEF CountTypes
      <3> QED
        BY <1>a, <3>1, <3>2 DEF CountTypes, history
    <2>3. ASSUME NEW p \in Instance,
                 UploadStep(p) \/ Crash(p) \/ Launch(p)
          PROVE  CountTypes'
      <3>1. /\ tries' = tries /\ overlapped' = overlapped /\ torn' \in BOOLEAN
            /\ conns' = conns \/ conns' = [conns EXCEPT ![p] = 0]
        BY <1>a, <2>3 DEF UploadStep, Open, Write, Remove, Chmod, HashOpen, HashWrite, HashFails,
           UploadFails, Crash, Launch, history, CountTypes
      <3> QED
        BY <1>a, <3>1 DEF CountTypes
    <2>4. ASSUME NEW i \in Inode, SessionEnds(i)
          PROVE  CountTypes'
      BY <1>a, <2>4 DEF CountTypes, SessionEnds, history
    <2> QED
      BY <2>1, <2>2, <2>3, <2>4 DEF Next, PrepareStep, Prepares
  <1> QED
    BY <1>1, <1>2, <1>3, TypeParts

-------------------------------------------------------------------------------
(* Instances that wait for one another.                                    *)

\* A step of p that leaves the helper and its hash alone.
Quiet(p) ==
    Start(p) \/ Prepares(p) \/ Launch(p) \/ HashFails(p) \/ UploadFails(p) \/ Crash(p)

helper == <<bin, data, exec, hash>>

(* The steps that do not touch the helper.                                 *)
LEMMA QuietMoves ==
    ASSUME TypeOK, NEW p \in Instance, Quiet(p)
    PROVE  /\ UNCHANGED helper
           /\ LinkLost(p) => UNCHANGED <<pc, handle, sent>>
           /\ ~LinkLost(p) => pc'[p] \notin {"open", "write", "hashopen", "hashwrite"}
           /\ torn => torn'
           /\ ~LinkLost(p) /\ pc[p] \in {"open", "write", "hashopen", "hashwrite"} => torn'
  <1>a. DOMAIN pc = Instance
    BY DEF TypeOK
  <1>1. CASE Prepares(p)
    <2>1. UNCHANGED helper /\ torn' = torn
      BY <1>1, PrepareMoves DEF server, helper, history
    <2>2. LinkLost(p) => UNCHANGED <<pc, handle, sent>>
      BY DEF LinkLost, upload
    <2>3. ~LinkLost(p) => pc'[p] \notin {"open", "write", "hashopen", "hashwrite"}
                          /\ pc[p] \notin {"open", "write", "hashopen", "hashwrite"}
      BY <1>1, PrepareMoves
    <2> QED
      BY <2>1, <2>2, <2>3
  <1>2. CASE Start(p) \/ Launch(p) \/ HashFails(p) \/ UploadFails(p) \/ Crash(p)
    <2>1. UNCHANGED helper
      BY <1>2 DEF Start, Launch, HashFails, UploadFails, Crash, server, helper
    <2>2. pc'[p] \in {"arch", "idle", "list"}
      BY <1>a, <1>2 DEF Start, Launch, HashFails, UploadFails, Crash, Goes
    <2>3. (torn => torn') /\ (pc[p] \in {"open", "write", "hashopen", "hashwrite"} => torn')
      <3>1. CASE Crash(p)
        BY <3>1 DEF Crash, Uploading
      <3>2. CASE HashFails(p) \/ UploadFails(p)
        BY <3>2 DEF HashFails, UploadFails
      <3>3. CASE Start(p) \/ Launch(p)
        BY <3>3 DEF Start, Launch, Goes, history
      <3> QED
        BY <1>2, <3>1, <3>2, <3>3
    <2>4. LinkLost(p) => UNCHANGED <<pc, handle, sent>>
      BY DEF LinkLost, upload
    <2> QED
      BY <2>1, <2>2, <2>3, <2>4
  <1> QED
    BY <1>1, <1>2 DEF Quiet

\* A step of p that changes them, and the connection they need.
Alters(p) == Remove(p) \/ Open(p) \/ Write(p) \/ Chmod(p) \/ HashOpen(p) \/ HashWrite(p)

(* An instance steps quietly or alters the helper, or a daemon ends.       *)
LEMMA NextKinds ==
    ASSUME Next
    PROVE  \/ \E p \in Instance : Step(p) /\ (Quiet(p) \/ Alters(p))
           \/ UNCHANGED <<helper, pc, handle, sent, link, history>>
  BY DEF Next, Step, PrepareStep, UploadStep, Prepares, Quiet, Alters, SessionEnds, helper, upload

(* While they wait for one another, who steps is alone.                    *)
LEMMA AloneMoves ==
    ASSUME TypeOK, AloneInv, ~overlapped', NEW p \in Instance, Quiet(p) \/ Alters(p)
    PROVE  /\ ~overlapped
           /\ Active(p) \/ Active(p)' => \A q \in Instance \ {p} : ~Active(q) /\ ~Active(q)'
           /\ Alters(p) => Active(p)
           /\ torn => torn'
           /\ \A q \in Instance \ {p} : /\ pc'[q] = pc[q] /\ handle'[q] = handle[q]
                                        /\ sent'[q] = sent[q] /\ link'[q] = link[q]
  <1>a. DOMAIN pc = Instance
    BY DEF TypeOK
  <1>b. Step(p)
    BY DEF Step, PrepareStep, UploadStep, Prepares, Quiet, Alters
  <1>1. \A q \in Instance \ {p} : /\ pc'[q] = pc[q] /\ handle'[q] = handle[q]
                                  /\ sent'[q] = sent[q] /\ link'[q] = link[q]
    BY <1>b, OthersSame
  <1>2. \A q \in Instance \ {p} : Active(q)' => Active(q)
    BY <1>1 DEF Active
  <1>3. CASE Start(p)
    <2>1. ~overlapped /\ torn' = torn /\ \A q \in Instance : ~Active(q)
      BY <1>3 DEF Start, Active
    <2>2. ~Alters(p)
      BY <1>a, <1>3 DEF Start, Alters, Remove, Open, Write, Chmod, HashOpen, HashWrite, Goes
    <2> QED
      BY <1>1, <1>2, <2>1, <2>2
  <1>4. CASE ~Start(p)
    <2>1. overlapped' = overlapped
      <3>1. CASE Prepares(p)
        BY <3>1, PrepareMoves DEF history
      <3>2. CASE Alters(p) \/ Launch(p) \/ HashFails(p) \/ UploadFails(p) \/ Crash(p)
        BY <3>2 DEF Alters, Remove, Open, Write, Chmod, HashOpen, HashWrite, Launch, HashFails,
           UploadFails, Crash, history
      <3> QED
        BY <1>4, <3>1, <3>2 DEF Quiet
    <2>2. torn => torn'
      <3>1. CASE Alters(p)
        BY <3>1 DEF Alters, Remove, Open, Write, Chmod, HashOpen, HashWrite, history
      <3> QED
        BY <3>1, QuietMoves
    <2>3. Alters(p) => Active(p)
      BY DEF Alters, Remove, Open, Write, Chmod, HashOpen, HashWrite, Goes, Written, Active
    <2>4. Active(p)' => Active(p)
      <3>1. CASE Prepares(p)
        <4>1. CASE LinkLost(p)
          BY <4>1 DEF LinkLost, Active
        <4> QED
          BY <3>1, <4>1, PrepareMoves DEF Active
      <3>2. CASE Launch(p) \/ Crash(p) \/ UploadFails(p)
        BY <1>a, <3>2 DEF Launch, Crash, UploadFails, Goes, Active
      <3>3. CASE HashFails(p)
        BY <3>3 DEF HashFails, Goes, Active
      <3> QED
        BY <1>4, <2>3, <3>1, <3>2, <3>3 DEF Quiet
    <2> QED
      BY <1>1, <1>2, <2>1, <2>2, <2>3, <2>4 DEF AloneInv
  <1> QED
    BY <1>3, <1>4

(* Nobody writes another hash than that of a binary somebody embeds.       *)
LEMMA NextHash ==
    ASSUME TypeOK, HashInv, Next
    PROVE  HashInv'
  <1>1. hash' \in {hash, Nothing} \cup {embedded[p] : p \in Instance}
    <2>1. CASE UNCHANGED <<helper, pc, handle, sent, link, history>>
      BY <2>1 DEF helper
    <2>2. ASSUME NEW p \in Instance, Quiet(p)
          PROVE  hash' = hash
      BY <2>2, QuietMoves DEF helper
    <2>3. ASSUME NEW p \in Instance, Alters(p)
          PROVE  hash' \in {hash, Nothing, embedded[p]}
      BY <2>3 DEF Alters, Remove, Open, Write, Chmod, HashOpen, HashWrite
    <2> QED
      BY <2>1, <2>2, <2>3, NextKinds
  <1> QED
    BY <1>1, SameBinary DEF HashInv

(* What an instance that is alone has done, after one more step.           *)
LEMMA NextAlone ==
    ASSUME TypeOK, WorkInv, AloneInv, Next
    PROVE  AloneInv'
  <1> DEFINE Done(p) ==
        /\ pc[p] = "open" => bin = Nothing
        /\ pc[p] = "write" => bin = handle[p] /\ Begun(data[bin], sent[p], embedded[p])
        /\ pc[p] \in {"hashopen", "hashwrite"} => Installed(embedded[p])
  <1> SUFFICES ASSUME ~overlapped'
               PROVE  /\ \A p, q \in Instance : Active(p)' /\ Active(q)' => p = q
                      /\ \A p \in Instance : Done(p)'
    BY DEF AloneInv
  <1>a. embedded' = embedded /\ FileTypes /\ PlaceTypes
    BY SameBinary, TypeParts
  <1>1. CASE UNCHANGED <<helper, pc, handle, sent, link, history>>
    BY <1>a, <1>1 DEF AloneInv, helper, history, Active, Begun, Installed, Complete
  <1>2. ASSUME NEW p \in Instance, Quiet(p) \/ Alters(p)
        PROVE  /\ \A q, r \in Instance : Active(q)' /\ Active(r)' => q = r
               /\ \A q \in Instance : Done(q)'
    <2>1. /\ ~overlapped
          /\ Active(p) \/ Active(p)' => \A q \in Instance \ {p} : ~Active(q) /\ ~Active(q)'
          /\ Alters(p) => Active(p)
          /\ \A q \in Instance \ {p} : /\ pc'[q] = pc[q] /\ handle'[q] = handle[q]
                                       /\ sent'[q] = sent[q] /\ link'[q] = link[q]
      BY <1>2, AloneMoves
    <2>2. (\A q, r \in Instance : Active(q) /\ Active(r) => q = r) /\ \A q \in Instance : Done(q)
      BY <2>1 DEF AloneInv
    <2>3. \A q, r \in Instance : Active(q)' /\ Active(r)' => q = r
      <3>1. \A q \in Instance \ {p} : Active(q)' => Active(q)
        BY <2>1 DEF Active
      <3> QED
        BY <2>1, <2>2, <3>1
    <2>4. ASSUME NEW q \in Instance \ {p}
          PROVE  Done(q)'
      <3>1. CASE Active(q)'
        <4>1. Quiet(p) /\ UNCHANGED helper
          BY <1>2, <2>1, <3>1, QuietMoves
        <4>2. Done(q)
          BY <2>2
        <4> QED
          BY <1>a, <2>1, <4>1, <4>2 DEF helper, Begun, Installed, Complete
      <3>2. CASE ~Active(q)'
        BY <3>2 DEF Active
      <3> QED
        BY <3>1, <3>2
    <2>5. Done(p)'
      <3>a. Done(p)
        BY <2>2
      <3>1. CASE Quiet(p)
        <4>1. CASE LinkLost(p)
          BY <1>a, <3>1, <3>a, <4>1, QuietMoves DEF helper, Begun, Installed, Complete
        <4>2. CASE ~LinkLost(p)
          BY <3>1, <4>2, QuietMoves
        <4> QED
          BY <4>1, <4>2
      <3>2. CASE Remove(p)
        BY <1>a, <3>2 DEF Remove, Goes, PlaceTypes
      <3>3. CASE Open(p)
        BY <3>3, OpenFile DEF Begun
      <3>4. CASE Write(p)
        <4>1. /\ bin = handle[p] /\ bin' = bin /\ handle' = handle /\ pc'[p] = "write"
              /\ sent'[p] = sent[p] + 1 /\ sent[p] \in Nat /\ embedded[p] \in Version
              /\ data[bin] \in File /\ Begun(data[bin], sent[p], embedded[p])
              /\ data'[bin] = Put(data[bin], sent[p] + 1, embedded[p])
          BY <3>4, <3>a, WriteFile
        <4> DEFINE f == data[bin]
        <4>2. f \in File /\ Len(f) = sent[p] /\ \A k \in 1 .. sent[p] : f[k] = embedded[p]
          BY <4>1 DEF Begun
        <4> HIDE DEF f
        <4> DEFINE g == Put(f, sent[p] + 1, embedded[p])
        <4>3. sent[p] + 1 \in Nat \ {0}
          BY <4>1
        <4>4. /\ Len(g) = IF sent[p] + 1 > Len(f) THEN sent[p] + 1 ELSE Len(f)
              /\ \A k \in 1 .. Len(g) : g[k] = IF k = sent[p] + 1 THEN embedded[p]
                                               ELSE IF k <= Len(f) THEN f[k] ELSE Hole
          <5>1. f \in File /\ embedded[p] \in Version
            BY <4>1, <4>2
          <5> QED
            BY <4>3, <5>1, PutChunk, Zenon
        <4> HIDE DEF g
        <4>5. Begun(g, sent[p] + 1, embedded[p])
          BY <4>1, <4>2, <4>4 DEF Begun
        <4> QED
          <5>1. data'[bin'] = g /\ bin' = handle'[p] /\ embedded'[p] = embedded[p]
            BY <1>a, <4>1 DEF g, f
          <5>2. Begun(data'[bin'], sent'[p], embedded'[p])
            BY <4>1, <4>5, <5>1
          <5> QED
            BY <4>1, <5>1, <5>2 DEF Begun
      <3>5. CASE Chmod(p)
        <4>1. /\ pc[p] = "write" /\ sent[p] = Chunks[embedded[p]] /\ pc'[p] = "hashopen"
              /\ bin # Nothing /\ bin' = bin /\ data' = data /\ bin \in exec'
          BY <1>a, <3>5 DEF Chmod, Written, Goes, PlaceTypes
        <4>2. embedded[p] \in Version /\ data[bin] \in File
          BY <1>a, <4>1 DEF WorkInv, FileTypes
        <4>3. data[bin] = Complete(embedded[p])
          BY <3>a, <4>1, <4>2, BegunIsComplete
        <4> QED
          BY <1>a, <4>1, <4>3 DEF Installed, Complete
      <3>6. CASE HashOpen(p)
        <4>1. /\ pc[p] = "hashopen" /\ pc'[p] = "hashwrite" /\ UNCHANGED <<bin, data, exec>>
          BY <1>a, <3>6 DEF HashOpen, Goes, PlaceTypes
        <4> QED
          BY <1>a, <3>a, <4>1 DEF Installed, Complete
      <3>7. CASE HashWrite(p)
        BY <1>a, <3>7 DEF HashWrite, Goes, PlaceTypes
      <3> QED
        BY <1>2, <3>1, <3>2, <3>3, <3>4, <3>5, <3>6, <3>7 DEF Alters
    <2> QED
      BY <2>3, <2>4, <2>5
  <1> QED
    BY <1>1, <1>2, NextKinds

(* Where all embed one version, the hash is there only with its binary.    *)
LEMMA NextOneVersion ==
    ASSUME TypeOK, HashInv, AloneInv, OneVersionInv, Next
    PROVE  OneVersionInv'
  <1> DEFINE Rests(p) == pc[p] \notin {"open", "write"} /\ (pc[p] \in {"prompt", "remove"} => ~link[p])
  <1> SUFFICES ASSUME ~overlapped', OneVersion', hash' # Nothing
               PROVE  Installed(hash)' /\ \A p \in Instance : Rests(p)'
    BY DEF OneVersionInv
  <1>a. embedded' = embedded /\ OneVersion /\ PlaceTypes
    BY SameBinary, TypeParts
  <1>1. CASE UNCHANGED <<helper, pc, handle, sent, link, history>>
    BY <1>a, <1>1 DEF OneVersionInv, helper, history, Installed, Complete
  <1>2. ASSUME NEW p \in Instance, Quiet(p) \/ Alters(p)
        PROVE  Installed(hash)' /\ \A q \in Instance : Rests(q)'
    <2>1. /\ ~overlapped
          /\ Active(p) \/ Active(p)' => \A q \in Instance \ {p} : ~Active(q) /\ ~Active(q)'
          /\ Alters(p) => Active(p)
          /\ \A q \in Instance \ {p} : pc'[q] = pc[q] /\ link'[q] = link[q]
      BY <1>2, AloneMoves
    <2>2. hash # Nothing => Installed(hash) /\ \A q \in Instance : Rests(q)
      BY <1>a, <2>1 DEF OneVersionInv
    <2>3. CASE Quiet(p)
      <3>1. UNCHANGED helper /\ hash # Nothing
        BY <2>3, QuietMoves DEF helper
      <3>2. Rests(p)'
        <4>1. CASE Prepares(p)
          <5>1. \A q \in Instance : hash = embedded[q]
            BY <1>a, <3>1 DEF HashInv, OneVersion
          <5>2. bin # Nothing /\ Rests(p)
            BY <2>2, <3>1 DEF Installed
          <5>3. link'[p] => link[p]
            BY <4>1, PrepareMoves
          <5>4. CASE LinkLost(p)
            BY <5>2, <5>3, <5>4 DEF LinkLost
          <5>5. CASE ~LinkLost(p)
            BY <4>1, <5>1, <5>2, <5>3, <5>5, PrepareMoves
          <5> QED
            BY <5>4, <5>5
        <4>2. CASE Start(p) \/ Launch(p) \/ HashFails(p) \/ UploadFails(p) \/ Crash(p)
          BY <1>a, <4>2 DEF Start, Launch, HashFails, UploadFails, Crash, Goes, PlaceTypes
        <4> QED
          BY <2>3, <4>1, <4>2 DEF Quiet
      <3> QED
        BY <2>1, <2>2, <3>1, <3>2 DEF helper, Installed, Complete
    <2>4. CASE HashWrite(p)
      <3>1. /\ pc[p] = "hashwrite" /\ pc'[p] = "list" /\ UNCHANGED <<bin, data, exec>>
            /\ hash' = embedded[p]
        BY <1>a, <2>4 DEF HashWrite, Goes, PlaceTypes
      <3>2. Installed(embedded[p])
        BY <2>1, <3>1 DEF AloneInv
      <3>3. \A q \in Instance \ {p} : ~Active(q)'
        BY <1>2, <2>1, <2>4 DEF Alters
      <3> QED
        BY <3>1, <3>2, <3>3 DEF Installed, Complete, Active
    <2>5. CASE HashOpen(p)
      BY <2>5 DEF HashOpen
    <2>6. CASE Remove(p) \/ Open(p) \/ Write(p) \/ Chmod(p)
      <3>1. hash # Nothing /\ ~Rests(p)
        BY <2>6 DEF Remove, Open, Write, Chmod, Written, Goes
      <3> QED
        BY <2>2, <3>1
    <2> QED
      BY <1>2, <2>3, <2>4, <2>5, <2>6 DEF Alters
  <1> QED
    BY <1>1, <1>2, NextKinds

(* Where versions replace each other, until one is torn off.               *)
LEMMA NextReplaced ==
    ASSUME TypeOK, AloneInv, ReplacedInv, Next
    PROVE  ReplacedInv'
  <1> DEFINE Replaces(p) == pc[p] \in {"open", "write", "hashopen"}
  <1> SUFFICES ASSUME ~overlapped', ~torn', hash' # Nothing
               PROVE  Installed(hash)' \/ \E p \in Instance : Replaces(p)'
    BY DEF ReplacedInv
  <1>a. PlaceTypes
    BY TypeParts
  <1>1. CASE UNCHANGED <<helper, pc, handle, sent, link, history>>
    BY <1>1 DEF ReplacedInv, helper, history, Installed, Complete
  <1>2. ASSUME NEW p \in Instance, Quiet(p) \/ Alters(p)
        PROVE  Installed(hash)' \/ \E q \in Instance : Replaces(q)'
    <2>1. /\ ~overlapped /\ ~torn
          /\ \A q \in Instance \ {p} : pc'[q] = pc[q]
      BY <1>2, AloneMoves
    <2>2. hash # Nothing => Installed(hash) \/ \E q \in Instance : Replaces(q)
      BY <2>1 DEF ReplacedInv
    <2>3. CASE Quiet(p)
      <3>1. UNCHANGED helper /\ (LinkLost(p) => pc' = pc) /\ (Replaces(p) => LinkLost(p))
        BY <2>3, QuietMoves
      <3>2. ASSUME NEW q \in Instance, Replaces(q)
            PROVE  Replaces(q)'
        BY <2>1, <3>1, <3>2
      <3>3. hash # Nothing /\ (Installed(hash) => Installed(hash)')
        BY <3>1 DEF helper, Installed, Complete
      <3> QED
        BY <2>2, <3>2, <3>3
    <2>4. CASE HashWrite(p)
      <3>1. pc[p] = "hashwrite" /\ UNCHANGED <<bin, data, exec>> /\ hash' = embedded[p]
        BY <2>4 DEF HashWrite, Goes
      <3>2. Installed(embedded[p])
        BY <2>1, <3>1 DEF AloneInv
      <3> QED
        BY <3>1, <3>2 DEF Installed, Complete
    <2>5. CASE HashOpen(p)
      BY <2>5 DEF HashOpen
    <2>6. CASE Remove(p) \/ Open(p) \/ Write(p) \/ Chmod(p)
      <3>1. Replaces(p)'
        BY <1>a, <2>6 DEF Remove, Open, Write, Chmod, Goes, PlaceTypes
      <3> QED
        BY <3>1
    <2> QED
      BY <1>2, <2>3, <2>4, <2>5, <2>6 DEF Alters
  <1> QED
    BY <1>1, <1>2, NextKinds

(* Whoever takes the helper for its own finds it so.                       *)
LEMMA NextReady ==
    ASSUME TypeOK, WorkInv, AloneInv, OneVersionInv, ReplacedInv, ReadyInv, Next
    PROVE  ReadyInv'
  <1> SUFFICES ASSUME ~overlapped', OneVersion' \/ ~torn',
                      NEW q \in Instance, TakesForItsOwn(q)'
               PROVE  Installed(embedded[q])'
    BY DEF ReadyInv
  <1>a. embedded' = embedded /\ (OneVersion' <=> OneVersion) /\ PlaceTypes
    BY SameBinary, TypeParts
  <1>b. pc'[q] = "list" /\ embedded[q] # NoBinary /\ embedded[q] \in Version
    BY <1>a DEF TakesForItsOwn, PlaceTypes
  <1>1. CASE UNCHANGED <<helper, pc, handle, sent, link, history>>
    BY <1>a, <1>1 DEF ReadyInv, helper, history, TakesForItsOwn, Installed, Complete
  <1>2. ASSUME NEW p \in Instance, Quiet(p) \/ Alters(p)
        PROVE  Installed(embedded[q])'
    <2>1. /\ ~overlapped /\ (OneVersion \/ ~torn)
          /\ Active(p) \/ Active(p)' => \A r \in Instance \ {p} : ~Active(r) /\ ~Active(r)'
          /\ Alters(p) => Active(p)
          /\ \A r \in Instance \ {p} : pc'[r] = pc[r]
      BY <1>2, <1>a, AloneMoves
    <2>2. \A r \in Instance : TakesForItsOwn(r) => Installed(embedded[r])
      BY <2>1 DEF ReadyInv
    <2>3. ASSUME UNCHANGED <<bin, data, exec>>, Installed(embedded[q])
          PROVE  Installed(embedded[q])'
      BY <1>a, <2>3 DEF Installed, Complete
    <2>4. CASE q # p
      <3>1. Active(q)' /\ pc[q] = "list"
        BY <1>b, <2>1, <2>4 DEF Active
      <3>2. UNCHANGED helper
        BY <1>2, <2>1, <2>4, <3>1, QuietMoves
      <3> QED
        BY <1>b, <2>2, <2>3, <3>1, <3>2 DEF helper, TakesForItsOwn
    <2>5. CASE q = p
      <3>1. CASE Prepares(p)
        <4>1. UNCHANGED helper
          BY <3>1, QuietMoves DEF Quiet
        <4>2. CASE LinkLost(p)
          <5>1. pc[q] = "list"
            BY <1>b, <4>2 DEF LinkLost
          <5> QED
            BY <1>b, <2>2, <2>3, <4>1, <5>1 DEF helper, TakesForItsOwn
        <4>3. CASE ~LinkLost(p)
          <5>1. pc[p] = "hash" /\ hash = embedded[p]
            BY <1>b, <2>5, <3>1, <4>3, PrepareMoves
          <5>2. hash # Nothing
            BY <1>b, <2>5, <5>1, DeployAssumption
          <5>3. \A r \in Instance : pc[r] \notin {"open", "write", "hashopen"}
            BY <2>1, <5>1 DEF Active
          <5>4. Installed(hash)
            BY <2>1, <5>2, <5>3 DEF OneVersionInv, ReplacedInv
          <5> QED
            BY <2>3, <2>5, <4>1, <5>1, <5>4 DEF helper
        <4> QED
          BY <4>2, <4>3
      <3>2. CASE HashWrite(p) \/ HashFails(p)
        <4>1. pc[p] \in {"hashopen", "hashwrite"} /\ UNCHANGED <<bin, data, exec>>
          BY <3>2 DEF HashWrite, HashFails, Goes, server
        <4>2. Installed(embedded[p])
          BY <2>1, <4>1 DEF AloneInv
        <4> QED
          BY <2>3, <2>5, <4>1, <4>2
      <3>3. CASE Start(p) \/ Launch(p) \/ UploadFails(p) \/ Crash(p)
        BY <1>a, <1>b, <2>5, <3>3 DEF Start, Launch, UploadFails, Crash, Goes, PlaceTypes
      <3>4. CASE Remove(p) \/ Open(p) \/ Write(p) \/ Chmod(p) \/ HashOpen(p)
        BY <1>a, <1>b, <2>5, <3>4 DEF Remove, Open, Write, Chmod, HashOpen, Goes, PlaceTypes
      <3> QED
        BY <1>2, <3>1, <3>2, <3>3, <3>4 DEF Quiet, Alters
    <2> QED
      BY <2>4, <2>5
  <1> QED
    BY <1>1, <1>2, NextKinds

-------------------------------------------------------------------------------
(* Instances of one version at once.                                       *)

(* A step after which nobody brings less leaves the files as full.         *)
LEMMA FilledSame ==
    ASSUME NEW i, NEW v, Filled(i, v), data'[i] = data[i],
           \A q \in Instance, k \in 1 .. Chunks[v] : Brings(q, i, k) => Brings(q, i, k)'
    PROVE  Filled(i, v)'
  BY DEF Filled

(* Every chunk is in its place or will be brought there, after one more    *)
(* step.                                                                   *)
LEMMA NextSame ==
    ASSUME TypeOK, WorkInv, SameInv, Next
    PROVE  SameInv'
  <1> SUFFICES ASSUME OneVersion', ~torn'
               PROVE  (\A v \in Version : AllFilled(v)') /\ Executed'
    BY DEF SameInv
  <1>a. embedded' = embedded /\ OneVersion /\ PlaceTypes /\ FileTypes /\ Len(data) \in Nat
    BY SameBinary, TypeParts DEF FileTypes
  <1>b. ~torn => (\A v \in Version : AllFilled(v)) /\ Executed
    BY <1>a DEF SameInv
  <1>c. \A v \in Version : Chunks[v] \in Nat
    BY DeployAssumption
  <1> DEFINE Keeps(q) == \A i \in 1 .. Len(data), k \in Nat :
                            Brings(q, i, k) /\ k <= Chunks[embedded[q]] => Brings(q, i, k)'
  <1>1. ASSUME ~torn, data' = data, Executed => Executed', \A q \in Instance : Keeps(q)
        PROVE  (\A v \in Version : AllFilled(v)') /\ Executed'
    <2>1. ASSUME NEW v \in Version, NEW p \in Instance, embedded[p] = v, NEW i \in 1 .. Len(data)
          PROVE  Filled(i, v)'
      <3>1. \A q \in Instance, k \in 1 .. Chunks[v] : Brings(q, i, k) => Brings(q, i, k)'
        <4>1. \A q \in Instance : embedded[q] = v
          BY <1>a, <2>1 DEF OneVersion
        <4> QED
          BY <1>1, <1>c, <4>1
      <3>2. Filled(i, v)
        BY <1>1, <1>b, <2>1 DEF AllFilled
      <3> QED
        BY <1>1, <3>1, <3>2, FilledSame
    <2> QED
      BY <1>1, <1>a, <1>b, <2>1 DEF AllFilled
  <1>2. CASE UNCHANGED <<helper, pc, handle, sent, link, history>>
    <2>1. ~torn /\ data' = data /\ (Executed => Executed')
      BY <1>2 DEF helper, history, Executed
    <2>2. \A q \in Instance : Keeps(q)
      BY <1>2 DEF Brings
    <2> QED
      BY <1>1, <2>1, <2>2
  <1>3. ASSUME NEW p \in Instance, Step(p), Quiet(p) \/ Alters(p)
        PROVE  (\A v \in Version : AllFilled(v)') /\ Executed'
    <2>a. \A q \in Instance \ {p} : pc'[q] = pc[q] /\ handle'[q] = handle[q] /\ sent'[q] = sent[q]
      BY <1>3, OthersSame
    <2>b. \A i, k : \A q \in Instance \ {p} : Brings(q, i, k)' <=> Brings(q, i, k)
      BY <2>a DEF Brings
    <2>c. \A q \in Instance \ {p} : Keeps(q)
      BY <2>b
    <2>d. pc[p] # "write" => Keeps(p)
      BY DEF Brings
    <2> HIDE DEF Keeps
    <2>1. CASE Quiet(p)
      <3>1. ~torn /\ UNCHANGED helper
        BY <2>1, QuietMoves
      <3>2. CASE LinkLost(p)
        <4>1. UNCHANGED <<pc, handle, sent>>
          BY <2>1, <3>2, QuietMoves
        <4>2. Executed => Executed'
          BY <3>1, <4>1 DEF helper, Executed
        <4>3. \A q \in Instance : Keeps(q)
          BY <4>1 DEF Keeps, Brings
        <4> QED
          BY <1>1, <3>1, <4>2, <4>3 DEF helper, Keeps
      <3>3. CASE ~LinkLost(p)
        <4>1. pc[p] # "write" /\ pc'[p] # "write"
          BY <2>1, <3>3, QuietMoves
        <4>2. Executed => Executed'
          BY <2>a, <3>1, <4>1 DEF helper, Executed
        <4> QED
          BY <1>1, <2>c, <2>d, <3>1, <4>1, <4>2 DEF helper, Keeps
      <3> QED
        BY <3>2, <3>3
    <2>2. CASE Remove(p) \/ HashOpen(p) \/ HashWrite(p)
      <3>1. /\ ~torn /\ UNCHANGED <<data, exec>> /\ bin' \in {Nothing, bin}
            /\ pc[p] # "write" /\ pc'[p] # "write"
        BY <1>a, <2>2 DEF Remove, HashOpen, HashWrite, Goes, PlaceTypes, history
      <3>2. Executed => Executed'
        BY <2>a, <3>1 DEF Executed
      <3> QED
        BY <1>1, <2>c, <2>d, <3>1, <3>2 DEF Keeps
    <2>3. CASE Chmod(p)
      <3>1. /\ ~torn /\ UNCHANGED <<data, bin>> /\ bin \in exec' /\ sent[p] = Chunks[embedded[p]]
            /\ pc[p] = "write"
        BY <1>a, <2>3 DEF Chmod, Goes, PlaceTypes, history, Written
      <3>2. Chunks[embedded[p]] \in Nat
        BY <1>c, <3>1 DEF WorkInv
      <3>3. Keeps(p)
        BY <3>1, <3>2 DEF Keeps, Brings
      <3>4. Executed'
        BY <3>1 DEF Executed
      <3> QED
        BY <1>1, <2>c, <3>1, <3>3, <3>4 DEF Keeps
    <2>4. CASE Open(p)
      <3>1. /\ ~torn /\ bin' \in 1 .. Len(data') /\ data'[bin'] = <<>>
            /\ pc[p] = "open" /\ pc'[p] = "write" /\ handle'[p] = bin' /\ sent'[p] = 0
            /\ \A i \in 1 .. Len(data') : i # bin' => i \in 1 .. Len(data) /\ data'[i] = data[i]
        BY <2>4, OpenFile DEF history
      <3>2. Executed'
        BY <3>1 DEF Executed
      <3>3. ASSUME NEW v \in Version, NEW q \in Instance, embedded[q] = v,
                   NEW i \in 1 .. Len(data')
            PROVE  Filled(i, v)'
        <4>1. CASE i = bin'
          <5>1. Len(data'[i]) = 0 /\ Chunks[v] \in Nat
            BY <1>c, <3>1, <4>1
          <5>2. \A k \in 1 .. Chunks[v] : Brings(p, i, k)'
            BY <3>1, <4>1, <5>1 DEF Brings
          <5> QED
            BY <5>1, <5>2 DEF Filled
        <4>2. CASE i # bin'
          <5>1. data'[i] = data[i] /\ i \in 1 .. Len(data)
            BY <3>1, <4>2
          <5>2. Filled(i, v)
            BY <1>b, <3>1, <3>3, <5>1 DEF AllFilled
          <5>3. \A r \in Instance, k \in 1 .. Chunks[v] : Brings(r, i, k) => Brings(r, i, k)'
            <6>1. \A k : ~Brings(p, i, k)
              BY <3>1 DEF Brings
            <6> QED
              BY <2>b, <6>1
          <5> QED
            BY <5>1, <5>2, <5>3, FilledSame
        <4> QED
          BY <4>1, <4>2
      <3> QED
        BY <1>a, <3>2, <3>3 DEF AllFilled
    <2>5. CASE Write(p)
      <3> DEFINE n == sent[p] + 1
      <3>1. /\ Len(data') = Len(data) /\ n \in Nat \ {0} /\ sent[p] \in Nat /\ sent'[p] = n
            /\ n <= Chunks[embedded[p]]
            /\ data[handle[p]] \in File /\ data'[handle[p]] = Put(data[handle[p]], n, embedded[p])
            /\ \A j \in 1 .. Len(data) : j # handle[p] => data'[j] = data[j]
            /\ UNCHANGED <<bin, exec, pc, handle>> /\ ~torn
        BY <2>5, WriteFile DEF history
      <3>2. Executed'
        BY <1>b, <3>1 DEF Executed
      <3>3. ASSUME NEW v \in Version, NEW q \in Instance, embedded[q] = v,
                   NEW i \in 1 .. Len(data)
            PROVE  Filled(i, v)'
        <4>a. Filled(i, v) /\ Chunks[v] \in Nat /\ embedded[p] = v
          BY <1>a, <1>b, <1>c, <3>1, <3>3 DEF AllFilled, OneVersion
        <4>1. CASE i = handle[p]
          <5> DEFINE f == data[i]
                     g == Put(f, n, v)
          <5>1. f \in File /\ n \in Nat \ {0} /\ data'[i] = g
            BY <3>1, <4>a, <4>1
          <5> HIDE DEF n, f
          <5>2. /\ Len(f) \in Nat /\ Len(g) = (IF n > Len(f) THEN n ELSE Len(f))
                /\ \A k \in 1 .. Len(g) :
                      g[k] = IF k = n THEN v ELSE IF k <= Len(f) THEN f[k] ELSE Hole
            <6> HIDE DEF g
            <6>1. f \in File /\ n \in Nat \ {0}
              BY <5>1
            <6>2. /\ Put(f, n, v) \in File /\ Len(f) \in Nat
                  /\ Len(Put(f, n, v)) = IF n > Len(f) THEN n ELSE Len(f)
                  /\ \A k \in 1 .. Len(Put(f, n, v)) :
                        Put(f, n, v)[k] = IF k = n THEN v ELSE IF k <= Len(f) THEN f[k] ELSE Hole
              BY <6>1, PutChunk, Zenon
            <6> QED
              BY <6>2 DEF g
          <5>3. Len(f) <= Chunks[v] /\ n <= Chunks[v]
            BY <3>1, <4>a DEF Filled, f, n
          <5> HIDE DEF g
          <5>4. Len(data'[i]) <= Chunks[v]
            BY <3>1, <4>a, <5>1, <5>2, <5>3
          <5>5. ASSUME NEW k \in 1 .. Chunks[v]
                PROVE  \/ k <= Len(data'[i]) /\ data'[i][k] = v
                       \/ \E r \in Instance : Brings(r, i, k)'
            <6>1. CASE k = n
              BY <3>1, <5>1, <5>2, <6>1
            <6>2. CASE k # n /\ k <= Len(f) /\ f[k] = v
              BY <3>1, <5>1, <5>2, <6>2
            <6>3. ASSUME k # n, NEW r \in Instance, Brings(r, i, k)
                  PROVE  Brings(r, i, k)'
              <7>1. CASE r = p
                BY <3>1, <6>3, <7>1 DEF Brings, n
              <7>2. CASE r # p
                BY <2>b, <6>3, <7>2
              <7> QED
                BY <7>1, <7>2
            <6> QED
              BY <4>a, <6>1, <6>2, <6>3 DEF Filled, f
          <5> QED
            BY <5>4, <5>5 DEF Filled
        <4>2. CASE i # handle[p]
          <5>1. data'[i] = data[i]
            BY <3>1, <4>2
          <5>2. \A r \in Instance, k \in 1 .. Chunks[v] : Brings(r, i, k) => Brings(r, i, k)'
            BY <2>b, <4>2 DEF Brings
          <5> QED
            BY <4>a, <5>1, <5>2, FilledSame
        <4> QED
          BY <4>1, <4>2
      <3> QED
        BY <1>a, <3>1, <3>2, <3>3 DEF AllFilled
    <2> QED
      BY <1>3, <2>1, <2>2, <2>3, <2>4, <2>5 DEF Alters
  <1> QED
    BY <1>2, <1>3, NextKinds

-------------------------------------------------------------------------------
(* The theorems.                                                           *)

(* The invariant holds of every reachable state.                           *)
THEOREM Invariance == Spec => []DeployInv
  <1>1. Init => DeployInv
    <2> SUFFICES ASSUME Init
                 PROVE  DeployInv
      OBVIOUS
    <2>1. TypeOK
      <3>1. data = <<>> /\ Len(data) = 0 /\ data \in Seq(Seq(Version \cup {Hole}))
        BY DEF Init
      <3>2. pc \in [Instance -> {"idle"}] /\ handle \in [Instance -> {Nothing}]
            /\ sent \in [Instance -> {0}] /\ link \in [Instance -> {FALSE}]
            /\ conns \in [Instance -> {0}]
        BY DEF Init
      <3>3. FileTypes
        BY <3>1, DeployAssumption DEF Init, FileTypes, File
      <3>4. PlaceTypes
        BY <3>1, <3>2 DEF Init, PlaceTypes
      <3>5. CountTypes
        <4>1. 0 \in 0 .. MaxTries
          BY DeployAssumption
        <4> QED
          BY <4>1 DEF Init, CountTypes
      <3> QED
        BY <3>3, <3>4, <3>5, TypeParts
    <2>2. InodeInv
      <3>1. Before = {} /\ Len(data) = 0 /\ tries = 0
        BY DEF Init, Before
      <3> QED
        BY <3>1, FS_EmptySet DEF InodeInv
    <2>3. WorkInv
      BY DEF Init, WorkInv, Active
    <2>4. HashInv /\ OneVersionInv /\ ReplacedInv /\ ReadyInv
      BY DEF Init, HashInv, OneVersionInv, ReplacedInv, ReadyInv, TakesForItsOwn
    <2>5. AloneInv
      BY DEF Init, AloneInv, Active
    <2>6. SameInv
      BY DEF Init, SameInv, AllFilled, Executed
    <2> QED
      BY <2>1, <2>2, <2>3, <2>4, <2>5, <2>6 DEF DeployInv
  <1>2. DeployInv /\ [Next]_vars => DeployInv'
    <2> SUFFICES ASSUME DeployInv, [Next]_vars
                 PROVE  DeployInv'
      OBVIOUS
    <2>1. CASE Next
      BY <2>1, NextTyped, NextInodes, NextWork, NextHash, NextAlone, NextOneVersion, NextReplaced,
         NextReady, NextSame DEF DeployInv
    <2>2. CASE UNCHANGED vars
      <3>1. UNCHANGED <<embedded, bin, data, exec, running, hash, pc, handle, sent, link, conns,
                        tries, torn, overlapped>>
        BY <2>2 DEF vars, server, upload, history
      <3>2. TypeOK' /\ InodeInv' /\ WorkInv' /\ HashInv'
        BY <3>1 DEF DeployInv, TypeOK, InodeInv, Before, WorkInv, Active, HashInv
      <3>3. AloneInv' /\ OneVersionInv' /\ ReplacedInv' /\ ReadyInv'
        BY <3>1 DEF DeployInv, AloneInv, Begun, Active, OneVersionInv, OneVersion, ReplacedInv,
           ReadyInv, TakesForItsOwn, Installed, Complete
      <3>4. SameInv'
        BY <3>1 DEF DeployInv, SameInv, AllFilled, Filled, Executed, OneVersion, Brings
      <3> QED
        BY <3>2, <3>3, <3>4 DEF DeployInv
    <2> QED
      BY <2>1, <2>2
  <1> QED
    BY <1>1, <1>2, PTL DEF Spec

(* Every variable keeps its type: among them, the helper's name and every  *)
(* handle stand for a file that exists, and no more files are made than    *)
(* sessions were asked for.                                                *)
THEOREM TypeCorrect == Spec => []TypeOK
  <1>1. DeployInv => TypeOK
    BY DEF DeployInv
  <1> QED
    BY <1>1, Invariance, PTL

(* Instances that wait for one another each run their own helper, whole    *)
(* and executable (HelperReady and UploadHelper).                          *)
THEOREM OwnHelperRuns == Spec => []ReadyIsInstalled
  <1>1. DeployInv => ReadyIsInstalled
    BY DEF DeployInv, ReadyInv, ReadyIsInstalled
  <1> QED
    BY <1>1, Invariance, PTL

(* Instances of one version that deploy at once leave the whole helper     *)
(* under the hash HelperReady compares.                                    *)
THEOREM DeploymentsSettle == Spec => []SameHelperSettles
  <1>1. ASSUME DeployInv
        PROVE  SameHelperSettles
    <2> SUFFICES ASSUME OneVersion, ~torn, bin # Nothing, hash # Nothing,
                        \A p \in Instance : pc[p] \in {"idle", "list", "selector"}
                 PROVE  Installed(hash)
      BY DEF SameHelperSettles
    <2>1. FileTypes /\ hash \in Version /\ bin \in 1 .. Len(data) /\ data[bin] \in File
      BY <1>1, TypeParts DEF DeployInv, FileTypes
    <2>2. PICK p \in Instance : hash = embedded[p]
      BY <1>1 DEF DeployInv, HashInv
    <2>3. \A q \in Instance : pc[q] # "write"
      OBVIOUS
    <2>4. /\ bin \in exec /\ Len(data[bin]) <= Chunks[hash]
          /\ \A k \in 1 .. Chunks[hash] : k <= Len(data[bin]) /\ data[bin][k] = hash
      BY <1>1, <2>1, <2>2, <2>3 DEF DeployInv, SameInv, AllFilled, Filled, Executed, Brings
    <2>5. Chunks[hash] \in Nat \ {0} /\ Len(data[bin]) \in Nat
      BY <2>1, DeployAssumption DEF File
    <2>6. Begun(data[bin], Chunks[hash], hash)
      BY <2>4, <2>5 DEF Begun
    <2> QED
      BY <2>1, <2>4, <2>6, BegunIsComplete DEF Installed
  <1> QED
    BY <1>1, Invariance, PTL

===============================================================================
