------------------------------ MODULE HelperDeploy ------------------------------
(***************************************************************************)
(* How lazyssh brings its session helper to a server (prepareSession in    *)
(* internal/ui/app.go; HelperReady and UploadHelper in                     *)
(* internal/ssh/persist.go): several instances of lazyssh, possibly of     *)
(* different versions, one home directory, no lock.                        *)
(*                                                                         *)
(* Every request to the server is a step.  A binary is a sequence of       *)
(* chunks, the packets of its upload; a file is an inode, so that a handle *)
(* outlives the name it was opened by.  A hash stands for the binary it is *)
(* the hash of.                                                            *)
(***************************************************************************)
EXTENDS Integers, Sequences, FiniteSets

CONSTANTS Instance,    \* running copies of lazyssh
          Version,     \* the helper binaries they may embed
          Chunks,      \* the packets each binary takes to upload
          MaxTries     \* bound: times sessions are asked for

\* What a build without helpers embeds; a missing or empty file; a hole in one.
CONSTANTS NoBinary, Nothing, Hole

ASSUME DeployAssumption ==
    /\ Chunks \in [Version -> Nat \ {0}]
    /\ MaxTries \in Nat
    /\ {NoBinary, Nothing, Hole} \cap Version = {} /\ Nothing \notin Nat

Inode == 1 .. MaxTries

VARIABLES
    embedded,   \* the helper each instance embeds, for the server's architecture
    bin,        \* the inode that ~/.lazyssh/bin/lss names, or Nothing
    data,       \* the chunks of each inode created so far
    exec,       \* the inodes with the executable bit
    running,    \* the inodes that session daemons execute
    hash,       \* lss.sha256: Nothing (absent or empty), or a version
    pc,         \* where prepareSession stands in each instance
    handle,     \* the inode UploadHelper writes to, or Nothing
    sent,       \* the chunks it has written
    link,       \* does the connection in use still carry requests?
    conns,      \* open connections of each instance
    tries,      \* how often sessions were asked for
    torn,       \* history: has a deployment ended before its hash was written?
    overlapped  \* history: have two instances checked or deployed at once?

upload == <<handle, sent>>
server == <<bin, data, exec, running, hash>>
history == <<torn, overlapped>>
vars == <<embedded, server, pc, upload, link, conns, tries, history>>

Init ==
    /\ embedded \in [Instance -> Version \cup {NoBinary}]
    /\ bin = Nothing /\ data = <<>> /\ exec = {} /\ running = {} /\ hash = Nothing
    /\ pc = [p \in Instance |-> "idle"]
    /\ handle = [p \in Instance |-> Nothing]
    /\ sent = [p \in Instance |-> 0]
    /\ link = [p \in Instance |-> FALSE]
    /\ conns = [p \in Instance |-> 0]
    /\ tries = 0
    /\ torn = FALSE /\ overlapped = FALSE

\* The whole of a binary, and what becomes of file f when v's chunk i is put in it.
Complete(v) == [i \in 1 .. Chunks[v] |-> v]

Put(f, i, v) ==
    [j \in 1 .. (IF i > Len(f) THEN i ELSE Len(f)) |->
        IF j = i THEN v ELSE IF j <= Len(f) THEN f[j] ELSE Hole]

Writers(i) == {p \in Instance : handle[p] = i}

\* The kernel's ETXTBSY, either way.
Busy(i) == i \in running
Executable(i) == i \in exec /\ Writers(i) = {} /\ \E v \in Version : data[i] = Complete(v)

Goes(p, from, to) == pc[p] = from /\ pc' = [pc EXCEPT ![p] = to]

Closes(p) == conns' = [conns EXCEPT ![p] = @ - 1]

-------------------------------------------------------------------------------
(* prepareSession up to its verdict on the helper.                         *)

Start(p) ==
    /\ tries < MaxTries
    /\ Goes(p, "idle", "arch")
    /\ conns' = [conns EXCEPT ![p] = @ + 1]
    /\ link' = [link EXCEPT ![p] = TRUE]
    /\ tries' = tries + 1
    /\ overlapped' = (overlapped \/ \E q \in Instance : pc[q] \notin {"idle", "selector"})
    /\ UNCHANGED <<embedded, server, upload, torn>>

\* From here on every request fails.
LinkLost(p) ==
    /\ pc[p] # "idle" /\ link[p]
    /\ link' = [link EXCEPT ![p] = FALSE]
    /\ UNCHANGED <<embedded, server, pc, upload, conns, tries, history>>

\* Faulty: an unsupported system does not end the preparation.
UnsupportedGoesOn(p) ==
    /\ Goes(p, "arch", "home")
    /\ Closes(p)
    /\ UNCHANGED <<embedded, server, upload, link, tries, history>>

\* Not Linux, or an architecture without a helper: a plain shell instead.
Unsupported(p) ==
    /\ Goes(p, "arch", "idle")
    /\ Closes(p)
    /\ UNCHANGED <<embedded, server, upload, link, tries, history>>

Supported(p) ==
    /\ link[p]
    /\ Goes(p, "arch", "home")
    /\ UNCHANGED <<embedded, server, upload, link, conns, tries, history>>

\* An error here leaves the connection open.
RemoteHome(p) ==
    /\ Goes(p, "home", IF link[p] THEN "stat" ELSE "idle")
    /\ UNCHANGED <<embedded, server, upload, link, conns, tries, history>>

\* The helper is not there, or not to be seen.
Missing(p) ==
    \/ /\ embedded[p] = NoBinary
       /\ Goes(p, "stat", "idle")
       /\ Closes(p)
    \/ /\ embedded[p] # NoBinary
       /\ Goes(p, "stat", "prompt")
       /\ UNCHANGED conns

\* HelperReady: without a binary to compare with, any file will do.
Stat(p) ==
    /\ \/ (bin = Nothing \/ ~link[p]) /\ Missing(p)
       \/ /\ bin # Nothing /\ link[p]
          /\ Goes(p, "stat", IF embedded[p] = NoBinary THEN "list" ELSE "hash")
          /\ UNCHANGED conns
    /\ UNCHANGED <<embedded, server, upload, link, tries, history>>

\* A hash that cannot be read counts as another version's.
ReadHash(p) ==
    /\ Goes(p, "hash", IF link[p] /\ hash = embedded[p] THEN "list" ELSE "prompt")
    /\ UNCHANGED <<embedded, server, upload, link, conns, tries, history>>

\* Deploy or Update goes on; Cancel leaves the connection open.
Answer(p) ==
    /\ Goes(p, "prompt", "remove") \/ Goes(p, "prompt", "idle")
    /\ UNCHANGED <<embedded, server, upload, link, conns, tries, history>>

-------------------------------------------------------------------------------
(* UploadHelper.                                                           *)

\* Faulty: the hash of the new binary is written at once.
RemoveAndHash(p) ==
    /\ link[p] /\ Goes(p, "remove", "open")
    /\ bin' = Nothing
    /\ hash' = embedded[p]
    /\ UNCHANGED <<embedded, data, exec, running, upload, link, conns, tries, history>>

Remove(p) ==
    /\ link[p] /\ Goes(p, "remove", "open")
    /\ bin' = Nothing
    /\ UNCHANGED <<embedded, data, exec, running, hash, upload, link, conns, tries, history>>

\* O_CREATE|O_TRUNC: a new inode, or the one another instance has just made.
Open(p) ==
    /\ link[p] /\ Goes(p, "open", "write")
    /\ \/ /\ bin = Nothing
          /\ data' = Append(data, <<>>)
          /\ bin' = Len(data) + 1
       \/ /\ bin # Nothing /\ ~Busy(bin)
          /\ data' = [data EXCEPT ![bin] = <<>>]
          /\ bin' = bin
    /\ handle' = [handle EXCEPT ![p] = bin']
    /\ sent' = [sent EXCEPT ![p] = 0]
    /\ UNCHANGED <<embedded, exec, running, hash, link, conns, tries, history>>

\* Faulty: the file is opened to append.
WriteAppends(p) ==
    /\ link[p] /\ pc[p] = "write" /\ sent[p] < Chunks[embedded[p]]
    /\ sent' = [sent EXCEPT ![p] = @ + 1]
    /\ data' = [data EXCEPT ![handle[p]] = Append(@, embedded[p])]
    /\ UNCHANGED <<embedded, bin, exec, running, hash, pc, handle, link, conns, tries, history>>

\* One packet after the other, from the first.
Write(p) ==
    /\ link[p] /\ pc[p] = "write" /\ sent[p] < Chunks[embedded[p]]
    /\ sent' = [sent EXCEPT ![p] = @ + 1]
    /\ data' = [data EXCEPT ![handle[p]] = Put(@, sent'[p], embedded[p])]
    /\ UNCHANGED <<embedded, bin, exec, running, hash, pc, handle, link, conns, tries, history>>

Written(p) == pc[p] = "write" /\ sent[p] = Chunks[embedded[p]]

\* By name, whatever the name stands for by now.
Chmod(p) ==
    /\ Written(p) /\ bin # Nothing
    /\ link[p] /\ Goes(p, "write", "hashopen")
    /\ exec' = exec \cup {bin}
    /\ UNCHANGED <<embedded, bin, data, running, hash, upload, link, conns, tries, history>>

HashOpen(p) ==
    /\ link[p] /\ Goes(p, "hashopen", "hashwrite")
    /\ hash' = Nothing
    /\ UNCHANGED <<embedded, bin, data, exec, running, upload, link, conns, tries, history>>

Returned(p) ==
    /\ handle' = [handle EXCEPT ![p] = Nothing]
    /\ sent' = [sent EXCEPT ![p] = 0]

HashWrite(p) ==
    /\ link[p] /\ Goes(p, "hashwrite", "list")
    /\ hash' = embedded[p]
    /\ Returned(p)
    /\ UNCHANGED <<embedded, bin, data, exec, running, link, conns, tries, history>>

\* Without its hash a deployment counts as done all the same.
HashFails(p) ==
    /\ Goes(p, "hashopen", "list") \/ Goes(p, "hashwrite", "list")
    /\ Returned(p)
    /\ torn' = TRUE
    /\ UNCHANGED <<embedded, server, link, conns, tries, overlapped>>

Uploading(p) == pc[p] \in {"remove", "open", "write"}

\* A request of the upload fails: an error, with the connection left open.
UploadFails(p) ==
    /\ Uploading(p)
    /\ pc' = [pc EXCEPT ![p] = "idle"]
    /\ Returned(p)
    /\ torn' = TRUE
    /\ UNCHANGED <<embedded, server, link, conns, tries, overlapped>>

\* lazyssh ends; the server closes its connections and files.
Crash(p) ==
    /\ pc[p] # "idle"
    /\ pc' = [pc EXCEPT ![p] = "idle"]
    /\ Returned(p)
    /\ conns' = [conns EXCEPT ![p] = 0]
    /\ torn' = (torn \/ Uploading(p) \/ pc[p] \in {"hashopen", "hashwrite"})
    /\ UNCHANGED <<embedded, server, link, tries, overlapped>>

-------------------------------------------------------------------------------
(* The session selector, and the daemons started from it.                  *)

\* ListSessions, whose error is ignored, then Close.
List(p) ==
    /\ Goes(p, "list", "selector")
    /\ Closes(p)
    /\ UNCHANGED <<embedded, server, upload, link, tries, history>>

\* A new session starts a daemon if the server can execute the helper.
Launch(p) ==
    /\ Goes(p, "selector", "idle")
    /\ IF bin # Nothing /\ Executable(bin)
       THEN running' = running \cup {bin} ELSE UNCHANGED running
    /\ UNCHANGED <<embedded, bin, data, exec, hash, upload, link, conns, tries, history>>

Dismiss(p) ==
    /\ Goes(p, "selector", "idle")
    /\ UNCHANGED <<embedded, server, upload, link, conns, tries, history>>

SessionEnds(i) ==
    /\ i \in running
    /\ running' = running \ {i}
    /\ UNCHANGED <<embedded, bin, data, exec, hash, pc, upload, link, conns, tries, history>>

-------------------------------------------------------------------------------

PrepareStep(p) ==
    \/ Start(p) \/ LinkLost(p) \/ Unsupported(p) \/ Supported(p) \/ RemoteHome(p)
    \/ Stat(p) \/ ReadHash(p) \/ Answer(p)
    \/ List(p) \/ Launch(p) \/ Dismiss(p)

UploadStep(p) ==
    \/ Remove(p) \/ Open(p) \/ Write(p) \/ Chmod(p)
    \/ HashOpen(p) \/ HashWrite(p) \/ HashFails(p) \/ UploadFails(p)

Next ==
    \/ \E p \in Instance : PrepareStep(p) \/ UploadStep(p) \/ Crash(p)
    \/ \E i \in Inode : SessionEnds(i)

Spec == Init /\ [][Next]_vars

-------------------------------------------------------------------------------
(* What a deployment must guarantee.                                       *)

TypeOK ==
    /\ embedded \in [Instance -> Version \cup {NoBinary}]
    /\ data \in Seq(Seq(Version \cup {Hole})) /\ Len(data) <= MaxTries
    /\ bin \in {Nothing} \cup 1 .. Len(data)
    /\ exec \subseteq 1 .. Len(data) /\ running \subseteq exec
    /\ hash \in {Nothing} \cup Version
    /\ pc \in [Instance -> {"idle", "arch", "home", "stat", "hash", "prompt", "remove",
                            "open", "write", "hashopen", "hashwrite", "list", "selector"}]
    /\ handle \in [Instance -> {Nothing} \cup 1 .. Len(data)]
    /\ sent \in [Instance -> Nat]
    /\ link \in [Instance -> BOOLEAN]
    /\ conns \in [Instance -> 0 .. MaxTries]
    /\ tries \in 0 .. MaxTries /\ torn \in BOOLEAN /\ overlapped \in BOOLEAN

\* p is about to run the helper as the one it embeds.
TakesForItsOwn(p) == pc[p] = "list" /\ embedded[p] # NoBinary

Installed(v) == bin # Nothing /\ bin \in exec /\ data[bin] = Complete(v)

OneVersion == \A p, q \in Instance : embedded[p] = embedded[q]

(* Instances that wait for one another each go on with their own helper    *)
(* only, whole and executable: if all embed one version whatever broke off *)
(* earlier and wherever, if they replace each other's unless a deployment  *)
(* broke off (persist.go:54-55, 102).                                      *)
ReadyIsInstalled ==
    ~overlapped /\ (OneVersion \/ ~torn) =>
        \A p \in Instance : TakesForItsOwn(p) => Installed(embedded[p])

(* Instances of one version may deploy at once, into one file or into two  *)
(* of which one loses its name: once all of them are through, and none     *)
(* broke off, the helper is whole and the hash is its own, so that         *)
(* HelperReady reports the truth (persist.go:54-55, 65).                   *)
SameHelperSettles ==
    /\ OneVersion /\ ~torn
    /\ \A p \in Instance : pc[p] \in {"idle", "list", "selector"}
    /\ bin # Nothing /\ hash # Nothing
    => Installed(hash)

===============================================================================
