# A formal model of lazyssh

lazyssh is a terminal interface that keeps a list of SSH hosts, browses their
files over SFTP and opens shells on them. Its persistent sessions are the work
of `lss`, a helper it deploys to the server: a daemon per session holds a shell
on a PTY, and any number of terminals attach to it through a unix socket. This
directory holds TLA+ specifications of that code, the TLC runs that check them
and proofs of their main invariants.

`PROJECT.json` lists the runs, maps every definition to the lines it models,
and lists the hazards of the code with the properties that cover them.

## 1. The system

| Component | Source | State | Operations | What is hard |
|---|---|---|---|---|
| session daemon | `cmd/lss/daemon.go` | clients map, scrollback, PTY, listener, `shellDone` | drain, keepalive, accept, add/serve/remove, shutdown | one mutex shared by all; slow and dead mirrors; replay against live output; shutdown races |
| session files | `cmd/lss/main.go`, `daemon.go` | `<name>.sock`, `<name>.pid` | `new`, `attach`, `list`, `kill`, daemon start and end | check-then-act between processes, crashes between two files |
| client and frames | `cmd/lss/client.go`, `proto.go` | terminal size, connection | sendWinch, stdin, SIGHUP, readFrame/writeFrame | unserialised writers, lost signals, several clients on one PTY |
| helper deployment | `internal/ssh/persist.go`, `ui/app.go` | helper binary and its hash on the server | HelperReady, UploadHelper, prepareSession | partial uploads, two instances, leaked connections |
| connection | `internal/ssh/sftp.go`, `ui/app.go` | known_hosts, SSH and agent connections | Connect, trust question, password retry | file changed between check, question and retry; error paths |
| file browser | `ui/filebrowser.go` | two directories, two listings, active panel | navigation, load, transfers, edit, delete | results that arrive after the state they belong to |
| transfers | `internal/ssh/sftp.go` | local and remote trees | UploadDir, DownloadDir, RemoveRemoteAll | failing part-way, cancellation |
| host store | `internal/config`, `internal/model` | hosts in memory and on disk | Load, Save, Import, Export | truncate-then-write, memory changed before disk |
| host list | `ui/hostlist.go` | rows, search filter | keys, search, delete, import, export | rows point to objects that an import replaces |
| host form, master password | `ui/hostform.go`, `ui/app.go` | the password of a host, the master password | save, encrypt, decrypt | the order of prompts decides what is stored |
| dialogs, connecting | `ui/app.go`, `ssh/terminal.go` | pages, one modal slot, focus | showInfo, showError, prompts, questions of goroutines, the selector | callbacks of goroutines that share the slot |

The interface runs one event loop; every network operation runs in a goroutine
and hands its result back with `QueueUpdateDraw`. The interface and `lss` meet
only through commands (`lss list`, `ssh -t host lss new <name>`). Inside `lss`,
processes meet through the two files and the socket, and the goroutines of a
daemon through `session.mu`, `shellDone` and the PTY.

### What makes each part correct

- *Session*: every mirror sees the output once and in order, beginning with the
  tail kept for replay; no mirror can stop the shell; dead mirrors go away.
- *Files*: whatever command comes next finds the session that runs, or none.
- *Client*: frames arrive as written, the shell has the width of the terminal
  that resized last, nothing typed before a detach is lost.
- *Deployment*: a helper that is reported ready is the embedded one.
- *Connection*: no connection to a host whose key was not checked or trusted.
- *Browser*: an operation acts on the entry the user sees.
- *Store*: what the user saved is on disk unless a save failed; what the list
  shows is what an edit changes.
- *Master password*: one that does not fit is forgotten.
- *Dialogs*: keys go to what is in front, a goroutine that waits for an answer
  has its question on the screen, and nothing without a button stays.

## 2. Modules

| Module | Models | Role |
|---|---|---|
| `OutputWindow` | a shell's output as a numbered stream | shared vocabulary |
| `MirroredSession` | what a session promises its mirrors | abstract specification |
| `LssSession` | `session`, `runDaemon`, `handleClient` | the daemon, goroutine by goroutine |
| `MCLssSession` | | constants of the runs |
| `LssFiles`, `MCLssFiles` | `main.go`, start and end of `runDaemon`, `writePID` | the files of one session name |
| `LssProofs` | | of both, `LssSession` and `LssFiles`: lemmas, invariants, refinement |
| `LssClient`, `MCLssClient` | `client.go`, `proto.go`, the reader in `handleClient` | terminals, frames, window size |
| `LssClientProofs` | | lemmas on the wire, invariants, theorems |
| `HelperDeploy`, `MCHelperDeploy` | `persist.go`, `prepareSession` | the helper binary and its hash |
| `HelperDeployProofs` | | lemmas on files, invariants, theorems |
| `HostTrust`, `MCHostTrust` | `Connect`, known_hosts, `connectSFTPwithPwd` | host keys and the trust question |
| `HostTrustProofs` | | lemmas and theorems |
| `Transfers`, `MCTransfers` | `UploadDir`, `DownloadDir`, `RemoveRemoteAll` | walks over trees |
| `TransfersProofs` | | lemmas on trees and the stack, invariants, theorems |
| `FileBrowser`, `MCFileBrowser` | `filebrowser.go`, the dialogs of `app.go` | panels, dialogs, focus, late results |
| `FileBrowserProofs` | | lemmas on pages and jobs, invariants, theorems |
| `HostStore`, `MCHostStore` | `config.go`, `crypto.go`, `hostlist.go`, `hostform.go`, `main.go` | hosts in memory and on disk, the list, the form, the master password |
| `HostStoreProofs` | | lemmas and theorems |
| `Connecting`, `MCConnecting` | `app.go`, `terminal.go` | pages, questions and reports of attempts to connect |
| `ConnectingProofs` | | lemmas and theorems |

`Connecting`, `HostTrust` and `HelperDeploy` look at the same goroutine. The
first keeps what the user sees and lets the network end anyhow; the second keeps
the keys of the server, the third the files on it. `FileBrowser` begins where
`Connecting` switches to the browser and stands to `Transfers` in the same way.

Definitions named "Faulty" stand for bugs the code does not have. Each is put in
the place of the definition that follows it to see that the property watching
over that code fails.

### LssSession

One variable per piece of shared state (`mu`, `sb`, `clients`, `shellDone`,
`ln`) and a program counter per goroutine: `drain`, `pinger`, the handler `hpc`
and the reader `rd` of each connection. `todo` is what remains of the `range`
in `broadcastLocked`. `recv` is history: the output delivered to a connection.
The i-th byte of output is written `i`, so a gap or a repetition in `recv`
shows.

A frame is written in one step: to a peer that is reading it succeeds, to one
that stalled (its buffers are full) or left it fails. The lock is held from
`FeedLock`/`PingLock`/`AddLock` to the matching unlock, so every other goroutine
can run between two writes of a broadcast. `Killed` and `MainReturns` end the
process wherever its goroutines are.

Left out: the input itself (a reader is "writing" while the PTY blocks, and
nothing assumes it ever ends), the window size (`LssClient`), the files
(`LssFiles`).

### LssFiles

A process `p` is one `lss new` with the daemon it spawns. Each system call on a
file is a step: stat, unlink, bind, listen, create, write. `sock` is the daemon
bound to the path; `opened` says whose open pid file is still the one at the
path, since a file removed between `os.Create` and the write takes the pid with
it. `kill(pid, 0)` also succeeds for a dead daemon whose parent still waits on
its terminal (`Signalable`). Commands may overlap at any step; `overlapped`
remembers that one began while another, or a daemon's start or end, was under
way, and the properties about the files speak of the time before. `CrashAt` says
where a crash may come. Its `FilesInit`, `FilesNext` and `FilesSpec` have names of
their own, because `LssProofs` extends this module and `LssSession`.

### LssClient

The connection carries units, one per `Write`: a header, then a payload. The
daemon's reader takes units in order; a unit that is not what it expects ends
in `"lost"`, because from there on lengths are read from other bytes. The width
stands for the size (the height travels in the same frame); it is a number
modulo `Modulus`, as a `uint16` is. `pending` is the channel of capacity one
that signals meet. Resizes may come before SIGWINCH is caught; they are lost, and
the shell keeps the old width until the next one. `early` remembers that one
did, `mixed` which clients wrote a frame inside another, and the properties that
either spoils except them. When a client's reader of the connection ends, both
of its writers end with it.

### HelperDeploy

Every request to the server is a step, and may be the last one: `LinkLost` makes
the rest fail, `UploadFails` and `HashFails` fail one, `Crash` ends lazyssh. A
binary is a sequence of chunks, so a partial upload, or two at once, can be told
from a whole one. `bin` is the inode the name stands for and `handle` the one an
upload writes to: unlinking the name leaves the inode to the daemons that
execute it. A hash stands for what it is the hash of. `torn` remembers a
deployment that broke off, `overlapped` that two instances checked or deployed at
once. `ReadyIsInstalled` speaks of the time before an overlap and, when several
versions are about, before a deployment that broke off. `SameHelperSettles`
holds after overlaps too, of one version.

### HostTrust

`file` holds the valid lines of known_hosts in order, which decides between
entries of one algorithm; `tail` says how it ends, because a line printed after
an unfinished one is not a line. `db` is what an attempt loaded: the first
handshake and the second each compare with their own copy, while the server may
change its key and another instance append. `accepted` remembers the keys the
handshakes let through since the user last removed such an entry. Users remove
entries while nobody connects; they are not supposed to edit the file during an
attempt. Loading sees the whole file or fails: that the errors of writing the
temporary copy are ignored is listed as a hazard and not modelled.

### Transfers

The recursion is a stack of directories with what is left of each listing, so
that what somebody else adds or removes (`OtherAdds`, `OtherRemoves`) meets old
listings. Checking the context and opening the file are two steps. Any request
may fail and ends the walk. `there` is the tree that is read or deleted,
`copied` the state of each copy.

### FileBrowser

One action per key, per queued result and per return of a goroutine. What a
directory holds is not a variable: a listing brings any set of `Listings`, which
others may have changed meanwhile. `dir` is where the next operation works and
`path` what the panel says; they differ while a listing is under way and after
one that failed. `pages` is tview's stack, one page of each name, and `focus`
follows its front page unless somebody moves it (`ShowError`, `FocusActive`).
`AddPage`, `RemovePage` and the focus of `Pages`, `Flex` and `Table` are tview's,
modelled from how the code relies on them and marked external: the left table
gets the focus back, whichever panel is active, which is why the code calls
`focusActive` at all. A job is a goroutine with the dialog it put up; a transfer
looks whether it was cancelled, closes its dialog and reports in three steps,
with keys between them. `strayed` is history: it tells whether a request on a
remote entry went to another path than the panel showed beside the row.

Bounded: directories are opened to `MaxDepth`, and as many goroutines are at
work as `Job` has members. After Esc only reports and the dialogs they raise
remain; a new browser would be a new instance of the model.

### HostStore

One action per key that touches the hosts, the list, the form or the master
password. Hosts are objects: `heap` holds those of the process, `hosts` and
`rows` say which of them the store and the tree have, and `target` which one a
form, a question or a prompt is about, because an import puts new objects in the
place of old ones while the tree still points to these. A host is its
identifier, one text for everything the search or a form looks at, and its
password: none, in the clear, or encrypted by one of the master passwords.

A step that saves ends in three ways: the file has the list; saving fails, and
the file is as it was or what truncating and half of the writing leave
(`CutShort`: nothing that can be read, or a list that ends early); or the process
is killed there. `Start` reads what is left, and a file that cannot be read keeps
the program from starting. Only `Decrypt`, `EnterMaster` and `UnlockEnds` stand
for connecting: an entered password is in use while a goroutine tries it, with
nothing on the screen, and the user may go on.

`faults` remembers since the last complete save what may have kept changes off
the disk, `brought` whether any file held an encrypted password, `proven` whether
the master password has decrypted something.

### Connecting

`overlays` is tview's stack above the page of the last `SwitchToPage`, with one
overlay for each name in `PageOf` (ten dialogs share the modal page or the
input page); an overlay that asks for a goroutine says for which. `att` is the
goroutine of each attempt from the key that begins it: it decrypts, dials, asks
about an unknown host, asks for a password, prepares the session helper and asks
whether to deploy it. Whatever the server or the network does decides by which
action it goes on. `screen` changes as tview does it: adding or removing a page
focuses the page in front, `SwitchToPage` hides every other, `removeModal`
removes the modal page only if it is in front, and `SetFocus` of the host list
looks at nothing. While ssh has the terminal no key arrives, but reports do; before its goroutine
has taken it (`TakeTerminal`), keys still come.

Nothing stops a second attempt: the password prompts leave "Connecting" off the
screen while the goroutine works on, so that the host list takes keys. From the
moment two goroutines (or one and a shell) are at work, `crossed` is true: their
reports remove whatever modal is in front and their questions replace each other,
so the questions that `WaitsOnScreen` and `InfoHasWorker` promise are lost. The
code has nothing against it, and the two properties speak of the time before.

## 3. Runs

| Run | Bounds | Shows |
|---|---|---|
| `session` | 2 connections, scrollback 2, buffer 2, output 3 | type invariant, `MirrorsInSync`, `RegisteredIsServed`, and that `LssSession` implements `MirroredSession` |
| `session_live` | 1 connection, scrollback 1, output 2 | `OutputDrains`, `UnresponsiveIsDropped`, `DialIsAnswered` |
| `files` | 3 daemons, commands at any step, crashes once the pid is written | `EverySessionReachable`, `NewJoinsItsOwn`, `StaleIsCleaned` until commands overlap, `ExitFreesTheName` always |
| `client` | 2 terminals, 1 key frame each, 2 resizes in all, widths 2 and 3 modulo 4 | `EveryResizeRedraws`, `WidthSettles`, `DetachLosesNoKeys` |
| `client_frames` | 1 terminal, typing while resizing | **violated**: `FramesIntact` |
| `deploy` | 2 instances, versions of 2 chunks and 1, 4 tries | `ReadyIsInstalled`, `SameHelperSettles` |
| `trust` | 2 instances, 1 host, 2 keys of one algorithm and 1 of another, 2 attempts, 2 changes of the key | `OnlyTrustedIsAccepted`, `ChangedKeyIsRefused`, `RevokedIsRefused` |
| `transfers` | a directory with a file, a link and a subdirectory of two files; 2 operations, 2 changes by others | `DoneIsComplete`, `CancelStopsTheWalk`, `RemovesWhatItListed` |
| `browser` | 1 directory, 1 file, depth 1, 2 goroutines | `RowsAreOfTheDirectory`, `LoadingIsServed`, `ActsOnChosenRow`, and in `TypeOK` that only an edit at work has a temporary file |
| `browser_esc` | the same | **violated**: `HostListGetsTheKeys` |
| `store` | 3 objects, 2 edits, 1 decryption at work, 2 texts of which the search finds one, 2 master passwords | `MemoryIsOnDisk`, `RowsAreOfTheStore`, `MasterIsVerified`, `EncryptedOnlyIfBrought` |
| `connect` | 2 attempts, each any number of times, 2 shells at once | `FocusFollows`, `WaitsOnScreen`, `InfoHasWorker` |

Why the bounds are enough. Output of one byte more than the scrollback makes it
trim; a buffer of two makes reads of different sizes. Two mirrors are one in the
middle of a broadcast and one that attaches, stalls or leaves meanwhile; the
proof removes the bound for the safety properties. Liveness is checked with one
mirror: with two the graph of fairness conditions is out of reach, and what a
second mirror adds (another holder of the lock, another deadline) is of the
same kind as what the keepalive adds. Three daemons are a dead one, its
successor and a third command between them. Widths 2 and 3 modulo 4 make one
terminal's dummy width the other's real one and make the other's wrap to 0. Two
resizes of one terminal meet in the channel. Versions of two sizes make an
upload of the shorter one over the longer one leave a rest; four tries are a
deployment that breaks off, its repair, a daemon started from it and an update.
Two keys of one algorithm are an old and a new one, and the third a key that
neither confirms nor contradicts them; the files are none, an empty one, and
those with a known key, a revoked key, or both. The proofs remove the bounds of
`trust`. The tree of `transfers` has every kind of entry on both levels that the
recursion treats differently, and two operations show that nothing of the first
is left for the second. One directory to enter and leave makes two paths that can
be confused, and a file in it is what operations are confused about. Two
goroutines are a cancelled transfer and the operation it disturbs. The two are
interchangeable (`SameJobs`). Three objects are one host that was there, the one
that an import puts in its place, and a new one; two edits are one that goes wrong
and one that builds on it. A search that finds one text of two makes rows that
are fewer than the hosts, and an edit can move a host in or out. Of two master
passwords one is the wrong one, and while it is tried another can be entered only
if the decryption has ended; the theorem about the master password has no such
bound. The files have a host that exists already, with another password, and one
identifier twice. Two attempts, or two shells, are what `crossed` needs, and one
shell is enough to keep keys away. The proofs remove the bounds.

Deadlock is checked in `session`, `session_live`, `files` and `store`. In the
others it is not: when the terminals are closed, or the tries, attempts and
operations of the bounds used up, the model stops, as the program then rests;
`browser` stops after Esc, and under the dialog without buttons that is described
below, and so does `connect` under one that two attempts have left.

### Fairness

`session_live` assumes weak fairness for every goroutine that can run, and
strong fairness for taking `session.mu`: Go's mutex hands itself to a waiter
that has waited for a millisecond. The ticker fires for ever. Nothing is assumed
of the shell, of the PTY accepting input, of peers or of signals. A write ends:
that is the five-second deadline.

### Findings

- `client_frames`: the stdin and the SIGWINCH goroutine share a connection
  without a lock, and `writeFrame` writes twice. A resize that lands inside a
  frame of keys (a window dragged while typing or pasting) makes the daemon read
  lengths from the wrong bytes; the connection is useless from there on.
- `browser_esc`: a transfer goes on after Cancel (a single file to its end, a
  directory to the end of the current file). If the user presses Esc meanwhile,
  the report gives the focus to a table that is on no page: no key but Ctrl-C
  and Ctrl-Q works any more.

The models also have behaviour that a user would not want and that no text of the
repository promises to be otherwise. The properties say where they stop short of
it, by an antecedent or a history variable:

- `LssFiles`, `overlapped`: `lss new` looks for the socket, and the daemon it
  starts unlinks whatever is there. Two at once leave a session that runs and that
  neither `attach` nor `kill` can reach. A process may end between closing its
  listener and removing its pid file, which then stays until the next `lss list`.
- `LssClient`, `early`: a terminal resized after its size was read and before
  SIGWINCH is caught (client.go:31) has the wrong width until the next resize.
- `HelperDeploy`, `overlapped` and `torn`: two instances that find no helper both
  upload it; if one breaks off after the other wrote the hash, the hash vouches
  for half a binary. Cancelling a deployment leaves its connection open
  (app.go:470).
- `FileBrowser`: a directory on the left that cannot be read leaves the old rows
  and the old path on the screen while the next operation works in the new one. A
  cancelled transfer that takes the focus from "Loading…" lets the user open a
  prompt over it; if the load ends then, `removeModal` finds the prompt in front,
  and "Loading…", which has no buttons, stays for good.
- `Connecting`, `leftSelector`: the selector opened from the browser gives the
  focus to the host list behind the browser when it closes. `crossed`: two
  attempts replace each other's questions, and may leave a dialog without buttons.
- `HostStore`, `faults`: a save cut short loses hosts, and exporting the store
  onto its own path empties it; the form closes over the error of a failed save
  (hostform.go:171). Deleting a host deletes every host of its identifier, which
  an import can make two. `EncryptedOnlyIfBrought` states what follows from the
  form never asking for a master password: in a store that began with lazyssh no
  password is ever encrypted, whatever README.md:221 lets one expect.

## 4. Proofs

`LssProofs` proves, for every set of connections, every positive
scrollback and buffer size and every amount of output, that `Spec` implies
`[]TypeOK`, `[]MirrorsInSync` and `[]RegisteredIsServed`.

`MirrorsInSync` is not inductive. Forwarding a chunk keeps a mirror in sync only
if the chunk is exactly the output that follows what the mirror has; a replay
only if the scrollback is exactly the tail of the output; and both only if
nobody else is broadcasting. `IInv` adds these: `StreamInv` (where the drain's
chunk and the scrollback lie in the stream), `LockInv` (one holder; what a
broadcast has still to reach is registered) and `ConnInv` (where a handler can
be, by the state of its connection). One lemma per part shows that each step
keeps it, with one case per action. Its first lemmas hold the facts about
windows: two that meet join into one (`WindowConcat`), trimming keeps the end
(`KeepLastWindow`), recording keeps the tail (`TailExtends`).

The same module proves that `Spec` implies `MirrorSpec`, the specification of
`MirroredSession` with the output recorded (`fed`) for its log, what was
delivered (`recv`) for its views, and `MirrorStates` for the state of its
mirrors. `SeenIsDue` takes from the invariant that what a mirror has is what it
is due; one lemma per kind of step (recording, forwarding, attaching, dropping,
the end) maps it to the abstract step, and the rest are stutters.

`HostTrustProofs` proves, for any number of instances, hosts and keys, any
known_hosts and any number of attempts and key changes, `[]TypeOK`,
`[]OnlyTrustedIsAccepted` and, if known_hosts ends in a newline at first,
`[]ChangedKeyIsRefused` and `[]RevokedIsRefused`. None of them is inductive: a
key is accepted against a copy of the file that was loaded earlier.
`TrustInv` says what ties the copies to the file: every key in it or in a copy is
vouched for (`SanctionInv`), a copy is a prefix of the file (`PrefixInv`), a
revocation is in the file and in the copy of every handshake (`RevokedInv`), and
the line by which a key was accepted still decides for its algorithm
(`DecidedInv`), so that no second key can be. `Shape` reduces the actions to
what they do to the file, the copies and the accepted keys. Without the newline
`PrefixInv` fails, since the line appended becomes part of the unfinished one,
and only the first theorem remains (`HandEdited`; the run `trust` has it FALSE).

`ConnectingProofs` proves `[]TypeOK`, `[]FocusFollows`, `[]WaitsOnScreen` and
`[]InfoHasWorker` for any finite set of attempts and any number of shells.
`ScreenStep` reduces all actions to seven things they do to the screen, and the
lemmas on stacks (`WithoutPage`, `AddPage`, `RemoveModalPage`) say that what they
show is made of overlays that were there, none moved up, and at most a new one in
front. `FocusFollows` needs `ChooserInv`: the chooser, whose answers give the
focus to the host list unconditionally, is on the host list with nothing between,
unless a selector was left behind another page. `WaitsOnScreen` and
`InfoHasWorker` need three more parts: while nothing has crossed one goroutine or
shell is at work at most (`CountInv`), a question has the keys, and a dialog
without a button is in front and has them too (`InfoInv`). Then no key but the
answer does anything (`OnlyTheFront`), and every step of the one attempt leaves
its own dialog in front, or its question, or none (`AttemptOutcome`).

Of `LssFiles` the same module proves `[]FilesTypeOK`, `[]EverySessionReachable`,
`[]NewJoinsItsOwn` and `[]ExitFreesTheName` for any set of commands and wherever
a daemon may crash. The last one follows from `BoundInv`, which no overlap
disturbs: a daemon that has not bound the socket yet, has unlinked it or has
exited does not hold it. The other two need `AloneInv`: until commands overlap,
a name has one command before its attach or one living daemon, and they belong
together (`OneLives`); a list about to remove something removes it from nobody
who lives (`ListInv`); and what a starting daemon has made so far is there
(`StartInv`). `CommandAlone`, `DaemonAlone` and the lemmas beside them take one
process each. `[]StaleIsCleaned` holds if no daemon crashes between binding its
socket and writing its pid (`CrashAt` without the steps of the start, as in the
run): then `LeftInv` says that a socket without a daemon that is starting is the
one the pid file names, and `QuietInv` that a list whose directory nobody was
using is still alone with it.

`LssClientProofs` proves, for any number of terminals, keys and resizes and any
widths, `[]TypeOK`, `[]EveryResizeRedraws`, `[]WidthSettles` and
`[]DetachLosesNoKeys`. What a daemon has read is not enough to know: the
invariant says what is still on the wire. Its keys are numbered in order, from
the next one the shell gets to the last one written, none is missing unless the
client ended, and none comes after a detach (`KeysInv`); the last width on it is
the last one sent, or nothing is on it and that width was read (`WinchInv`); and
what was sent is the terminal's width or a signal is pending (`SignalInv`). The
daemon's reader either meets the units in the order they were written or has
lost the framing for good, so frames written inside one another need no case of
their own. `RedrawInv` and `PtyInv` follow a resize through its two steps. The
lemmas say what `Append` and `Tail` do to such a wire.

`HelperDeployProofs` proves, for any number of instances and versions and
binaries of any size, `[]TypeOK`, `[]ReadyIsInstalled` and `[]SameHelperSettles`.
The types already need an argument: a preparation creates one inode at most
(`InodeInv` counts those that may still do so), and an instance that is preparing
has a connection to close (`WorkInv`). `ReadyIsInstalled` has two sides. As long
as instances wait for one another, who deploys owns the name from Remove to
Chmod, and has written so far the beginning of its binary (`AloneInv`). Between
deployments, with one version there is a hash only while its binary is installed
(`OneVersionInv`), so that a deployment begins only where there is none; with
several, while none broke off, the hash is true unless one is being replaced
(`ReplacedInv`). `SameHelperSettles` speaks of overlaps too. There `SameInv` says
of every inode that each chunk is in its place or some writer that holds the
inode has it still to write, and is not longer than the binary; a writer that
truncates the file of another has everything still to write itself.

`TransfersProofs` proves, for every tree, any number of operations and whatever
others do to the tree meanwhile, `[]TypeOK`, `[]DoneIsComplete`,
`[]CancelStopsTheWalk` and `[]RemovesWhatItListed`. `StackInv` says what the
stack of the recursion is: the selected entry, then one directory in another,
each with some of its entries left. An entry that is wanted and not yet copied is
the one being copied, or is left on the stack, or is in something that is
(`Due`, in `CopyInv`); one that is to be removed and still there is due or is a
directory gone into (`RemovalInv`). What others add to a directory after it was
listed is ahead of nobody (`LateInv`), so it is never removed. `WithinDown` is the
induction over the tree: it uses that nothing is in itself, as
`TransferAssumption` says.

`HostStoreProofs` proves, for any hosts, texts and passwords, any search and
any files, `[]TypeOK`, `[]MemoryIsOnDisk`, `[]RowsAreOfTheStore`,
`[]EncryptedOnlyIfBrought` and `[]MasterIsVerified`. The last is inductive as it
stands, the others are so together, with four more parts: what a prompt is about
is an object with an encrypted password (`TargetInv`), nothing is being decrypted
while no process runs and no list is longer than the objects (`ObjectsInv`), the
tree follows the store wherever the list can come back without being made anew,
which is everywhere but over the form (`TreeInv`), and without an encrypted
password nothing waits to ask for a master password, under an error either
(`BroughtInv`). `ChangeKeeps` and `KillKeeps` are the two ends of every action
that saves. What the lists hold (`KeptIsKept`, `MergedIsTyped`) is an induction
over recursive functions: `IntervalInduction` takes it from the well-foundedness
of the order of the naturals, `Recursion` shows that such a function exists. This
is why the lists are built by recursive functions here and not by `SelectSeq`
and a fold, whose operator arguments the provers cannot instantiate.

`FileBrowserProofs` proves, for any names and listings, any depth and any number
of jobs, `[]TypeOK`, `[]RowsAreOfTheDirectory`, `[]LoadingIsServed` and
`[]ActsOnChosenRow`. Rows change when a listing arrives, directories when a key
enters one, so that neither knows of the other: `LoadInv` says that a listing
under way is of the directory the panel is in, that there is one if and only if
the panel is loading, and that rows on the screen are of that directory.
`LoadStarts` keeps it because a directory is only left when nothing is loading.
What was asked earlier is followed by two more parts: a question about a remote
entry keeps the path next to its row wherever it lies among the pages (`Sound`,
in `PagesInv`), and so does an edit through its stages (`JobSound`, in
`JobsInv`), though the panel has moved on. The lemmas on pages (`WithoutPage`,
`RaisePage`, `FrontPages`) say that dialogs that come and go take none of the
others with them and change none.

The assumptions are `SessionAssumption`, `FilesAssumption`, `ClientAssumption`,
`DeployAssumption`, `TrustAssumption`, `TransferAssumption`,
`ConnectingAssumption`, `StoreAssumption` and `BrowserAssumption`, on the
constants. Beyond types and distinct names they say that there is a terminal,
that window sizes are below the modulus, that every binary has a chunk, that a
hosts file of a first start has no more hosts than the bound on objects allows,
and that the entries of directories form a tree. Only model-checked: liveness,
which needs fairness.

## 5. Not modelled, and the plan

Not modelled, and not meant to be:

- Argon2id and AES-GCM (a password is bound to the master password that encrypted
  it: arithmetic beyond that would have to be assumed);
- the embedded helper binaries and how they are built; the arguments of ssh;
- drawing, wording, icons and the layout of folders;
- other programs that write hosts.yaml while lazyssh runs (it does not look at the
  file again), and edits of known_hosts during an attempt;
- that loading known_hosts through a temporary copy ignores write errors.

Every safety property the passing runs check is proved. Next, abstract
specifications beside `MirroredSession`, each shown to be implemented: what a
client promises the shell behind it (keys in order, the last width), and what a
transfer promises whoever asked for it (an entry is copied whole or the report
says why not).
