-------------------------------- MODULE LssFiles --------------------------------
(***************************************************************************)
(* The two files of one session name, <name>.sock and <name>.pid, and the  *)
(* processes that meet only through them: every `lss new` with the daemon  *)
(* it spawns, `lss list`, `lss kill`, crashes (cmd/lss/main.go, and        *)
(* runDaemon and writePID in cmd/lss/daemon.go).                           *)
(*                                                                         *)
(* Each system call that reads or changes a file is a step of its own.  A  *)
(* process p stands for one `lss new` and for its daemon.                  *)
(***************************************************************************)
EXTENDS Naturals, FiniteSets

CONSTANTS Proc,       \* runs of `lss new`, each with its daemon
          CrashAt     \* where a daemon may crash

Startup  == {"unlink", "bind", "listen", "create", "write"}
Shutdown == {"closeln", "rmsock", "rmpid", "return"}
Running  == Startup \cup {"serve"} \cup Shutdown
Waiting  == {"poll", "attach"}

ASSUME FilesAssumption ==
    /\ CrashAt \subseteq Running
    /\ {"none", "empty"} \cap Proc = {}

VARIABLES
    sock,     \* what the socket path names: "none" or the daemon bound to it
    pid,      \* the pid file: "none", "empty" or the daemon it names
    opened,   \* the daemons whose open pid file is the one at the path
    npc,      \* each `lss new`
    dpc,      \* each daemon
    joined,   \* the daemon each `lss new` attached to, or "none"
    lpc,      \* `lss list`: "idle", "probe", "rmpid", "rmsock", "done"
    lpid,     \* the pid it read
    quiet,    \* has nothing run since it read the directory?
    overlapped  \* history: has a command begun while another, or a daemon's start
                \* or end, was under way?

files == <<sock, pid, opened>>
lister == <<lpc, lpid, quiet>>
filesVars == <<files, npc, dpc, joined, lister, overlapped>>

FilesInit ==
    /\ sock = "none" /\ pid = "none" /\ opened = {}
    /\ npc = [p \in Proc |-> "idle"]
    /\ dpc = [p \in Proc |-> "unborn"]
    /\ joined = [p \in Proc |-> "none"]
    /\ lpc = "idle" /\ lpid = "none" /\ quiet = FALSE
    /\ overlapped = FALSE

Alive(p) == dpc[p] \in Running

Listening(p) == dpc[p] \in {"create", "write", "serve", "closeln"}

\* kill(pid, 0) also finds a dead daemon its parent has not left behind yet.
Signalable(p) == Alive(p) \/ npc[p] \in Waiting \cup {"attached"}

\* Nobody is halfway through creating or ending the session.
Settled ==
    /\ \A p \in Proc : npc[p] \notin Waiting \cup {"spawn"}
    /\ \A p \in Proc : dpc[p] \notin Startup \cup Shutdown

CommandStarts == overlapped' = (overlapped \/ ~Settled \/ lpc \notin {"idle", "done"})

RemoveSock == sock' = "none"
RemovePid == pid' = "none" /\ opened' = {}

-------------------------------------------------------------------------------
(* lss new: cmdNew and the dial of runClient.                              *)

NewStep(p, from, to) == npc[p] = from /\ npc' = [npc EXCEPT ![p] = to]

\* Faulty: nothing keeps a name from being used twice.
NewUnchecked(p) ==
    /\ CommandStarts
    /\ NewStep(p, "idle", "spawn")
    /\ UNCHANGED <<files, dpc, joined, lister>>

NewCheck(p) ==
    /\ CommandStarts
    /\ NewStep(p, "idle", IF sock = "none" THEN "spawn" ELSE "refused")
    /\ UNCHANGED <<files, dpc, joined, lister>>

NewSpawn(p) ==
    /\ NewStep(p, "spawn", "poll")
    /\ dpc' = [dpc EXCEPT ![p] = "unlink"]
    /\ quiet' = FALSE
    /\ UNCHANGED <<files, joined, lpc, lpid, overlapped>>

NewSeesSocket(p) ==
    /\ sock # "none"
    /\ NewStep(p, "poll", "attach")
    /\ UNCHANGED <<files, dpc, joined, lister, overlapped>>

\* Two seconds are over and the last stat finds no socket either.
NewTimeout(p) ==
    /\ sock = "none"
    /\ NewStep(p, "poll", "failed")
    /\ UNCHANGED <<files, dpc, joined, lister, overlapped>>

NewDial(p) ==
    \/ \E d \in Proc :
          /\ sock = d /\ Listening(d)
          /\ NewStep(p, "attach", "attached")
          /\ joined' = [joined EXCEPT ![p] = d]
          /\ UNCHANGED <<files, dpc, lister, overlapped>>
    \/ /\ ~ \E d \in Proc : sock = d /\ Listening(d)
       /\ NewStep(p, "attach", "failed")
       /\ UNCHANGED <<files, dpc, joined, lister, overlapped>>

\* The user detaches, or the daemon is gone.
NewReturns(p) ==
    /\ NewStep(p, "attached", "returned")
    /\ UNCHANGED <<files, dpc, joined, lister, overlapped>>

-------------------------------------------------------------------------------
(* The daemon: runDaemon up to its accept loop, and writePID.              *)

DaemonGoes(p, from, to) == dpc[p] = from /\ dpc' = [dpc EXCEPT ![p] = to]

DaemonUnlink(p) ==
    /\ DaemonGoes(p, "unlink", "bind")
    /\ RemoveSock
    /\ UNCHANGED <<pid, opened, npc, joined, lister, overlapped>>

\* bind fails if the path exists, whoever made it; the shell is then killed.
DaemonBind(p) ==
    /\ DaemonGoes(p, "bind", IF sock = "none" THEN "listen" ELSE "failed")
    /\ sock' = IF sock = "none" THEN p ELSE sock
    /\ UNCHANGED <<pid, opened, npc, joined, lister, overlapped>>

DaemonListen(p) ==
    /\ DaemonGoes(p, "listen", "create")
    /\ UNCHANGED <<files, npc, joined, lister, overlapped>>

\* os.Create truncates the file at the path, or makes a new one.
PidCreate(p) ==
    /\ DaemonGoes(p, "create", "write")
    /\ pid' = "empty"
    /\ opened' = opened \cup {p}
    /\ UNCHANGED <<sock, npc, joined, lister, overlapped>>

\* Faulty: the pid file is never closed.
PidWriteLeavesOpen(p) ==
    /\ DaemonGoes(p, "write", "serve")
    /\ pid' = IF p \in opened THEN p ELSE pid
    /\ UNCHANGED <<sock, opened, npc, joined, lister, overlapped>>

\* What is written to a file removed meanwhile shows nowhere.
PidWrite(p) ==
    /\ DaemonGoes(p, "write", "serve")
    /\ pid' = IF p \in opened THEN p ELSE pid
    /\ opened' = opened \ {p}
    /\ UNCHANGED <<sock, npc, joined, lister, overlapped>>

-------------------------------------------------------------------------------
(* The daemon's end: the goroutine that waits for the shell closes the     *)
(* listener (unlinking its path first) and removes the files, while main   *)
(* returns, and ends the process, as soon as Accept fails.                 *)

\* Faulty: the socket is left to the waiter, as if the listener did not unlink it.
ShellExitKeepsSock(p) ==
    /\ DaemonGoes(p, "serve", "closeln")
    /\ UNCHANGED <<files, npc, joined, lister, overlapped>>

ShellExit(p) ==
    /\ DaemonGoes(p, "serve", "closeln")
    /\ RemoveSock
    /\ UNCHANGED <<pid, opened, npc, joined, lister, overlapped>>

ListenerClose(p) ==
    /\ DaemonGoes(p, "closeln", "rmsock")
    /\ UNCHANGED <<files, npc, joined, lister, overlapped>>

WaiterRemovesSock(p) ==
    /\ DaemonGoes(p, "rmsock", "rmpid")
    /\ RemoveSock
    /\ UNCHANGED <<pid, opened, npc, joined, lister, overlapped>>

WaiterRemovesPid(p) ==
    /\ DaemonGoes(p, "rmpid", "return")
    /\ RemovePid
    /\ UNCHANGED <<sock, npc, joined, lister, overlapped>>

MainExits(p) ==
    /\ \E at \in {"rmsock", "rmpid", "return"} : DaemonGoes(p, at, "exited")
    /\ opened' = opened \ {p}
    /\ UNCHANGED <<sock, pid, npc, joined, lister, overlapped>>

Crash(p) ==
    /\ \E at \in CrashAt : DaemonGoes(p, at, "dead")
    /\ opened' = opened \ {p}
    /\ UNCHANGED <<sock, pid, npc, joined, lister, overlapped>>

-------------------------------------------------------------------------------
(* lss kill and lss list.                                                  *)

\* SIGTERM to the daemon the pid file names; nothing cleans up after it.
Kill(p) ==
    /\ pid = p /\ Alive(p)
    /\ dpc' = [dpc EXCEPT ![p] = "dead"]
    /\ opened' = opened \ {p}
    /\ UNCHANGED <<sock, pid, npc, joined, lister, overlapped>>

\* An absent file is not in the directory; an empty one is skipped.
ListRead ==
    /\ CommandStarts /\ lpc \in {"idle", "done"}
    /\ lpid' = pid
    /\ lpc' = IF pid \in Proc THEN "probe" ELSE "done"
    /\ quiet' = \A p \in Proc : ~Signalable(p)
    /\ UNCHANGED <<files, npc, dpc, joined>>

\* Faulty: every entry is taken for stale.
ListProbeBlind ==
    /\ lpc = "probe"
    /\ lpc' = "rmpid"
    /\ UNCHANGED <<files, npc, dpc, joined, lpid, quiet, overlapped>>

ListProbe ==
    /\ lpc = "probe"
    /\ lpc' = IF Signalable(lpid) THEN "done" ELSE "rmpid"
    /\ UNCHANGED <<files, npc, dpc, joined, lpid, quiet, overlapped>>

\* Faulty: a stale entry's socket is forgotten.
ListKeepsSock ==
    /\ lpc = "rmpid"
    /\ lpc' = "done"
    /\ RemovePid
    /\ UNCHANGED <<sock, npc, dpc, joined, lpid, quiet, overlapped>>

ListRemovesPid ==
    /\ lpc = "rmpid"
    /\ lpc' = "rmsock"
    /\ RemovePid
    /\ UNCHANGED <<sock, npc, dpc, joined, lpid, quiet, overlapped>>

ListRemovesSock ==
    /\ lpc = "rmsock"
    /\ lpc' = "done"
    /\ RemoveSock
    /\ UNCHANGED <<pid, opened, npc, dpc, joined, lpid, quiet, overlapped>>

-------------------------------------------------------------------------------

NewNext(p) ==
    \/ NewCheck(p) \/ NewSpawn(p) \/ NewSeesSocket(p) \/ NewTimeout(p)
    \/ NewDial(p) \/ NewReturns(p)

DaemonNext(p) ==
    \/ DaemonUnlink(p) \/ DaemonBind(p) \/ DaemonListen(p) \/ PidCreate(p) \/ PidWrite(p)
    \/ ShellExit(p) \/ ListenerClose(p) \/ WaiterRemovesSock(p) \/ WaiterRemovesPid(p)
    \/ MainExits(p)

ListNext == ListRead \/ ListProbe \/ ListRemovesPid \/ ListRemovesSock

FilesNext ==
    \/ \E p \in Proc : NewNext(p) \/ DaemonNext(p) \/ Crash(p) \/ Kill(p)
    \/ ListNext

FilesSpec == FilesInit /\ [][FilesNext]_filesVars

-------------------------------------------------------------------------------

FilesTypeOK ==
    /\ sock \in {"none"} \cup Proc
    /\ pid \in {"none", "empty"} \cup Proc
    /\ opened \subseteq {p \in Proc : dpc[p] = "write"}
    /\ npc \in [Proc -> {"idle", "spawn", "refused", "failed", "attached", "returned"} \cup Waiting]
    /\ dpc \in [Proc -> {"unborn", "failed", "exited", "dead"} \cup Running]
    /\ joined \in [Proc -> {"none"} \cup Proc]
    /\ lpc \in {"idle", "probe", "rmpid", "rmsock", "done"}
    /\ lpid \in {"none", "empty"} \cup Proc
    /\ quiet \in BOOLEAN /\ overlapped \in BOOLEAN

(* While commands wait for each other, a serving daemon is what the        *)
(* session's files lead to: `lss attach` and the next `lss new` meet its   *)
(* socket, `lss list` and `lss kill` its pid (main.go:113-174;             *)
(* README.md:250, "Session terminated").                                   *)
EverySessionReachable ==
    ~overlapped => \A p \in Proc : dpc[p] = "serve" => sock = p /\ pid = p

(* And `lss new` attaches to the session it created, never to another      *)
(* one's that took the name meanwhile (the usage text, main.go:180).       *)
NewJoinsItsOwn ==
    ~overlapped => \A p \in Proc : joined[p] \in {"none", p}

(* A complete `lss list` during which nothing of the session ran leaves    *)
(* nothing of it behind (README.md:239-240).                               *)
StaleIsCleaned ==
    ~overlapped /\ lpc = "done" /\ quiet => sock = "none" /\ pid = "none"

(* However commands and daemons interleave, whoever ends by itself leaves  *)
(* no socket to find, so that the name can be used again without a list:   *)
(* ln.Close unlinks before Accept can fail.                                *)
ExitFreesTheName ==
    \A p \in Proc : dpc[p] = "exited" => sock # p

===============================================================================
