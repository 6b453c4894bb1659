------------------------------ MODULE LssSession ------------------------------
(***************************************************************************)
(* The session inside one `lss` daemon (cmd/lss/daemon.go): the goroutine  *)
(* that drains the shell's PTY, the keepalive, one handler and one reader  *)
(* per connection, the accept loop, the goroutine that waits for the shell,*)
(* and the state they share under session.mu.                              *)
(*                                                                         *)
(* A write of a frame is one step: it delivers the whole frame to a peer   *)
(* that is reading, and fails after its deadline otherwise.  What the      *)
(* writes themselves put on the wire is the subject of LssClient.          *)
(***************************************************************************)
EXTENDS OutputWindow

CONSTANTS Client,          \* connections that may be made to the socket
          MaxScrollback,   \* maxScrollback
          BufSize,         \* the drain's read buffer
          MaxOutput        \* bound: bytes the shell ever writes

ASSUME SessionAssumption ==
    /\ MaxScrollback \in Nat \ {0}
    /\ BufSize \in Nat \ {0}
    /\ MaxOutput \in Nat

VARIABLES
    shell,      \* "running" or "exited"
    written,    \* bytes the shell has written to its terminal
    drain,      \* the PTY drain: "read", "feed", "bcast", "stop"
    chunk,      \* what ptmx.Read returned, until it is broadcast
    mu,         \* who holds session.mu: "free", "drain", "ping", "add"
    todo,       \* the clients the running broadcast has not reached
    sb,         \* scrollback.data
    fed,        \* bytes ever written to the scrollback
    clients,    \* session.clients
    conn,       \* "none", "queued" (not accepted yet), "open", "closed"
    peer,       \* the other end: "reading", "stalled", "gone"
    recv,       \* output the daemon has delivered to the connection
    hpc,        \* the handler goroutine of a connection
    rd,         \* the reader goroutine of a connection
    pinger,     \* the keepalive: "run" or "stop"
    shellDone,  \* is the channel shellDone closed?
    ln,         \* the listener: "open" or "closed"
    alive       \* is the daemon process there?

shellVars == <<shell, written, shellDone, ln>>
drainVars == <<drain, chunk>>
sessVars  == <<sb, fed, clients>>
connVars  == <<conn, peer, recv>>
vars == <<shellVars, drainVars, mu, todo, sessVars, connVars, hpc, rd, pinger, alive>>

Init ==
    /\ shell = "running" /\ written = 0 /\ shellDone = FALSE /\ ln = "open"
    /\ drain = "read" /\ chunk = <<>>
    /\ mu = "free" /\ todo = {}
    /\ sb = <<>> /\ fed = 0 /\ clients = {}
    /\ conn = [c \in Client |-> "none"]
    /\ peer = [c \in Client |-> "reading"]
    /\ recv = [c \in Client |-> <<>>]
    /\ hpc = [c \in Client |-> "none"]
    /\ rd = [c \in Client |-> "idle"]
    /\ pinger = "run"
    /\ alive = TRUE

-------------------------------------------------------------------------------
(* The shell, which the daemon only observes through the PTY.              *)

ShellWrites ==
    /\ alive /\ shell = "running" /\ written < MaxOutput
    /\ written' = written + 1
    /\ UNCHANGED <<shell, shellDone, ln, drainVars, mu, todo, sessVars, connVars,
                   hpc, rd, pinger, alive>>

ShellExits ==
    /\ alive /\ shell = "running"
    /\ shell' = "exited"
    /\ UNCHANGED <<written, shellDone, ln, drainVars, mu, todo, sessVars, connVars,
                   hpc, rd, pinger, alive>>

-------------------------------------------------------------------------------
(* The PTY drain.                                                          *)

\* Faulty: the scrollback is never trimmed.
ScrollbackGrows(p) == sb \o p

\* What the scrollback holds once p is written to it.
ScrollbackWrite(p) == KeepLast(sb \o p, MaxScrollback)

\* ptmx.Read returns between 1 and BufSize of the bytes not read yet.
DrainRead(n) ==
    /\ alive /\ drain = "read"
    /\ n \in 1 .. BufSize /\ fed + n <= written
    /\ chunk' = Window(fed, fed + n)
    /\ drain' = "feed"
    /\ UNCHANGED <<shellVars, mu, todo, sessVars, connVars, hpc, rd, pinger, alive>>

\* ptmx.Read fails once the shell is gone and all it wrote is read.
DrainStop ==
    /\ alive /\ drain = "read" /\ shell = "exited" /\ fed = written
    /\ drain' = "stop"
    /\ UNCHANGED <<shellVars, chunk, mu, todo, sessVars, connVars, hpc, rd, pinger, alive>>

\* feed locks mu, records the output and starts the broadcast.
FeedLock ==
    /\ alive /\ drain = "feed" /\ mu = "free"
    /\ mu' = "drain"
    /\ sb' = ScrollbackWrite(chunk)
    /\ fed' = fed + Len(chunk)
    /\ todo' = clients
    /\ drain' = "bcast"
    /\ UNCHANGED <<shellVars, chunk, clients, connVars, hpc, rd, pinger, alive>>

FeedUnlock ==
    /\ alive /\ mu = "drain" /\ todo = {}
    /\ mu' = "free"
    /\ chunk' = <<>>
    /\ drain' = "read"
    /\ UNCHANGED <<shellVars, todo, sessVars, connVars, hpc, rd, pinger, alive>>

-------------------------------------------------------------------------------
(* The keepalive: a tick may come at any time until shellDone is seen.     *)

\* Faulty: the keepalive reaches nobody.
PingNobody ==
    /\ alive /\ pinger = "run" /\ mu = "free"
    /\ mu' = "ping"
    /\ UNCHANGED <<shellVars, drainVars, todo, sessVars, connVars, hpc, rd, pinger, alive>>

PingLock ==
    /\ alive /\ pinger = "run" /\ mu = "free"
    /\ mu' = "ping"
    /\ todo' = clients
    /\ UNCHANGED <<shellVars, drainVars, sessVars, connVars, hpc, rd, pinger, alive>>

PingUnlock ==
    /\ alive /\ mu = "ping" /\ todo = {}
    /\ mu' = "free"
    /\ UNCHANGED <<shellVars, drainVars, todo, sessVars, connVars, hpc, rd, pinger, alive>>

PingStop ==
    /\ alive /\ pinger = "run" /\ mu # "ping" /\ shellDone
    /\ pinger' = "stop"
    /\ UNCHANGED <<shellVars, drainVars, mu, todo, sessVars, connVars, hpc, rd, alive>>

-------------------------------------------------------------------------------
(* broadcastLocked, by whoever holds mu for a broadcast.                   *)

\* Faulty: a keepalive carries the drain's buffer, whatever it holds.
PayloadOfBuffer == chunk

\* The payload of the running broadcast: the keepalive's is empty.
Payload == IF mu = "drain" THEN chunk ELSE <<>>

Writable(c) == conn[c] = "open" /\ peer[c] = "reading"

BroadcastWrite(c) ==
    /\ alive /\ mu \in {"drain", "ping"} /\ c \in todo
    /\ Writable(c)
    /\ recv' = [recv EXCEPT ![c] = @ \o Payload]
    /\ todo' = todo \ {c}
    /\ UNCHANGED <<shellVars, drainVars, mu, sessVars, conn, peer, hpc, rd, pinger, alive>>

\* Faulty: a client is dropped but stays in the map.
DropKeepsClient(c) ==
    /\ alive /\ mu \in {"drain", "ping"} /\ c \in todo
    /\ ~Writable(c)
    /\ conn' = [conn EXCEPT ![c] = "closed"]
    /\ todo' = todo \ {c}
    /\ UNCHANGED <<shellVars, drainVars, mu, sessVars, peer, recv, hpc, rd, pinger, alive>>

\* Faulty: there is no deadline, so only a peer that is gone fails a write.
DropWithoutDeadline(c) ==
    /\ alive /\ mu \in {"drain", "ping"} /\ c \in todo
    /\ peer[c] = "gone"
    /\ clients' = clients \ {c}
    /\ conn' = [conn EXCEPT ![c] = "closed"]
    /\ todo' = todo \ {c}
    /\ UNCHANGED <<shellVars, drainVars, mu, sb, fed, peer, recv, hpc, rd, pinger, alive>>

\* The write failed or its five seconds are over.
BroadcastDrop(c) ==
    /\ alive /\ mu \in {"drain", "ping"} /\ c \in todo
    /\ ~Writable(c)
    /\ clients' = clients \ {c}
    /\ conn' = [conn EXCEPT ![c] = "closed"]
    /\ todo' = todo \ {c}
    /\ UNCHANGED <<shellVars, drainVars, mu, sb, fed, peer, recv, hpc, rd, pinger, alive>>

-------------------------------------------------------------------------------
(* A connection: the kernel queues it, the accept loop starts its handler, *)
(* which adds it, serves it until its reader ends or the shell exits, and  *)
(* removes it.                                                             *)

Dial(c) ==
    /\ alive /\ ln = "open" /\ conn[c] = "none"
    /\ conn' = [conn EXCEPT ![c] = "queued"]
    /\ UNCHANGED <<shellVars, drainVars, mu, todo, sessVars, peer, recv, hpc, rd, pinger, alive>>

Accept(c) ==
    /\ alive /\ ln = "open" /\ conn[c] = "queued"
    /\ conn' = [conn EXCEPT ![c] = "open"]
    /\ hpc' = [hpc EXCEPT ![c] = "add"]
    /\ UNCHANGED <<shellVars, drainVars, mu, todo, sessVars, peer, recv, rd, pinger, alive>>

\* Faulty: a client is added without locking.
AddUnlocked(c) ==
    /\ alive /\ hpc[c] = "add"
    /\ hpc' = [hpc EXCEPT ![c] = "replay"]
    /\ UNCHANGED <<shellVars, drainVars, mu, todo, sessVars, connVars, rd, pinger, alive>>

AddLock(c) ==
    /\ alive /\ hpc[c] = "add" /\ mu = "free"
    /\ mu' = "add"
    /\ hpc' = [hpc EXCEPT ![c] = "replay"]
    /\ UNCHANGED <<shellVars, drainVars, todo, sessVars, connVars, rd, pinger, alive>>

\* Nothing is written, so nothing can fail, while the scrollback is empty.
AddRegister(c) ==
    /\ alive /\ hpc[c] = "replay"
    /\ sb = <<>> \/ Writable(c)
    /\ recv' = [recv EXCEPT ![c] = sb]
    /\ clients' = clients \cup {c}
    /\ mu' = "free"
    /\ hpc' = [hpc EXCEPT ![c] = "serve"]
    /\ rd' = [rd EXCEPT ![c] = "reading"]
    /\ UNCHANGED <<shellVars, drainVars, todo, sb, fed, conn, peer, pinger, alive>>

\* Faulty: a failed replay leaves the connection open.
AddFailLeavesOpen(c) ==
    /\ alive /\ hpc[c] = "replay"
    /\ sb # <<>> /\ ~Writable(c)
    /\ mu' = "free"
    /\ hpc' = [hpc EXCEPT ![c] = "done"]
    /\ UNCHANGED <<shellVars, drainVars, todo, sessVars, connVars, rd, pinger, alive>>

AddFail(c) ==
    /\ alive /\ hpc[c] = "replay"
    /\ sb # <<>> /\ ~Writable(c)
    /\ conn' = [conn EXCEPT ![c] = "closed"]
    /\ mu' = "free"
    /\ hpc' = [hpc EXCEPT ![c] = "done"]
    /\ UNCHANGED <<shellVars, drainVars, todo, sessVars, peer, recv, rd, pinger, alive>>

\* readFrame returned fData: the payload goes to the PTY, which may block.
ReadData(c) ==
    /\ alive /\ rd[c] = "reading" /\ conn[c] = "open" /\ peer[c] # "gone"
    /\ rd' = [rd EXCEPT ![c] = "writing"]
    /\ UNCHANGED <<shellVars, drainVars, mu, todo, sessVars, connVars, hpc, pinger, alive>>

PtyWritten(c) ==
    /\ alive /\ rd[c] = "writing"
    /\ rd' = [rd EXCEPT ![c] = "reading"]
    /\ UNCHANGED <<shellVars, drainVars, mu, todo, sessVars, connVars, hpc, pinger, alive>>

ReadDetach(c) ==
    /\ alive /\ rd[c] = "reading" /\ conn[c] = "open" /\ peer[c] # "gone"
    /\ rd' = [rd EXCEPT ![c] = "done"]
    /\ UNCHANGED <<shellVars, drainVars, mu, todo, sessVars, connVars, hpc, pinger, alive>>

ReadError(c) ==
    /\ alive /\ rd[c] = "reading" /\ (conn[c] = "closed" \/ peer[c] = "gone")
    /\ rd' = [rd EXCEPT ![c] = "done"]
    /\ UNCHANGED <<shellVars, drainVars, mu, todo, sessVars, connVars, hpc, pinger, alive>>

ServeEnd(c) ==
    /\ alive /\ hpc[c] = "serve" /\ (rd[c] = "done" \/ shellDone)
    /\ hpc' = [hpc EXCEPT ![c] = "remove"]
    /\ UNCHANGED <<shellVars, drainVars, mu, todo, sessVars, connVars, rd, pinger, alive>>

\* remove: under mu only the deletion; the close comes after the unlock.
Remove(c) ==
    /\ alive /\ hpc[c] = "remove" /\ mu = "free"
    /\ clients' = clients \ {c}
    /\ hpc' = [hpc EXCEPT ![c] = "close"]
    /\ UNCHANGED <<shellVars, drainVars, mu, todo, sb, fed, connVars, rd, pinger, alive>>

RemoveClose(c) ==
    /\ alive /\ hpc[c] = "close"
    /\ conn' = [conn EXCEPT ![c] = "closed"]
    /\ hpc' = [hpc EXCEPT ![c] = "done"]
    /\ UNCHANGED <<shellVars, drainVars, mu, todo, sessVars, peer, recv, rd, pinger, alive>>

-------------------------------------------------------------------------------
(* The other end of a connection: a terminal, a network, a person.         *)

Connected(c) == conn[c] \in {"queued", "open"}

PeerChanges(c, from, to) ==
    /\ alive /\ Connected(c) /\ peer[c] \in from
    /\ peer' = [peer EXCEPT ![c] = to]
    /\ UNCHANGED <<shellVars, drainVars, mu, todo, sessVars, conn, recv, hpc, rd, pinger, alive>>

PeerStalls(c)  == PeerChanges(c, {"reading"}, "stalled")
PeerResumes(c) == PeerChanges(c, {"stalled"}, "reading")
PeerLeaves(c)  == PeerChanges(c, {"reading", "stalled"}, "gone")

-------------------------------------------------------------------------------
(* The end: the waiter sees the shell exit, the listener closes under the  *)
(* accept loop, and the return of main ends every goroutine wherever it is.*)

CloseShellDone ==
    /\ alive /\ shell = "exited" /\ ~shellDone
    /\ shellDone' = TRUE
    /\ UNCHANGED <<shell, written, ln, drainVars, mu, todo, sessVars, connVars,
                   hpc, rd, pinger, alive>>

\* The kernel resets the connections nobody accepted.
CloseListener ==
    /\ alive /\ shellDone /\ ln = "open"
    /\ ln' = "closed"
    /\ conn' = [c \in Client |-> IF conn[c] = "queued" THEN "closed" ELSE conn[c]]
    /\ UNCHANGED <<shell, written, shellDone, drainVars, mu, todo, sessVars, peer, recv,
                   hpc, rd, pinger, alive>>

ProcessEnds ==
    /\ alive' = FALSE
    /\ conn' = [c \in Client |-> IF conn[c] = "none" THEN "none" ELSE "closed"]
    /\ UNCHANGED <<shellVars, drainVars, mu, todo, sessVars, peer, recv, hpc, rd, pinger>>

MainReturns == alive /\ ln = "closed" /\ ProcessEnds

\* SIGTERM (lss kill) or a crash: the daemon has no handler for either.
Killed == alive /\ ProcessEnds

Ended == ~alive /\ UNCHANGED vars

-------------------------------------------------------------------------------

Broadcast(c) == BroadcastWrite(c) \/ BroadcastDrop(c)
AddFinish(c) == AddRegister(c) \/ AddFail(c)
Drain == \E n \in 1 .. BufSize : DrainRead(n)

DaemonStep ==
    \/ Drain \/ DrainStop \/ FeedLock \/ FeedUnlock
    \/ PingLock \/ PingUnlock \/ PingStop
    \/ CloseShellDone \/ CloseListener \/ MainReturns

ClientStep(c) ==
    \/ Broadcast(c)
    \/ Accept(c) \/ AddLock(c) \/ AddFinish(c)
    \/ ReadData(c) \/ PtyWritten(c) \/ ReadDetach(c) \/ ReadError(c)
    \/ ServeEnd(c) \/ Remove(c) \/ RemoveClose(c)

EnvStep(c) == Dial(c) \/ PeerStalls(c) \/ PeerResumes(c) \/ PeerLeaves(c)

Next ==
    \/ ShellWrites \/ ShellExits \/ Killed \/ Ended
    \/ DaemonStep
    \/ \E c \in Client : ClientStep(c) \/ EnvStep(c)

Spec == Init /\ [][Next]_vars

(***************************************************************************)
(* A goroutine that can run does run; sync.Mutex hands itself over to a    *)
(* waiter after a millisecond (its starvation mode), hence strong fairness *)
(* for every lock; the ticker fires for ever.  Nothing is assumed of the   *)
(* shell, of the PTY's willingness to take input, of peers or of signals.  *)
(***************************************************************************)
Fairness ==
    /\ WF_vars(Drain) /\ WF_vars(FeedUnlock) /\ WF_vars(PingUnlock)
    /\ SF_vars(FeedLock) /\ SF_vars(PingLock)
    /\ WF_vars(CloseShellDone) /\ WF_vars(CloseListener) /\ WF_vars(MainReturns)
    /\ \A c \in Client :
          /\ WF_vars(Broadcast(c)) /\ WF_vars(Accept(c)) /\ WF_vars(AddFinish(c))
          /\ SF_vars(AddLock(c)) /\ SF_vars(Remove(c))
          /\ WF_vars(ReadError(c)) /\ WF_vars(ServeEnd(c)) /\ WF_vars(RemoveClose(c))

FairSpec == Spec /\ Fairness

-------------------------------------------------------------------------------
(* What the session must guarantee.                                        *)

TypeOK ==
    /\ shell \in {"running", "exited"} /\ written \in 0 .. MaxOutput
    /\ shellDone \in BOOLEAN /\ ln \in {"open", "closed"}
    /\ drain \in {"read", "feed", "bcast", "stop"}
    /\ chunk \in Seq(Nat) /\ Len(chunk) <= BufSize
    /\ mu \in {"free", "drain", "ping", "add"} /\ todo \subseteq Client
    /\ sb \in Seq(Nat) /\ Len(sb) <= MaxScrollback /\ fed \in 0 .. MaxOutput
    /\ clients \subseteq Client
    /\ conn \in [Client -> {"none", "queued", "open", "closed"}]
    /\ peer \in [Client -> {"reading", "stalled", "gone"}]
    /\ recv \in [Client -> Seq(Nat)]
    /\ hpc \in [Client -> {"none", "add", "replay", "serve", "remove", "close", "done"}]
    /\ rd \in [Client -> {"idle", "reading", "writing", "done"}]
    /\ pinger \in {"run", "stop"} /\ alive \in BOOLEAN

\* How much of the output c has coming to it already: all that is recorded,
\* or all but the piece being broadcast when its turn is still to come.
Due(c) == IF mu = "drain" /\ c \in todo THEN fed - Len(chunk) ELSE fed

(* A registered client has been shown the tail of the output exactly once  *)
(* and in order: no byte is missing or repeated between the replay and the *)
(* live output, whoever locks first, and it starts no later than the       *)
(* scrollback reaches (add, daemon.go:72-89, and broadcastLocked).         *)
MirrorsInSync ==
    \A c \in clients :
        /\ Len(recv[c]) \in Due(c) - TailStart(Due(c), MaxScrollback) .. Due(c)
        /\ recv[c] = Window(Due(c) - Len(recv[c]), Due(c))

(* A connection in the set of clients is open and its handler will still   *)
(* take it out: none is registered after its removal or left in the map    *)
(* with nobody to delete it (daemon.go:72-97, 180-184).                    *)
RegisteredIsServed ==
    \A c \in clients :
        /\ alive => conn[c] = "open"
        /\ hpc[c] \in {"serve", "remove"}

(* session.mu has one holder at a time, and what a broadcast still has to  *)
(* reach is registered: the map is not changed under a running range.      *)
LockInv ==
    /\ mu = "drain" <=> drain = "bcast"
    /\ \A c \in Client : hpc[c] = "replay" => mu = "add"
    /\ \A c, d \in Client : hpc[c] = "replay" /\ hpc[d] = "replay" => c = d
    /\ mu \in {"free", "add"} => todo = {}
    /\ todo \subseteq clients

(* The scrollback is the tail of what was read from the PTY, and the drain *)
(* holds exactly the piece that follows it (or, once fed, that ends it).   *)
StreamInv ==
    /\ fed <= written
    /\ sb = Window(TailStart(fed, MaxScrollback), fed)
    /\ chunk = <<>> <=> drain \in {"read", "stop"}
    /\ drain = "feed" => /\ fed + Len(chunk) <= written
                         /\ chunk = Window(fed, fed + Len(chunk))
    /\ drain = "bcast" => /\ Len(chunk) <= fed
                          /\ chunk = Window(fed - Len(chunk), fed)

(* Where a handler can be, by the state of its connection.                 *)
ConnInv ==
    \A c \in Client :
        /\ conn[c] \in {"none", "queued"} => hpc[c] = "none"
        /\ alive /\ hpc[c] \in {"add", "replay"} => conn[c] = "open"

(* The inductive invariant: the parts above and the two properties.        *)
IInv ==
    /\ TypeOK /\ LockInv /\ StreamInv /\ ConnInv
    /\ RegisteredIsServed /\ MirrorsInSync

(* The goroutines together keep the promise of MirroredSession.            *)
MirrorState(c) ==
    IF c \in clients THEN IF alive THEN "attached" ELSE "gone"
    ELSE IF hpc[c] \in {"none", "add", "replay"} THEN "absent" ELSE "gone"

MirrorStates == [c \in Client |-> MirrorState(c)]

Mirror == INSTANCE MirroredSession
            WITH log <- fed, view <- recv, mirror <- MirrorStates

MirrorSpec == Mirror!AbsSpec

(* The shell's output keeps being recorded while the daemon lives, however *)
(* many mirrors stall, leave or attach: head-of-line blocking is bounded   *)
(* by the write deadline (the comment of broadcastLocked, daemon.go:55-56).*)
OutputDrains ==
    \A n \in 1 .. MaxOutput : written >= n ~> (fed >= n \/ ~alive)

(* A mirror that stops reading or disappears is dropped even if the shell  *)
(* never writes again: the keepalive's purpose (daemon.go:49-50, 157-158). *)
UnresponsiveIsDropped ==
    \A c \in Client :
        peer[c] # "reading" ~> (peer[c] = "reading" \/ c \notin clients \/ ~alive)

(* Whoever connects gets an answer: the session, or a closed connection.   *)
DialIsAnswered ==
    \A c \in Client : conn[c] = "queued" ~> (c \in clients \/ conn[c] = "closed")

===============================================================================
