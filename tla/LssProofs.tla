-------------------------------- MODULE LssProofs --------------------------------
(***************************************************************************)
(* The invariants of LssSession hold for every set of connections, every   *)
(* scrollback and buffer size and every amount of output, and its          *)
(* goroutines implement MirroredSession.                                   *)
(*                                                                         *)
(* The invariant that carries these proofs is IInv: who holds the lock,    *)
(* where the drain is in the stream, and what each mirror has of it.       *)
(*                                                                         *)
(* The second half is about LssFiles, the files by which sessions are      *)
(* found; FilesInv carries it.  The two models share no variable.          *)
(***************************************************************************)
EXTENDS LssSession, LssFiles, SequenceTheorems, TLAPS

-------------------------------------------------------------------------------
(* Windows of the output stream.                                           *)

(* A window is a sequence of stream positions, as long as it is wide.      *)
LEMMA WindowType ==
    ASSUME NEW a \in Nat, NEW b \in Nat, a <= b
    PROVE  /\ Window(a, b) \in Seq(Nat)
           /\ Len(Window(a, b)) = b - a
           /\ \A i \in 1 .. (b - a) : Window(a, b)[i] = a + i
  <1> DEFINE w == Window(a, b)
  <1>1. b - a \in Nat
    OBVIOUS
  <1>2. w \in [1 .. (b - a) -> Nat]
    BY DEF Window
  <1>3. w \in Seq(Nat)
    BY <1>1, <1>2
  <1>4. Len(w) = b - a
    BY <1>1, <1>2, <1>3
  <1> QED
    BY <1>3, <1>4 DEF Window

(* The empty window holds nothing.                                         *)
LEMMA WindowEmpty ==
    ASSUME NEW a \in Nat
    PROVE  Window(a, a) = <<>>
  <1>1. Window(a, a) \in Seq(Nat) /\ Len(Window(a, a)) = 0
    BY WindowType
  <1> QED
    BY <1>1

(* Two windows that meet join without a gap or a repetition: what makes a  *)
(* replay followed by live output one stream.                              *)
LEMMA WindowConcat ==
    ASSUME NEW a \in Nat, NEW b \in Nat, NEW c \in Nat, a <= b, b <= c
    PROVE  Window(a, b) \o Window(b, c) = Window(a, c)
  <1> DEFINE s == Window(a, b)
             t == Window(b, c)
             u == Window(a, c)
  <1>1. /\ s \in Seq(Nat) /\ Len(s) = b - a
        /\ \A i \in 1 .. (b - a) : s[i] = a + i
    BY WindowType
  <1>2. /\ t \in Seq(Nat) /\ Len(t) = c - b
        /\ \A i \in 1 .. (c - b) : t[i] = b + i
    BY WindowType
  <1>3. /\ u \in Seq(Nat) /\ Len(u) = c - a
        /\ \A i \in 1 .. (c - a) : u[i] = a + i
    BY WindowType
  <1> HIDE DEF s, t, u
  <1>4. /\ s \o t \in Seq(Nat)
        /\ Len(s \o t) = Len(s) + Len(t)
        /\ \A i \in 1 .. Len(s) + Len(t) :
              (s \o t)[i] = IF i <= Len(s) THEN s[i] ELSE t[i - Len(s)]
    <2>1. s \in Seq(Nat) /\ t \in Seq(Nat)
      BY <1>1, <1>2
    <2> QED
      BY ONLY <2>1, ConcatProperties, Zenon
  <1>5. ASSUME NEW i \in 1 .. Len(u)
        PROVE  (s \o t)[i] = u[i]
    <2>1. CASE i <= Len(s)
      BY <1>1, <1>2, <1>3, <1>4, <2>1
    <2>2. CASE i > Len(s)
      <3>1. (s \o t)[i] = t[i - Len(s)]
        BY <1>1, <1>2, <1>3, <1>4, <2>2
      <3>2. i - Len(s) \in 1 .. (c - b)
        BY <1>1, <1>3, <2>2
      <3>3. t[i - Len(s)] = b + (i - Len(s))
        BY <1>2, <3>2
      <3>4. u[i] = a + i /\ Len(s) = b - a
        BY <1>1, <1>3
      <3> QED
        BY <3>1, <3>3, <3>4
    <2> QED
      <3>1. i \in Int /\ Len(s) \in Int
        BY <1>1, <1>3
      <3>2. i <= Len(s) \/ i > Len(s)
        BY ONLY <3>1
      <3> QED
        BY <2>1, <2>2, <3>2
  <1>6. s \o t = u
    <2>1. u \in Seq(Nat) /\ Len(s \o t) = Len(u)
      BY <1>1, <1>2, <1>3, <1>4
    <2>2. \A i \in 1 .. Len(s \o t) : (s \o t)[i] = u[i]
      BY <1>5, <2>1
    <2> QED
      BY ONLY <1>4, <2>1, <2>2, SeqEqual, Zenon
  <1> QED
    BY <1>6 DEF s, t, u

(* Trimming a window keeps its end.                                        *)
LEMMA KeepLastWindow ==
    ASSUME NEW a \in Nat, NEW b \in Nat, NEW n \in Nat, a <= b
    PROVE  KeepLast(Window(a, b), n) = Window(IF b - a > n THEN b - n ELSE a, b)
  <1> DEFINE s == Window(a, b)
  <1>1. /\ s \in Seq(Nat) /\ Len(s) = b - a
        /\ \A i \in 1 .. (b - a) : s[i] = a + i
    BY WindowType
  <1>2. CASE b - a <= n
    BY <1>1, <1>2 DEF KeepLast
  <1>3. CASE b - a > n
    <2> DEFINE k == SubSeq(s, Len(s) - n + 1, Len(s))
               t == Window(b - n, b)
    <2>1. b - n \in Nat /\ b - n <= b
      BY <1>3
    <2>2. /\ t \in Seq(Nat) /\ Len(t) = n
          /\ \A i \in 1 .. n : t[i] = (b - n) + i
      BY <2>1, WindowType
    <2> HIDE DEF s, t
    <2>3. k \in Seq(Nat) /\ Len(k) = n
      BY <1>1, <1>3
    <2>4. ASSUME NEW i \in 1 .. n
          PROVE  k[i] = t[i]
      BY <1>1, <1>3, <2>2
    <2> HIDE DEF k
    <2>5. k = t
      BY <2>2, <2>3, <2>4
    <2>6. KeepLast(s, n) = k
      BY <1>1, <1>3 DEF KeepLast, k
    <2> QED
      BY <1>3, <2>5, <2>6 DEF s, t
  <1> QED
    BY <1>2, <1>3

(* Recording one more window keeps the tail of the stream: what            *)
(* scrollback.write (daemon.go:25-30) preserves.                           *)
LEMMA TailExtends ==
    ASSUME NEW b \in Nat, NEW c \in Nat, NEW n \in Nat, b <= c
    PROVE  KeepLast(Window(TailStart(b, n), b) \o Window(b, c), n)
             = Window(TailStart(c, n), c)
  <1> DEFINE a == TailStart(b, n)
  <1>1. a \in Nat /\ a <= b /\ b - a <= n /\ (b <= n => a = 0) /\ (b > n => a = b - n)
    BY DEF TailStart
  <1> HIDE DEF a
  <1>2. Window(a, b) \o Window(b, c) = Window(a, c)
    BY <1>1, WindowConcat
  <1>3. KeepLast(Window(a, c), n) = Window(IF c - a > n THEN c - n ELSE a, c)
    BY <1>1, KeepLastWindow
  <1>4. (IF c - a > n THEN c - n ELSE a) = TailStart(c, n)
    BY <1>1 DEF TailStart
  <1> QED
    BY <1>2, <1>3, <1>4 DEF a

-------------------------------------------------------------------------------
(* The invariant: each lemma shows that one part of it is kept by every    *)
(* step.                                                                   *)

USE DEF Drain, Broadcast, AddFinish

(* The initial state satisfies every part of the invariant.                *)
LEMMA InitIInv == Init => IInv
  <1> SUFFICES ASSUME Init PROVE IInv
    OBVIOUS
  <1> USE SessionAssumption DEF Init
  <1>1. TypeOK
    <2>1. <<>> \in Seq(Nat) /\ Len(<<>>) = 0
      OBVIOUS
    <2>2. /\ recv \in [Client -> Seq(Nat)]
          /\ written \in 0 .. MaxOutput /\ fed \in 0 .. MaxOutput
          /\ Len(chunk) <= BufSize /\ Len(sb) <= MaxScrollback
      BY <2>1
    <2>3. /\ conn \in [Client -> {"none", "queued", "open", "closed"}]
          /\ peer \in [Client -> {"reading", "stalled", "gone"}]
          /\ hpc \in [Client -> {"none", "add", "replay", "serve", "remove", "close", "done"}]
          /\ rd \in [Client -> {"idle", "reading", "writing", "done"}]
      OBVIOUS
    <2> QED
      BY <2>1, <2>2, <2>3 DEF TypeOK
  <1>2. LockInv
    BY DEF LockInv
  <1>3. StreamInv
    <2>1. TailStart(0, MaxScrollback) = 0
      BY DEF TailStart
    <2>2. Window(0, 0) = <<>>
      BY WindowEmpty
    <2> QED
      BY <2>1, <2>2 DEF StreamInv
  <1>4. ConnInv /\ RegisteredIsServed /\ MirrorsInSync
    BY DEF ConnInv, RegisteredIsServed, MirrorsInSync
  <1> QED
    BY <1>1, <1>2, <1>3, <1>4 DEF IInv

(* What the drain reads and what a broadcast delivers are pieces of output.*)
LEMMA ChunkType ==
    ASSUME TypeOK, StreamInv, NEW n \in 1 .. BufSize, DrainRead(n)
    PROVE  /\ chunk' \in Seq(Nat) /\ Len(chunk') = n
           /\ fed + n \in Nat /\ fed + n <= written
  <1>1. fed \in Nat /\ fed + n \in Nat /\ fed <= fed + n /\ fed + n <= written
    BY SessionAssumption DEF TypeOK, DrainRead
  <1>2. Window(fed, fed + n) \in Seq(Nat) /\ Len(Window(fed, fed + n)) = (fed + n) - fed
    BY <1>1, WindowType
  <1> QED
    BY <1>1, <1>2, SessionAssumption DEF DrainRead, TypeOK

(* Feeding the scrollback keeps it the tail of the stream.                 *)
LEMMA FeedKeepsTail ==
    ASSUME TypeOK, StreamInv, FeedLock
    PROVE  /\ fed' \in 0 .. MaxOutput /\ fed' <= written
           /\ sb' = Window(TailStart(fed', MaxScrollback), fed')
           /\ sb' \in Seq(Nat) /\ Len(sb') <= MaxScrollback
           /\ fed' - Len(chunk) = fed
           /\ chunk = Window(fed' - Len(chunk), fed')
  <1>1. /\ fed \in Nat /\ fed + Len(chunk) \in Nat /\ fed <= fed + Len(chunk)
        /\ fed' = fed + Len(chunk) /\ MaxScrollback \in Nat
        /\ fed + Len(chunk) <= written /\ written <= MaxOutput
        /\ chunk = Window(fed, fed')
    BY SessionAssumption DEF TypeOK, StreamInv, FeedLock
  <1>2. sb' = KeepLast(Window(TailStart(fed, MaxScrollback), fed) \o Window(fed, fed'),
                       MaxScrollback)
    BY <1>1 DEF StreamInv, FeedLock, ScrollbackWrite
  <1>3. sb' = Window(TailStart(fed', MaxScrollback), fed')
    BY <1>1, <1>2, TailExtends
  <1>4. /\ TailStart(fed', MaxScrollback) \in Nat
        /\ TailStart(fed', MaxScrollback) <= fed'
        /\ fed' - TailStart(fed', MaxScrollback) <= MaxScrollback
    BY <1>1 DEF TailStart
  <1>5. sb' \in Seq(Nat) /\ Len(sb') = fed' - TailStart(fed', MaxScrollback)
    BY <1>1, <1>3, <1>4, WindowType
  <1>6. fed' - Len(chunk) = fed /\ fed' \in 0 .. MaxOutput
    BY <1>1, SessionAssumption DEF TypeOK
  <1> QED
    BY <1>1, <1>3, <1>4, <1>5, <1>6

(* Every variable keeps its type.                                          *)
LEMMA TypeStep ==
    ASSUME TypeOK, StreamInv, [Next]_vars
    PROVE  TypeOK'
  <1> USE SessionAssumption DEF TypeOK, vars, shellVars, drainVars, sessVars, connVars
  <1>1. CASE ShellWrites \/ ShellExits \/ Ended \/ UNCHANGED vars
    BY <1>1 DEF ShellWrites, ShellExits, Ended
  <1>2. CASE Killed \/ MainReturns
    BY <1>2 DEF Killed, MainReturns, ProcessEnds
  <1>3. CASE Drain
    <2>1. PICK n \in 1 .. BufSize : DrainRead(n)
      BY <1>3
    <2>2. chunk' \in Seq(Nat) /\ Len(chunk') <= BufSize
      BY <2>1, ChunkType
    <2> QED
      BY <2>1, <2>2 DEF DrainRead
  <1>4. CASE DrainStop \/ PingLock \/ PingUnlock \/ PingStop
    BY <1>4 DEF DrainStop, PingLock, PingUnlock, PingStop
  <1>5. CASE FeedLock
    BY <1>5, FeedKeepsTail DEF FeedLock
  <1>6. CASE FeedUnlock
    BY <1>6 DEF FeedUnlock
  <1>7. CASE CloseShellDone \/ CloseListener
    BY <1>7 DEF CloseShellDone, CloseListener
  <1>8. ASSUME NEW c \in Client, ClientStep(c)
        PROVE  TypeOK'
    <2>1. CASE BroadcastWrite(c)
      <3>1. Payload \in Seq(Nat)
        BY DEF Payload
      <3>2. recv[c] \o Payload \in Seq(Nat)
        BY <3>1
      <3>3. recv' \in [Client -> Seq(Nat)]
        BY <2>1, <3>2 DEF BroadcastWrite
      <3> QED
        BY <2>1, <3>3 DEF BroadcastWrite
    <2>2. CASE BroadcastDrop(c)
      BY <2>2 DEF BroadcastDrop
    <2>3. CASE Accept(c) \/ AddLock(c) \/ AddFail(c)
      BY <2>3 DEF Accept, AddLock, AddFail
    <2>4. CASE AddRegister(c)
      BY <2>4 DEF AddRegister
    <2>5. CASE ReadData(c) \/ PtyWritten(c) \/ ReadDetach(c) \/ ReadError(c)
      <3>1. rd' \in [Client -> {"idle", "reading", "writing", "done"}]
        BY <2>5 DEF ReadData, PtyWritten, ReadDetach, ReadError
      <3> QED
        BY <2>5, <3>1 DEF ReadData, PtyWritten, ReadDetach, ReadError
    <2>6. CASE ServeEnd(c) \/ Remove(c) \/ RemoveClose(c)
      BY <2>6 DEF ServeEnd, Remove, RemoveClose
    <2> QED
      BY <1>8, <2>1, <2>2, <2>3, <2>4, <2>5, <2>6 DEF ClientStep
  <1>9. ASSUME NEW c \in Client, EnvStep(c)
        PROVE  TypeOK'
    BY <1>9 DEF EnvStep, Dial, PeerStalls, PeerResumes, PeerLeaves, PeerChanges
  <1> QED
    BY <1>1, <1>2, <1>3, <1>4, <1>5, <1>6, <1>7, <1>8, <1>9 DEF Next, DaemonStep

(* The lock keeps one holder, and the clients still to be reached by a     *)
(* broadcast stay registered.                                              *)
LEMMA LockStep ==
    ASSUME TypeOK, LockInv, ConnInv, RegisteredIsServed, [Next]_vars
    PROVE  LockInv'
  <1> USE DEF TypeOK, LockInv, vars, shellVars, drainVars, sessVars, connVars
  <1>1. CASE ShellWrites \/ ShellExits \/ Ended \/ UNCHANGED vars
    BY <1>1 DEF ShellWrites, ShellExits, Ended
  <1>2. CASE Killed \/ MainReturns
    BY <1>2 DEF Killed, MainReturns, ProcessEnds
  <1>3. CASE Drain \/ DrainStop \/ PingStop
    BY <1>3 DEF DrainRead, DrainStop, PingStop
  <1>4. CASE FeedLock \/ FeedUnlock
    BY <1>4 DEF FeedLock, FeedUnlock
  <1>5. CASE PingLock \/ PingUnlock
    BY <1>5 DEF PingLock, PingUnlock
  <1>6. CASE CloseShellDone \/ CloseListener
    BY <1>6 DEF CloseShellDone, CloseListener
  <1>7. ASSUME NEW c \in Client, ClientStep(c)
        PROVE  LockInv'
    <2>1. CASE BroadcastWrite(c) \/ BroadcastDrop(c)
      BY <2>1 DEF BroadcastWrite, BroadcastDrop
    <2>2. CASE Accept(c)
      BY <2>2 DEF Accept
    <2>3. CASE AddLock(c)
      BY <2>3 DEF AddLock
    <2>4. CASE AddRegister(c)
      BY <2>4 DEF AddRegister
    <2>5. CASE AddFail(c)
      BY <2>5 DEF AddFail
    <2>6. CASE ReadData(c) \/ PtyWritten(c) \/ ReadDetach(c) \/ ReadError(c)
      <3>1. UNCHANGED <<mu, drain, hpc, todo, clients>>
        BY <2>6 DEF ReadData, PtyWritten, ReadDetach, ReadError
      <3> QED
        BY <3>1
    <2>7. CASE ServeEnd(c) \/ RemoveClose(c)
      <3>1. /\ UNCHANGED <<mu, drain, todo, clients>>
            /\ \A d \in Client : hpc'[d] = "replay" => hpc[d] = "replay"
        BY <2>7 DEF ServeEnd, RemoveClose
      <3> QED
        BY <3>1
    <2>8. CASE Remove(c)
      <3>1. /\ UNCHANGED <<mu, drain, todo>> /\ todo = {}
            /\ \A d \in Client : hpc'[d] = "replay" => hpc[d] = "replay"
        BY <2>8 DEF Remove
      <3> QED
        BY <3>1
    <2> QED
      BY <1>7, <2>1, <2>2, <2>3, <2>4, <2>5, <2>6, <2>7, <2>8 DEF ClientStep
  <1>8. ASSUME NEW c \in Client, EnvStep(c)
        PROVE  LockInv'
    BY <1>8 DEF EnvStep, Dial, PeerStalls, PeerResumes, PeerLeaves, PeerChanges
  <1> QED
    BY <1>1, <1>2, <1>3, <1>4, <1>5, <1>6, <1>7, <1>8 DEF Next, DaemonStep

(* The drain and the scrollback stay on the stream: only three actions     *)
(* touch them.                                                             *)
LEMMA StreamStep ==
    ASSUME TypeOK, LockInv, StreamInv, [Next]_vars
    PROVE  StreamInv'
  <1> USE DEF vars, shellVars, drainVars, sessVars, connVars
  <1>1. CASE Drain
    <2>1. PICK n \in 1 .. BufSize : DrainRead(n)
      BY <1>1
    <2>2. Len(chunk') = n /\ fed + n <= written
      BY <2>1, ChunkType
    <2> QED
      BY <2>1, <2>2 DEF DrainRead, StreamInv
  <1>2. CASE FeedLock
    <2>1. /\ fed' <= written
          /\ sb' = Window(TailStart(fed', MaxScrollback), fed')
          /\ fed' - Len(chunk) = fed /\ fed \in Nat /\ fed' \in Nat /\ Len(chunk) \in Nat
          /\ chunk = Window(fed' - Len(chunk), fed')
      BY <1>2, FeedKeepsTail, SessionAssumption DEF TypeOK
    <2>2. Len(chunk) <= fed'
      BY <2>1
    <2> QED
      BY <1>2, <2>1, <2>2 DEF FeedLock, StreamInv
  <1>3. CASE FeedUnlock
    BY <1>3 DEF FeedUnlock, StreamInv
  <1>4. CASE DrainStop
    BY <1>4 DEF DrainStop, StreamInv
  <1>5. CASE ShellWrites
    BY <1>5, SessionAssumption DEF ShellWrites, StreamInv, TypeOK
  <1>6. CASE \/ ShellExits \/ Ended \/ UNCHANGED vars \/ Killed \/ MainReturns
             \/ PingLock \/ PingUnlock \/ PingStop \/ CloseShellDone \/ CloseListener
    <2>1. UNCHANGED <<written, fed, sb, drain, chunk>>
      BY <1>6 DEF ShellExits, Ended, Killed, MainReturns, ProcessEnds,
                  PingLock, PingUnlock, PingStop, CloseShellDone, CloseListener
    <2> QED
      BY <2>1 DEF StreamInv
  <1>7. ASSUME NEW c \in Client, ClientStep(c) \/ EnvStep(c)
        PROVE  StreamInv'
    <2>1. UNCHANGED <<written, fed, sb, drain, chunk>>
      BY <1>7 DEF ClientStep, EnvStep, BroadcastWrite, BroadcastDrop, Accept, AddLock,
                  AddRegister, AddFail, ReadData, PtyWritten, ReadDetach, ReadError, ServeEnd,
                  Remove, RemoveClose, Dial, PeerStalls, PeerResumes, PeerLeaves, PeerChanges
    <2> QED
      BY <2>1 DEF StreamInv
  <1> QED
    BY <1>1, <1>2, <1>3, <1>4, <1>5, <1>6, <1>7 DEF Next, DaemonStep

(* A handler stays where its connection lets it be, and the registered     *)
(* connections stay open and served.                                       *)
LEMMA ConnStep ==
    ASSUME TypeOK, LockInv, ConnInv, RegisteredIsServed, [Next]_vars
    PROVE  ConnInv' /\ RegisteredIsServed'
  <1> USE DEF TypeOK, ConnInv, RegisteredIsServed, vars, shellVars, drainVars, sessVars, connVars
  <1>1. CASE ShellWrites \/ ShellExits \/ Ended \/ UNCHANGED vars
    BY <1>1 DEF ShellWrites, ShellExits, Ended
  <1>2. CASE Killed \/ MainReturns
    BY <1>2 DEF Killed, MainReturns, ProcessEnds
  <1>3. CASE Drain \/ DrainStop \/ FeedLock \/ FeedUnlock
    BY <1>3 DEF DrainRead, DrainStop, FeedLock, FeedUnlock
  <1>4. CASE PingLock \/ PingUnlock \/ PingStop
    BY <1>4 DEF PingLock, PingUnlock, PingStop
  <1>5. CASE CloseShellDone \/ CloseListener
    BY <1>5 DEF CloseShellDone, CloseListener
  <1>6. ASSUME NEW c \in Client, ClientStep(c)
        PROVE  ConnInv' /\ RegisteredIsServed'
    <2>1. CASE BroadcastWrite(c)
      BY <2>1 DEF BroadcastWrite
    <2>2. CASE BroadcastDrop(c)
      BY <2>2 DEF BroadcastDrop, LockInv
    <2>3. CASE Accept(c)
      BY <2>3 DEF Accept
    <2>4. CASE AddLock(c)
      BY <2>4 DEF AddLock
    <2>5. CASE AddRegister(c)
      BY <2>5 DEF AddRegister
    <2>6. CASE AddFail(c)
      BY <2>6 DEF AddFail
    <2>7. CASE ReadData(c) \/ PtyWritten(c) \/ ReadDetach(c) \/ ReadError(c)
      BY <2>7 DEF ReadData, PtyWritten, ReadDetach, ReadError
    <2>8. CASE ServeEnd(c)
      BY <2>8 DEF ServeEnd
    <2>9. CASE Remove(c)
      BY <2>9 DEF Remove
    <2>10. CASE RemoveClose(c)
      BY <2>10 DEF RemoveClose
    <2> QED
      BY <1>6, <2>1, <2>2, <2>3, <2>4, <2>5, <2>6, <2>7, <2>8, <2>9, <2>10 DEF ClientStep
  <1>7. ASSUME NEW c \in Client, EnvStep(c)
        PROVE  ConnInv' /\ RegisteredIsServed'
    BY <1>7 DEF EnvStep, Dial, PeerStalls, PeerResumes, PeerLeaves, PeerChanges
  <1> QED
    BY <1>1, <1>2, <1>3, <1>4, <1>5, <1>6, <1>7 DEF Next, DaemonStep

(* Forwarding the piece that is due brings a mirror up to date.            *)
LEMMA ForwardKeepsSync ==
    ASSUME TypeOK, LockInv, StreamInv, MirrorsInSync,
           NEW c \in Client, c \in clients, BroadcastWrite(c)
    PROVE  /\ Len(recv'[c]) \in fed - TailStart(fed, MaxScrollback) .. fed
           /\ recv'[c] = Window(fed - Len(recv'[c]), fed)
  <1> DEFINE r == recv[c]
  <1>1. /\ r \in Seq(Nat) /\ Len(r) \in Nat
        /\ recv'[c] = r \o Payload /\ c \in todo
        /\ fed \in Nat /\ MaxScrollback \in Nat /\ Len(chunk) \in Nat
    BY SessionAssumption DEF TypeOK, BroadcastWrite
  <1>2. /\ Len(r) \in Due(c) - TailStart(Due(c), MaxScrollback) .. Due(c)
        /\ r = Window(Due(c) - Len(r), Due(c))
    BY DEF MirrorsInSync
  <1> HIDE DEF r
  <1>3. CASE mu = "drain"
    <2>1. /\ Payload = chunk /\ Due(c) = fed - Len(chunk) /\ Len(chunk) <= fed
          /\ chunk = Window(fed - Len(chunk), fed)
      BY <1>1, <1>3 DEF Payload, Due, LockInv, StreamInv
    <2> DEFINE k == fed - Len(chunk)
               j == k - Len(r)
    <2>2. /\ j \in Nat /\ k \in Nat /\ j <= k /\ k <= fed /\ j <= fed
          /\ Len(r) >= k - TailStart(k, MaxScrollback)
          /\ Len(r) = k - j /\ Len(chunk) = fed - k
      BY <1>1, <1>2, <2>1 DEF TailStart
    <2>3. r = Window(j, k) /\ chunk = Window(k, fed) /\ recv'[c] = r \o chunk
      BY <1>1, <1>2, <2>1
    <2> HIDE DEF k, j
    <2>4. recv'[c] = Window(j, fed)
      BY <1>1, <2>2, <2>3, WindowConcat
    <2>5. Len(recv'[c]) = fed - j
      BY <1>1, <2>2, <2>4, WindowType
    <2>6. /\ fed - j <= fed
          /\ fed - j >= fed - TailStart(fed, MaxScrollback)
          /\ TailStart(fed, MaxScrollback) \in Nat
      BY <1>1, <2>2 DEF TailStart
    <2>7. fed - (fed - j) = j
      BY <1>1, <2>2
    <2>8. fed - j \in fed - TailStart(fed, MaxScrollback) .. fed
      BY <1>1, <2>2, <2>6
    <2> QED
      BY <2>4, <2>5, <2>7, <2>8
  <1>4. CASE mu # "drain"
    <2>1. Payload = <<>> /\ Due(c) = fed
      BY <1>4 DEF Payload, Due
    <2>2. r \o <<>> = r
      BY <1>1
    <2>3. recv'[c] = r
      BY <1>1, <2>1, <2>2
    <2> QED
      BY <1>2, <2>1, <2>3
  <1> QED
    BY <1>3, <1>4

(* No step makes a registered mirror miss, repeat or reorder output.       *)
LEMMA SyncStep ==
    ASSUME TypeOK, LockInv, StreamInv, ConnInv, RegisteredIsServed, MirrorsInSync,
           [Next]_vars
    PROVE  MirrorsInSync'
  <1> USE DEF vars, shellVars, drainVars, sessVars, connVars
  <1>1. CASE FeedLock
    <2>1. fed' - Len(chunk) = fed
      BY <1>1, FeedKeepsTail
    <2>2. \A c \in clients : Due(c)' = Due(c)
      BY <1>1, <2>1 DEF FeedLock, Due
    <2> QED
      BY <1>1, <2>2 DEF FeedLock, MirrorsInSync
  <1>2. CASE FeedUnlock \/ PingLock \/ PingUnlock
    <2>1. \A c \in clients : Due(c)' = Due(c)
      BY <1>2 DEF FeedUnlock, PingLock, PingUnlock, Due, LockInv
    <2> QED
      BY <1>2, <2>1 DEF FeedUnlock, PingLock, PingUnlock, MirrorsInSync
  <1>3. CASE Drain
    <2>1. mu # "drain"
      BY <1>3 DEF DrainRead, LockInv
    <2>2. UNCHANGED <<mu, todo, fed, clients, recv>>
      BY <1>3 DEF DrainRead
    <2>3. \A c \in clients : Due(c)' = Due(c)
      BY <2>1, <2>2 DEF Due
    <2> QED
      BY <2>2, <2>3 DEF MirrorsInSync
  <1>4. CASE \/ ShellWrites \/ ShellExits \/ Ended \/ UNCHANGED vars \/ Killed \/ MainReturns
             \/ DrainStop \/ PingStop \/ CloseShellDone \/ CloseListener
    <2>1. UNCHANGED <<mu, todo, fed, chunk, clients, recv>>
      BY <1>4 DEF ShellWrites, ShellExits, Ended, Killed, MainReturns, ProcessEnds,
                  DrainStop, PingStop, CloseShellDone, CloseListener
    <2> QED
      BY <2>1 DEF MirrorsInSync, Due
  <1>5. ASSUME NEW c \in Client, ClientStep(c)
        PROVE  MirrorsInSync'
    <2>1. CASE BroadcastWrite(c)
      <3>1. c \in clients
        BY <2>1 DEF BroadcastWrite, LockInv
      <3>2. /\ Len(recv'[c]) \in fed - TailStart(fed, MaxScrollback) .. fed
            /\ recv'[c] = Window(fed - Len(recv'[c]), fed)
        BY <2>1, <3>1, ForwardKeepsSync
      <3>3. UNCHANGED <<fed, chunk, mu, clients>> /\ todo' = todo \ {c}
        BY <2>1 DEF BroadcastWrite
      <3>4. Due(c)' = fed
        BY <3>3 DEF Due
      <3>5. ASSUME NEW d \in clients, d # c
            PROVE  Due(d)' = Due(d) /\ recv'[d] = recv[d]
        BY <2>1, <3>3, <3>5 DEF Due, BroadcastWrite, TypeOK
      <3> QED
        BY <3>2, <3>3, <3>4, <3>5 DEF MirrorsInSync
    <2>2. CASE BroadcastDrop(c)
      <3>1. /\ UNCHANGED <<fed, chunk, mu, recv>>
            /\ clients' = clients \ {c} /\ todo' = todo \ {c}
        BY <2>2 DEF BroadcastDrop
      <3>2. \A d \in clients' : d \in clients /\ Due(d)' = Due(d)
        BY <3>1 DEF Due
      <3> QED
        BY <3>1, <3>2 DEF MirrorsInSync
    <2>3. CASE AddRegister(c)
      <3>1. /\ UNCHANGED <<fed, chunk, todo>> /\ clients' = clients \cup {c}
            /\ mu = "add" /\ mu' = "free"
        BY <2>3 DEF AddRegister, LockInv
      <3>2. \A d \in Client : Due(d) = fed /\ Due(d)' = fed
        BY <3>1 DEF Due
      <3>3. recv'[c] = Window(TailStart(fed, MaxScrollback), fed)
        BY <2>3 DEF AddRegister, StreamInv, TypeOK
      <3>4. /\ TailStart(fed, MaxScrollback) \in Nat /\ fed \in Nat
            /\ TailStart(fed, MaxScrollback) <= fed
        BY SessionAssumption DEF TailStart, TypeOK
      <3>5. Len(recv'[c]) = fed - TailStart(fed, MaxScrollback)
        BY <3>3, <3>4, WindowType
      <3>6. /\ Len(recv'[c]) \in fed - TailStart(fed, MaxScrollback) .. fed
            /\ fed - Len(recv'[c]) = TailStart(fed, MaxScrollback)
        BY <3>4, <3>5
      <3>7. \A d \in clients : d # c => recv'[d] = recv[d]
        BY <2>3 DEF AddRegister, TypeOK
      <3>8. \A d \in clients : d \in Client
        BY DEF TypeOK
      <3> QED
        BY <3>1, <3>2, <3>3, <3>6, <3>7, <3>8 DEF MirrorsInSync
    <2>4. CASE AddLock(c) \/ AddFail(c)
      <3>1. UNCHANGED <<fed, chunk, todo, clients, recv>> /\ mu # "drain" /\ mu' # "drain"
        BY <2>4 DEF AddLock, AddFail, LockInv
      <3> QED
        BY <3>1 DEF MirrorsInSync, Due
    <2>5. CASE Remove(c)
      <3>1. UNCHANGED <<fed, chunk, todo, mu, recv>> /\ clients' \subseteq clients
        BY <2>5 DEF Remove
      <3> QED
        BY <3>1 DEF MirrorsInSync, Due
    <2>6. CASE \/ Accept(c) \/ ReadData(c) \/ PtyWritten(c) \/ ReadDetach(c) \/ ReadError(c)
               \/ ServeEnd(c) \/ RemoveClose(c)
      <3>1. UNCHANGED <<fed, chunk, todo, mu, clients, recv>>
        BY <2>6 DEF Accept, ReadData, PtyWritten, ReadDetach, ReadError, ServeEnd, RemoveClose
      <3> QED
        BY <3>1 DEF MirrorsInSync, Due
    <2> QED
      BY <1>5, <2>1, <2>2, <2>3, <2>4, <2>5, <2>6 DEF ClientStep
  <1>6. ASSUME NEW c \in Client, EnvStep(c)
        PROVE  MirrorsInSync'
    <2>1. UNCHANGED <<fed, chunk, todo, mu, clients, recv>>
      BY <1>6 DEF EnvStep, Dial, PeerStalls, PeerResumes, PeerLeaves, PeerChanges
    <2> QED
      BY <2>1 DEF MirrorsInSync, Due
  <1> QED
    BY <1>1, <1>2, <1>3, <1>4, <1>5, <1>6 DEF Next, DaemonStep

(* The inductive invariant holds in every reachable state.                 *)
THEOREM Invariance == Spec => []IInv
  <1>1. IInv /\ [Next]_vars => IInv'
    BY TypeStep, LockStep, StreamStep, ConnStep, SyncStep DEF IInv
  <1> QED
    BY InitIInv, <1>1, PTL DEF Spec

(* Every variable has its type in every reachable state: in particular the *)
(* scrollback never outgrows maxScrollback (daemon.go:16-30).              *)
THEOREM TypeCorrect == Spec => []TypeOK
  <1>1. IInv => TypeOK
    BY DEF IInv
  <1> QED
    BY Invariance, <1>1, PTL

(* A mirror sees the tail of the output once and in order, whatever the    *)
(* goroutines of feed, ping, add and remove do (daemon.go:42-97).          *)
THEOREM MirrorsAreInSync == Spec => []MirrorsInSync
  <1>1. IInv => MirrorsInSync
    BY DEF IInv
  <1> QED
    BY Invariance, <1>1, PTL

(* A registered connection is open and will be removed by its handler.     *)
THEOREM RegisteredAreServed == Spec => []RegisteredIsServed
  <1>1. IInv => RegisteredIsServed
    BY DEF IInv
  <1> QED
    BY Invariance, <1>1, PTL

-------------------------------------------------------------------------------
(* Refinement: a step of the drain that takes the lock records output, a   *)
(* write of a broadcast forwards it, a registration attaches a mirror, and *)
(* what drops or removes a client, or ends the process, drops mirrors.     *)
(* Every other step changes nothing the abstract session has.              *)

(* The windows of the abstract session are those of the daemon.            *)
LEMMA SameWindows ==
    ASSUME NEW a, NEW b
    PROVE  Mirror!Window(a, b) = Window(a, b) /\ Mirror!TailStart(a, b) = TailStart(a, b)
  BY DEF Mirror!Window, Window, Mirror!TailStart, TailStart

(* A registered mirror of a living daemon has been shown all that is due.  *)
LEMMA SeenIsDue ==
    ASSUME IInv, NEW c \in clients
    PROVE  Mirror!Seen(c) = Due(c)
  <1>1. /\ Due(c) \in Nat /\ MaxScrollback \in Nat /\ MaxScrollback > 0
        /\ recv[c] \in Seq(Nat) /\ Len(recv[c]) \in Nat
    BY SessionAssumption DEF IInv, TypeOK, StreamInv, LockInv, Due
  <1>2. /\ Len(recv[c]) \in Due(c) - TailStart(Due(c), MaxScrollback) .. Due(c)
        /\ recv[c] = Window(Due(c) - Len(recv[c]), Due(c))
    BY DEF IInv, MirrorsInSync
  <1>3. CASE recv[c] = <<>>
    <2>1. Due(c) - TailStart(Due(c), MaxScrollback) <= 0
      BY <1>1, <1>2, <1>3
    <2>2. Due(c) = 0
      BY <1>1, <2>1 DEF TailStart
    <2> QED
      BY <1>3, <2>2 DEF Mirror!Seen
  <1>4. CASE recv[c] # <<>>
    <2> DEFINE k == Len(recv[c])
    <2>0. TailStart(Due(c), MaxScrollback) \in Nat
      BY <1>1 DEF TailStart
    <2>1. k \in Nat /\ k > 0 /\ k <= Due(c) /\ recv[c] = Window(Due(c) - k, Due(c))
      BY <1>1, <1>2, <1>4, <2>0
    <2> HIDE DEF k
    <2>2. /\ Due(c) - k \in Nat /\ Due(c) - k <= Due(c)
          /\ k \in 1 .. (Due(c) - (Due(c) - k)) /\ (Due(c) - k) + k = Due(c)
      BY <1>1, <2>1
    <2>3. Window(Due(c) - k, Due(c))[k] = (Due(c) - k) + k
      BY ONLY <1>1, <2>2, WindowType
    <2>4. recv[c][k] = Window(Due(c) - k, Due(c))[k]
      BY ONLY <2>1
    <2>5. recv[c][k] = Due(c)
      BY ONLY <2>2, <2>3, <2>4
    <2> QED
      BY <1>4, <2>5 DEF Mirror!Seen, k
  <1> QED
    BY <1>3, <1>4

(* The initial session is the abstract one.                                *)
LEMMA InitRefines == Init => Mirror!AbsInit
  BY DEF Init, Mirror!AbsInit, MirrorStates, MirrorState

(* A step that touches neither the stream, nor a mirror, nor where a       *)
(* handler stands by the abstract states, is a stutter.                    *)
LEMMA StutterRefines ==
    ASSUME UNCHANGED <<fed, recv>>,
           \A c \in Client : MirrorState(c)' = MirrorState(c)
    PROVE  UNCHANGED Mirror!absVars
  BY DEF Mirror!absVars, MirrorStates

(* Taking the lock to feed a chunk records it.                             *)
LEMMA FeedRefines ==
    ASSUME IInv, FeedLock
    PROVE  Mirror!Record
  <1>1. \A c \in Mirror!Attached : Mirror!Seen(c) = fed
    <2> SUFFICES ASSUME NEW c \in Mirror!Attached PROVE Mirror!Seen(c) = fed
      OBVIOUS
    <2>1. c \in clients /\ c \in Client
      BY DEF Mirror!Attached, MirrorStates, MirrorState
    <2>2. Due(c) = fed
      BY DEF FeedLock, Due
    <2> QED
      BY <2>1, <2>2, SeenIsDue
  <1>2. fed' \in Nat /\ fed' > fed
    <2>1. chunk \in Seq(Nat) /\ chunk # <<>> /\ fed \in Nat
      BY SessionAssumption DEF FeedLock, IInv, TypeOK, StreamInv
    <2>2. Len(chunk) \in Nat /\ Len(chunk) > 0
      BY <2>1
    <2> QED
      BY <2>1, <2>2 DEF FeedLock
  <1>3. UNCHANGED <<recv, MirrorStates>>
    BY DEF FeedLock, connVars, MirrorStates, MirrorState
  <1> QED
    BY <1>1, <1>2, <1>3 DEF Mirror!Record

(* A write of a broadcast forwards what is due; the keepalive's changes    *)
(* nothing.                                                                *)
LEMMA BroadcastRefines ==
    ASSUME IInv, NEW c \in Client, BroadcastWrite(c)
    PROVE  Mirror!Forward(c) \/ UNCHANGED Mirror!absVars
  <1>1. /\ c \in todo /\ c \in clients /\ alive
        /\ recv' = [recv EXCEPT ![c] = recv[c] \o Payload]
        /\ fed' = fed /\ MirrorStates' = MirrorStates
    BY DEF BroadcastWrite, IInv, LockInv, sessVars, MirrorStates, MirrorState
  <1>2. CASE mu = "drain"
    <2>1. /\ Payload = chunk /\ Due(c) = fed - Len(chunk) /\ chunk # <<>>
          /\ chunk \in Seq(Nat) /\ chunk = Window(fed - Len(chunk), fed) /\ fed \in Nat
      BY <1>1, <1>2, SessionAssumption DEF Payload, Due, IInv, TypeOK, LockInv, StreamInv
    <2>2. Mirror!Seen(c) = fed - Len(chunk)
      BY <1>1, <2>1, SeenIsDue
    <2>3. Len(chunk) \in Nat /\ Len(chunk) > 0
      BY <2>1
    <2>4. Mirror!Seen(c) < fed
      BY <2>1, <2>2, <2>3
    <2>5. MirrorStates[c] = "attached"
      BY <1>1 DEF MirrorStates, MirrorState
    <2>6. recv' = [recv EXCEPT ![c] = recv[c] \o Window(Mirror!Seen(c), fed)]
      BY <1>1, <2>1, <2>2
    <2> QED
      BY <1>1, <2>4, <2>5, <2>6, SameWindows DEF Mirror!Forward
  <1>3. CASE mu # "drain"
    <2>1. recv[c] \in Seq(Nat) /\ recv \in [Client -> Seq(Nat)]
      BY DEF IInv, TypeOK
    <2>2. recv[c] \o Payload = recv[c]
      BY <1>3, <2>1 DEF Payload
    <2>3. recv' = recv
      BY <1>1, <2>1, <2>2
    <2> QED
      BY <1>1, <2>3 DEF Mirror!absVars
  <1> QED
    BY <1>2, <1>3

(* A registration shows the mirror the tail of the output.                 *)
LEMMA AddRefines ==
    ASSUME IInv, NEW c \in Client, AddRegister(c)
    PROVE  Mirror!Attach(c)
  <1>1. /\ hpc[c] = "replay" /\ alive /\ alive' = alive
        /\ clients' = clients \cup {c}
        /\ hpc' = [hpc EXCEPT ![c] = "serve"] /\ fed' = fed
        /\ recv' = [recv EXCEPT ![c] = sb]
    BY DEF AddRegister
  <1>2. c \notin clients
    BY <1>1 DEF IInv, RegisteredIsServed
  <1>3. MirrorStates[c] = "absent"
    BY <1>1, <1>2 DEF MirrorStates, MirrorState
  <1>4. MirrorStates' = [MirrorStates EXCEPT ![c] = "attached"]
    BY <1>1 DEF MirrorStates, MirrorState, IInv, TypeOK
  <1>5. sb = Window(TailStart(fed, MaxScrollback), fed)
    BY DEF IInv, StreamInv
  <1> QED
    BY <1>1, <1>3, <1>4, <1>5, SameWindows DEF Mirror!Attach

(* A client that leaves the map, or never enters it, is dropped.           *)
LEMMA DropRefines ==
    ASSUME IInv, NEW c \in Client, BroadcastDrop(c) \/ AddFail(c) \/ Remove(c)
    PROVE  Mirror!Drop(c) \/ UNCHANGED Mirror!absVars
  <1>1. UNCHANGED <<fed, recv, alive>> /\ alive
    BY DEF BroadcastDrop, AddFail, Remove, sessVars, connVars
  <1>2. clients' = clients \ {c}
    <2>1. CASE AddFail(c)
      <3>1. c \notin clients /\ clients' = clients
        BY <2>1 DEF AddFail, sessVars, IInv, RegisteredIsServed
      <3> QED
        BY <3>1
    <2>2. CASE BroadcastDrop(c) \/ Remove(c)
      BY <2>2 DEF BroadcastDrop, Remove
    <2> QED
      BY <2>1, <2>2
  <1>3. hpc'[c] \notin {"none", "add", "replay"}
    BY DEF BroadcastDrop, AddFail, Remove, IInv, LockInv, RegisteredIsServed, TypeOK
  <1>4. \A d \in Client : d # c => hpc'[d] = hpc[d]
    BY DEF BroadcastDrop, AddFail, Remove, IInv, TypeOK
  <1>5. MirrorStates' = [MirrorStates EXCEPT ![c] = "gone"]
    BY <1>1, <1>2, <1>3, <1>4 DEF MirrorStates, MirrorState
  <1>6. CASE MirrorStates[c] # "gone"
    BY <1>1, <1>5, <1>6 DEF Mirror!Drop
  <1>7. CASE MirrorStates[c] = "gone"
    <2>1. MirrorStates' = MirrorStates
      BY <1>5, <1>7 DEF MirrorStates
    <2> QED
      BY <1>1, <2>1 DEF Mirror!absVars
  <1> QED
    BY <1>6, <1>7

(* The end of the process is the end of every mirror.                      *)
LEMMA EndRefines ==
    ASSUME Killed \/ MainReturns
    PROVE  Mirror!End
  <1>1. UNCHANGED <<fed, recv, clients, hpc>> /\ alive /\ ~alive'
    BY DEF Killed, MainReturns, ProcessEnds, sessVars
  <1>2. MirrorStates' = [c \in Client |-> IF MirrorStates[c] = "attached" THEN "gone"
                                          ELSE MirrorStates[c]]
    BY <1>1 DEF MirrorStates, MirrorState
  <1> QED
    BY <1>1, <1>2 DEF Mirror!End

(* Every step of the daemon is a step of the abstract session or a stutter.*)
LEMMA StepRefines ==
    ASSUME IInv, [Next]_vars
    PROVE  [Mirror!AbsNext]_Mirror!absVars
  <1> USE DEF vars, shellVars, drainVars, sessVars, connVars
  <1>1. CASE FeedLock
    BY <1>1, FeedRefines DEF Mirror!AbsNext
  <1>2. CASE Killed \/ MainReturns
    BY <1>2, EndRefines DEF Mirror!AbsNext
  <1>3. CASE \/ ShellWrites \/ ShellExits \/ Ended \/ UNCHANGED vars \/ Drain \/ DrainStop
             \/ FeedUnlock \/ PingLock \/ PingUnlock \/ PingStop
             \/ CloseShellDone \/ CloseListener
    <2>1. UNCHANGED <<fed, recv, clients, hpc, alive>>
      BY <1>3 DEF ShellWrites, ShellExits, Ended, DrainRead, DrainStop, FeedUnlock, PingLock,
                  PingUnlock, PingStop, CloseShellDone, CloseListener
    <2> QED
      BY <2>1, StutterRefines DEF MirrorState
  <1>4. ASSUME NEW c \in Client, ClientStep(c)
        PROVE  [Mirror!AbsNext]_Mirror!absVars
    <2>1. CASE BroadcastWrite(c)
      BY <2>1, BroadcastRefines DEF Mirror!AbsNext
    <2>2. CASE AddRegister(c)
      BY <2>2, AddRefines DEF Mirror!AbsNext
    <2>3. CASE BroadcastDrop(c) \/ AddFail(c) \/ Remove(c)
      BY <2>3, DropRefines DEF Mirror!AbsNext
    <2>4. CASE Accept(c) \/ AddLock(c) \/ ServeEnd(c) \/ RemoveClose(c)
      <3>1. /\ UNCHANGED <<fed, recv, clients, alive>>
            /\ \A d \in Client : (hpc'[d] \in {"none", "add", "replay"})
                                    <=> (hpc[d] \in {"none", "add", "replay"})
        BY <2>4 DEF Accept, AddLock, ServeEnd, RemoveClose, IInv, TypeOK, ConnInv
      <3> QED
        BY <3>1, StutterRefines DEF MirrorState
    <2>5. CASE ReadData(c) \/ PtyWritten(c) \/ ReadDetach(c) \/ ReadError(c)
      <3>1. UNCHANGED <<fed, recv, clients, hpc, alive>>
        BY <2>5 DEF ReadData, PtyWritten, ReadDetach, ReadError
      <3> QED
        BY <3>1, StutterRefines DEF MirrorState
    <2> QED
      BY <1>4, <2>1, <2>2, <2>3, <2>4, <2>5 DEF ClientStep
  <1>5. ASSUME NEW c \in Client, EnvStep(c)
        PROVE  [Mirror!AbsNext]_Mirror!absVars
    <2>1. UNCHANGED <<fed, recv, clients, hpc, alive>>
      BY <1>5 DEF EnvStep, Dial, PeerStalls, PeerResumes, PeerLeaves, PeerChanges
    <2> QED
      BY <2>1, StutterRefines DEF MirrorState
  <1> QED
    BY <1>1, <1>2, <1>3, <1>4, <1>5 DEF Next, DaemonStep

(* The daemon of daemon.go:32-97 keeps the promise of MirroredSession: a   *)
(* mirror gets the kept tail and then all the output, and nothing once it  *)
(* is dropped.                                                             *)
THEOREM Refinement == Spec => MirrorSpec
  <1>1. IInv /\ [Next]_vars => [Mirror!AbsNext]_Mirror!absVars
    BY StepRefines
  <1> QED
    BY InitRefines, Invariance, <1>1, PTL DEF Spec, MirrorSpec, Mirror!AbsSpec


-------------------------------------------------------------------------------
(* The files of a session name: for any number of commands and daemons,   *)
(* and wherever a daemon may crash.                                        *)

\* A daemon is born when its command spawns it, and who has not bound the socket,
\* or has unlinked it, does not hold it.
BirthInv == \A p \in Proc : npc[p] \in {"idle", "spawn"} => dpc[p] = "unborn"

Unbound == {"unborn", "unlink", "bind", "failed", "exited"} \cup Shutdown

BoundInv == \A p \in Proc : dpc[p] \in Unbound => sock # p

Live(p) == npc[p] \in {"spawn"} \cup Waiting \/ Alive(p)

Listing == lpc \in {"probe", "rmpid", "rmsock"}

\* While commands wait for each other, one name has one session at a time.
OneLives == \A p, q \in Proc : Live(p) /\ Live(q) => p = q

\* A list that removes something removes it from nobody.
ListInv ==
    Listing => \A p \in Proc :
        /\ npc[p] \notin {"spawn"} \cup Waiting /\ dpc[p] \notin Startup
        /\ Alive(p) => lpc = "probe" /\ lpid = p

\* What a daemon that starts has made is there.
StartInv ==
    \A p \in Proc :
        /\ dpc[p] \in {"listen", "create", "write"} => sock = p
        /\ dpc[p] = "write" => p \in opened

AloneInv ==
    ~overlapped =>
        /\ OneLives /\ ListInv /\ StartInv
        /\ \A p \in Proc : dpc[p] = "serve" => sock = p /\ pid = p
        /\ \A p \in Proc : joined[p] \in {"none", p}

FilesInv == FilesTypeOK /\ BirthInv /\ BoundInv /\ AloneInv

-------------------------------------------------------------------------------
(* Types.                                                                  *)

LEMMA CommandTyped ==
    ASSUME FilesTypeOK, BirthInv, NEW p \in Proc, NewNext(p)
    PROVE  FilesTypeOK'
  <1>1. CASE NewCheck(p)
    BY <1>1 DEF FilesTypeOK, NewCheck, NewStep, CommandStarts, files, lister
  <1>2. CASE NewSpawn(p)
    BY <1>2 DEF FilesTypeOK, BirthInv, NewSpawn, NewStep, files, Running, Startup, Waiting
  <1>3. CASE NewSeesSocket(p) \/ NewTimeout(p) \/ NewReturns(p)
    BY <1>3 DEF FilesTypeOK, NewSeesSocket, NewTimeout, NewReturns, NewStep, files, lister, Waiting
  <1>4. CASE NewDial(p)
    BY <1>4 DEF FilesTypeOK, NewDial, NewStep, files, lister
  <1> QED
    BY <1>1, <1>2, <1>3, <1>4 DEF NewNext

LEMMA DaemonTyped ==
    ASSUME FilesTypeOK, NEW p \in Proc, DaemonNext(p) \/ Crash(p) \/ Kill(p)
    PROVE  FilesTypeOK'
  <1>1. CASE DaemonUnlink(p) \/ DaemonBind(p) \/ DaemonListen(p)
    BY <1>1 DEF FilesTypeOK, DaemonUnlink, DaemonBind, DaemonListen, DaemonGoes, RemoveSock,
       files, lister, Running, Startup
  <1>2. CASE PidCreate(p) \/ PidWrite(p)
    BY <1>2 DEF FilesTypeOK, PidCreate, PidWrite, DaemonGoes, lister, Running, Startup
  <1>3. CASE ShellExit(p) \/ ListenerClose(p) \/ WaiterRemovesSock(p) \/ WaiterRemovesPid(p)
    BY <1>3 DEF FilesTypeOK, ShellExit, ListenerClose, WaiterRemovesSock, WaiterRemovesPid,
       DaemonGoes, RemoveSock, RemovePid, files, lister, Running, Shutdown
  <1>4. CASE MainExits(p) \/ Crash(p) \/ Kill(p)
    BY <1>4, FilesAssumption DEF FilesTypeOK, MainExits, Crash, Kill, DaemonGoes, lister
  <1> QED
    BY <1>1, <1>2, <1>3, <1>4 DEF DaemonNext

LEMMA ListTyped ==
    ASSUME FilesTypeOK, ListNext
    PROVE  FilesTypeOK'
  BY DEF FilesTypeOK, ListNext, ListRead, ListProbe, ListRemovesPid, ListRemovesSock, RemovePid,
     RemoveSock, files, CommandStarts

-------------------------------------------------------------------------------
(* Births and sockets.                                                     *)

LEMMA NextBound ==
    ASSUME FilesTypeOK, BirthInv, BoundInv, FilesNext
    PROVE  BirthInv' /\ BoundInv'
  <1> USE DEF Unbound, Shutdown
  <1>1. ASSUME NEW p \in Proc, NewNext(p)
        PROVE  BirthInv' /\ BoundInv'
    <2>1. sock' = sock
      BY <1>1 DEF NewNext, NewCheck, NewSpawn, NewSeesSocket, NewTimeout, NewDial,
         NewReturns, files
    <2>2. CASE NewSpawn(p)
      BY <1>1, <2>1, <2>2 DEF FilesTypeOK, BirthInv, BoundInv, NewSpawn, NewStep
    <2>3. CASE ~NewSpawn(p)
      <3>1. dpc' = dpc
        BY <1>1, <2>3 DEF NewNext, NewCheck, NewSeesSocket, NewTimeout, NewDial, NewReturns
      <3>2. \A q \in Proc : npc'[q] \in {"idle", "spawn"} => npc[q] \in {"idle", "spawn"}
        BY <1>1, <2>3 DEF FilesTypeOK, NewNext, NewCheck, NewSeesSocket, NewTimeout, NewDial,
           NewReturns, NewStep
      <3> QED
        BY <2>1, <3>1, <3>2 DEF BirthInv, BoundInv
    <2> QED
      BY <2>2, <2>3
  <1>2. ASSUME NEW p \in Proc, DaemonNext(p) \/ Crash(p) \/ Kill(p)
        PROVE  BirthInv' /\ BoundInv'
    <2>1. /\ npc' = npc
          /\ dpc[p] # "unborn" /\ \E to : dpc' = [dpc EXCEPT ![p] = to]
      BY <1>2, FilesAssumption DEF DaemonNext, DaemonUnlink, DaemonBind, DaemonListen,
         PidCreate, PidWrite, ShellExit, ListenerClose, WaiterRemovesSock, WaiterRemovesPid,
         MainExits, Crash, Kill, DaemonGoes, Alive, Running, Startup
    <2>2. BirthInv'
      BY <2>1 DEF FilesTypeOK, BirthInv
    <2>3. CASE DaemonUnlink(p) \/ DaemonBind(p) \/ DaemonListen(p)
      BY <2>2, <2>3, FilesAssumption DEF FilesTypeOK, BoundInv, DaemonUnlink, DaemonBind, DaemonListen,
         DaemonGoes, RemoveSock, files
    <2>4. CASE PidCreate(p) \/ PidWrite(p)
      BY <2>2, <2>4 DEF FilesTypeOK, BoundInv, PidCreate, PidWrite, DaemonGoes
    <2>5. CASE ShellExit(p) \/ ListenerClose(p) \/ WaiterRemovesSock(p) \/ WaiterRemovesPid(p)
      BY <2>2, <2>5, FilesAssumption DEF FilesTypeOK, BoundInv, ShellExit, ListenerClose,
         WaiterRemovesSock, WaiterRemovesPid, DaemonGoes, RemoveSock, files
    <2>6. CASE MainExits(p) \/ Crash(p) \/ Kill(p)
      BY <2>2, <2>6 DEF FilesTypeOK, BoundInv, MainExits, Crash, Kill, DaemonGoes
    <2> QED
      BY <1>2, <2>2, <2>3, <2>4, <2>5, <2>6 DEF DaemonNext
  <1>3. ASSUME ListNext
        PROVE  BirthInv' /\ BoundInv'
    BY <1>3, FilesAssumption DEF FilesTypeOK, BirthInv, BoundInv, ListNext, ListRead, ListProbe,
       ListRemovesPid, ListRemovesSock, RemoveSock, files
  <1> QED
    BY <1>1, <1>2, <1>3 DEF FilesNext

-------------------------------------------------------------------------------
(* While commands wait for each other.                                     *)

Reachable == \A p \in Proc : dpc[p] = "serve" => sock = p /\ pid = p

JoinsItsOwn == \A p \in Proc : joined[p] \in {"none", p}

(* A command of lss new: the one that begins finds no session, and the     *)
(* others belong to the session they began.                                *)
LEMMA CommandAlone ==
    ASSUME FilesTypeOK, BirthInv, AloneInv, ~overlapped, ~overlapped', NEW p \in Proc, NewNext(p)
    PROVE  OneLives' /\ ListInv' /\ StartInv' /\ Reachable' /\ JoinsItsOwn'
  <1>1. OneLives /\ ListInv /\ StartInv /\ Reachable /\ JoinsItsOwn
    BY DEF AloneInv, Reachable, JoinsItsOwn
  <1>2. CASE NewCheck(p)
    <2>1. Settled /\ lpc \in {"idle", "done"}
      BY <1>2 DEF NewCheck, CommandStarts, FilesTypeOK
    <2>2. CASE sock = "none"
      <3>1. \A q \in Proc : ~Live(q)
        BY <1>1, <2>1, <2>2, FilesAssumption DEF Live, Settled, Alive, Running, Reachable
      <3>2. npc' = [npc EXCEPT ![p] = "spawn"] /\ UNCHANGED <<files, dpc, joined, lister>>
        BY <1>2, <2>2 DEF NewCheck, NewStep
      <3>3. OneLives'
        BY <3>1, <3>2 DEF FilesTypeOK, OneLives, Live, Alive
      <3>4. ListInv'
        BY <2>1, <3>2 DEF ListInv, Listing, lister
      <3> QED
        BY <1>1, <3>2, <3>3, <3>4 DEF StartInv, Reachable, JoinsItsOwn, files
    <2>3. CASE sock # "none"
      <3>1. npc' = [npc EXCEPT ![p] = "refused"] /\ UNCHANGED <<files, dpc, joined, lister>>
        BY <1>2, <2>3 DEF NewCheck, NewStep
      <3> QED
        BY <1>1, <3>1 DEF FilesTypeOK, OneLives, Live, Alive, ListInv, Listing, StartInv,
           Reachable, JoinsItsOwn, files, lister, Waiting
    <2> QED
      BY <2>2, <2>3
  <1>3. CASE NewSpawn(p)
    <2>1. /\ npc[p] = "spawn" /\ npc' = [npc EXCEPT ![p] = "poll"]
          /\ dpc' = [dpc EXCEPT ![p] = "unlink"] /\ lpc' = lpc
          /\ UNCHANGED <<files, joined>>
      BY <1>3 DEF NewSpawn, NewStep
    <2>2. \A q \in Proc : Live(q)' => Live(q)
      BY <2>1 DEF FilesTypeOK, Live, Alive
    <2>3. OneLives'
      BY <1>1, <2>2 DEF OneLives
    <2>4. ListInv'
      BY <1>1, <2>1 DEF ListInv, Listing
    <2> QED
      BY <1>1, <2>1, <2>3, <2>4 DEF FilesTypeOK, StartInv, Reachable, JoinsItsOwn, files
  <1>4. CASE NewSeesSocket(p) \/ NewTimeout(p) \/ NewReturns(p) \/ NewDial(p)
    <2>1. /\ UNCHANGED <<files, dpc, lister>>
          /\ \E from \in Waiting \cup {"attached"}, to \in {"attach", "failed", "attached",
                                                            "returned"} :
                /\ npc[p] = from /\ npc' = [npc EXCEPT ![p] = to]
                /\ to = "attach" => from = "poll"
      BY <1>4 DEF NewSeesSocket, NewTimeout, NewReturns, NewDial, NewStep, Waiting
    <2>2. \A q \in Proc : Live(q)' => Live(q)
      BY <2>1 DEF FilesTypeOK, Live, Alive, Waiting
    <2>3. OneLives'
      BY <1>1, <2>2 DEF OneLives
    <2>4. ListInv'
      <3>1. \A q \in Proc : npc'[q] \in {"spawn"} \cup Waiting => npc[q] \in {"spawn"} \cup Waiting
        BY <2>1 DEF FilesTypeOK, Waiting
      <3> QED
        BY <1>1, <2>1, <3>1 DEF ListInv, Listing, lister, Alive
    <2>5. JoinsItsOwn'
      <3>1. CASE joined' = joined
        BY <1>1, <3>1 DEF JoinsItsOwn
      <3>2. CASE joined' # joined
        <4>1. PICK d \in Proc : /\ Listening(d) /\ npc[p] = "attach"
                                /\ joined' = [joined EXCEPT ![p] = d]
          BY <1>4, <3>2 DEF NewSeesSocket, NewTimeout, NewReturns, NewDial, NewStep
        <4>2. Live(d) /\ Live(p)
          BY <4>1 DEF Live, Listening, Alive, Running, Startup, Shutdown, Waiting
        <4> QED
          BY <1>1, <4>1, <4>2 DEF FilesTypeOK, OneLives, JoinsItsOwn
      <3> QED
        BY <3>1, <3>2
    <2> QED
      BY <1>1, <2>1, <2>3, <2>4, <2>5 DEF StartInv, Reachable, files
  <1> QED
    BY <1>2, <1>3, <1>4 DEF NewNext

(* A daemon: nobody else lives who could touch its files.                  *)
LEMMA DaemonAlone ==
    ASSUME FilesTypeOK, BirthInv, AloneInv, ~overlapped, ~overlapped', NEW p \in Proc,
           DaemonNext(p) \/ Crash(p) \/ Kill(p)
    PROVE  OneLives' /\ ListInv' /\ StartInv' /\ Reachable' /\ JoinsItsOwn'
  <1>1. OneLives /\ ListInv /\ StartInv /\ Reachable /\ JoinsItsOwn
    BY DEF AloneInv, Reachable, JoinsItsOwn
  <1>2. /\ UNCHANGED <<npc, joined, lister>> /\ Alive(p)
        /\ \E to : dpc' = [dpc EXCEPT ![p] = to] /\ (to \in Startup => dpc[p] \in Startup)
    BY FilesAssumption DEF DaemonNext, DaemonUnlink, DaemonBind, DaemonListen,
       PidCreate, PidWrite, ShellExit, ListenerClose, WaiterRemovesSock, WaiterRemovesPid,
       MainExits, Crash, Kill, DaemonGoes, Alive, Running, Startup, Shutdown
  <1>3. \A q \in Proc : q # p => ~Live(q) /\ dpc'[q] = dpc[q] /\ ~Alive(q)
    BY <1>1, <1>2 DEF FilesTypeOK, OneLives, Live
  <1>4. OneLives'
    BY <1>2, <1>3 DEF FilesTypeOK, OneLives, Live, Alive
  <1>5. ListInv'
    BY <1>1, <1>2, <1>3 DEF FilesTypeOK, ListInv, Listing, lister, Alive
  <1>6. JoinsItsOwn'
    BY <1>1, <1>2 DEF JoinsItsOwn
  <1>7. \A q \in Proc : q # p => dpc'[q] \notin {"listen", "create", "write", "serve"}
    BY <1>3 DEF Alive, Running, Startup
  <1>8. StartInv' /\ Reachable'
    <2>1. /\ dpc'[p] \in {"listen", "create", "write"} => sock' = p
          /\ dpc'[p] = "write" => p \in opened'
          /\ dpc'[p] = "serve" => sock' = p /\ pid' = p
      <3>1. CASE DaemonUnlink(p) \/ DaemonBind(p) \/ DaemonListen(p)
        BY <1>1, <3>1 DEF FilesTypeOK, StartInv, DaemonUnlink, DaemonBind, DaemonListen,
           DaemonGoes, files
      <3>2. CASE PidCreate(p) \/ PidWrite(p)
        BY <1>1, <3>2 DEF FilesTypeOK, StartInv, PidCreate, PidWrite, DaemonGoes
      <3>3. CASE \/ ShellExit(p) \/ ListenerClose(p) \/ WaiterRemovesSock(p)
                 \/ WaiterRemovesPid(p) \/ MainExits(p) \/ Crash(p) \/ Kill(p)
        BY <3>3 DEF FilesTypeOK, ShellExit, ListenerClose, WaiterRemovesSock, WaiterRemovesPid,
           MainExits, Crash, Kill, DaemonGoes
      <3> QED
        BY <3>1, <3>2, <3>3 DEF DaemonNext
    <2> QED
      BY <1>7, <2>1 DEF StartInv, Reachable
  <1> QED
    BY <1>4, <1>5, <1>6, <1>8

(* A list: it reads the pid of the daemon that serves, or nobody lives.    *)
LEMMA ListAlone ==
    ASSUME FilesTypeOK, AloneInv, ~overlapped, ~overlapped', ListNext
    PROVE  OneLives' /\ ListInv' /\ StartInv' /\ Reachable' /\ JoinsItsOwn'
  <1>1. OneLives /\ ListInv /\ StartInv /\ Reachable /\ JoinsItsOwn
    BY DEF AloneInv, Reachable, JoinsItsOwn
  <1>2. UNCHANGED <<npc, dpc, joined>>
    BY DEF ListNext, ListRead, ListProbe, ListRemovesPid, ListRemovesSock
  <1>3. OneLives' /\ JoinsItsOwn'
    BY <1>1, <1>2 DEF OneLives, JoinsItsOwn, Live, Alive
  <1>4. CASE ListRead
    <2>1. Settled /\ lpid' = pid /\ UNCHANGED files
      BY <1>4 DEF ListRead, CommandStarts, FilesTypeOK
    <2>2. lpc' \in {"probe", "done"}
      BY <1>4 DEF ListRead
    <2>3. ListInv'
      BY <1>1, <1>2, <2>1, <2>2 DEF ListInv, Listing, Settled, Reachable, Alive, Running
    <2> QED
      BY <1>1, <1>2, <1>3, <2>1, <2>3 DEF StartInv, Reachable, files
  <1>5. CASE ListProbe
    <2>1. /\ lpc = "probe" /\ lpid' = lpid /\ UNCHANGED files
          /\ lpc' = IF Signalable(lpid) THEN "done" ELSE "rmpid"
      BY <1>5 DEF ListProbe
    <2>2. ~Signalable(lpid) => \A p \in Proc : ~Alive(p)
      BY <1>1, <2>1 DEF ListInv, Listing, Signalable
    <2>3. ListInv'
      BY <1>1, <1>2, <2>1, <2>2 DEF ListInv, Listing, Alive
    <2> QED
      BY <1>1, <1>2, <1>3, <2>1, <2>3 DEF StartInv, Reachable, files
  <1>6. CASE ListRemovesPid \/ ListRemovesSock
    <2>1. /\ lpc \in {"rmpid", "rmsock"} /\ lpc' \in {"rmsock", "done"} /\ lpid' = lpid
      BY <1>6 DEF ListRemovesPid, ListRemovesSock
    <2>2. \A p \in Proc : ~Alive(p)
      BY <1>1, <2>1 DEF ListInv, Listing
    <2>3. ListInv'
      BY <1>1, <1>2, <2>1, <2>2 DEF ListInv, Listing, Alive
    <2>4. StartInv' /\ Reachable'
      BY <1>2, <2>2 DEF StartInv, Reachable, Alive, Running, Startup
    <2> QED
      BY <1>3, <2>3, <2>4
  <1> QED
    BY <1>4, <1>5, <1>6 DEF ListNext

-------------------------------------------------------------------------------
(* Theorems.                                                               *)

LEMMA InitFiles == FilesInit => FilesInv
  BY FilesAssumption DEF FilesInit, FilesInv, FilesTypeOK, BirthInv, BoundInv, AloneInv, OneLives,
     ListInv, StartInv, Live, Listing, Alive, Running, Startup, Shutdown, Waiting

(* That commands have overlapped is not forgotten.                         *)
LEMMA OverlapStays ==
    ASSUME FilesNext, ~overlapped'
    PROVE  ~overlapped
  BY DEF FilesNext, NewNext, NewCheck, NewSpawn, NewSeesSocket, NewTimeout, NewDial, NewReturns,
     DaemonNext, DaemonUnlink, DaemonBind, DaemonListen, PidCreate, PidWrite, ShellExit,
     ListenerClose, WaiterRemovesSock, WaiterRemovesPid, MainExits, Crash, Kill, ListNext,
     ListRead, ListProbe, ListRemovesPid, ListRemovesSock, CommandStarts

LEMMA NextFiles == FilesInv /\ [FilesNext]_filesVars => FilesInv'
  <1> SUFFICES ASSUME FilesInv, [FilesNext]_filesVars
               PROVE  FilesInv'
    OBVIOUS
  <1>1. CASE FilesNext
    <2>1. FilesTypeOK'
      BY <1>1, CommandTyped, DaemonTyped, ListTyped DEF FilesInv, FilesNext
    <2>2. BirthInv' /\ BoundInv'
      BY <1>1, NextBound DEF FilesInv
    <2>3. AloneInv'
      <3>1. ASSUME ~overlapped'
            PROVE  OneLives' /\ ListInv' /\ StartInv' /\ Reachable' /\ JoinsItsOwn'
        <4>1. ~overlapped
          BY <1>1, <3>1, OverlapStays
        <4> QED
          BY <1>1, <3>1, <4>1, CommandAlone, DaemonAlone, ListAlone DEF FilesInv, FilesNext
      <3> QED
        BY <3>1 DEF AloneInv, Reachable, JoinsItsOwn
    <2> QED
      BY <2>1, <2>2, <2>3 DEF FilesInv
  <1>2. CASE UNCHANGED filesVars
    BY <1>2 DEF filesVars, files, lister, FilesInv, FilesTypeOK, BirthInv, BoundInv, AloneInv, OneLives,
       ListInv, StartInv, Live, Listing, Alive
  <1> QED
    BY <1>1, <1>2

LEMMA FilesInvariance == FilesSpec => []FilesInv
  BY InitFiles, NextFiles, PTL DEF FilesSpec

-------------------------------------------------------------------------------
(* What a list leaves.                                                     *)

\* A list that was alone with the files when it read them still is.
QuietInv == quiet => \A p \in Proc : ~Signalable(p)

Making == \E p \in Proc : dpc[p] \in {"listen", "create", "write"}

\* Until commands overlap, and unless a daemon crashes before the pid file names
\* it, whatever is left of a session is what its pid file leads to.
Left ==
    /\ \A p \in Proc : pid = p => dpc[p] \notin {"unborn"} \cup Startup
    /\ (\E p \in Proc : dpc[p] \in Shutdown) => sock = "none"
    /\ pid = "empty" => \E p \in Proc : dpc[p] = "write"
    /\ sock # "none" => pid = sock \/ lpc = "rmsock" \/ Making
    /\ lpc = "probe" => lpid \in Proc
    /\ lpc = "rmsock" => pid = "none"
    /\ lpc = "done" /\ quiet => sock = "none" /\ pid = "none"

LeftInv == ~overlapped => Left

(* Only a new daemon disturbs a list that was alone.                       *)
LEMMA NextQuiet ==
    ASSUME FilesTypeOK, QuietInv, FilesNext
    PROVE  QuietInv'
  <1>1. ASSUME NEW p \in Proc, NewNext(p)
        PROVE  QuietInv'
    <2>1. CASE NewSpawn(p)
      BY <2>1 DEF NewSpawn, QuietInv
    <2>2. CASE ~NewSpawn(p)
      <3>1. quiet' = quiet /\ dpc' = dpc
        BY <1>1, <2>2 DEF NewNext, NewCheck, NewSeesSocket, NewTimeout, NewDial, NewReturns, lister
      <3>2. \A q \in Proc : npc'[q] \in Waiting \cup {"attached"} => npc[q] \in Waiting \cup {"attached"}
        BY <1>1, <2>2 DEF FilesTypeOK, NewNext, NewCheck, NewSeesSocket, NewTimeout, NewDial, NewReturns,
           NewStep, Waiting
      <3> QED
        BY <3>1, <3>2 DEF QuietInv, Signalable, Alive
    <2> QED
      BY <2>1, <2>2
  <1>2. ASSUME NEW p \in Proc, DaemonNext(p) \/ Crash(p) \/ Kill(p)
        PROVE  QuietInv'
    <2>1. Alive(p) /\ quiet' = quiet
      BY <1>2, FilesAssumption DEF DaemonNext, DaemonUnlink, DaemonBind, DaemonListen, PidCreate,
         PidWrite, ShellExit, ListenerClose, WaiterRemovesSock, WaiterRemovesPid, MainExits, Crash,
         Kill, DaemonGoes, lister, Alive, Running, Startup, Shutdown
    <2> QED
      BY <2>1 DEF QuietInv, Signalable
  <1>3. CASE ListNext
    BY <1>3 DEF ListNext, ListRead, ListProbe, ListRemovesPid, ListRemovesSock, QuietInv, Signalable,
       Alive
  <1> QED
    BY <1>1, <1>2, <1>3 DEF FilesNext

(* A command changes no file, and only its daemon's birth shows.           *)
LEMMA CommandLeft ==
    ASSUME FilesTypeOK, BirthInv, Left, NEW p \in Proc, NewNext(p)
    PROVE  Left'
  <1>1. CASE NewSpawn(p)
    <2>1. /\ dpc[p] = "unborn" /\ dpc' = [dpc EXCEPT ![p] = "unlink"] /\ quiet' = FALSE
          /\ UNCHANGED <<sock, pid, lpc, lpid>>
      BY <1>1 DEF NewSpawn, NewStep, BirthInv, files
    <2>2. /\ \A q \in Proc \ {p} : dpc'[q] = dpc[q]
          /\ dpc'[p] = "unlink"
      BY <2>1 DEF FilesTypeOK
    <2>3. /\ \A q \in Proc : pid' = q => dpc'[q] \notin {"unborn"} \cup Startup
          /\ (\E q \in Proc : dpc'[q] \in Shutdown) => sock' = "none"
      BY <2>1, <2>2 DEF Left, Startup, Shutdown
    <2>4. Making => Making'
      BY <2>1, <2>2 DEF Making
    <2>5. pid' = "empty" => \E q \in Proc : dpc'[q] = "write"
      BY <2>1, <2>2 DEF Left
    <2> QED
      BY <2>1, <2>3, <2>4, <2>5 DEF Left
  <1>2. CASE ~NewSpawn(p)
    <2>1. UNCHANGED <<sock, pid, lpc, lpid, quiet, dpc>>
      BY <1>2 DEF NewNext, NewCheck, NewSeesSocket, NewTimeout, NewDial, NewReturns, lister, files
    <2> QED
      BY <2>1 DEF Left, Making
  <1> QED
    BY <1>1, <1>2

(* A daemon's socket is there before its pid, and gone before its pid is.  *)
LEMMA DaemonLeft ==
    ASSUME CrashAt \cap Startup = {}, FilesTypeOK, BoundInv, QuietInv, OneLives, ListInv, StartInv, Left,
           NEW p \in Proc, DaemonNext(p) \/ Crash(p) \/ Kill(p)
    PROVE  Left'
  <1>a. /\ Alive(p) /\ UNCHANGED <<lpc, lpid, quiet>>
        /\ \A q \in Proc \ {p} : dpc'[q] = dpc[q]
    BY FilesAssumption DEF FilesTypeOK, DaemonNext, DaemonUnlink, DaemonBind, DaemonListen, PidCreate,
       PidWrite, ShellExit, ListenerClose, WaiterRemovesSock, WaiterRemovesPid, MainExits, Crash,
       Kill, DaemonGoes, lister, Alive, Running, Startup, Shutdown
  <1>b. ~quiet /\ lpc # "rmsock"
    BY <1>a DEF QuietInv, Signalable, ListInv, Listing
  <1>c. \A q \in Proc \ {p} : dpc[q] \notin Running
    BY <1>a DEF OneLives, Live, Alive
  <1>d. \A q \in Proc \ {p} : dpc'[q] \notin Running
    BY <1>a, <1>c
  <1> DEFINE Mine == /\ \A q \in Proc : pid' = q => dpc'[q] \notin {"unborn"} \cup Startup
                     /\ dpc'[p] \in Shutdown => sock' = "none"
                     /\ pid' = "empty" => dpc'[p] = "write"
                     /\ sock' # "none" => pid' = sock' \/ dpc'[p] \in {"listen", "create", "write"}
  <1>1. SUFFICES Mine
    BY <1>a, <1>b, <1>d DEF Left, Making, Running, Startup, Shutdown
  <1>e. /\ \A q \in Proc : pid = q => dpc[q] \notin {"unborn"} \cup Startup
        /\ dpc[p] \in Shutdown => sock = "none"
        /\ pid = "empty" => dpc[p] = "write"
        /\ sock # "none" => pid = sock \/ dpc[p] \in {"listen", "create", "write"}
    BY <1>b, <1>c DEF Left, Making, Running, Startup
  <1>f. p \notin {"none", "empty"}
    BY FilesAssumption
  <1>2. CASE DaemonUnlink(p) \/ DaemonListen(p)
    <2>1. /\ pid' = pid
          /\ \/ dpc[p] = "unlink" /\ dpc'[p] = "bind" /\ sock' = "none"
             \/ dpc[p] = "listen" /\ dpc'[p] = "create" /\ sock' = sock
      BY <1>2 DEF DaemonUnlink, DaemonListen, DaemonGoes, RemoveSock, files, FilesTypeOK
    <2> QED
      BY <1>a, <1>e, <2>1 DEF Startup, Shutdown
  <1>7. CASE ShellExit(p) \/ ListenerClose(p) \/ WaiterRemovesSock(p) \/ WaiterRemovesPid(p)
    <2>1. /\ dpc[p] \in {"serve"} \cup Shutdown /\ dpc'[p] \in Shutdown
          /\ sock' \in {sock, "none"} /\ (dpc[p] = "serve" => sock' = "none")
          /\ pid' \in {pid, "none"} /\ (pid' # pid => sock' = sock /\ dpc[p] \in Shutdown)
      BY <1>7 DEF ShellExit, ListenerClose, WaiterRemovesSock, WaiterRemovesPid, DaemonGoes,
         RemoveSock, RemovePid, files, FilesTypeOK, Shutdown
    <2>2. sock' = "none" /\ pid' # "empty"
      BY <1>e, <2>1 DEF Shutdown
    <2>3. dpc'[p] \notin {"unborn"} \cup Startup
      BY <2>1 DEF Shutdown, Startup
    <2> QED
      BY <1>a, <1>e, <1>f, <2>1, <2>2, <2>3, FilesAssumption
  <1>3. CASE DaemonBind(p)
    <2>1. /\ dpc[p] = "bind" /\ pid' = pid
          /\ \/ sock = "none" /\ dpc'[p] = "listen"
             \/ sock # "none" /\ dpc'[p] = "failed" /\ sock' = sock
      BY <1>3 DEF DaemonBind, DaemonGoes, FilesTypeOK
    <2> QED
      BY <1>a, <1>e, <2>1 DEF Startup, Shutdown
  <1>4. CASE PidCreate(p)
    <2>1. dpc[p] = "create" /\ dpc'[p] = "write" /\ pid' = "empty" /\ sock' = sock
      BY <1>4 DEF PidCreate, DaemonGoes, FilesTypeOK
    <2> QED
      BY <1>a, <1>e, <2>1, FilesAssumption DEF Startup, Shutdown
  <1>5. CASE PidWrite(p)
    <2>1. dpc[p] = "write" /\ dpc'[p] = "serve" /\ pid' = p /\ sock' = sock /\ sock = p
      BY <1>5 DEF PidWrite, DaemonGoes, FilesTypeOK, StartInv
    <2> QED
      BY <1>a, <1>e, <1>f, <2>1 DEF Startup, Shutdown
  <1>6. CASE MainExits(p) \/ Crash(p) \/ Kill(p)
    <2>1. /\ dpc'[p] \in {"exited", "dead"} /\ UNCHANGED <<sock, pid>>
          /\ dpc[p] \notin Startup \/ pid = p
      BY <1>6 DEF MainExits, Crash, Kill, DaemonGoes, FilesTypeOK, Startup
    <2>2. dpc[p] \notin Startup
      BY <1>e, <2>1
    <2> QED
      BY <1>a, <1>e, <2>1, <2>2 DEF Startup, Shutdown
  <1> QED
    BY <1>2, <1>3, <1>4, <1>5, <1>6, <1>7 DEF DaemonNext

(* A list removes the pid first, then the socket.                          *)
LEMMA ListLeft ==
    ASSUME FilesTypeOK, QuietInv, Left, ListNext
    PROVE  Left'
  <1>a. \A p \in Proc : p \notin {"none", "empty"}
    BY FilesAssumption
  <1>1. CASE ListRead
    <2>1. /\ UNCHANGED <<sock, pid, dpc>> /\ lpid' = pid /\ lpc # "rmsock"
          /\ lpc' = IF pid \in Proc THEN "probe" ELSE "done"
          /\ quiet' => \A p \in Proc : dpc[p] \notin Running
      BY <1>1 DEF ListRead, files, Signalable, Alive
    <2>2. quiet' /\ lpc' = "done" => pid = "none" /\ sock = "none"
      BY <2>1 DEF Left, Making, FilesTypeOK, Running, Startup
    <2> QED
      BY <2>1, <2>2 DEF Left, Making
  <1>2. CASE ListProbe
    <2>1. /\ UNCHANGED <<sock, pid, dpc, quiet, lpid>> /\ lpc = "probe"
          /\ lpc' = IF Signalable(lpid) THEN "done" ELSE "rmpid"
      BY <1>2 DEF ListProbe, files
    <2>2. ~(lpc' = "done" /\ quiet)
      BY <2>1 DEF Left, QuietInv
    <2> QED
      BY <2>1, <2>2 DEF Left, Making
  <1>3. CASE ListRemovesPid
    <2>1. /\ UNCHANGED <<sock, dpc, quiet, lpid>> /\ pid' = "none" /\ lpc' = "rmsock"
      BY <1>3 DEF ListRemovesPid, RemovePid
    <2> QED
      BY <1>a, <2>1 DEF Left
  <1>4. CASE ListRemovesSock
    <2>1. /\ UNCHANGED <<pid, dpc, quiet, lpid>> /\ sock' = "none" /\ lpc = "rmsock" /\ lpc' = "done"
      BY <1>4 DEF ListRemovesSock, RemoveSock
    <2> QED
      BY <2>1 DEF Left
  <1> QED
    BY <1>1, <1>2, <1>3, <1>4 DEF ListNext

(* A complete list that was alone leaves nothing, unless a daemon crashes  *)
(* with its socket bound and its pid not yet written.                      *)
THEOREM ListsCleanUp ==
    ASSUME CrashAt \cap Startup = {}
    PROVE  FilesSpec => []StaleIsCleaned
  <1> DEFINE Inv == FilesInv /\ QuietInv /\ LeftInv
  <1>1. FilesInit => Inv
    <2>1. FilesInit => QuietInv /\ LeftInv
      BY FilesAssumption DEF FilesInit, QuietInv, LeftInv, Left, Shutdown
    <2> QED
      BY <2>1, InitFiles
  <1>2. Inv /\ [FilesNext]_filesVars => Inv'
    <2> SUFFICES ASSUME Inv, [FilesNext]_filesVars
                 PROVE  Inv'
      OBVIOUS
    <2>1. FilesInv'
      BY NextFiles
    <2>2. CASE FilesNext
      <3>1. QuietInv'
        BY <2>2, NextQuiet DEF FilesInv
      <3>2. ASSUME ~overlapped'
            PROVE  Left'
        <4>1. ~overlapped
          BY <2>2, <3>2, OverlapStays
        <4> QED
          BY <2>2, <4>1, CommandLeft, DaemonLeft, ListLeft DEF FilesInv, AloneInv, LeftInv, FilesNext
      <3> QED
        BY <2>1, <3>1, <3>2 DEF LeftInv
    <2>3. CASE UNCHANGED filesVars
      BY <2>1, <2>3 DEF filesVars, files, lister, QuietInv, Signalable, Alive, LeftInv, Left, Making
    <2> QED
      BY <2>2, <2>3
  <1>3. Inv => StaleIsCleaned
    BY DEF LeftInv, Left, StaleIsCleaned
  <1> QED
    BY <1>1, <1>2, <1>3, PTL DEF FilesSpec

-------------------------------------------------------------------------------
(* What the variables hold, for any commands and daemons.                  *)
THEOREM FilesTypeCorrect == FilesSpec => []FilesTypeOK
  <1>1. FilesInv => FilesTypeOK
    BY DEF FilesInv
  <1> QED
    BY <1>1, FilesInvariance, PTL

(* Until commands overlap, a daemon that serves is what the session's      *)
(* files lead to.                                                          *)
THEOREM SessionsAreReachable == FilesSpec => []EverySessionReachable
  <1>1. FilesInv => EverySessionReachable
    BY DEF FilesInv, AloneInv, EverySessionReachable
  <1> QED
    BY <1>1, FilesInvariance, PTL

(* Until commands overlap, lss new joins the session it created.           *)
THEOREM CommandsJoinTheirOwn == FilesSpec => []NewJoinsItsOwn
  <1>1. FilesInv => NewJoinsItsOwn
    BY DEF FilesInv, AloneInv, NewJoinsItsOwn
  <1> QED
    BY <1>1, FilesInvariance, PTL

(* However commands and daemons interleave, a daemon that ends by itself   *)
(* leaves no socket.                                                       *)
THEOREM ExitsFreeTheName == FilesSpec => []ExitFreesTheName
  <1>1. FilesInv => ExitFreesTheName
    BY DEF FilesInv, BoundInv, Unbound, ExitFreesTheName
  <1> QED
    BY <1>1, FilesInvariance, PTL

===============================================================================
