------------------------------- MODULE LssClient -------------------------------
(***************************************************************************)
(* Attached terminals and the way from them to the shell: the goroutines   *)
(* of runClient that write to the connection (cmd/lss/client.go), the two  *)
(* writes of a frame (writeFrame, cmd/lss/proto.go), and the daemon's      *)
(* reader, which reads frames back and acts on them (readFrame, and        *)
(* handleClient in cmd/lss/daemon.go).                                     *)
(*                                                                         *)
(* A connection carries units: a frame's header, then its payload if it    *)
(* has one.  Each is one Write, so a unit arrives whole; nothing keeps the *)
(* units of two goroutines apart.  Where the reader takes a unit for what  *)
(* it is not, every byte after it may be misread: it has lost the framing. *)
(***************************************************************************)
EXTENDS Integers, Sequences

CONSTANTS Client,        \* attached terminals
          Widths,        \* the widths a terminal may have
          Modulus,       \* widths are uint16: 65536
          MaxKeys,       \* bound: frames of keys typed at a terminal
          MaxResizes     \* bound: resizes of all terminals

ASSUME ClientAssumption ==
    /\ Client # {} /\ "none" \notin Client
    /\ Modulus \in Nat /\ Modulus > 1
    /\ Widths \subseteq 0 .. Modulus - 1 /\ Widths # {}
    /\ MaxKeys \in Nat /\ MaxResizes \in Nat

VARIABLES
    width,     \* each terminal's width
    resizes,   \* how often one was resized
    caught,    \* is SIGWINCH delivered to the channel?
    pending,   \* is there a SIGWINCH in the channel (its capacity is 1)?
    wpc,       \* who sends resizes: "start", then "wait", or within sendWinch
    wval,      \* the width sendWinch has read
    spc,       \* the goroutine that reads stdin
    typed,     \* frames of keys read from stdin
    wire,      \* the units written and not yet read by the daemon
    open,      \* has the client not closed its end?
    rpc,       \* the daemon's reader of the connection
    rval,      \* the width in the resize frame it is handling
    written,   \* frames of keys written to the PTY
    ptyWidth,  \* the width of the shell's terminal
    lastSet,   \* the client whose frame set it last, or "none"
    redrawn,   \* has the width changed since the resize frame was read?
    early,     \* history: was a terminal resized before SIGWINCH was caught?
    mixed      \* history: the clients that wrote a frame within another

clientVars == <<width, resizes, caught, pending, wpc, wval, spc, typed>>
readerVars == <<rpc, rval, written, ptyWidth, lastSet, redrawn>>
history == <<early, mixed>>
vars == <<clientVars, wire, open, readerVars, history>>

Header(typ) == [unit |-> "header", typ |-> typ]
Payload(typ, val) == [unit |-> "payload", typ |-> typ, val |-> val]

Init ==
    /\ width \in [Client -> Widths]
    /\ resizes = 0
    /\ caught = [c \in Client |-> FALSE]
    /\ pending = [c \in Client |-> FALSE]
    /\ wpc = [c \in Client |-> "start"]
    /\ wval = [c \in Client |-> 0]
    /\ spc = [c \in Client |-> "idle"]
    /\ typed = [c \in Client |-> 0]
    /\ wire = [c \in Client |-> <<>>]
    /\ open = [c \in Client |-> TRUE]
    /\ rpc = [c \in Client |-> "header"]
    /\ rval = [c \in Client |-> 0]
    /\ written = [c \in Client |-> 0]
    /\ ptyWidth = 0
    /\ lastSet = "none"
    /\ redrawn = [c \in Client |-> TRUE]
    /\ early = FALSE /\ mixed = {}

-------------------------------------------------------------------------------
(* The terminal and its user.                                              *)

\* Faulty: the channel for SIGWINCH has no room, so a busy receiver misses it.
ResizeUnbuffered(c, w) ==
    /\ w \in Widths \ {width[c]}
    /\ resizes < MaxResizes /\ open[c]
    /\ width' = [width EXCEPT ![c] = w]
    /\ resizes' = resizes + 1
    /\ pending' = [pending EXCEPT ![c] = @ \/ wpc[c] = "wait"]
    /\ early' = (early \/ ~caught[c])
    /\ UNCHANGED <<caught, wpc, wval, spc, typed, wire, open, readerVars, mixed>>

Resize(c, w) ==
    /\ w \in Widths \ {width[c]}
    /\ resizes < MaxResizes /\ open[c]
    /\ width' = [width EXCEPT ![c] = w]
    /\ resizes' = resizes + 1
    /\ pending' = [pending EXCEPT ![c] = @ \/ caught[c]]
    /\ early' = (early \/ ~caught[c])
    /\ UNCHANGED <<caught, wpc, wval, spc, typed, wire, open, readerVars, mixed>>

-------------------------------------------------------------------------------
(* runClient: a first sendWinch, then the goroutines.                      *)

\* One Write.
Put(c, unit) == wire' = [wire EXCEPT ![c] = Append(@, unit)]

\* A frame begins, and lands in another if a header of "other" has gone out
\* without its payload.
Begins(c, other) == mixed' = IF other = "payload" THEN mixed \cup {c} ELSE mixed

WinchStep(c, from, to) == wpc[c] = from /\ wpc' = [wpc EXCEPT ![c] = to]

\* sendWinch reads the size ...
GetSize(c) ==
    /\ \/ WinchStep(c, "start", "header")
       \/ pending[c] /\ WinchStep(c, "wait", "header")
    /\ pending' = [pending EXCEPT ![c] = IF wpc[c] = "wait" THEN FALSE ELSE @]
    /\ wval' = [wval EXCEPT ![c] = width[c]]
    /\ UNCHANGED <<width, resizes, caught, spc, typed, wire, open, readerVars, history>>

\* ... and sends it in two writes.
WinchHeader(c) ==
    /\ WinchStep(c, "header", "payload")
    /\ Put(c, Header("winch")) /\ Begins(c, spc[c])
    /\ UNCHANGED <<width, resizes, caught, pending, wval, spc, typed, open, readerVars, early>>

WinchPayload(c) ==
    /\ WinchStep(c, "payload", "sent")
    /\ Put(c, Payload("winch", wval[c]))
    /\ UNCHANGED <<width, resizes, caught, pending, wval, spc, typed, open, readerVars, history>>

\* After the first one SIGWINCH is caught and stdin is read.
WinchSent(c) ==
    /\ WinchStep(c, "sent", "wait")
    /\ caught' = [caught EXCEPT ![c] = TRUE]
    /\ spc' = [spc EXCEPT ![c] = IF @ = "idle" THEN "read" ELSE @]
    /\ UNCHANGED <<width, resizes, pending, wval, typed, wire, open, readerVars, history>>

StdinStep(c, from, to) == spc[c] = from /\ spc' = [spc EXCEPT ![c] = to]

\* What was read holds no detach key: it becomes one frame.
ReadKeys(c) ==
    /\ typed[c] < MaxKeys
    /\ StdinStep(c, "read", "header")
    /\ typed' = [typed EXCEPT ![c] = @ + 1]
    /\ UNCHANGED <<width, resizes, caught, pending, wpc, wval, wire, open, readerVars, history>>

KeysHeader(c) ==
    /\ StdinStep(c, "header", "payload")
    /\ Put(c, Header("data")) /\ Begins(c, wpc[c])
    /\ UNCHANGED <<width, resizes, caught, pending, wpc, wval, typed, open, readerVars, early>>

KeysPayload(c) ==
    /\ StdinStep(c, "payload", "read")
    /\ Put(c, Payload("data", typed[c]))
    /\ UNCHANGED <<width, resizes, caught, pending, wpc, wval, typed, open, readerVars, history>>

\* What was read holds the detach key; keys before it in the same read are
\* dropped with it.  The frame has no payload, so one write sends it.
ReadDetachKey(c) ==
    /\ StdinStep(c, "read", "detached")
    /\ Put(c, Header("detach")) /\ Begins(c, wpc[c])
    /\ UNCHANGED <<width, resizes, caught, pending, wpc, wval, typed, open, readerVars, early>>

\* runClient returns after a detach, or on SIGHUP, wherever its goroutines are:
\* the connection is closed, and they can do no more.
Close(c) ==
    /\ open[c] /\ wpc[c] # "start"
    /\ open' = [open EXCEPT ![c] = FALSE]
    /\ pending' = [pending EXCEPT ![c] = FALSE]
    /\ wpc' = [wpc EXCEPT ![c] = "ended"]
    /\ spc' = [spc EXCEPT ![c] = "ended"]
    /\ UNCHANGED <<width, resizes, caught, wval, typed, wire, readerVars, history>>

-------------------------------------------------------------------------------
(* The daemon's reader of one connection.                                  *)

ReaderStep(c, from, to) == rpc[c] = from /\ rpc' = [rpc EXCEPT ![c] = to]

Expect(typ) == IF typ = "detach" THEN "detached" ELSE typ

\* readFrame reads a header: the next unit, whatever it is.
ReadHeader(c) ==
    /\ wire[c] # <<>>
    /\ ReaderStep(c, "header", IF Head(wire[c]).unit = "header"
                               THEN Expect(Head(wire[c]).typ) ELSE "lost")
    /\ wire' = [wire EXCEPT ![c] = Tail(@)]
    /\ UNCHANGED <<clientVars, open, rval, written, ptyWidth, lastSet, redrawn, history>>

IsPayload(u, typ) == u.unit = "payload" /\ u.typ = typ

\* Faulty: the keys are read and forgotten.
ReadKeysForgotten(c) ==
    /\ wire[c] # <<>>
    /\ ReaderStep(c, "data", IF IsPayload(Head(wire[c]), "data") THEN "header" ELSE "lost")
    /\ wire' = [wire EXCEPT ![c] = Tail(@)]
    /\ UNCHANGED <<clientVars, open, rval, written, ptyWidth, lastSet, redrawn, history>>

\* ... and the payload the header announced.
ReadKeysPayload(c) ==
    /\ wire[c] # <<>>
    /\ ReaderStep(c, "data", IF IsPayload(Head(wire[c]), "data") THEN "write" ELSE "lost")
    /\ wire' = [wire EXCEPT ![c] = Tail(@)]
    /\ UNCHANGED <<clientVars, open, rval, written, ptyWidth, lastSet, redrawn, history>>

ReadWinchPayload(c) ==
    /\ wire[c] # <<>>
    /\ \/ /\ IsPayload(Head(wire[c]), "winch")
          /\ ReaderStep(c, "winch", "dummy")
          /\ rval' = [rval EXCEPT ![c] = Head(wire[c]).val]
          /\ redrawn' = [redrawn EXCEPT ![c] = FALSE]
       \/ /\ ~IsPayload(Head(wire[c]), "winch")
          /\ ReaderStep(c, "winch", "lost")
          /\ UNCHANGED <<rval, redrawn>>
    /\ wire' = [wire EXCEPT ![c] = Tail(@)]
    /\ UNCHANGED <<clientVars, open, written, ptyWidth, lastSet, history>>

\* The connection is closed and read to its end, perhaps within a frame.
ReadEOF(c) ==
    /\ ~open[c] /\ wire[c] = <<>>
    /\ \E from \in {"header", "data", "winch"} : ReaderStep(c, from, "done")
    /\ UNCHANGED <<clientVars, wire, open, rval, written, ptyWidth, lastSet, redrawn, history>>

WriteKeys(c) ==
    /\ ReaderStep(c, "write", "header")
    /\ written' = [written EXCEPT ![c] = @ + 1]
    /\ UNCHANGED <<clientVars, wire, open, rval, ptyWidth, lastSet, redrawn, history>>

\* TIOCSWINSZ signals the shell only when the width is a new one.
Setsize(w) ==
    /\ ptyWidth' = w
    /\ redrawn' = [c \in Client |-> redrawn[c] \/ w # ptyWidth]

\* Faulty: the dummy size is the size itself.
SetSameSize(c) ==
    /\ ReaderStep(c, "dummy", "real")
    /\ Setsize(rval[c])
    /\ UNCHANGED <<clientVars, wire, open, rval, written, lastSet, history>>

\* Faulty: the dummy size may be too wide for a uint16.
SetUnwrappedSize(c) ==
    /\ ReaderStep(c, "dummy", "real")
    /\ Setsize(rval[c] + 1)
    /\ UNCHANGED <<clientVars, wire, open, rval, written, lastSet, history>>

SetDummySize(c) ==
    /\ ReaderStep(c, "dummy", "real")
    /\ Setsize((rval[c] + 1) % Modulus)
    /\ UNCHANGED <<clientVars, wire, open, rval, written, lastSet, history>>

SetRealSize(c) ==
    /\ ReaderStep(c, "real", "header")
    /\ Setsize(rval[c])
    /\ lastSet' = c
    /\ UNCHANGED <<clientVars, wire, open, rval, written, history>>

-------------------------------------------------------------------------------

ClientNext(c) ==
    \/ \E w \in Widths : Resize(c, w)
    \/ GetSize(c) \/ WinchHeader(c) \/ WinchPayload(c) \/ WinchSent(c)
    \/ ReadKeys(c) \/ KeysHeader(c) \/ KeysPayload(c) \/ ReadDetachKey(c) \/ Close(c)

ReaderNext(c) ==
    \/ ReadHeader(c) \/ ReadKeysPayload(c) \/ ReadWinchPayload(c) \/ ReadEOF(c)
    \/ WriteKeys(c) \/ SetDummySize(c) \/ SetRealSize(c)

Next == \E c \in Client : ClientNext(c) \/ ReaderNext(c)

Spec == Init /\ [][Next]_vars

-------------------------------------------------------------------------------

Units == [unit : {"header"}, typ : {"data", "winch", "detach"}]
            \cup [unit : {"payload"}, typ : {"data"}, val : 0 .. MaxKeys]
            \cup [unit : {"payload"}, typ : {"winch"}, val : 0 .. Modulus - 1]

TypeOK ==
    /\ width \in [Client -> Widths] /\ resizes \in 0 .. MaxResizes
    /\ caught \in [Client -> BOOLEAN] /\ pending \in [Client -> BOOLEAN]
    /\ wpc \in [Client -> {"start", "header", "payload", "sent", "wait", "ended"}]
    /\ wval \in [Client -> 0 .. Modulus - 1]
    /\ spc \in [Client -> {"idle", "read", "header", "payload", "detached", "ended"}]
    /\ typed \in [Client -> 0 .. MaxKeys]
    /\ wire \in [Client -> Seq(Units)]
    /\ open \in [Client -> BOOLEAN]
    /\ rpc \in [Client -> {"header", "data", "winch", "write", "dummy", "real",
                           "detached", "done", "lost"}]
    /\ rval \in [Client -> 0 .. Modulus - 1]
    /\ written \in [Client -> 0 .. MaxKeys]
    /\ ptyWidth \in 0 .. Modulus - 1
    /\ lastSet \in {"none"} \cup Client
    /\ redrawn \in [Client -> BOOLEAN]
    /\ early \in BOOLEAN /\ mixed \subseteq Client

(* "Each frame: [type:1][lenHi:1][lenMid:1][lenLo:1][payload...]"          *)
(* (proto.go:12): the daemon reads the frames that were written, whichever *)
(* goroutine wrote them.                                                   *)
FramesIntact == \A c \in Client : rpc[c] # "lost"

(* Every resize frame makes the shell redraw, even if it brings the width  *)
(* the shell has and whatever another client sets between the two calls    *)
(* (the comment at daemon.go:208-210).                                     *)
EveryResizeRedraws ==
    \A c \in Client : rpc[c] \notin {"dummy", "real"} => redrawn[c]

\* Nothing about c's width is on its way any more.
Quiet(c) ==
    /\ wpc[c] = "wait" /\ ~pending[c] /\ open[c]
    /\ wire[c] = <<>> /\ rpc[c] \in {"header", "write"}

(* Once no resize is on its way the shell has the width of the terminal    *)
(* that sent the last one, never the dummy width, although signals that    *)
(* meet a full channel are dropped ("Forward SIGWINCH (terminal resize) to *)
(* the remote PTY", client.go:33).                                         *)
WidthSettles ==
    ~early /\ (\A c \in Client : Quiet(c)) => \E c \in Client : lastSet = c /\ ptyWidth = width[c]

(* What was typed before a detach is with the shell when the daemon sees   *)
(* the detach, although the client closes the connection behind it.        *)
DetachLosesNoKeys ==
    \A c \in Client \ mixed : rpc[c] = "detached" => written[c] = typed[c]

===============================================================================
