----------------------------- MODULE LssClientProofs -----------------------------
(***************************************************************************)
(* Proofs about attached terminals: for any number of them, of keys and of *)
(* resizes, and any widths.                                                *)
(*                                                                         *)
(* The daemon's reader either meets the units in the order they were       *)
(* written or has lost the framing for good; so what is true of the keys   *)
(* and widths still on the wire is true of what was read.                  *)
(***************************************************************************)
EXTENDS LssClient, TLAPS

-------------------------------------------------------------------------------
(* What is on a wire.                                                      *)

IsData(u) == IsPayload(u, "data")
IsWinch(u) == IsPayload(u, "winch")
IsDetach(u) == u = Header("detach")

\* The keys on s have numbers from a + 1 to b, in order ...
Numbered(s, a, b) ==
    /\ a <= b
    /\ \A i \in 1 .. Len(s) : IsData(s[i]) => s[i].val \in a + 1 .. b
    /\ \A i, j \in 1 .. Len(s) : i < j /\ IsData(s[i]) /\ IsData(s[j]) => s[i].val < s[j].val

\* ... and none is missing.
Complete(s, a, b) == \A k \in a + 1 .. b : \E i \in 1 .. Len(s) : IsData(s[i]) /\ s[i].val = k

HasDetach(s) == \E i \in 1 .. Len(s) : IsDetach(s[i])
DetachIsLast(s) == \A i, j \in 1 .. Len(s) : i < j /\ IsDetach(s[i]) => ~IsData(s[j])

NoWinch(s) == \A i \in 1 .. Len(s) : ~IsWinch(s[i])

\* The last width on s is v.
Brings(s, v) ==
    \E i \in 1 .. Len(s) :
        IsWinch(s[i]) /\ s[i].val = v /\ \A j \in 1 .. Len(s) : i < j => ~IsWinch(s[j])

-------------------------------------------------------------------------------
(* Invariants.                                                             *)

\* The frames of keys written to the wire, and read from it.
Sent(c) == typed[c] - (IF spc[c] \in {"header", "payload"} THEN 1 ELSE 0)
Got(c) == written[c] + (IF rpc[c] = "write" THEN 1 ELSE 0)

\* Nothing more is read from c.
Stopped(c) == rpc[c] \in {"lost", "done", "detached"}

KeysOf(c) ==
    /\ Numbered(wire[c], Got(c), Sent(c))
    /\ DetachIsLast(wire[c])
    /\ HasDetach(wire[c]) \/ rpc[c] = "detached" => spc[c] \in {"detached", "ended"}
    /\ ~Stopped(c) /\ (spc[c] # "ended" \/ HasDetach(wire[c])) =>
          Complete(wire[c], Got(c), Sent(c))
    /\ rpc[c] = "detached" => written[c] = typed[c]

KeysInv == \A c \in Client : KeysOf(c)

RedrawInv == \A c \in Client :
    /\ rpc[c] = "real" => redrawn[c] \/ ptyWidth # rval[c]
    /\ rpc[c] \notin {"dummy", "real"} => redrawn[c]

\* The width sendWinch has read is the terminal's, or there is a signal.
SignalInv == \A c \in Client :
    ~early /\ wpc[c] \in {"header", "payload", "sent", "wait"} => wval[c] = width[c] \/ pending[c]

\* What was sent last is the last on the wire, or the last that was read.
WinchOf(c) ==
    wpc[c] \in {"sent", "wait"} /\ ~Stopped(c) =>
        \/ Brings(wire[c], wval[c])
        \/ /\ NoWinch(wire[c]) /\ rval[c] = wval[c]
           /\ rpc[c] \in {"dummy", "real"} \/ lastSet # "none"

WinchInv == \A c \in Client : WinchOf(c)

\* Between two resizes the shell has the width of the last.
PtyInv ==
    lastSet # "none" /\ rpc[lastSet] # "dummy" /\ (\A c \in Client : rpc[c] # "real")
        => ptyWidth = rval[lastSet]

ClientInv == TypeOK /\ KeysInv /\ RedrawInv /\ SignalInv /\ WinchInv /\ PtyInv

-------------------------------------------------------------------------------
(* Writing to a wire, and reading from it.                                 *)

(* What Append does to a wire.                                             *)
LEMMA AppendUnits ==
    ASSUME NEW s \in Seq(Units), NEW u \in Units
    PROVE  /\ Append(s, u) \in Seq(Units) /\ Len(s) \in Nat /\ Len(Append(s, u)) = Len(s) + 1
           /\ \A i \in 1 .. Len(s) : Append(s, u)[i] = s[i]
           /\ Append(s, u)[Len(s) + 1] = u
  <1> DEFINE U == Units
  <1>1. s \in Seq(U) /\ u \in U
    OBVIOUS
  <1> HIDE DEF U
  <1> QED
    BY <1>1 DEF U

(* What Tail does to a wire.                                               *)
LEMMA TailUnits ==
    ASSUME NEW s \in Seq(Units), s # <<>>
    PROVE  /\ Tail(s) \in Seq(Units) /\ Len(s) \in Nat \ {0} /\ Len(Tail(s)) = Len(s) - 1
           /\ \A i \in 1 .. Len(s) - 1 : Tail(s)[i] = s[i + 1]
           /\ Head(s) = s[1] /\ Head(s) \in Units
  <1> DEFINE U == Units
  <1>1. s \in Seq(U)
    OBVIOUS
  <1> HIDE DEF U
  <1> QED
    BY <1>1 DEF U

(* A payload has a number, or a width.                                     *)
LEMMA UnitValues ==
    ASSUME NEW u \in Units
    PROVE  /\ u.unit = "header" => u.typ \in {"data", "winch", "detach"}
           /\ IsData(u) => u.val \in 0 .. MaxKeys
           /\ IsWinch(u) => u.val \in 0 .. Modulus - 1
  BY DEF Units, IsPayload, IsData, IsWinch

(* Keys are written with the next number; nothing else that is written is  *)
(* a key.                                                                  *)
LEMMA AppendNumbered ==
    ASSUME NEW s \in Seq(Units), NEW u \in Units, NEW a \in Nat, NEW b \in Nat, Numbered(s, a, b)
    PROVE  /\ ~IsData(u) => Numbered(Append(s, u), a, b)
           /\ IsData(u) /\ u.val = b + 1 => Numbered(Append(s, u), a, b + 1)
           /\ Complete(s, a, b) =>
                 /\ ~IsData(u) => Complete(Append(s, u), a, b)
                 /\ IsData(u) /\ u.val = b + 1 => Complete(Append(s, u), a, b + 1)
  <1> DEFINE t == Append(s, u)
  <1>1. /\ Len(s) \in Nat /\ Len(t) = Len(s) + 1
        /\ \A i \in 1 .. Len(s) : t[i] = s[i]
        /\ t[Len(s) + 1] = u
    BY AppendUnits
  <1> HIDE DEF t
  <1>2. ~IsData(u) => Numbered(t, a, b)
    BY <1>1 DEF Numbered
  <1>3. ASSUME IsData(u), u.val = b + 1
        PROVE  Numbered(t, a, b + 1)
    <2>1. \A i \in 1 .. Len(t) : i = Len(s) + 1 \/ i \in 1 .. Len(s)
      BY <1>1
    <2>2. \A i \in 1 .. Len(t) : IsData(t[i]) => t[i].val \in a + 1 .. b + 1
      BY <1>1, <1>3, <2>1 DEF Numbered
    <2>3. ASSUME NEW i \in 1 .. Len(t), NEW j \in 1 .. Len(t), i < j, IsData(t[i]), IsData(t[j])
          PROVE  t[i].val < t[j].val
      BY <1>1, <1>3, <2>1, <2>3 DEF Numbered
    <2> QED
      BY <2>2, <2>3 DEF Numbered
  <1>4. ASSUME Complete(s, a, b), NEW k \in a + 1 .. b
        PROVE  \E i \in 1 .. Len(t) : IsData(t[i]) /\ t[i].val = k
    <2>1. PICK i \in 1 .. Len(s) : IsData(s[i]) /\ s[i].val = k
      BY <1>4 DEF Complete
    <2> QED
      BY <1>1, <2>1
  <1>5. ASSUME Complete(s, a, b), IsData(u), u.val = b + 1, NEW k \in a + 1 .. b + 1
        PROVE  \E i \in 1 .. Len(t) : IsData(t[i]) /\ t[i].val = k
    <2>1. CASE k = b + 1
      BY <1>1, <1>5, <2>1
    <2>2. CASE k # b + 1
      BY <1>4, <1>5, <2>2
    <2> QED
      BY <2>1, <2>2
  <1>6. Complete(s, a, b) =>
            /\ ~IsData(u) => Complete(t, a, b)
            /\ IsData(u) /\ u.val = b + 1 => Complete(t, a, b + 1)
    BY <1>4, <1>5 DEF Complete
  <1> QED
    BY <1>2, <1>3, <1>6 DEF t

(* The first key read is the one with the next number.                     *)
LEMMA TailNumbered ==
    ASSUME NEW s \in Seq(Units), s # <<>>, NEW a \in Nat, NEW b \in Nat, Numbered(s, a, b)
    PROVE  /\ Numbered(Tail(s), a, b)
           /\ IsData(Head(s)) => a + 1 <= b /\ Numbered(Tail(s), a + 1, b)
           /\ Complete(s, a, b) =>
                 /\ ~IsData(Head(s)) => Complete(Tail(s), a, b)
                 /\ IsData(Head(s)) => Complete(Tail(s), a + 1, b)
  <1> DEFINE t == Tail(s)
  <1>1. /\ Len(s) \in Nat \ {0} /\ Len(t) = Len(s) - 1
        /\ \A i \in 1 .. Len(s) - 1 : t[i] = s[i + 1]
        /\ Head(s) = s[1]
    BY TailUnits
  <1> HIDE DEF t
  <1>2. \A i \in 1 .. Len(t) : i + 1 \in 1 .. Len(s) /\ t[i] = s[i + 1]
    BY <1>1
  <1>3. \A i \in 1 .. Len(t) : IsData(t[i]) => t[i].val \in a + 1 .. b
    BY <1>2 DEF Numbered
  <1>4. \A i, j \in 1 .. Len(t) : i < j /\ IsData(t[i]) /\ IsData(t[j]) => t[i].val < t[j].val
    <2>1. \A i, j \in 1 .. Len(t) : i < j => i + 1 < j + 1
      BY <1>1
    <2> QED
      BY <1>2, <2>1 DEF Numbered
  <1>5. Numbered(t, a, b)
    BY <1>3, <1>4 DEF Numbered
  <1>6. ASSUME IsData(Head(s))
        PROVE  a + 1 <= b /\ Numbered(t, a + 1, b)
    <2>1. s[1].val \in a + 1 .. b /\ 1 \in 1 .. Len(s)
      BY <1>1, <1>6 DEF Numbered
    <2>2. ASSUME NEW i \in 1 .. Len(t), IsData(t[i])
          PROVE  t[i].val \in (a + 1) + 1 .. b
      <3>1. i + 1 \in 1 .. Len(s) /\ 1 < i + 1 /\ t[i] = s[i + 1]
        BY <1>1, <1>2
      <3>2. s[1].val < s[i + 1].val
        BY <1>1, <1>6, <2>1, <2>2, <3>1 DEF Numbered
      <3> QED
        BY <1>3, <2>1, <2>2, <3>1, <3>2
    <2> QED
      BY <1>4, <2>1, <2>2 DEF Numbered
  <1>7. ASSUME Complete(s, a, b), NEW k \in a + 1 .. b, IsData(Head(s)) => k # Head(s).val
        PROVE  \E i \in 1 .. Len(t) : IsData(t[i]) /\ t[i].val = k
    <2>1. PICK i \in 1 .. Len(s) : IsData(s[i]) /\ s[i].val = k
      BY <1>7 DEF Complete
    <2>2. i # 1
      BY <1>1, <1>7, <2>1
    <2>3. i - 1 \in 1 .. Len(t) /\ t[i - 1] = s[i]
      BY <1>1, <2>2
    <2> QED
      BY <2>1, <2>3
  <1>8. ASSUME Complete(s, a, b), IsData(Head(s))
        PROVE  Head(s).val = a + 1
    <2>1. s[1].val \in a + 1 .. b /\ 1 \in 1 .. Len(s)
      BY <1>1, <1>8 DEF Numbered
    <2>2. PICK i \in 1 .. Len(s) : IsData(s[i]) /\ s[i].val = a + 1
      BY <1>8, <2>1 DEF Complete
    <2>3. i # 1 => s[1].val < s[i].val
      BY <1>1, <1>8, <2>1, <2>2 DEF Numbered
    <2> QED
      BY <1>1, <2>1, <2>2, <2>3
  <1>9. Complete(s, a, b) =>
            /\ ~IsData(Head(s)) => Complete(t, a, b)
            /\ IsData(Head(s)) => Complete(t, a + 1, b)
    <2>1. \A k \in (a + 1) + 1 .. b : k \in a + 1 .. b /\ k # a + 1
      OBVIOUS
    <2> QED
      BY <1>7, <1>8, <2>1 DEF Complete
  <1> QED
    BY <1>5, <1>6, <1>9 DEF t

(* No key is written after a detach.                                       *)
LEMMA AppendDetach ==
    ASSUME NEW s \in Seq(Units), NEW u \in Units, DetachIsLast(s)
    PROVE  /\ ~IsData(u) \/ ~HasDetach(s) => DetachIsLast(Append(s, u))
           /\ HasDetach(Append(s, u)) <=> HasDetach(s) \/ IsDetach(u)
  <1> DEFINE t == Append(s, u)
  <1>1. /\ Len(s) \in Nat /\ Len(t) = Len(s) + 1
        /\ \A i \in 1 .. Len(s) : t[i] = s[i]
        /\ t[Len(s) + 1] = u
    BY AppendUnits
  <1> HIDE DEF t
  <1>2. \A i \in 1 .. Len(t) : i = Len(s) + 1 \/ i \in 1 .. Len(s)
    BY <1>1
  <1>3. HasDetach(t) <=> HasDetach(s) \/ IsDetach(u)
    BY <1>1, <1>2 DEF HasDetach
  <1>4. ASSUME ~IsData(u) \/ ~HasDetach(s),
               NEW i \in 1 .. Len(t), NEW j \in 1 .. Len(t), i < j, IsDetach(t[i])
        PROVE  ~IsData(t[j])
    <2>1. i \in 1 .. Len(s) /\ t[i] = s[i]
      BY <1>1, <1>2, <1>4
    <2>2. CASE j \in 1 .. Len(s)
      BY <1>1, <1>4, <2>1, <2>2 DEF DetachIsLast
    <2>3. CASE j = Len(s) + 1
      BY <1>1, <1>4, <2>1, <2>3 DEF HasDetach
    <2> QED
      BY <1>2, <2>2, <2>3
  <1> QED
    BY <1>3, <1>4 DEF t, DetachIsLast

(* A detach is read when there are no keys left.                           *)
LEMMA TailDetach ==
    ASSUME NEW s \in Seq(Units), s # <<>>, DetachIsLast(s)
    PROVE  /\ DetachIsLast(Tail(s))
           /\ HasDetach(Tail(s)) => HasDetach(s)
           /\ HasDetach(s) => HasDetach(Tail(s)) \/ IsDetach(Head(s))
           /\ IsDetach(Head(s)) => \A i \in 1 .. Len(s) : ~IsData(s[i])
  <1> DEFINE t == Tail(s)
  <1>1. /\ Len(s) \in Nat \ {0} /\ Len(t) = Len(s) - 1
        /\ \A i \in 1 .. Len(s) - 1 : t[i] = s[i + 1]
        /\ Head(s) = s[1]
    BY TailUnits
  <1> HIDE DEF t
  <1>2. \A i \in 1 .. Len(t) : i + 1 \in 1 .. Len(s) /\ t[i] = s[i + 1]
    BY <1>1
  <1>3. \A i \in 1 .. Len(s) : i # 1 => i - 1 \in 1 .. Len(t) /\ t[i - 1] = s[i]
    BY <1>1
  <1>4. DetachIsLast(t)
    <2>1. \A i, j \in 1 .. Len(t) : i < j => i + 1 < j + 1
      BY <1>1
    <2> QED
      BY <1>2, <2>1 DEF DetachIsLast
  <1>5. (HasDetach(t) => HasDetach(s)) /\ (HasDetach(s) => HasDetach(t) \/ IsDetach(Head(s)))
    BY <1>1, <1>2, <1>3 DEF HasDetach
  <1>6. ASSUME IsDetach(Head(s)), NEW i \in 1 .. Len(s)
        PROVE  ~IsData(s[i])
    <2>1. CASE i = 1
      BY <1>1, <1>6, <2>1 DEF IsDetach, IsData, IsPayload, Header
    <2>2. CASE i # 1
      BY <1>1, <1>6, <2>2 DEF DetachIsLast
    <2> QED
      BY <2>1, <2>2
  <1> QED
    BY <1>4, <1>5, <1>6 DEF t

(* A width written is the last.                                            *)
LEMMA AppendWinch ==
    ASSUME NEW s \in Seq(Units), NEW u \in Units
    PROVE  /\ ~IsWinch(u) => /\ NoWinch(s) => NoWinch(Append(s, u))
                             /\ \A v : Brings(s, v) => Brings(Append(s, u), v)
           /\ IsWinch(u) => Brings(Append(s, u), u.val)
  <1> DEFINE t == Append(s, u)
  <1>1. /\ Len(s) \in Nat /\ Len(t) = Len(s) + 1
        /\ \A i \in 1 .. Len(s) : t[i] = s[i]
        /\ t[Len(s) + 1] = u
    BY AppendUnits
  <1> HIDE DEF t
  <1>2. \A i \in 1 .. Len(t) : i = Len(s) + 1 \/ i \in 1 .. Len(s)
    BY <1>1
  <1>3. ~IsWinch(u) /\ NoWinch(s) => NoWinch(t)
    BY <1>1, <1>2 DEF NoWinch
  <1>4. ASSUME ~IsWinch(u), NEW v, Brings(s, v)
        PROVE  Brings(t, v)
    <2>1. PICK i \in 1 .. Len(s) :
              IsWinch(s[i]) /\ s[i].val = v /\ \A j \in 1 .. Len(s) : i < j => ~IsWinch(s[j])
      BY <1>4 DEF Brings
    <2>2. i \in 1 .. Len(t) /\ IsWinch(t[i]) /\ t[i].val = v
      BY <1>1, <2>1
    <2>3. \A j \in 1 .. Len(t) : i < j => ~IsWinch(t[j])
      BY <1>1, <1>2, <1>4, <2>1
    <2> QED
      BY <2>2, <2>3 DEF Brings
  <1>5. IsWinch(u) => Brings(t, u.val)
    <2>1. Len(t) \in 1 .. Len(t) /\ t[Len(t)] = u /\ \A j \in 1 .. Len(t) : ~(Len(t) < j)
      BY <1>1
    <2> QED
      BY <2>1 DEF Brings
  <1> QED
    BY <1>3, <1>4, <1>5 DEF t

(* The last width is read when there is none behind it.                    *)
LEMMA TailWinch ==
    ASSUME NEW s \in Seq(Units), s # <<>>
    PROVE  /\ NoWinch(s) => NoWinch(Tail(s)) /\ ~IsWinch(Head(s))
           /\ \A v : Brings(s, v) =>
                 \/ Brings(Tail(s), v)
                 \/ IsWinch(Head(s)) /\ Head(s).val = v /\ NoWinch(Tail(s))
  <1> DEFINE t == Tail(s)
  <1>1. /\ Len(s) \in Nat \ {0} /\ Len(t) = Len(s) - 1
        /\ \A i \in 1 .. Len(s) - 1 : t[i] = s[i + 1]
        /\ Head(s) = s[1]
    BY TailUnits
  <1> HIDE DEF t
  <1>2. \A i \in 1 .. Len(t) : i + 1 \in 1 .. Len(s) /\ t[i] = s[i + 1]
    BY <1>1
  <1>3. NoWinch(s) => NoWinch(t) /\ ~IsWinch(Head(s))
    BY <1>1, <1>2 DEF NoWinch
  <1>4. ASSUME NEW v, Brings(s, v)
        PROVE  Brings(t, v) \/ (IsWinch(Head(s)) /\ Head(s).val = v /\ NoWinch(t))
    <2>1. PICK i \in 1 .. Len(s) :
              IsWinch(s[i]) /\ s[i].val = v /\ \A j \in 1 .. Len(s) : i < j => ~IsWinch(s[j])
      BY <1>4 DEF Brings
    <2>2. CASE i = 1
      <3>1. \A j \in 1 .. Len(t) : 1 < j + 1
        BY <1>1
      <3> QED
        BY <1>1, <1>2, <2>1, <2>2, <3>1 DEF NoWinch
    <2>3. CASE i # 1
      <3>1. i - 1 \in 1 .. Len(t) /\ t[i - 1] = s[i]
        BY <1>1, <2>3
      <3>2. \A j \in 1 .. Len(t) : i - 1 < j => i < j + 1
        BY <1>1
      <3> QED
        BY <1>2, <2>1, <3>1, <3>2 DEF Brings
    <2> QED
      BY <2>2, <2>3
  <1> QED
    BY <1>3, <1>4 DEF t

-------------------------------------------------------------------------------
(* Types.                                                                  *)

(* The dummy width is a width, and another one.                            *)
LEMMA DummyWidth ==
    ASSUME NEW v \in 0 .. Modulus - 1
    PROVE  (v + 1) % Modulus \in 0 .. Modulus - 1 /\ (v + 1) % Modulus # v
  BY ClientAssumption

(* A step of one terminal leaves the others alone.                         *)
Same(d) ==
    /\ width'[d] = width[d] /\ pending'[d] = pending[d]
    /\ wpc'[d] = wpc[d] /\ wval'[d] = wval[d] /\ spc'[d] = spc[d] /\ typed'[d] = typed[d]
    /\ wire'[d] = wire[d] /\ rpc'[d] = rpc[d] /\ rval'[d] = rval[d] /\ written'[d] = written[d]

LEMMA OthersSame ==
    ASSUME TypeOK, NEW c \in Client, ClientNext(c) \/ ReaderNext(c), NEW d \in Client \ {c}
    PROVE  Same(d)
  <1>a. /\ width \in [Client -> Widths] /\ pending \in [Client -> BOOLEAN]
        /\ DOMAIN wpc = Client /\ DOMAIN wval = Client /\ DOMAIN spc = Client
        /\ DOMAIN typed = Client /\ DOMAIN wire = Client /\ DOMAIN rpc = Client
        /\ DOMAIN rval = Client /\ DOMAIN written = Client
    BY DEF TypeOK
  <1>1. CASE (\E w \in Widths : Resize(c, w)) \/ GetSize(c) \/ WinchHeader(c) \/ WinchPayload(c)
    BY <1>a, <1>1 DEF Same, Resize, GetSize, WinchHeader, WinchPayload, WinchStep, Put, readerVars
  <1>2. CASE \/ WinchSent(c) \/ ReadKeys(c) \/ KeysHeader(c) \/ KeysPayload(c)
             \/ ReadDetachKey(c) \/ Close(c)
    BY <1>a, <1>2 DEF Same, WinchSent, ReadKeys, KeysHeader, KeysPayload, ReadDetachKey, Close,
       WinchStep, StdinStep, Put, readerVars
  <1>3. CASE ReaderNext(c)
    BY <1>a, <1>3 DEF Same, ReaderNext, ReadHeader, ReadKeysPayload, ReadWinchPayload, ReadEOF,
       WriteKeys, SetDummySize, SetRealSize, Setsize, ReaderStep, clientVars
  <1> QED
    BY <1>1, <1>2, <1>3 DEF ClientNext

ClientTypes ==
    /\ width \in [Client -> Widths] /\ resizes \in 0 .. MaxResizes
    /\ caught \in [Client -> BOOLEAN] /\ pending \in [Client -> BOOLEAN]
    /\ wpc \in [Client -> {"start", "header", "payload", "sent", "wait", "ended"}]
    /\ wval \in [Client -> 0 .. Modulus - 1]
    /\ spc \in [Client -> {"idle", "read", "header", "payload", "detached", "ended"}]
    /\ typed \in [Client -> 0 .. MaxKeys]

ReaderTypes ==
    /\ rpc \in [Client -> {"header", "data", "winch", "write", "dummy", "real",
                           "detached", "done", "lost"}]
    /\ rval \in [Client -> 0 .. Modulus - 1]
    /\ written \in [Client -> 0 .. MaxKeys]
    /\ ptyWidth \in 0 .. Modulus - 1
    /\ lastSet \in {"none"} \cup Client
    /\ redrawn \in [Client -> BOOLEAN]

WireTypes ==
    /\ wire \in [Client -> Seq(Units)]
    /\ open \in [Client -> BOOLEAN]
    /\ early \in BOOLEAN /\ mixed \subseteq Client

(* The types in three parts.                                               *)
LEMMA TypeParts ==
    /\ TypeOK <=> ClientTypes /\ ReaderTypes /\ WireTypes
    /\ TypeOK' <=> ClientTypes' /\ ReaderTypes' /\ WireTypes'
  BY DEF TypeOK, ClientTypes, ReaderTypes, WireTypes

(* What keeps its value keeps its type.                                    *)
LEMMA SameTypes ==
    /\ ClientTypes /\ UNCHANGED clientVars => ClientTypes'
    /\ ReaderTypes /\ UNCHANGED readerVars => ReaderTypes'
  BY DEF ClientTypes, ReaderTypes, clientVars, readerVars

(* No more keys are read than sent, nor sent than typed.                   *)
LEMMA Counts ==
    ASSUME TypeOK, KeysInv, NEW c \in Client
    PROVE  /\ written[c] \in Nat /\ typed[c] \in Nat /\ Got(c) \in Nat /\ Sent(c) \in Nat
           /\ written[c] <= Got(c) /\ Got(c) <= Sent(c) /\ Sent(c) <= typed[c]
  <1>1. written[c] \in Nat /\ typed[c] \in Nat
    BY ClientAssumption DEF TypeOK
  <1>2. Got(c) \in Nat /\ Sent(c) \in Int /\ written[c] <= Got(c) /\ Sent(c) <= typed[c]
    BY <1>1 DEF Got, Sent
  <1>3. Got(c) <= Sent(c)
    BY DEF KeysInv, KeysOf, Numbered
  <1> QED
    BY <1>1, <1>2, <1>3

(* Every step keeps the types.                                             *)
LEMMA NextTyped ==
    ASSUME TypeOK, KeysInv, NEW c \in Client, ClientNext(c) \/ ReaderNext(c)
    PROVE  TypeOK'
  <1> SUFFICES ClientTypes' /\ ReaderTypes' /\ WireTypes'
    BY TypeParts
  <1>a. ClientTypes /\ ReaderTypes /\ WireTypes
    BY TypeParts
  <1>b. MaxKeys \in Nat /\ MaxResizes \in Nat /\ Modulus \in Nat /\ Widths \subseteq 0 .. Modulus - 1
    BY ClientAssumption
  <1>c. /\ Header("data") \in Units /\ Header("winch") \in Units /\ Header("detach") \in Units
        /\ \A v \in 0 .. MaxKeys : Payload("data", v) \in Units
        /\ \A v \in 0 .. Modulus - 1 : Payload("winch", v) \in Units
    BY DEF Units, Header, Payload
  <1>d. wire[c] \in Seq(Units) /\ wire \in [Client -> Seq(Units)]
    BY DEF TypeOK
  <1>1. CASE (\E w \in Widths : Resize(c, w)) \/ GetSize(c)
    <2>1. ClientTypes'
      <3>1. ASSUME NEW w \in Widths, Resize(c, w)
            PROVE  ClientTypes'
        BY <1>a, <1>b, <3>1 DEF ClientTypes, Resize
      <3>2. ASSUME GetSize(c)
            PROVE  ClientTypes'
        <4>1. width[c] \in 0 .. Modulus - 1
          BY <1>a, <1>b DEF ClientTypes
        <4> QED
          BY <1>a, <3>2, <4>1 DEF ClientTypes, GetSize, WinchStep
      <3> QED
        BY <1>1, <3>1, <3>2
    <2>2. WireTypes' /\ UNCHANGED readerVars
      BY <1>a, <1>1 DEF WireTypes, Resize, GetSize, history
    <2> QED
      BY <1>a, <2>1, <2>2, SameTypes
  <1>2. CASE \/ WinchHeader(c) \/ KeysHeader(c) \/ ReadDetachKey(c)
             \/ WinchPayload(c) \/ KeysPayload(c)
    <2>1. ClientTypes'
      BY <1>a, <1>2 DEF ClientTypes, WinchHeader, KeysHeader, ReadDetachKey, WinchPayload,
         KeysPayload, WinchStep, StdinStep
    <2>2. \E u \in Units : Put(c, u)
      BY <1>2, <1>a, <1>c DEF ClientTypes, WinchHeader, KeysHeader, ReadDetachKey, WinchPayload,
         KeysPayload
    <2>3. wire' \in [Client -> Seq(Units)]
      BY <1>d, <2>2, AppendUnits DEF Put
    <2>4. mixed' \subseteq Client /\ UNCHANGED <<open, early, readerVars>>
      BY <1>a, <1>2 DEF WireTypes, WinchHeader, KeysHeader, ReadDetachKey, WinchPayload,
         KeysPayload, Begins, history
    <2> QED
      BY <1>a, <2>1, <2>3, <2>4, SameTypes DEF WireTypes
  <1>3. CASE WinchSent(c) \/ ReadKeys(c) \/ Close(c)
    <2>1. ClientTypes'
      <3>1. ASSUME ReadKeys(c) PROVE typed[c] + 1 \in 0 .. MaxKeys
        BY <1>a, <1>b, <3>1 DEF ClientTypes, ReadKeys
      <3> QED
        BY <1>a, <1>3, <3>1 DEF ClientTypes, WinchSent, ReadKeys, Close, WinchStep, StdinStep
    <2>2. WireTypes' /\ UNCHANGED readerVars
      BY <1>a, <1>3 DEF WireTypes, WinchSent, ReadKeys, Close, history
    <2> QED
      BY <1>a, <2>1, <2>2, SameTypes
  <1>4. CASE ReadHeader(c) \/ ReadKeysPayload(c) \/ ReadWinchPayload(c)
    <2>1. /\ wire[c] # <<>> /\ wire' = [wire EXCEPT ![c] = Tail(@)]
          /\ UNCHANGED <<clientVars, open, history, written, ptyWidth, lastSet>>
      BY <1>4 DEF ReadHeader, ReadKeysPayload, ReadWinchPayload
    <2>2. WireTypes'
      BY <1>a, <1>d, <2>1, TailUnits DEF WireTypes, history
    <2>3. Head(wire[c]) \in Units
      BY <1>d, <2>1, TailUnits
    <2>4. \E to \in {"data", "winch", "detached", "lost", "header", "write", "dummy"} :
              rpc' = [rpc EXCEPT ![c] = to]
      <3>1. CASE ReadHeader(c)
        <4>1. Head(wire[c]).unit = "header" =>
                  Expect(Head(wire[c]).typ) \in {"data", "winch", "detached"}
          BY <2>3, UnitValues DEF Expect
        <4> QED
          BY <3>1, <4>1 DEF ReadHeader, ReaderStep
      <3>2. CASE ReadKeysPayload(c) \/ ReadWinchPayload(c)
        BY <3>2 DEF ReadKeysPayload, ReadWinchPayload, ReaderStep
      <3> QED
        BY <1>4, <3>1, <3>2
    <2>5. rval' \in [Client -> 0 .. Modulus - 1] /\ redrawn' \in [Client -> BOOLEAN]
      BY <1>4, <1>a, <2>3, UnitValues DEF ReaderTypes, ReadHeader, ReadKeysPayload,
         ReadWinchPayload, IsWinch
    <2>6. ReaderTypes'
      BY <1>a, <2>1, <2>4, <2>5 DEF ReaderTypes
    <2> QED
      BY <1>a, <2>1, <2>2, <2>6, SameTypes
  <1>5. CASE ReadEOF(c)
    <2>1. WireTypes' /\ ReaderTypes' /\ UNCHANGED clientVars
      BY <1>a, <1>5 DEF WireTypes, ReaderTypes, ReadEOF, ReaderStep, history
    <2> QED
      BY <1>a, <2>1, SameTypes
  <1>6. CASE WriteKeys(c)
    <2>1. Got(c) = written[c] + 1 /\ typed[c] \in 0 .. MaxKeys
      BY <1>a, <1>6 DEF ClientTypes, Got, WriteKeys, ReaderStep
    <2>2. written[c] + 1 \in 0 .. MaxKeys
      BY <1>b, <2>1, Counts
    <2>3. WireTypes' /\ ReaderTypes' /\ UNCHANGED clientVars
      BY <1>a, <1>6, <2>2 DEF WireTypes, ReaderTypes, WriteKeys, ReaderStep, history
    <2> QED
      BY <1>a, <2>3, SameTypes
  <1>7. CASE SetDummySize(c) \/ SetRealSize(c)
    <2>1. rval[c] \in 0 .. Modulus - 1 /\ (rval[c] + 1) % Modulus \in 0 .. Modulus - 1
      BY <1>a, DummyWidth DEF ReaderTypes
    <2>2. redrawn' \in [Client -> BOOLEAN] /\ ptyWidth' \in 0 .. Modulus - 1
      BY <1>a, <1>7, <2>1 DEF ReaderTypes, SetDummySize, SetRealSize, Setsize
    <2>3. WireTypes' /\ ReaderTypes' /\ UNCHANGED clientVars
      BY <1>a, <1>7, <2>2 DEF WireTypes, ReaderTypes, SetDummySize, SetRealSize, ReaderStep,
         history
    <2> QED
      BY <1>a, <2>3, SameTypes
  <1> QED
    BY <1>1, <1>2, <1>3, <1>4, <1>5, <1>6, <1>7 DEF ClientNext, ReaderNext

-------------------------------------------------------------------------------
(* Keys.                                                                   *)

(* What the keys of d depend on.                                           *)
LEMMA KeysSame ==
    ASSUME NEW d \in Client, KeysOf(d), wire'[d] = wire[d], typed'[d] = typed[d],
           spc'[d] = spc[d], rpc'[d] = rpc[d], written'[d] = written[d]
    PROVE  KeysOf(d)'
  BY DEF KeysOf, Numbered, Complete, HasDetach, DetachIsLast, Got, Sent, Stopped

(* The keys of c, when c writes a unit or not.                             *)
LEMMA WriteKeysOf ==
    ASSUME TypeOK, KeysInv, NEW c \in Client, ClientNext(c)
    PROVE  KeysOf(c)'
  <1>a. /\ Numbered(wire[c], Got(c), Sent(c)) /\ DetachIsLast(wire[c])
        /\ HasDetach(wire[c]) \/ rpc[c] = "detached" => spc[c] \in {"detached", "ended"}
        /\ ~Stopped(c) /\ (spc[c] # "ended" \/ HasDetach(wire[c])) =>
              Complete(wire[c], Got(c), Sent(c))
        /\ rpc[c] = "detached" => written[c] = typed[c]
    BY DEF KeysInv, KeysOf
  <1>b. /\ written[c] \in Nat /\ typed[c] \in Nat /\ Got(c) \in Nat /\ Sent(c) \in Nat
        /\ Got(c) <= Sent(c)
    BY Counts
  <1>c. /\ wire[c] \in Seq(Units) /\ wire \in [Client -> Seq(Units)]
        /\ spc \in [Client -> {"idle", "read", "header", "payload", "detached", "ended"}]
        /\ typed \in [Client -> 0 .. MaxKeys]
    BY DEF TypeOK
  <1>d. UNCHANGED <<rpc, written>> /\ Got(c)' = Got(c)
    BY DEF ClientNext, Resize, GetSize, WinchHeader, WinchPayload, WinchSent, ReadKeys, KeysHeader,
       KeysPayload, ReadDetachKey, Close, readerVars, Got
  <1>1. CASE UNCHANGED <<wire, spc, typed>>
    BY <1>1, <1>d, KeysSame DEF KeysInv
  <1>2. CASE WinchHeader(c) \/ WinchPayload(c)
    <2>1. PICK u \in Units : wire'[c] = Append(wire[c], u) /\ ~IsData(u) /\ ~IsDetach(u)
      <3>1. Header("winch") \in Units /\ Payload("winch", wval[c]) \in Units
        BY DEF TypeOK, Units, Header, Payload
      <3>2. /\ ~IsData(Header("winch")) /\ ~IsDetach(Header("winch"))
            /\ ~IsData(Payload("winch", wval[c])) /\ ~IsDetach(Payload("winch", wval[c]))
        BY DEF IsData, IsDetach, IsPayload, Header, Payload
      <3> QED
        BY <1>2, <1>c, <3>1, <3>2 DEF WinchHeader, WinchPayload, Put
    <2>2. UNCHANGED <<spc, typed>> /\ Sent(c)' = Sent(c)
      BY <1>2 DEF WinchHeader, WinchPayload, Sent
    <2> QED
      BY <1>a, <1>b, <1>c, <1>d, <2>1, <2>2, AppendNumbered, AppendDetach DEF KeysOf, Stopped
  <1>3. CASE WinchSent(c)
    <2>1. UNCHANGED <<wire, typed>> /\ spc'[c] \in {spc[c], "read"} /\ Sent(c)' = Sent(c)
          /\ (spc'[c] = "read" => spc[c] \in {"idle", "read"})
      BY <1>3, <1>c DEF WinchSent, Sent
    <2> QED
      BY <1>a, <1>d, <2>1 DEF KeysOf, Stopped
  <1>4. CASE ReadKeys(c)
    <2>1. UNCHANGED wire /\ spc[c] = "read" /\ spc'[c] = "header" /\ typed'[c] = typed[c] + 1
      BY <1>4, <1>c DEF ReadKeys, StdinStep
    <2>2. Sent(c)' = Sent(c)
      BY <1>b, <2>1 DEF Sent
    <2> QED
      BY <1>a, <1>d, <2>1, <2>2 DEF KeysOf, Stopped
  <1>5. CASE KeysHeader(c)
    <2>1. /\ wire'[c] = Append(wire[c], Header("data")) /\ UNCHANGED typed
          /\ spc[c] = "header" /\ spc'[c] = "payload"
      BY <1>5, <1>c DEF KeysHeader, StdinStep, Put
    <2>2. Header("data") \in Units /\ ~IsData(Header("data")) /\ ~IsDetach(Header("data"))
      BY DEF Units, IsData, IsDetach, IsPayload, Header
    <2>3. Sent(c)' = Sent(c)
      BY <2>1 DEF Sent
    <2> QED
      BY <1>a, <1>b, <1>c, <1>d, <2>1, <2>2, <2>3, AppendNumbered, AppendDetach DEF KeysOf, Stopped
  <1>6. CASE KeysPayload(c)
    <2> DEFINE u == Payload("data", typed[c])
    <2>1. /\ wire'[c] = Append(wire[c], u) /\ UNCHANGED typed
          /\ spc[c] = "payload" /\ spc'[c] = "read"
      BY <1>6, <1>c DEF KeysPayload, StdinStep, Put
    <2>2. u \in Units /\ IsData(u) /\ u.val = typed[c] /\ ~IsDetach(u)
      BY DEF TypeOK, Units, IsData, IsDetach, IsPayload, Header, Payload
    <2>3. Sent(c)' = Sent(c) + 1 /\ Sent(c) + 1 = typed[c]
      BY <1>b, <2>1 DEF Sent
    <2> HIDE DEF u
    <2> QED
      BY <1>a, <1>b, <1>c, <1>d, <2>1, <2>2, <2>3, AppendNumbered, AppendDetach DEF KeysOf, Stopped
  <1>7. CASE ReadDetachKey(c)
    <2>1. /\ wire'[c] = Append(wire[c], Header("detach")) /\ UNCHANGED typed
          /\ spc[c] = "read" /\ spc'[c] = "detached"
      BY <1>7, <1>c DEF ReadDetachKey, StdinStep, Put
    <2>2. Header("detach") \in Units /\ ~IsData(Header("detach"))
      BY DEF Units, IsData, IsPayload, Header
    <2>3. Sent(c)' = Sent(c)
      BY <2>1 DEF Sent
    <2> QED
      BY <1>a, <1>b, <1>c, <1>d, <2>1, <2>2, <2>3, AppendNumbered, AppendDetach DEF KeysOf, Stopped
  <1>8. CASE Close(c)
    <2>1. UNCHANGED <<wire, typed>> /\ spc'[c] = "ended"
      BY <1>8, <1>c DEF Close
    <2>2. Sent(c) <= Sent(c)' /\ Sent(c)' \in Nat /\ (HasDetach(wire[c]) => Sent(c)' = Sent(c))
      BY <1>a, <1>b, <2>1 DEF Sent
    <2>3. Numbered(wire[c], Got(c), Sent(c)')
      BY <1>a, <1>b, <2>2 DEF Numbered
    <2> QED
      BY <1>a, <1>d, <2>1, <2>2, <2>3 DEF KeysOf, Stopped
  <1> QED
    BY <1>1, <1>2, <1>3, <1>4, <1>5, <1>6, <1>7, <1>8 DEF ClientNext, Resize, GetSize

(* The keys of c, when the daemon reads a unit or acts on a frame.         *)
LEMMA ReadKeysOf ==
    ASSUME TypeOK, KeysInv, NEW c \in Client, ReaderNext(c)
    PROVE  KeysOf(c)'
  <1>a. /\ Numbered(wire[c], Got(c), Sent(c)) /\ DetachIsLast(wire[c])
        /\ HasDetach(wire[c]) \/ rpc[c] = "detached" => spc[c] \in {"detached", "ended"}
        /\ ~Stopped(c) /\ (spc[c] # "ended" \/ HasDetach(wire[c])) =>
              Complete(wire[c], Got(c), Sent(c))
        /\ rpc[c] = "detached" => written[c] = typed[c]
    BY DEF KeysInv, KeysOf
  <1>b. /\ written[c] \in Nat /\ typed[c] \in Nat /\ Got(c) \in Nat /\ Sent(c) \in Nat
        /\ Got(c) <= Sent(c)
    BY Counts
  <1>c. /\ wire[c] \in Seq(Units) /\ DOMAIN wire = Client /\ DOMAIN rpc = Client
        /\ DOMAIN written = Client
    BY DEF TypeOK
  <1>d. UNCHANGED <<spc, typed>> /\ Sent(c)' = Sent(c)
    BY DEF ReaderNext, ReadHeader, ReadKeysPayload, ReadWinchPayload, ReadEOF, WriteKeys,
       SetDummySize, SetRealSize, clientVars, Sent
  <1>1. CASE ReadHeader(c)
    <2>1. /\ wire[c] # <<>> /\ wire'[c] = Tail(wire[c]) /\ rpc[c] = "header" /\ UNCHANGED written
          /\ rpc'[c] = IF Head(wire[c]).unit = "header"
                       THEN Expect(Head(wire[c]).typ) ELSE "lost"
      BY <1>1, <1>c DEF ReadHeader, ReaderStep
    <2>2. Head(wire[c]) \in Units
      BY <1>c, <2>1, TailUnits
    <2>3. rpc'[c] \in {"data", "winch", "detached", "lost"} /\ Got(c)' = Got(c)
      BY <2>1, <2>2, UnitValues DEF Expect, Got
    <2>4. /\ Numbered(wire'[c], Got(c), Sent(c)) /\ DetachIsLast(wire'[c])
          /\ HasDetach(wire'[c]) => HasDetach(wire[c])
      BY <1>a, <1>b, <1>c, <2>1, TailNumbered, TailDetach
    <2>5. CASE rpc'[c] \in {"data", "winch"}
      <3>1. ~IsData(Head(wire[c]))
        BY <2>1, <2>5 DEF IsData, IsPayload
      <3>2. ~Stopped(c) /\ (spc[c] # "ended" \/ HasDetach(wire'[c])) =>
                Complete(wire'[c], Got(c), Sent(c))
        BY <1>a, <1>b, <1>c, <2>1, <2>4, <3>1, TailNumbered
      <3> QED
        BY <1>a, <1>d, <2>1, <2>3, <2>4, <2>5, <3>2 DEF KeysOf, Stopped
    <2>6. CASE rpc'[c] = "detached"
      <3>1. Head(wire[c]) = Header("detach")
        BY <2>1, <2>2, <2>6 DEF Expect, Units, Header
      <3>2. HasDetach(wire[c]) /\ \A i \in 1 .. Len(wire[c]) : ~IsData(wire[c][i])
        <4>1. 1 \in 1 .. Len(wire[c]) /\ Head(wire[c]) = wire[c][1]
          BY <1>c, <2>1, TailUnits
        <4> QED
          BY <1>a, <1>c, <2>1, <3>1, <4>1, TailDetach DEF HasDetach, IsDetach
      <3>3. Complete(wire[c], Got(c), Sent(c)) /\ spc[c] \in {"detached", "ended"}
        BY <1>a, <2>1, <3>2 DEF Stopped
      <3>4. Got(c) = Sent(c)
        <4>1. ASSUME Got(c) < Sent(c) PROVE FALSE
          <5>1. Got(c) + 1 \in Got(c) + 1 .. Sent(c)
            BY <1>b, <4>1
          <5> QED
            BY <3>2, <3>3, <5>1 DEF Complete
        <4> QED
          BY <1>b, <4>1
      <3>5. written'[c] = typed'[c]
        BY <1>b, <1>d, <2>1, <3>3, <3>4 DEF Got, Sent
      <3> QED
        BY <1>a, <1>d, <2>3, <2>4, <2>6, <3>3, <3>5 DEF KeysOf, Stopped
    <2>7. CASE rpc'[c] = "lost"
      BY <1>a, <1>d, <2>3, <2>4, <2>7 DEF KeysOf, Stopped
    <2> QED
      BY <2>3, <2>5, <2>6, <2>7
  <1>2. CASE ReadKeysPayload(c)
    <2>1. /\ wire[c] # <<>> /\ wire'[c] = Tail(wire[c]) /\ rpc[c] = "data" /\ UNCHANGED written
          /\ rpc'[c] = IF IsData(Head(wire[c])) THEN "write" ELSE "lost"
      BY <1>2, <1>c DEF ReadKeysPayload, ReaderStep, IsData
    <2>2. DetachIsLast(wire'[c]) /\ (HasDetach(wire'[c]) => HasDetach(wire[c]))
      BY <1>a, <1>c, <2>1, TailDetach
    <2>3. CASE IsData(Head(wire[c]))
      <3>1. Got(c)' = Got(c) + 1
        BY <1>b, <2>1, <2>3 DEF Got
      <3> QED
        BY <1>a, <1>b, <1>c, <1>d, <2>1, <2>2, <2>3, <3>1, TailNumbered DEF KeysOf, Stopped
    <2>4. CASE ~IsData(Head(wire[c]))
      <3>1. Got(c)' = Got(c)
        BY <1>b, <2>1, <2>4 DEF Got
      <3> QED
        BY <1>a, <1>b, <1>c, <1>d, <2>1, <2>2, <2>4, <3>1, TailNumbered DEF KeysOf, Stopped
    <2> QED
      BY <2>3, <2>4
  <1>3. CASE ReadWinchPayload(c)
    <2>1. /\ wire[c] # <<>> /\ wire'[c] = Tail(wire[c]) /\ rpc[c] = "winch" /\ UNCHANGED written
          /\ rpc'[c] \in {"dummy", "lost"}
          /\ rpc'[c] = "dummy" => ~IsData(Head(wire[c]))
      BY <1>3, <1>c DEF ReadWinchPayload, ReaderStep, IsPayload, IsData
    <2>2. DetachIsLast(wire'[c]) /\ (HasDetach(wire'[c]) => HasDetach(wire[c]))
      BY <1>a, <1>c, <2>1, TailDetach
    <2>3. Got(c)' = Got(c)
      BY <2>1 DEF Got
    <2> QED
      BY <1>a, <1>b, <1>c, <1>d, <2>1, <2>2, <2>3, TailNumbered DEF KeysOf, Stopped
  <1>4. CASE ReadEOF(c)
    <2>1. wire'[c] = wire[c] /\ rpc'[c] = "done" /\ rpc[c] # "write" /\ UNCHANGED written
      BY <1>4, <1>c DEF ReadEOF, ReaderStep
    <2>2. Got(c)' = Got(c)
      BY <2>1 DEF Got
    <2> QED
      BY <1>a, <1>d, <2>1, <2>2 DEF KeysOf, Stopped
  <1>5. CASE WriteKeys(c)
    <2>1. /\ wire'[c] = wire[c] /\ rpc[c] = "write" /\ rpc'[c] = "header"
          /\ written'[c] = written[c] + 1
      BY <1>5, <1>c DEF WriteKeys, ReaderStep
    <2>2. Got(c)' = Got(c)
      BY <1>b, <2>1 DEF Got
    <2> QED
      BY <1>a, <1>d, <2>1, <2>2 DEF KeysOf, Stopped
  <1>6. CASE SetDummySize(c) \/ SetRealSize(c)
    <2>1. /\ wire'[c] = wire[c] /\ rpc[c] \in {"dummy", "real"} /\ rpc'[c] \in {"real", "header"}
          /\ UNCHANGED written
      BY <1>6, <1>c DEF SetDummySize, SetRealSize, ReaderStep
    <2>2. Got(c)' = Got(c)
      BY <2>1 DEF Got
    <2> QED
      BY <1>a, <1>d, <2>1, <2>2 DEF KeysOf, Stopped
  <1> QED
    BY <1>1, <1>2, <1>3, <1>4, <1>5, <1>6 DEF ReaderNext

(* The keys of every terminal.                                             *)
LEMMA NextKeys ==
    ASSUME TypeOK, KeysInv, NEW c \in Client, ClientNext(c) \/ ReaderNext(c)
    PROVE  KeysInv'
  <1>1. KeysOf(c)'
    BY WriteKeysOf, ReadKeysOf
  <1>2. ASSUME NEW d \in Client \ {c}
        PROVE  KeysOf(d)'
    BY <1>2, OthersSame, KeysSame DEF KeysInv, Same
  <1> QED
    BY <1>1, <1>2 DEF KeysInv

-------------------------------------------------------------------------------
(* Widths.                                                                 *)

(* Every resize makes the shell redraw: the dummy width differs from the   *)
(* real one, so the width changes with one of the two.                     *)
LEMMA NextRedraw ==
    ASSUME TypeOK, RedrawInv, NEW c \in Client, ClientNext(c) \/ ReaderNext(c)
    PROVE  RedrawInv'
  <1>a. /\ DOMAIN rpc = Client /\ DOMAIN rval = Client /\ redrawn \in [Client -> BOOLEAN]
        /\ rval[c] \in 0 .. Modulus - 1
    BY DEF TypeOK
  <1>1. CASE UNCHANGED <<rpc, rval, ptyWidth, redrawn>>
    BY <1>1 DEF RedrawInv
  <1>2. CASE ReadHeader(c) \/ ReadKeysPayload(c) \/ ReadEOF(c) \/ WriteKeys(c)
    <2>1. /\ UNCHANGED <<rval, ptyWidth, redrawn>>
          /\ rpc[c] \notin {"dummy", "real"} /\ rpc'[c] # "real"
          /\ \A d \in Client \ {c} : rpc'[d] = rpc[d]
      <3>1. \A typ : Expect(typ) = "real" => typ = "real"
        BY DEF Expect
      <3>2. ReadHeader(c) => wire[c] # <<>> /\ Head(wire[c]) \in Units
        BY TailUnits DEF ReadHeader, TypeOK
      <3>3. ReadHeader(c) => rpc'[c] # "real"
        BY <1>a, <3>1, <3>2, UnitValues DEF ReadHeader, ReaderStep
      <3> QED
        BY <1>2, <1>a, <3>3 DEF ReadHeader, ReadKeysPayload, ReadEOF, WriteKeys, ReaderStep
    <2> QED
      BY <2>1 DEF RedrawInv
  <1>3. CASE ReadWinchPayload(c)
    <2>1. /\ rpc'[c] = "dummy" \/ (rpc'[c] = "lost" /\ redrawn'[c] = redrawn[c])
          /\ rpc[c] = "winch" /\ UNCHANGED ptyWidth
          /\ \A d \in Client \ {c} :
                rpc'[d] = rpc[d] /\ rval'[d] = rval[d] /\ redrawn'[d] = redrawn[d]
      BY <1>3, <1>a DEF ReadWinchPayload, ReaderStep
    <2> QED
      BY <2>1 DEF RedrawInv
  <1>4. CASE SetDummySize(c)
    <2>1. /\ UNCHANGED rval /\ rpc'[c] = "real" /\ ptyWidth' = (rval[c] + 1) % Modulus
          /\ \A d \in Client : redrawn'[d] = (redrawn[d] \/ ptyWidth' # ptyWidth)
          /\ \A d \in Client \ {c} : rpc'[d] = rpc[d]
      BY <1>4, <1>a DEF SetDummySize, Setsize, ReaderStep
    <2>2. ptyWidth' # rval[c]
      BY <1>a, <2>1, DummyWidth
    <2> QED
      BY <2>1, <2>2 DEF RedrawInv
  <1>5. CASE SetRealSize(c)
    <2>1. /\ UNCHANGED rval /\ rpc[c] = "real" /\ rpc'[c] = "header" /\ ptyWidth' = rval[c]
          /\ \A d \in Client : redrawn'[d] = (redrawn[d] \/ ptyWidth' # ptyWidth)
          /\ \A d \in Client \ {c} : rpc'[d] = rpc[d]
      BY <1>5, <1>a DEF SetRealSize, Setsize, ReaderStep
    <2> QED
      BY <2>1 DEF RedrawInv
  <1> QED
    BY <1>1, <1>2, <1>3, <1>4, <1>5 DEF ClientNext, ReaderNext, Resize, GetSize, WinchHeader,
       WinchPayload, WinchSent, ReadKeys, KeysHeader, KeysPayload, ReadDetachKey, Close, readerVars

(* A width that changes leaves a signal, except before SIGWINCH is caught. *)
LEMMA NextSignal ==
    ASSUME TypeOK, SignalInv, NEW c \in Client, ClientNext(c) \/ ReaderNext(c)
    PROVE  SignalInv'
  <1>a. /\ pending \in [Client -> BOOLEAN] /\ caught \in [Client -> BOOLEAN] /\ early \in BOOLEAN
        /\ DOMAIN width = Client /\ DOMAIN wpc = Client /\ DOMAIN wval = Client
    BY DEF TypeOK
  <1>1. CASE UNCHANGED <<width, pending, wpc, wval, early>>
    BY <1>1 DEF SignalInv
  <1>2. ASSUME NEW w \in Widths, Resize(c, w)
        PROVE  SignalInv'
    <2>1. /\ early' = (early \/ ~caught[c]) /\ pending'[c] = (pending[c] \/ caught[c])
          /\ UNCHANGED <<wpc, wval>>
          /\ \A d \in Client \ {c} : width'[d] = width[d] /\ pending'[d] = pending[d]
      BY <1>2, <1>a DEF Resize
    <2> QED
      BY <1>a, <2>1 DEF SignalInv
  <1>3. CASE GetSize(c)
    <2>1. /\ wval'[c] = width[c] /\ UNCHANGED <<width, early>>
          /\ \A d \in Client \ {c} :
                wpc'[d] = wpc[d] /\ wval'[d] = wval[d] /\ pending'[d] = pending[d]
      BY <1>3, <1>a DEF GetSize, WinchStep, history
    <2> QED
      BY <2>1 DEF SignalInv
  <1>4. CASE WinchHeader(c) \/ WinchPayload(c) \/ WinchSent(c)
    <2>1. /\ wpc[c] \in {"header", "payload", "sent"} /\ UNCHANGED <<width, pending, wval, early>>
          /\ \A d \in Client \ {c} : wpc'[d] = wpc[d]
      BY <1>4, <1>a DEF WinchHeader, WinchPayload, WinchSent, WinchStep, history
    <2> QED
      BY <2>1 DEF SignalInv
  <1>5. CASE Close(c)
    <2>1. /\ wpc'[c] = "ended" /\ UNCHANGED <<width, wval, early>>
          /\ \A d \in Client \ {c} : wpc'[d] = wpc[d] /\ pending'[d] = pending[d]
      BY <1>5, <1>a DEF Close, history
    <2> QED
      BY <2>1 DEF SignalInv
  <1> QED
    BY <1>1, <1>2, <1>3, <1>4, <1>5 DEF ClientNext, ReaderNext, ReadKeys, KeysHeader, KeysPayload,
       ReadDetachKey, ReadHeader, ReadKeysPayload, ReadWinchPayload, ReadEOF, WriteKeys,
       SetDummySize, SetRealSize, clientVars, history

(* What was sent last stays last, until it has been read; once it is the   *)
(* shell's, some client has set the width.                                 *)
LEMMA NextWinch ==
    ASSUME TypeOK, WinchInv, NEW c \in Client, ClientNext(c) \/ ReaderNext(c)
    PROVE  WinchInv'
  <1>a. /\ wire \in [Client -> Seq(Units)] /\ wire[c] \in Seq(Units)
        /\ DOMAIN rpc = Client /\ DOMAIN wpc = Client /\ DOMAIN rval = Client
    BY DEF TypeOK
  <1>b. lastSet # "none" => lastSet' # "none"
    BY ClientAssumption DEF ClientNext, Resize, GetSize, WinchHeader, WinchPayload, WinchSent,
       ReadKeys, KeysHeader, KeysPayload, ReadDetachKey, Close, readerVars, ReaderNext, ReadHeader,
       ReadKeysPayload, ReadWinchPayload, ReadEOF, WriteKeys, SetDummySize, SetRealSize
  <1>c. wpc[c] \in {"sent", "wait"} /\ ~Stopped(c) =>
            \/ Brings(wire[c], wval[c])
            \/ /\ NoWinch(wire[c]) /\ rval[c] = wval[c]
               /\ rpc[c] \in {"dummy", "real"} \/ lastSet # "none"
    BY DEF WinchInv, WinchOf
  <1>1. ASSUME NEW d \in Client, Same(d)
        PROVE  WinchOf(d)'
    BY <1>1, <1>b DEF WinchInv, WinchOf, Same, Stopped, Brings, NoWinch
  <1> SUFFICES WinchOf(c)'
    BY <1>1, OthersSame DEF WinchInv
  <1>2. CASE \/ \E w \in Widths : Resize(c, w)
             \/ ReadKeys(c) \/ WinchSent(c)
    <2>1. /\ UNCHANGED <<wire, wval, readerVars>>
          /\ wpc'[c] \in {"sent", "wait"} => wpc[c] \in {"sent", "wait"}
      BY <1>2, <1>a DEF Resize, ReadKeys, WinchSent, WinchStep
    <2> QED
      BY <1>c, <2>1 DEF WinchOf, Stopped, Brings, NoWinch, readerVars
  <1>3. CASE GetSize(c) \/ WinchHeader(c) \/ Close(c)
    <2>1. wpc'[c] \notin {"sent", "wait"}
      BY <1>3, <1>a DEF GetSize, WinchHeader, Close, WinchStep
    <2> QED
      BY <2>1 DEF WinchOf
  <1>4. CASE WinchPayload(c)
    <2>1. wire'[c] = Append(wire[c], Payload("winch", wval[c])) /\ UNCHANGED wval
      BY <1>4, <1>a DEF WinchPayload, Put
    <2>2. /\ Payload("winch", wval[c]) \in Units /\ IsWinch(Payload("winch", wval[c]))
          /\ Payload("winch", wval[c]).val = wval[c]
      BY DEF TypeOK, Units, IsWinch, IsPayload, Payload
    <2>3. Brings(wire'[c], wval'[c])
      BY <1>a, <2>1, <2>2, AppendWinch
    <2> QED
      BY <2>3 DEF WinchOf
  <1>5. CASE KeysHeader(c) \/ KeysPayload(c) \/ ReadDetachKey(c)
    <2>1. /\ Header("data") \in Units /\ Header("detach") \in Units
          /\ Payload("data", typed[c]) \in Units
          /\ ~IsWinch(Header("data")) /\ ~IsWinch(Header("detach"))
          /\ ~IsWinch(Payload("data", typed[c]))
      BY DEF TypeOK, Units, IsWinch, IsPayload, Header, Payload
    <2>2. PICK u \in Units : wire'[c] = Append(wire[c], u) /\ ~IsWinch(u)
      BY <1>5, <1>a, <2>1 DEF KeysHeader, KeysPayload, ReadDetachKey, Put
    <2>3. UNCHANGED <<wpc, wval, rpc, rval, lastSet>>
      BY <1>5 DEF KeysHeader, KeysPayload, ReadDetachKey, readerVars
    <2> QED
      BY <1>a, <1>c, <2>2, <2>3, AppendWinch DEF WinchOf, Stopped
  <1>6. CASE ReadHeader(c) \/ ReadKeysPayload(c)
    <2>1. /\ wire[c] # <<>> /\ wire'[c] = Tail(wire[c]) /\ UNCHANGED <<wpc, wval, rval, lastSet>>
          /\ rpc[c] \in {"header", "data"}
          /\ rpc'[c] # "lost" => ~IsWinch(Head(wire[c]))
      BY <1>6, <1>a DEF ReadHeader, ReadKeysPayload, ReaderStep, IsWinch, IsPayload, clientVars
    <2> QED
      BY <1>a, <1>c, <2>1, TailWinch DEF WinchOf, Stopped
  <1>7. CASE ReadWinchPayload(c)
    <2>1. /\ wire[c] # <<>> /\ wire'[c] = Tail(wire[c]) /\ UNCHANGED <<wpc, wval, lastSet>>
          /\ rpc[c] = "winch"
          /\ rpc'[c] # "lost" =>
                IsWinch(Head(wire[c])) /\ rpc'[c] = "dummy" /\ rval'[c] = Head(wire[c]).val
      BY <1>7, <1>a DEF ReadWinchPayload, ReaderStep, IsWinch, clientVars
    <2> QED
      BY <1>a, <1>c, <2>1, TailWinch DEF WinchOf, Stopped
  <1>8. CASE ReadEOF(c)
    <2>1. rpc'[c] = "done"
      BY <1>8, <1>a DEF ReadEOF, ReaderStep
    <2> QED
      BY <2>1 DEF WinchOf, Stopped
  <1>9. CASE WriteKeys(c) \/ SetDummySize(c) \/ SetRealSize(c)
    <2>1. /\ UNCHANGED <<wire, wpc, wval, rval>> /\ rpc[c] \in {"write", "dummy", "real"}
          /\ rpc'[c] = "real" \/ lastSet' # "none" \/ (rpc[c] = "write" /\ UNCHANGED lastSet)
      BY <1>9, <1>a, ClientAssumption DEF WriteKeys, SetDummySize, SetRealSize, ReaderStep,
         clientVars
    <2> QED
      BY <1>c, <2>1 DEF WinchOf, Stopped, Brings, NoWinch
  <1> QED
    BY <1>2, <1>3, <1>4, <1>5, <1>6, <1>7, <1>8, <1>9 DEF ClientNext, ReaderNext

(* The shell has the width of the last client that finished a resize.      *)
LEMMA NextPty ==
    ASSUME TypeOK, PtyInv, NEW c \in Client, ClientNext(c) \/ ReaderNext(c)
    PROVE  PtyInv'
  <1>a. DOMAIN rpc = Client /\ DOMAIN rval = Client /\ lastSet \in {"none"} \cup Client
    BY DEF TypeOK
  <1>1. CASE UNCHANGED readerVars
    BY <1>1 DEF PtyInv, readerVars
  <1>2. CASE ReadHeader(c) \/ ReadKeysPayload(c) \/ ReadEOF(c) \/ WriteKeys(c)
    <2>1. /\ UNCHANGED <<rval, ptyWidth, lastSet>> /\ rpc[c] \notin {"dummy", "real"}
          /\ \A d \in Client \ {c} : rpc'[d] = rpc[d]
      BY <1>2, <1>a DEF ReadHeader, ReadKeysPayload, ReadEOF, WriteKeys, ReaderStep
    <2> QED
      BY <1>a, <2>1 DEF PtyInv
  <1>3. CASE ReadWinchPayload(c)
    <2>1. /\ UNCHANGED <<ptyWidth, lastSet>> /\ rpc[c] = "winch"
          /\ rpc'[c] = "dummy" \/ UNCHANGED rval
          /\ \A d \in Client \ {c} : rpc'[d] = rpc[d] /\ rval'[d] = rval[d]
      BY <1>3, <1>a DEF ReadWinchPayload, ReaderStep
    <2> QED
      BY <1>a, <2>1 DEF PtyInv
  <1>4. CASE SetDummySize(c)
    <2>1. rpc'[c] = "real"
      BY <1>4, <1>a DEF SetDummySize, ReaderStep
    <2> QED
      BY <2>1 DEF PtyInv
  <1>5. CASE SetRealSize(c)
    BY <1>5 DEF PtyInv, SetRealSize, Setsize
  <1> QED
    BY <1>1, <1>2, <1>3, <1>4, <1>5 DEF ClientNext, ReaderNext, Resize, GetSize, WinchHeader,
       WinchPayload, WinchSent, ReadKeys, KeysHeader, KeysPayload, ReadDetachKey, Close

-------------------------------------------------------------------------------
(* The invariant, and what it shows.                                       *)

(* The invariant holds at first.                                           *)
LEMMA InitInv == ASSUME Init PROVE ClientInv
  <1>a. /\ MaxKeys \in Nat /\ MaxResizes \in Nat /\ Modulus \in Nat /\ Modulus > 1
        /\ Widths \subseteq 0 .. Modulus - 1
    BY ClientAssumption
  <1>b. \A c \in Client : wire[c] = <<>> /\ Len(wire[c]) = 0
    BY DEF Init
  <1>1. ClientTypes
    <2>1. 0 \in 0 .. Modulus - 1 /\ 0 \in 0 .. MaxKeys /\ 0 \in 0 .. MaxResizes
      BY <1>a
    <2> QED
      BY <2>1 DEF Init, ClientTypes
  <1>2. ReaderTypes
    <2>1. 0 \in 0 .. Modulus - 1 /\ 0 \in 0 .. MaxKeys
      BY <1>a
    <2> QED
      BY <2>1 DEF Init, ReaderTypes
  <1>3. WireTypes
    <2>1. <<>> \in Seq(Units)
      OBVIOUS
    <2> QED
      BY <2>1 DEF Init, WireTypes
  <1>4. KeysInv
    <2> SUFFICES ASSUME NEW c \in Client
                 PROVE  KeysOf(c)
      BY DEF KeysInv
    <2>1. Got(c) = 0 /\ Sent(c) = 0 /\ spc[c] = "idle" /\ rpc[c] = "header" /\ Len(wire[c]) = 0
      BY <1>b DEF Init, Got, Sent
    <2>2. Numbered(wire[c], 0, 0) /\ Complete(wire[c], 0, 0)
      BY <2>1 DEF Numbered, Complete
    <2>3. DetachIsLast(wire[c]) /\ ~HasDetach(wire[c])
      BY <2>1 DEF DetachIsLast, HasDetach
    <2> QED
      BY <2>1, <2>2, <2>3 DEF KeysOf
  <1>5. RedrawInv /\ SignalInv /\ WinchInv /\ PtyInv
    BY DEF Init, RedrawInv, SignalInv, WinchInv, WinchOf, PtyInv
  <1> QED
    BY <1>1, <1>2, <1>3, <1>4, <1>5, TypeParts DEF ClientInv

(* A stuttering step keeps it.                                             *)
LEMMA StutterInv == ASSUME ClientInv, UNCHANGED vars PROVE ClientInv'
  <1>1. UNCHANGED <<clientVars, wire, open, readerVars, early, mixed>>
    BY DEF vars, history
  <1>2. TypeOK'
    BY <1>1, TypeParts, SameTypes DEF ClientInv, WireTypes
  <1>3. KeysInv'
    BY <1>1, KeysSame DEF ClientInv, KeysInv, clientVars, readerVars
  <1>4. RedrawInv' /\ SignalInv' /\ PtyInv'
    BY <1>1 DEF ClientInv, RedrawInv, SignalInv, PtyInv, clientVars, readerVars
  <1>5. WinchInv'
    BY <1>1 DEF ClientInv, WinchInv, WinchOf, Stopped, Brings, NoWinch, clientVars, readerVars
  <1> QED
    BY <1>2, <1>3, <1>4, <1>5 DEF ClientInv

(* Every step of a terminal, and of the daemon, keeps the invariant.       *)
THEOREM Invariance == Spec => []ClientInv
  <1>1. Init => ClientInv
    BY InitInv
  <1>2. ClientInv /\ [Next]_vars => ClientInv'
    <2>1. ClientInv /\ Next => ClientInv'
      BY NextTyped, NextKeys, NextRedraw, NextSignal, NextWinch, NextPty DEF ClientInv, Next
    <2> QED
      BY <2>1, StutterInv
  <1> QED
    BY <1>1, <1>2, PTL DEF Spec

(* Every variable keeps its type: the daemon never writes more keys than   *)
(* were typed, and a width stays a uint16.                                 *)
THEOREM TypeCorrect == Spec => []TypeOK
  <1>1. ClientInv => TypeOK
    BY DEF ClientInv
  <1> QED
    BY <1>1, Invariance, PTL

(* Every resize frame makes the shell redraw, whatever other clients do    *)
(* between the two calls (daemon.go:208-210).                              *)
THEOREM ResizesRedraw == Spec => []EveryResizeRedraws
  <1>1. ClientInv => EveryResizeRedraws
    BY DEF ClientInv, RedrawInv, EveryResizeRedraws
  <1> QED
    BY <1>1, Invariance, PTL

(* Once no resize is on its way the shell has the width of the terminal    *)
(* that sent the last one (client.go:33).                                  *)
THEOREM WidthsSettle == Spec => []WidthSettles
  <1>1. ASSUME ClientInv, ~early, \A c \in Client : Quiet(c)
        PROVE  \E c \in Client : lastSet = c /\ ptyWidth = width[c]
    <2>1. ASSUME NEW c \in Client
          PROVE  /\ rval[c] = wval[c] /\ wval[c] = width[c] /\ lastSet # "none"
                 /\ rpc[c] \in {"header", "write"}
      <3>1. wpc[c] = "wait" /\ ~pending[c] /\ wire[c] = <<>> /\ rpc[c] \in {"header", "write"}
        BY <1>1 DEF Quiet
      <3>2. ~Brings(wire[c], wval[c])
        BY <3>1 DEF Brings
      <3> QED
        BY <1>1, <3>1, <3>2 DEF ClientInv, SignalInv, WinchInv, WinchOf, Stopped
    <2>2. lastSet \in Client
      BY <1>1, <2>1, ClientAssumption DEF ClientInv, TypeOK
    <2>3. ptyWidth = rval[lastSet]
      BY <1>1, <2>1, <2>2 DEF ClientInv, PtyInv
    <2> QED
      BY <2>1, <2>2, <2>3
  <1>2. ClientInv => WidthSettles
    BY <1>1 DEF WidthSettles
  <1> QED
    BY <1>2, Invariance, PTL

(* The keys typed before a detach are with the shell when the daemon sees  *)
(* the detach.                                                             *)
THEOREM KeysBeforeDetach == Spec => []DetachLosesNoKeys
  <1>1. ClientInv => DetachLosesNoKeys
    BY DEF ClientInv, KeysInv, KeysOf, DetachLosesNoKeys
  <1> QED
    BY <1>1, Invariance, PTL

===============================================================================
