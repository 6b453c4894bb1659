---------------------------- MODULE HostTrustProofs ----------------------------
(***************************************************************************)
(* What HostTrust says of a connection holds for any number of instances,  *)
(* hosts and keys, whatever known_hosts holds at first, and however often  *)
(* connections are asked for and keys change.                              *)
(*                                                                         *)
(* TypeOK and TrustInv are inductive together.  What the file may become   *)
(* comes first, then one lemma for each part of TrustInv.                  *)
(***************************************************************************)
EXTENDS HostTrust, SequenceTheorems, TLAPS

-------------------------------------------------------------------------------
(* Sequences of lines.                                                     *)

(* A line goes to the end, and the others stay where they are.             *)
LEMMA AppendLine ==
    ASSUME NEW f \in Seq(Line), NEW l \in Line
    PROVE  /\ Append(f, l) \in Seq(Line) /\ Len(Append(f, l)) = Len(f) + 1
           /\ \A i \in 1 .. Len(f) : Append(f, l)[i] = f[i]
           /\ Append(f, l)[Len(f) + 1] = l
  OBVIOUS

(* Removing an entry moves up those after it.                              *)
LEMMA RemoveEntry ==
    ASSUME NEW f \in Seq(Line), NEW i \in 1 .. Len(f), NEW g,
           g = SubSeq(f, 1, i - 1) \o SubSeq(f, i + 1, Len(f))
    PROVE  /\ g \in Seq(Line) /\ Len(g) = Len(f) - 1
           /\ \A j \in 1 .. Len(f) - 1 : g[j] = IF j < i THEN f[j] ELSE f[j + 1]
  <1> DEFINE a == SubSeq(f, 1, i - 1)
             b == SubSeq(f, i + 1, Len(f))
  <1>1. i \in Nat /\ Len(f) \in Nat /\ 1 <= i /\ i <= Len(f)
    OBVIOUS
  <1>2. /\ a \in Seq(Line) /\ Len(a) = i - 1
        /\ \A j \in 1 .. i - 1 : a[j] = f[j]
    BY <1>1, SubSeqProperties
  <1>3. /\ b \in Seq(Line) /\ Len(b) = Len(f) - i
        /\ \A j \in 1 .. Len(f) - i : b[j] = f[i + j]
    BY <1>1, SubSeqProperties
  <1> HIDE DEF a, b
  <1>4. /\ a \o b \in Seq(Line) /\ Len(a \o b) = Len(f) - 1
        /\ \A j \in 1 .. Len(f) - 1 : (a \o b)[j] = IF j < i THEN f[j] ELSE f[j + 1]
    <2>1. /\ a \o b \in Seq(Line) /\ Len(a \o b) = Len(a) + Len(b)
          /\ \A j \in 1 .. Len(a) + Len(b) :
                (a \o b)[j] = IF j <= Len(a) THEN a[j] ELSE b[j - Len(a)]
      BY <1>2, <1>3, ConcatProperties, Zenon
    <2>2. /\ Len(a \o b) = Len(f) - 1
          /\ \A j \in 1 .. Len(f) - 1 :
                (a \o b)[j] = IF j <= i - 1 THEN a[j] ELSE b[j - (i - 1)]
      <3>1. Len(a) = i - 1 /\ Len(a) + Len(b) = Len(f) - 1
        BY <1>1, <1>2, <1>3
      <3> QED
        BY <2>1, <3>1
    <2>3. ASSUME NEW j \in 1 .. Len(f) - 1
          PROVE  (a \o b)[j] = IF j < i THEN f[j] ELSE f[j + 1]
      <3>1. CASE j < i
        BY <1>1, <1>2, <2>2, <3>1
      <3>2. CASE ~(j < i)
        <4>1. j - (i - 1) \in 1 .. Len(f) - i /\ i + (j - (i - 1)) = j + 1
          BY <1>1, <3>2
        <4> QED
          BY <1>1, <1>3, <2>2, <3>2, <4>1
      <3> QED
        BY <3>1, <3>2
    <2> QED
      BY <2>1, <2>2, <2>3
  <1> QED
    BY <1>4 DEF a, b

(* A known_hosts that is there is no None; its lines are its elements.     *)
LEMMA Lines ==
    ASSUME NEW f \in Seq(Line)
    PROVE  /\ f # None /\ Len(f) \in Nat
           /\ LinesOf(f) = {f[i] : i \in 1 .. Len(f)}
           /\ LinesOf(f) \subseteq Line
  BY TrustAssumption DEF LinesOf

(* What text after the last line leaves of the lines.                      *)
LEMMA KeptLines ==
    ASSUME TypeOK, NEW f \in Kept
    PROVE  /\ f \in Seq(Line)
           /\ LinesOf(f) \subseteq LinesOf(file)
           /\ tail # "open" => f = IF file = None THEN <<>> ELSE file
  <1>1. CASE file = None
    <2>1. f = <<>> /\ f \in Seq(Line) /\ Len(f) = 0
      BY <1>1 DEF Kept
    <2>2. LinesOf(f) = {}
      <3>1. LinesOf(f) = {f[i] : i \in 1 .. Len(f)}
        BY <2>1, Lines
      <3>2. 1 .. Len(f) = {}
        BY <2>1
      <3> QED
        BY <3>1, <3>2
    <2> QED
      BY <1>1, <2>1, <2>2
  <1>2. CASE file # None /\ tail # "open"
    BY <1>2 DEF Kept, TypeOK
  <1>3. CASE file # None /\ tail = "open"
    <2>1. file \in Seq(Line) /\ Len(file) \in Nat
      BY <1>3 DEF TypeOK
    <2>2. /\ SubSeq(file, 1, Len(file) - 1) \in Seq(Line)
          /\ \A i \in 1 .. Len(SubSeq(file, 1, Len(file) - 1)) :
                i \in 1 .. Len(file) /\ SubSeq(file, 1, Len(file) - 1)[i] = file[i]
      BY <2>1, SubSeqProperties
    <2>3. LinesOf(SubSeq(file, 1, Len(file) - 1)) \subseteq LinesOf(file)
      <3> DEFINE g == SubSeq(file, 1, Len(file) - 1)
      <3>1. /\ LinesOf(g) = {g[i] : i \in 1 .. Len(g)}
            /\ LinesOf(file) = {file[i] : i \in 1 .. Len(file)}
        BY <2>1, <2>2, Lines
      <3> QED
        BY <2>2, <3>1
    <2> QED
      BY <1>3, <2>1, <2>2, <2>3 DEF Kept
  <1> QED
    BY <1>1, <1>2, <1>3

(* What AppendHost and AppendFails do to the file: nothing that was loaded *)
(* is lost, unless the last line lacked its newline.                       *)
LEMMA FileGrows ==
    ASSUME TypeOK, NEW p \in Instance, pc[p] = "append" => <<host[p], captured[p]>> \in Host \X Key,
           AppendHost(p) \/ AppendFails(p)
    PROVE  /\ file' \in {None} \cup Seq(Line)
           /\ file = None \/ tail # "open" =>
                LinesOf(file) \subseteq LinesOf(file')
           /\ \A l \in LinesOf(file') : l \in LinesOf(file)
                \/ l = [host |-> host[p], key |-> captured[p], revoked |-> FALSE]
           /\ file # None => file' # None
           /\ file # None /\ tail # "open" =>
                /\ Len(file) <= Len(file')
                /\ \A i \in 1 .. Len(file) : file'[i] = file[i]
           /\ tail' \in {"newline", "open", "junk"}
           /\ tail # "open" => tail' # "open"
  <1> DEFINE l == [host |-> host[p], key |-> captured[p], revoked |-> FALSE]
  <1>0. pc[p] = "append" /\ l \in Line
    BY DEF AppendHost, AppendFails, Goes, Line
  <1> HIDE DEF l
  <1>1. CASE file' = file
    BY <1>1, Lines DEF TypeOK, AppendHost, AppendFails, kh
  <1>2. CASE file' \in Kept
    <2>1. /\ file' \in Seq(Line) /\ file' # None
          /\ LinesOf(file') \subseteq LinesOf(file)
          /\ tail # "open" => file' = IF file = None THEN <<>> ELSE file
      BY <1>2, KeptLines, Lines
    <2>2. tail' \in {"newline", "open", "junk"} /\ (tail # "open" => tail' # "open")
      BY DEF TypeOK, AppendHost, AppendFails, kh
    <2>3. file # None => file \in Seq(Line) /\ Len(file) \in Nat
      BY DEF TypeOK
    <2>4. file = None => LinesOf(file) = {}
      BY DEF LinesOf
    <2> QED
      BY <2>1, <2>2, <2>3, <2>4
  <1>3. ASSUME NEW f \in Kept, file' = Append(f, l), AppendHost(p)
        PROVE  /\ file' \in Seq(Line) /\ file' # None
               /\ LinesOf(file') = LinesOf(f) \cup {l}
               /\ Len(f) <= Len(file')
               /\ \A i \in 1 .. Len(f) : file'[i] = f[i]
               /\ tail' = "newline"
    <2>1. f \in Seq(Line) /\ Len(f) \in Nat
      BY KeptLines
    <2>2. /\ file' \in Seq(Line) /\ Len(file') = Len(f) + 1
          /\ \A i \in 1 .. Len(f) : file'[i] = f[i]
          /\ file'[Len(f) + 1] = l
      BY <1>0, <1>3, <2>1, AppendLine
    <2>3. /\ LinesOf(f) = {f[i] : i \in 1 .. Len(f)}
          /\ LinesOf(file') = {file'[i] : i \in 1 .. Len(file')}
          /\ file' # None
      BY <2>1, <2>2, Lines
    <2>4. LinesOf(file') \subseteq LinesOf(f) \cup {l}
      BY <2>1, <2>2, <2>3
    <2>5. LinesOf(f) \subseteq LinesOf(file')
      <3>1. \A i \in 1 .. Len(f) : i \in 1 .. Len(file')
        BY <2>1, <2>2
      <3> QED
        BY <2>2, <2>3, <3>1
    <2>6. l \in LinesOf(file')
      <3>1. Len(f) + 1 \in 1 .. Len(file')
        BY <2>1, <2>2
      <3> QED
        BY <2>2, <2>3, <3>1
    <2> QED
      <3>1. tail' = "newline"
        BY <1>3 DEF AppendHost
      <3>2. LinesOf(file') = LinesOf(f) \cup {l}
        BY <2>4, <2>5, <2>6
      <3>3. Len(f) <= Len(file')
        BY <2>1, <2>2
      <3> QED
        BY <2>2, <2>3, <3>1, <3>2, <3>3
  <1>4. CASE \E f \in Kept : file' = Append(f, l) /\ AppendHost(p)
    <2>1. PICK f \in Kept : file' = Append(f, l) /\ AppendHost(p)
      BY <1>4
    <2>2. /\ LinesOf(f) \subseteq LinesOf(file)
          /\ tail # "open" => f = IF file = None THEN <<>> ELSE file
          /\ file = None => LinesOf(file) = {}
      BY KeptLines DEF LinesOf
    <2> QED
      BY <1>3, <2>1, <2>2 DEF l
  <1>5. \/ file' = file
        \/ file' \in Kept
        \/ \E f \in Kept : file' = Append(f, l) /\ AppendHost(p)
    BY DEF AppendHost, AppendFails, kh, l
  <1> QED
    BY <1>1, <1>2, <1>4, <1>5

(* What Forget does to the file: an entry that is no revocation goes.      *)
LEMMA FileShrinks ==
    ASSUME TypeOK, Forget
    PROVE  \E i \in 1 .. Len(file) :
             /\ file \in Seq(Line) /\ file' \in Seq(Line)
             /\ file # None /\ file' # None
             /\ ~file[i].revoked
             /\ Len(file') = Len(file) - 1
             /\ \A j \in 1 .. Len(file) - 1 : file'[j] = IF j < i THEN file[j] ELSE file[j + 1]
             /\ accepted' = [accepted EXCEPT ![file[i].host] =
                               {k \in @ : KeyType[k] # KeyType[file[i].key]}]
             /\ LinesOf(file') \subseteq LinesOf(file)
             /\ \A l \in LinesOf(file) : l.revoked => l \in LinesOf(file')
  <1>1. file \in Seq(Line) /\ file # None /\ Len(file) \in Nat
    BY DEF Forget, TypeOK
  <1>2. PICK i \in DOMAIN file :
          /\ ~file[i].revoked
          /\ file' = SubSeq(file, 1, i - 1) \o SubSeq(file, i + 1, Len(file))
          /\ accepted' = [accepted EXCEPT ![file[i].host] =
                            {k \in @ : KeyType[k] # KeyType[file[i].key]}]
    BY Zenon DEF Forget
  <1>3. i \in 1 .. Len(file)
    BY <1>1
  <1>4. /\ file' \in Seq(Line) /\ Len(file') = Len(file) - 1
        /\ \A j \in 1 .. Len(file) - 1 : file'[j] = IF j < i THEN file[j] ELSE file[j + 1]
    BY <1>1, <1>2, <1>3, RemoveEntry
  <1>5. /\ file' # None
        /\ LinesOf(file) = {file[j] : j \in 1 .. Len(file)}
        /\ LinesOf(file') = {file'[j] : j \in 1 .. Len(file')}
    BY <1>1, <1>4, Lines
  <1>6. LinesOf(file') \subseteq LinesOf(file)
    <2>1. \A j \in 1 .. Len(file) - 1 :
            j \in 1 .. Len(file) /\ j + 1 \in 1 .. Len(file)
      BY <1>1
    <2> QED
      BY <1>4, <1>5, <2>1
  <1>7. ASSUME NEW l \in LinesOf(file), l.revoked
        PROVE  l \in LinesOf(file')
    <2>1. PICK j \in 1 .. Len(file) : l = file[j]
      BY <1>5
    <2>2. j # i
      BY <1>2, <1>7, <2>1
    <2>3. CASE j < i
      <3>1. j \in 1 .. Len(file) - 1
        BY <1>1, <2>3
      <3> QED
        BY <1>4, <1>5, <2>1, <2>3, <3>1
    <2>4. CASE i < j
      <3>1. j - 1 \in 1 .. Len(file) - 1 /\ ~(j - 1 < i) /\ (j - 1) + 1 = j
        BY <1>1, <2>4
      <3> QED
        BY <1>4, <1>5, <2>1, <3>1
    <2> QED
      BY <2>2, <2>3, <2>4
  <1> QED
    BY <1>1, <1>2, <1>3, <1>4, <1>5, <1>6, <1>7

-------------------------------------------------------------------------------
(* The types.                                                              *)

USE DEF Goes, Accepts, Ends, OpensAgent, Returns, LosesAgent, KeyOrNone,
        kh, conn, hist, agents, env

(* The first state has the types, whatever known_hosts holds.              *)
LEMMA TypeInit == Init => TypeOK
  <1> SUFFICES ASSUME Init PROVE TypeOK
    OBVIOUS
  <1>1. file \in {None} \cup Seq(Line) /\ given \subseteq Line
    <2>1. file \in {None} \cup Seq(Line)
      BY TrustAssumption DEF Init
    <2> QED
      BY <2>1, Lines DEF Init, LinesOf
  <1>2. tail \in {"newline", "open", "junk"}
    BY DEF Init
  <1>3. accepted \in [Host -> SUBSET Key] /\ trusted \subseteq Host \X Key
    BY DEF Init
  <1>4. /\ pc \in [Instance -> {"idle"}]
        /\ host \in [Instance -> {None}] /\ db \in [Instance -> {None}]
        /\ captured \in [Instance -> {None}] /\ verified \in [Instance -> {None}]
        /\ retried \in [Instance -> {FALSE}]
        /\ agent \in [Instance -> {FALSE}] /\ leaked \in BOOLEAN
    BY DEF Init
  <1>5. opens \in 0 .. MaxOpens /\ rekeys \in 0 .. MaxRekeys
        /\ serverKey \in [Host -> Key]
    BY TrustAssumption DEF Init
  <1> QED
    BY <1>1, <1>2, <1>3, <1>4, <1>5 DEF TypeOK

(* Every step keeps the types.                                             *)
LEMMA TypeStep == TypeOK /\ AttemptInv /\ [Next]_vars => TypeOK'
  <1> SUFFICES ASSUME TypeOK, AttemptInv, [Next]_vars PROVE TypeOK'
    OBVIOUS
  <1> USE TrustAssumption
  <1>1. ASSUME NEW p \in Instance, NEW h \in Host, Begin(p, h) PROVE TypeOK'
    BY <1>1 DEF TypeOK, Begin
  <1>2. ASSUME NEW p \in Instance, BuildAuth(p) PROVE TypeOK'
    BY <1>2 DEF TypeOK, BuildAuth
  <1>3. ASSUME NEW p \in Instance, Load(p) PROVE TypeOK'
    BY <1>3 DEF TypeOK, Load
  <1>4. ASSUME NEW p \in Instance, Dial(p) PROVE TypeOK'
    <2>1. host[p] \in Host /\ serverKey[host[p]] \in Key
      BY <1>4 DEF TypeOK, Dial, AttemptInv
    <2> QED
      BY <1>4, <2>1 DEF TypeOK, Dial
  <1>5. ASSUME NEW p \in Instance, DialFails(p) PROVE TypeOK'
    BY <1>5 DEF TypeOK, DialFails
  <1>6. ASSUME NEW p \in Instance, Trust(p) PROVE TypeOK'
    <2>1. <<host[p], captured[p]>> \in Host \X Key
      BY <1>6 DEF TypeOK, Trust, AttemptInv
    <2> QED
      BY <1>6, <2>1 DEF TypeOK, Trust
  <1>7. ASSUME NEW p \in Instance, Abort(p) PROVE TypeOK'
    BY <1>7 DEF TypeOK, Abort
  <1>8. ASSUME NEW p \in Instance, AppendHost(p) \/ AppendFails(p) PROVE TypeOK'
    <2>1. file' \in {None} \cup Seq(Line) /\ tail' \in {"newline", "open", "junk"}
      BY <1>8, FileGrows DEF TypeOK, AttemptInv
    <2> QED
      BY <1>8, <2>1 DEF TypeOK, AppendHost, AppendFails
  <1>9. ASSUME NEW p \in Instance, Reload(p) PROVE TypeOK'
    BY <1>9 DEF TypeOK, Reload
  <1>10. ASSUME NEW p \in Instance, Redial(p) PROVE TypeOK'
    <2>1. host[p] \in Host /\ serverKey[host[p]] \in Key
      BY <1>10 DEF TypeOK, Redial, AttemptInv
    <2>2. \/ Goes(p, "redial", "login") /\ Accepts(p, serverKey[host[p]])
             /\ UNCHANGED <<kh, env, host, db, captured, retried, agents, given, trusted>>
          \/ Goes(p, "redial", "err") /\ UNCHANGED <<kh, env, conn, agents, hist>>
      BY <1>10 DEF Redial
    <2>3. CASE /\ Goes(p, "redial", "login") /\ Accepts(p, serverKey[host[p]])
               /\ UNCHANGED <<kh, env, host, db, captured, retried, agents, given, trusted>>
      BY <2>1, <2>3 DEF TypeOK
    <2>4. CASE Goes(p, "redial", "err") /\ UNCHANGED <<kh, env, conn, agents, hist>>
      BY <2>4 DEF TypeOK
    <2> QED
      BY <2>2, <2>3, <2>4
  <1>11. ASSUME NEW p \in Instance, LoggedIn(p) \/ LoginFails(p) PROVE TypeOK'
    BY <1>11 DEF TypeOK, LoggedIn, LoginFails
  <1>12. ASSUME NEW p \in Instance, ShowError(p) PROVE TypeOK'
    BY <1>12 DEF TypeOK, ShowError
  <1>13. ASSUME NEW p \in Instance, EnterPassword(p) PROVE TypeOK'
    BY <1>13 DEF TypeOK, EnterPassword
  <1>14. ASSUME NEW p \in Instance, Close(p) PROVE TypeOK'
    BY <1>14 DEF TypeOK, Close
  <1>15. ASSUME NEW h \in Host, NEW k \in Key, Rekey(h, k) PROVE TypeOK'
    BY <1>15 DEF TypeOK, Rekey
  <1>16. ASSUME Forget PROVE TypeOK'
    <2>1. file' \in Seq(Line)
      BY <1>16, FileShrinks
    <2>2. accepted' \in [Host -> SUBSET Key]
      BY <1>16, FileShrinks DEF TypeOK
    <2>3. tail' = "newline" /\ UNCHANGED <<env, pc, conn, agents, given, trusted>>
      BY <1>16 DEF Forget
    <2> QED
      BY <2>1, <2>2, <2>3 DEF TypeOK
  <1>17. CASE UNCHANGED vars
    BY <1>17 DEF TypeOK, vars
  <1> QED
    BY <1>1, <1>2, <1>3, <1>4, <1>5, <1>6, <1>7, <1>8, <1>9, <1>10, <1>11, <1>12,
       <1>13, <1>14, <1>15, <1>16, <1>17 DEF Next, ConnectStep

-------------------------------------------------------------------------------
(* What a step may do to the file, to what was loaded of it, and to the    *)
(* keys accepted: all that the invariant needs to know of the actions.     *)

FileStep ==
    \/ UNCHANGED kh
    \/ Forget
    \/ \E p \in Instance : AppendHost(p) \/ AppendFails(p)

LoadStep ==
    \A p \in Instance :
        \/ db'[p] = db[p] /\ (pc'[p] \in {"dial", "redial"} => pc'[p] = pc[p])
        \/ db'[p] = None /\ pc'[p] = "idle"
        \/ db'[p] = file /\ file' = file

AcceptStep ==
    \/ UNCHANGED accepted
    \/ Forget
    \/ \E p \in Instance : \E k \in Key :
         /\ host[p] \in Host
         /\ pc[p] \in {"dial", "redial"}
         /\ Verdict(db[p], host[p], k) = "ok"
         /\ accepted' = [accepted EXCEPT ![host[p]] = @ \cup {k}]
         /\ UNCHANGED kh

TrustStep == given' = given /\ trusted \subseteq trusted'

(* Every step is of that shape.                                            *)
LEMMA Shape ==
    ASSUME TypeOK, AttemptInv, [Next]_vars
    PROVE  FileStep /\ LoadStep /\ AcceptStep /\ TrustStep
  <1> USE DEF TypeOK, FileStep, LoadStep, AcceptStep, TrustStep
  <1> DEFINE G == FileStep /\ LoadStep /\ AcceptStep /\ TrustStep
  <1>1. ASSUME NEW p \in Instance, NEW h \in Host, Begin(p, h) PROVE G
    BY <1>1 DEF Begin
  <1>2. ASSUME NEW p \in Instance, BuildAuth(p) PROVE G
    BY <1>2 DEF BuildAuth
  <1>3. ASSUME NEW p \in Instance, Load(p) PROVE G
    BY <1>3 DEF Load
  <1>4. ASSUME NEW p \in Instance, Dial(p) PROVE G
    <2>1. host[p] \in Host /\ serverKey[host[p]] \in Key /\ pc[p] = "dial"
      BY <1>4 DEF Dial, AttemptInv
    <2>2. pc'[p] # "dial" /\ pc'[p] # "redial"
      BY <1>4 DEF Dial
    <2>3. FileStep /\ LoadStep /\ TrustStep
      BY <1>4, <2>2 DEF Dial
    <2>4. AcceptStep
      BY <1>4, <2>1 DEF Dial
    <2> QED
      BY <2>3, <2>4
  <1>5. ASSUME NEW p \in Instance, DialFails(p) PROVE G
    BY <1>5 DEF DialFails
  <1>6. ASSUME NEW p \in Instance, Trust(p) PROVE G
    BY <1>6 DEF Trust
  <1>7. ASSUME NEW p \in Instance, Abort(p) PROVE G
    BY <1>7 DEF Abort
  <1>8. ASSUME NEW p \in Instance, AppendHost(p) \/ AppendFails(p) PROVE G
    BY <1>8 DEF AppendHost, AppendFails
  <1>9. ASSUME NEW p \in Instance, Reload(p) PROVE G
    BY <1>9 DEF Reload
  <1>10. ASSUME NEW p \in Instance, Redial(p) PROVE G
    <2>1. host[p] \in Host /\ serverKey[host[p]] \in Key /\ pc[p] = "redial"
      BY <1>10 DEF Redial, AttemptInv
    <2>2. pc'[p] # "dial" /\ pc'[p] # "redial"
      BY <1>10 DEF Redial
    <2>3. FileStep /\ LoadStep /\ TrustStep
      BY <1>10, <2>2 DEF Redial
    <2>4. AcceptStep
      BY <1>10, <2>1 DEF Redial
    <2> QED
      BY <2>3, <2>4
  <1>11. ASSUME NEW p \in Instance, LoggedIn(p) \/ LoginFails(p) PROVE G
    BY <1>11 DEF LoggedIn, LoginFails
  <1>12. ASSUME NEW p \in Instance, ShowError(p) PROVE G
    BY <1>12 DEF ShowError
  <1>13. ASSUME NEW p \in Instance, EnterPassword(p) PROVE G
    BY <1>13 DEF EnterPassword
  <1>14. ASSUME NEW p \in Instance, Close(p) PROVE G
    BY <1>14 DEF Close
  <1>15. ASSUME NEW h \in Host, NEW k \in Key, Rekey(h, k) PROVE G
    BY <1>15 DEF Rekey
  <1>16. ASSUME Forget PROVE G
    BY <1>16 DEF Forget
  <1>17. CASE UNCHANGED vars
    BY <1>17 DEF vars
  <1> QED
    BY <1>1, <1>2, <1>3, <1>4, <1>5, <1>6, <1>7, <1>8, <1>9, <1>10, <1>11, <1>12,
       <1>13, <1>14, <1>15, <1>16, <1>17 DEF Next, ConnectStep

(* An attempt still knows what it knew.                                    *)
LEMMA AttemptStep == TypeOK /\ AttemptInv /\ [Next]_vars => AttemptInv'
  <1> SUFFICES ASSUME TypeOK, AttemptInv, [Next]_vars PROVE AttemptInv'
    OBVIOUS
  <1> USE DEF TypeOK, AttemptInv
  <1>1. ASSUME NEW p \in Instance, NEW h \in Host, Begin(p, h) PROVE AttemptInv'
    BY <1>1 DEF Begin
  <1>2. ASSUME NEW p \in Instance, BuildAuth(p) PROVE AttemptInv'
    BY <1>2 DEF BuildAuth
  <1>3. ASSUME NEW p \in Instance, Load(p) PROVE AttemptInv'
    BY <1>3 DEF Load
  <1>4. ASSUME NEW p \in Instance, Dial(p) PROVE AttemptInv'
    <2>1. /\ pc' = [pc EXCEPT ![p] = pc'[p]] /\ pc'[p] \in {"login", "ask", "err"}
          /\ captured' = [captured EXCEPT ![p] = serverKey[host[p]]]
          /\ serverKey[host[p]] \in Key /\ host[p] \in Host
          /\ UNCHANGED <<host, db>> /\ trusted' = trusted
      BY <1>4 DEF Dial
    <2> QED
      BY <2>1
  <1>5. ASSUME NEW p \in Instance, DialFails(p) PROVE AttemptInv'
    BY <1>5 DEF DialFails
  <1>6. ASSUME NEW p \in Instance, Trust(p) PROVE AttemptInv'
    BY <1>6 DEF Trust
  <1>7. ASSUME NEW p \in Instance, Abort(p) PROVE AttemptInv'
    BY <1>7 DEF Abort
  <1>8. ASSUME NEW p \in Instance, AppendHost(p) \/ AppendFails(p) PROVE AttemptInv'
    BY <1>8 DEF AppendHost, AppendFails
  <1>9. ASSUME NEW p \in Instance, Reload(p) PROVE AttemptInv'
    BY <1>9 DEF Reload
  <1>10. ASSUME NEW p \in Instance, Redial(p) PROVE AttemptInv'
    <2>1. /\ pc' = [pc EXCEPT ![p] = pc'[p]] /\ pc'[p] \in {"login", "err"}
          /\ pc[p] = "redial"
          /\ UNCHANGED <<host, db, captured>> /\ trusted' = trusted
      BY <1>10 DEF Redial
    <2> QED
      BY <2>1
  <1>11. ASSUME NEW p \in Instance, LoggedIn(p) \/ LoginFails(p) PROVE AttemptInv'
    BY <1>11 DEF LoggedIn, LoginFails
  <1>12. ASSUME NEW p \in Instance, ShowError(p) PROVE AttemptInv'
    BY <1>12 DEF ShowError
  <1>13. ASSUME NEW p \in Instance, EnterPassword(p) PROVE AttemptInv'
    BY <1>13 DEF EnterPassword
  <1>14. ASSUME NEW p \in Instance, Close(p) PROVE AttemptInv'
    BY <1>14 DEF Close
  <1>15. ASSUME NEW h \in Host, NEW k \in Key, Rekey(h, k) PROVE AttemptInv'
    BY <1>15 DEF Rekey
  <1>16. ASSUME Forget PROVE AttemptInv'
    BY <1>16 DEF Forget
  <1>17. CASE UNCHANGED vars
    BY <1>17 DEF vars
  <1> QED
    BY <1>1, <1>2, <1>3, <1>4, <1>5, <1>6, <1>7, <1>8, <1>9, <1>10, <1>11, <1>12,
       <1>13, <1>14, <1>15, <1>16, <1>17 DEF Next, ConnectStep

(* The entry behind a handshake that is accepted.                          *)
LEMMA AcceptingEntry ==
    ASSUME NEW f \in {None} \cup Seq(Line), NEW h \in Host, NEW k \in Key,
           Verdict(f, h, k) = "ok"
    PROVE  /\ f \in Seq(Line) /\ f # None
           /\ [host |-> h, key |-> k, revoked |-> FALSE] \in LinesOf(f)
           /\ Holds(f, h, k) /\ ~Revoked(f, k)
  <1>1. f # None /\ f \in Seq(Line) /\ ~Revoked(f, k) /\ Holds(f, h, k)
    BY DEF Verdict
  <1>2. PICK i \in 1 .. Len(f) : Decides(f, h, k, i) /\ f[i].key = k
    BY <1>1 DEF Holds
  <1>3. f[i] = [host |-> h, key |-> k, revoked |-> FALSE]
    <2>1. f[i] \in Line
      BY <1>1, <1>2
    <2> QED
      BY <1>2, <2>1 DEF Decides, Line
  <1>4. LinesOf(f) = {f[j] : j \in 1 .. Len(f)}
    BY <1>1, Lines
  <1> QED
    BY <1>1, <1>2, <1>3, <1>4

(* Every key in the file and in its copies is vouched for.                 *)
LEMMA SanctionStep ==
    ASSUME TypeOK, AttemptInv, SanctionInv, [Next]_vars
    PROVE  SanctionInv'
  <1>0. FileStep /\ LoadStep /\ TrustStep
    BY Shape
  <1>1. ASSUME NEW h, NEW k, Sanctioned(h, k) PROVE Sanctioned(h, k)'
    BY <1>0, <1>1 DEF Sanctioned, TrustStep
  <1>2. ASSUME NEW f, Vouched(f)
        PROVE  \A l \in LinesOf(f) : l.revoked \/ Sanctioned(l.host, l.key)'
    BY <1>1, <1>2 DEF Vouched
  <1>3. \A l \in LinesOf(file') : l.revoked \/ Sanctioned(l.host, l.key)'
    <2>1. CASE UNCHANGED kh
      BY <1>2, <2>1 DEF SanctionInv
    <2>2. CASE Forget
      BY <1>2, <2>2, FileShrinks DEF SanctionInv
    <2>3. ASSUME NEW p \in Instance, AppendHost(p) \/ AppendFails(p)
          PROVE  \A l \in LinesOf(file') : l.revoked \/ Sanctioned(l.host, l.key)'
      <3>1. pc[p] = "append" /\ <<host[p], captured[p]>> \in trusted
        BY <2>3 DEF AppendHost, AppendFails, AttemptInv
      <3>2. PICK m : m = [host |-> host[p], key |-> captured[p], revoked |-> FALSE]
        OBVIOUS
      <3>3. \A l \in LinesOf(file') : l \in LinesOf(file) \/ l = m
        BY <2>3, <3>1, <3>2, FileGrows DEF TypeOK
      <3>4. <<m.host, m.key>> \in trusted
        BY <3>1, <3>2
      <3>5. Sanctioned(m.host, m.key)'
        BY <1>0, <3>4 DEF Sanctioned, TrustStep
      <3> QED
        BY <1>2, <3>3, <3>5 DEF SanctionInv
    <2> QED
      BY <1>0, <2>1, <2>2, <2>3 DEF FileStep
  <1>4. ASSUME NEW p \in Instance
        PROVE  \A l \in LinesOf(db'[p]) : l.revoked \/ Sanctioned(l.host, l.key)'
    <2>1. CASE db'[p] = db[p]
      BY <1>2, <2>1 DEF SanctionInv
    <2>2. CASE db'[p] = None
      BY <2>2 DEF LinesOf
    <2>3. CASE db'[p] = file
      BY <1>2, <2>3 DEF SanctionInv
    <2> QED
      BY <1>0, <2>1, <2>2, <2>3 DEF LoadStep
  <1> QED
    BY <1>3, <1>4 DEF SanctionInv, Vouched

(* So no key is accepted that nobody vouched for.                          *)
LEMMA OnlyTrustedStep ==
    ASSUME TypeOK, AttemptInv, SanctionInv, OnlyTrustedIsAccepted, [Next]_vars
    PROVE  OnlyTrustedIsAccepted'
  <1>1. AcceptStep /\ TrustStep
    BY Shape
  <1>2. \A h \in Host : \A k \in accepted[h] : Sanctioned(h, k)'
    BY <1>1 DEF OnlyTrustedIsAccepted, Sanctioned, TrustStep
  <1>3. CASE UNCHANGED accepted
    BY <1>2, <1>3 DEF OnlyTrustedIsAccepted, Sanctioned
  <1>4. CASE Forget
    <2>1. \A h \in Host : accepted'[h] \subseteq accepted[h]
      BY <1>4, FileShrinks DEF TypeOK
    <2> QED
      BY <1>2, <2>1 DEF OnlyTrustedIsAccepted, Sanctioned
  <1>5. ASSUME NEW p \in Instance, NEW k \in Key, host[p] \in Host,
               Verdict(db[p], host[p], k) = "ok",
               accepted' = [accepted EXCEPT ![host[p]] = @ \cup {k}]
        PROVE  OnlyTrustedIsAccepted'
    <2>1. PICK h \in Host : h = host[p]
      BY <1>5
    <2>2. [host |-> h, key |-> k, revoked |-> FALSE] \in LinesOf(db[p])
      BY <1>5, <2>1, AcceptingEntry DEF TypeOK
    <2>3. Sanctioned(h, k)
      BY <2>2 DEF SanctionInv, Vouched
    <2>4. Sanctioned(h, k)'
      BY <1>1, <2>3 DEF Sanctioned, TrustStep
    <2>5. \A g \in Host : \A m \in accepted'[g] : m \in accepted[g] \/ (g = h /\ m = k)
      BY <1>5, <2>1 DEF TypeOK
    <2> QED
      BY <1>2, <2>4, <2>5 DEF OnlyTrustedIsAccepted, Sanctioned
  <1> QED
    BY <1>1, <1>3, <1>4, <1>5 DEF AcceptStep

-------------------------------------------------------------------------------
(* With a file whose last line ends: nothing that was loaded gets lost.    *)

(* Nobody changes what an attempt has loaded, except by adding to it.      *)
LEMMA PrefixStep ==
    ASSUME TypeOK, AttemptInv, PrefixInv, [Next]_vars
    PROVE  PrefixInv'
  <1>0. FileStep /\ LoadStep
    BY Shape
  <1>1. /\ tail' # "open"
        /\ ~Forget /\ file # None =>
             /\ file' # None /\ Len(file) <= Len(file')
             /\ \A i \in 1 .. Len(file) : file'[i] = file[i]
    <2>1. CASE UNCHANGED kh
      BY <2>1 DEF PrefixInv, TypeOK
    <2>2. CASE Forget
      BY <2>2 DEF Forget
    <2>3. ASSUME NEW p \in Instance, AppendHost(p) \/ AppendFails(p)
          PROVE  /\ tail' # "open"
                 /\ file # None =>
                      /\ file' # None /\ Len(file) <= Len(file')
                      /\ \A i \in 1 .. Len(file) : file'[i] = file[i]
      BY <2>3, FileGrows DEF PrefixInv, AttemptInv, TypeOK
    <2> QED
      BY <1>0, <2>1, <2>2, <2>3 DEF FileStep
  <1>2. ASSUME NEW p \in Instance, db'[p] # None
        PROVE  /\ file' # None /\ Len(db'[p]) <= Len(file')
               /\ \A i \in 1 .. Len(db'[p]) : db'[p][i] = file'[i]
    <2>1. CASE Forget
      <3>1. db[p] = None /\ UNCHANGED <<host, db>>
        BY <2>1 DEF Forget, AttemptInv
      <3> QED
        BY <1>2, <3>1
    <2>2. CASE ~Forget /\ db'[p] = db[p]
      <3>1. /\ db[p] # None /\ db[p] \in Seq(Line) /\ file \in Seq(Line) /\ file # None
            /\ Len(db[p]) \in Nat /\ Len(file) \in Nat
            /\ Len(db[p]) <= Len(file)
            /\ \A i \in 1 .. Len(db[p]) : db[p][i] = file[i]
        BY <1>2, <2>2 DEF PrefixInv, TypeOK
      <3>2. Len(file') \in Nat /\ Len(file) <= Len(file') /\ file' # None
        BY <1>1, <2>2, <3>1, TypeStep DEF TypeOK
      <3> QED
        BY <1>1, <2>2, <3>1, <3>2
    <2>3. CASE db'[p] = file /\ file' = file
      BY <1>2, <2>3 DEF TypeOK
    <2> QED
      BY <1>0, <1>2, <2>1, <2>2, <2>3 DEF LoadStep
  <1> QED
    BY <1>1, <1>2 DEF PrefixInv

(* A revocation stays in the file, and in what is loaded for a handshake.  *)
LEMMA RevokedStep ==
    ASSUME TypeOK, AttemptInv, PrefixInv, RevokedInv, [Next]_vars
    PROVE  RevokedInv'
  <1>0. FileStep /\ LoadStep /\ TrustStep
    BY Shape
  <1> SUFFICES ASSUME NEW l \in given, l.revoked
               PROVE  /\ l \in LinesOf(file')
                      /\ \A p \in Instance :
                            pc'[p] \in {"dial", "redial"} => l \in LinesOf(db'[p])
    BY <1>0 DEF RevokedInv, TrustStep
  <1>1. l \in LinesOf(file)
    BY DEF RevokedInv
  <1>2. l \in LinesOf(file')
    <2>1. CASE UNCHANGED kh
      BY <1>1, <2>1
    <2>2. CASE Forget
      BY <1>1, <2>2, FileShrinks
    <2>3. ASSUME NEW p \in Instance, AppendHost(p) \/ AppendFails(p)
          PROVE  l \in LinesOf(file')
      BY <1>1, <2>3, FileGrows DEF PrefixInv, AttemptInv, TypeOK
    <2> QED
      BY <1>0, <2>1, <2>2, <2>3 DEF FileStep
  <1>3. ASSUME NEW p \in Instance, pc'[p] \in {"dial", "redial"}
        PROVE  l \in LinesOf(db'[p])
    BY <1>0, <1>1, <1>3 DEF LoadStep, RevokedInv
  <1> QED
    BY <1>2, <1>3

(* So no revoked key is accepted.                                          *)
LEMMA RevokedIsRefusedStep ==
    ASSUME TypeOK, AttemptInv, RevokedInv, RevokedIsRefused, [Next]_vars
    PROVE  RevokedIsRefused'
  <1>0. AcceptStep /\ TrustStep
    BY Shape
  <1> SUFFICES ASSUME NEW l \in given, l.revoked, NEW h \in Host
               PROVE  l.key \notin accepted'[h]
    BY <1>0 DEF RevokedIsRefused, TrustStep
  <1>1. l.key \notin accepted[h]
    BY DEF RevokedIsRefused
  <1>2. CASE UNCHANGED accepted
    BY <1>1, <1>2
  <1>3. CASE Forget
    BY <1>1, <1>3, FileShrinks DEF TypeOK
  <1>4. ASSUME NEW p \in Instance, NEW k \in Key, host[p] \in Host,
               pc[p] \in {"dial", "redial"}, Verdict(db[p], host[p], k) = "ok",
               accepted' = [accepted EXCEPT ![host[p]] = @ \cup {k}]
        PROVE  l.key \notin accepted'[h]
    <2>1. l \in LinesOf(db[p]) /\ db[p] \in {None} \cup Seq(Line)
      BY <1>4 DEF RevokedInv, TypeOK
    <2>2. ~Revoked(db[p], k) /\ db[p] \in Seq(Line)
      BY <1>4, <2>1, AcceptingEntry
    <2>3. LinesOf(db[p]) = {db[p][i] : i \in DOMAIN db[p]}
      BY <2>1 DEF LinesOf
    <2>4. l.key # k
      BY <2>1, <2>2, <2>3 DEF Revoked
    <2> QED
      BY <1>1, <1>4, <2>4 DEF TypeOK
  <1> QED
    BY <1>0, <1>2, <1>3, <1>4 DEF AcceptStep

(* An entry that decides also does in a longer file.                       *)
LEMMA DecidesInLonger ==
    ASSUME NEW f \in Seq(Line), NEW g \in Seq(Line), Len(f) <= Len(g),
           \A j \in 1 .. Len(f) : f[j] = g[j],
           NEW h, NEW k, Holds(f, h, k)
    PROVE  Holds(g, h, k)
  <1>1. PICK i \in 1 .. Len(f) : Decides(f, h, k, i) /\ f[i].key = k
    BY DEF Holds
  <1>2. i \in 1 .. Len(g) /\ \A j \in 1 .. i - 1 : j \in 1 .. Len(f)
    BY <1>1
  <1> QED
    BY <1>1, <1>2 DEF Holds, Decides

(* It still does, somewhere, when an entry of another host or algorithm    *)
(* goes.                                                                   *)
LEMMA DecidesInShorter ==
    ASSUME NEW f \in Seq(Line), NEW g \in Seq(Line), NEW e \in 1 .. Len(f),
           Len(g) = Len(f) - 1,
           \A j \in 1 .. Len(f) - 1 : g[j] = IF j < e THEN f[j] ELSE f[j + 1],
           NEW h, NEW k, Holds(f, h, k), ~(f[e].host = h /\ KeyType[f[e].key] = KeyType[k])
    PROVE  Holds(g, h, k)
  <1>0. PICK i \in 1 .. Len(f) : Decides(f, h, k, i) /\ f[i].key = k
    BY DEF Holds
  <1>1. CASE i < e
    <2>1. i \in 1 .. Len(g) /\ g[i] = f[i]
      BY <1>0, <1>1
    <2>2. \A j \in 1 .. i - 1 : g[j] = f[j]
      BY <1>0, <1>1
    <2> QED
      BY <1>0, <2>1, <2>2 DEF Decides, Holds
  <1>2. CASE e < i
    <2> DEFINE n == i - 1
    <2>1. n \in 1 .. Len(g) /\ g[n] = f[i]
      <3>1. n \in 1 .. Len(f) - 1 /\ ~(n < e) /\ n + 1 = i
        BY <1>0, <1>2
      <3> QED
        BY <3>1
    <2>2. \A j \in 1 .. n - 1 : \E m \in 1 .. i - 1 : g[j] = f[m]
      <3> SUFFICES ASSUME NEW j \in 1 .. n - 1
                   PROVE  \E m \in 1 .. i - 1 : g[j] = f[m]
        OBVIOUS
      <3>1. j \in 1 .. Len(f) - 1 /\ j \in 1 .. i - 1 /\ j + 1 \in 1 .. i - 1
        BY <1>0
      <3>2. g[j] = f[j] \/ g[j] = f[j + 1]
        BY <3>1
      <3> QED
        BY <3>1, <3>2
    <2> HIDE DEF n
    <2> QED
      BY <1>0, <2>1, <2>2 DEF Decides, Holds
  <1> QED
    BY <1>0, <1>1, <1>2 DEF Decides

(* What let a key be accepted still decides after every step.              *)
LEMMA DecidedStep ==
    ASSUME TypeOK, AttemptInv, PrefixInv, DecidedInv, [Next]_vars
    PROVE  DecidedInv'
  <1>0. FileStep /\ AcceptStep /\ file' \in {None} \cup Seq(Line)
    BY Shape, TypeStep DEF TypeOK
  <1>1. ASSUME ~Forget, NEW h \in Host, NEW k \in accepted[h]
        PROVE  file' # None /\ Holds(file', h, k)
    <2>1. file # None /\ file \in Seq(Line) /\ Holds(file, h, k)
      BY DEF DecidedInv, TypeOK
    <2>2. CASE UNCHANGED kh
      BY <2>1, <2>2
    <2>3. ASSUME NEW p \in Instance, AppendHost(p) \/ AppendFails(p)
          PROVE  file' # None /\ Holds(file', h, k)
      <3>1. /\ file' # None /\ Len(file) <= Len(file')
            /\ \A j \in 1 .. Len(file) : file[j] = file'[j]
        BY <2>1, <2>3, FileGrows DEF PrefixInv, AttemptInv, TypeOK
      <3>2. file' \in Seq(Line)
        BY <1>0, <3>1
      <3> QED
        BY <2>1, <3>1, <3>2, DecidesInLonger
    <2> QED
      BY <1>0, <1>1, <2>2, <2>3 DEF FileStep
  <1>2. CASE UNCHANGED accepted /\ ~Forget
    BY <1>1, <1>2 DEF DecidedInv
  <1>3. CASE Forget
    <2>1. PICK e \in 1 .. Len(file) :
             /\ file \in Seq(Line) /\ file' \in Seq(Line) /\ file' # None
             /\ Len(file') = Len(file) - 1
             /\ \A j \in 1 .. Len(file) - 1 : file'[j] = IF j < e THEN file[j] ELSE file[j + 1]
             /\ accepted' = [accepted EXCEPT ![file[e].host] =
                               {k \in @ : KeyType[k] # KeyType[file[e].key]}]
      BY <1>3, FileShrinks
    <2>2. ASSUME NEW h \in Host, NEW k \in accepted'[h]
          PROVE  Holds(file', h, k)
      <3>1. k \in accepted[h] /\ ~(file[e].host = h /\ KeyType[file[e].key] = KeyType[k])
        BY <2>1, <2>2 DEF TypeOK
      <3>2. Holds(file, h, k)
        BY <3>1 DEF DecidedInv
      <3> QED
        BY <2>1, <3>1, <3>2, DecidesInShorter
    <2> QED
      BY <2>1, <2>2 DEF DecidedInv
  <1>4. ASSUME ~Forget, NEW p \in Instance, NEW k \in Key, host[p] \in Host,
               Verdict(db[p], host[p], k) = "ok", UNCHANGED kh,
               accepted' = [accepted EXCEPT ![host[p]] = @ \cup {k}]
        PROVE  DecidedInv'
    <2>1. PICK g \in Host : g = host[p]
      BY <1>4
    <2>2. db[p] \in Seq(Line) /\ db[p] # None /\ Holds(db[p], g, k)
      BY <1>4, <2>1, AcceptingEntry DEF TypeOK
    <2>3. /\ file \in Seq(Line) /\ file # None /\ Len(db[p]) <= Len(file)
          /\ \A j \in 1 .. Len(db[p]) : db[p][j] = file[j]
      BY <2>2 DEF PrefixInv, TypeOK
    <2>4. Holds(file, g, k)
      BY <2>2, <2>3, DecidesInLonger
    <2>5. \A h \in Host : \A m \in accepted'[h] : m \in accepted[h] \/ (h = g /\ m = k)
      BY <1>4, <2>1 DEF TypeOK
    <2>6. file' = file
      BY <1>4
    <2> QED
      BY <1>1, <1>4, <2>3, <2>4, <2>5, <2>6 DEF DecidedInv
  <1> QED
    BY <1>0, <1>2, <1>3, <1>4 DEF AcceptStep

(* Two keys of one algorithm cannot both be decided for.                   *)
LEMMA DecidedMeansOne ==
    ASSUME TypeOK, DecidedInv
    PROVE  ChangedKeyIsRefused
  <1> SUFFICES ASSUME NEW h \in Host, NEW k \in accepted[h], NEW l \in accepted[h],
                      KeyType[k] = KeyType[l]
               PROVE  k = l
    BY DEF ChangedKeyIsRefused
  <1>1. PICK i \in 1 .. Len(file) : Decides(file, h, k, i) /\ file[i].key = k
    BY DEF DecidedInv, Holds
  <1>2. PICK j \in 1 .. Len(file) : Decides(file, h, l, j) /\ file[j].key = l
    BY DEF DecidedInv, Holds
  <1>3. i \in Int /\ j \in Int /\ 1 <= i /\ 1 <= j
    BY <1>1, <1>2
  <1>4. ~(i < j) /\ ~(j < i)
    BY <1>1, <1>2, <1>3 DEF Decides
  <1> QED
    BY <1>1, <1>2, <1>3, <1>4

-------------------------------------------------------------------------------
(* The theorems.                                                           *)

(* Nothing has been loaded or accepted at first.                           *)
LEMMA InitTrustInv == Init => TrustInv
  <1> SUFFICES ASSUME Init PROVE TrustInv
    OBVIOUS
  <1>1. AttemptInv
    BY DEF Init, AttemptInv
  <1>2. Vouched(file)
    <2>1. \A l \in LinesOf(file) : l \in Line /\ l \in given
      BY TypeInit, Lines DEF TypeOK, Init, LinesOf
    <2>2. \A l \in Line : ~l.revoked =>
             l = [host |-> l.host, key |-> l.key, revoked |-> FALSE]
      BY DEF Line
    <2> QED
      BY <2>1, <2>2 DEF Vouched, Sanctioned
  <1>3. SanctionInv
    BY <1>2 DEF SanctionInv, Vouched, Init, LinesOf
  <1>4. OnlyTrustedIsAccepted /\ RevokedIsRefused /\ DecidedInv
    BY DEF Init, OnlyTrustedIsAccepted, RevokedIsRefused, DecidedInv
  <1>5. ~HandEdited => PrefixInv /\ RevokedInv
    BY DEF Init, PrefixInv, RevokedInv
  <1> QED
    BY <1>1, <1>3, <1>4, <1>5 DEF TrustInv

(* Every step keeps the invariant.                                         *)
LEMMA TrustInvStep == TypeOK /\ TrustInv /\ [Next]_vars => TypeOK' /\ TrustInv'
  <1> SUFFICES ASSUME TypeOK, TrustInv, [Next]_vars PROVE TypeOK' /\ TrustInv'
    OBVIOUS
  <1>1. AttemptInv /\ SanctionInv /\ OnlyTrustedIsAccepted
    BY DEF TrustInv
  <1>2. TypeOK' /\ AttemptInv' /\ SanctionInv' /\ OnlyTrustedIsAccepted'
    BY <1>1, TypeStep, AttemptStep, SanctionStep, OnlyTrustedStep
  <1>3. ASSUME ~HandEdited
        PROVE  PrefixInv' /\ RevokedInv' /\ RevokedIsRefused' /\ DecidedInv'
    <2>1. PrefixInv /\ RevokedInv /\ RevokedIsRefused /\ DecidedInv
      BY <1>3 DEF TrustInv
    <2> QED
      BY <1>1, <2>1, PrefixStep, RevokedStep, RevokedIsRefusedStep, DecidedStep
  <1> QED
    BY <1>2, <1>3 DEF TrustInv

(* The types and the invariant hold in every reachable state.              *)
THEOREM Invariance == Spec => [](TypeOK /\ TrustInv)
  <1>1. Init => TypeOK /\ TrustInv
    BY TypeInit, InitTrustInv
  <1> QED
    BY <1>1, TrustInvStep, PTL DEF Spec

(* Every variable keeps its type: known_hosts holds lines, and what is     *)
(* asked or decided belongs to an attempt.                                 *)
THEOREM TypeCorrect == Spec => []TypeOK
  BY Invariance, PTL

(* Authentication is offered only to a server whose key known_hosts held   *)
(* at first or the user agreed to, even when the last line of the file     *)
(* lacks its newline (sftp.go:66-75, 112-137).                             *)
THEOREM TrustedOnly == Spec => []OnlyTrustedIsAccepted
  <1>1. TypeOK /\ TrustInv => OnlyTrustedIsAccepted
    BY DEF TrustInv
  <1> QED
    BY <1>1, Invariance, PTL

(* If the file ends in a newline at first, two keys of one algorithm are   *)
(* never both accepted for a host, whichever instances ask and whatever    *)
(* the user answers, until the entry is removed (sftp.go:94-96, 127-136).  *)
THEOREM ChangedKeyRefused ==
    ASSUME HandEdited = FALSE
    PROVE  Spec => []ChangedKeyIsRefused
  <1>1. TypeOK /\ TrustInv => ChangedKeyIsRefused
    BY DecidedMeansOne DEF TrustInv
  <1> QED
    BY <1>1, Invariance, PTL

(* If the file ends in a newline at first, a key it revokes is never       *)
(* accepted (sftp.go:99-101, 135).                                         *)
THEOREM RevokedRefused ==
    ASSUME HandEdited = FALSE
    PROVE  Spec => []RevokedIsRefused
  <1>1. TypeOK /\ TrustInv => RevokedIsRefused
    BY DEF TrustInv
  <1> QED
    BY <1>1, Invariance, PTL

===============================================================================
