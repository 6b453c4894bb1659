------------------------------- MODULE HostTrust -------------------------------
(***************************************************************************)
(* How lazyssh connects (Connect, known_hosts and buildAuth in             *)
(* internal/ssh/sftp.go; connectSFTPwithPwd in internal/ui/app.go):        *)
(* several instances read and append to one known_hosts, servers change    *)
(* their keys, and the user is asked about a host while all of that goes   *)
(* on.                                                                     *)
(*                                                                         *)
(* What counts of known_hosts are its valid lines, in order, and whether   *)
(* it ends in a newline.                                                   *)
(***************************************************************************)
EXTENDS Naturals, Sequences, FiniteSets

CONSTANTS Instance,    \* running copies of lazyssh
          Host,        \* the hosts they connect to
          Key,         \* host keys, and
          KeyType,     \* the algorithm of each
          Files,       \* what known_hosts may hold at first
          HandEdited,  \* may its last line lack its newline?
          None,        \* no file, no host, no key
          MaxOpens,    \* bound: connections asked for
          MaxRekeys    \* bound: times a server shows another key

\* A line of known_hosts; a revoked key is revoked for every host.
Line == [host : Host, key : Key, revoked : BOOLEAN]

ASSUME TrustAssumption ==
    /\ KeyType \in [Key -> STRING]
    /\ Files \subseteq {None} \cup Seq(Line)
    /\ HandEdited \in BOOLEAN
    /\ None \notin Host \cup Key
    /\ None \notin Seq(Line)
    /\ MaxOpens \in Nat /\ MaxRekeys \in Nat

VARIABLES
    file,       \* the valid lines of known_hosts, or None
    tail,       \* how it ends: "newline", "open" (a line without), "junk"
    serverKey,  \* the key each server shows
    pc,         \* where the connection of each instance stands
    host,       \* the host it is for
    db,         \* the lines of known_hosts it loaded, or None
    captured,   \* the key it shows the user
    verified,   \* the key it has accepted, and may authenticate to
    retried,    \* has the user been asked for a password?
    agent,      \* is the agent's connection of this attempt open?
    leaked,     \* is one open that no attempt will close?
    opens, rekeys,
    \* history: the lines known_hosts had at first, the keys the user said to
    \* trust, those accepted since the user removed an entry like them
    given, trusted, accepted

kh   == <<file, tail>>
conn == <<host, db, captured, verified, retried>>
hist == <<given, trusted, accepted>>
agents == <<agent, leaked>>
env  == <<serverKey, opens, rekeys>>
vars == <<kh, env, pc, conn, agents, hist>>

LinesOf(f) == IF f = None THEN {} ELSE {f[i] : i \in DOMAIN f}

Init ==
    /\ file \in Files
    /\ tail \in {"newline"} \cup (IF HandEdited /\ LinesOf(file) # {} THEN {"open"} ELSE {})
    /\ serverKey \in [Host -> Key]
    /\ pc = [p \in Instance |-> "idle"]
    /\ host = [p \in Instance |-> None] /\ db = [p \in Instance |-> None]
    /\ captured = [p \in Instance |-> None] /\ verified = [p \in Instance |-> None]
    /\ retried = [p \in Instance |-> FALSE] 
    /\ agent = [p \in Instance |-> FALSE] /\ leaked = FALSE
    /\ opens = 0 /\ rekeys = 0
    /\ given = LinesOf(file) /\ trusted = {}
    /\ accepted = [h \in Host |-> {}]

-------------------------------------------------------------------------------
(* What a loaded known_hosts says of a key.                                *)

\* The line that decides for keys of k's algorithm: the first one.
Decides(f, h, k, i) ==
    /\ f[i].host = h /\ ~f[i].revoked /\ KeyType[f[i].key] = KeyType[k]
    /\ \A j \in 1 .. i - 1 : f[j].host = h /\ ~f[j].revoked => KeyType[f[j].key] # KeyType[k]

\* That line has the key k.
Holds(f, h, k) == \E i \in 1 .. Len(f) : Decides(f, h, k, i) /\ f[i].key = k

Revoked(f, k) == \E i \in DOMAIN f : f[i].revoked /\ f[i].key = k

Named(f, h) == \E i \in DOMAIN f : f[i].host = h /\ ~f[i].revoked

\* Faulty: any line with the key will do, and another key is merely unknown.
VerdictOfAny(f, h, k) ==
    IF f # None /\ \E i \in DOMAIN f : f[i] = [host |-> h, key |-> k, revoked |-> FALSE]
    THEN "ok" ELSE "unknown"

\* The strict callback: a revoked key counts as unknown.
Verdict(f, h, k) ==
    IF f = None THEN "unknown"
    ELSE IF Revoked(f, k) \/ ~Named(f, h) THEN "unknown"
    ELSE IF Holds(f, h, k) THEN "ok"
    ELSE "changed"

-------------------------------------------------------------------------------
(* Connect, step by step.                                                  *)

Goes(p, from, to) == pc[p] = from /\ pc' = [pc EXCEPT ![p] = to]

Begin(p, h) ==
    /\ opens < MaxOpens
    /\ opens' = opens + 1
    /\ Goes(p, "idle", "auth")
    /\ host' = [host EXCEPT ![p] = h]
    /\ retried' = [retried EXCEPT ![p] = FALSE]
    /\ UNCHANGED <<kh, serverKey, rekeys, db, captured, verified, agents, hist>>

OpensAgent(p) == agent' = [agent EXCEPT ![p] = TRUE] /\ UNCHANGED leaked

\* With an agent that holds keys, its connection stays open.
BuildAuth(p) ==
    /\ \/ Goes(p, "auth", "load") /\ UNCHANGED agents
       \/ Goes(p, "auth", "load") /\ OpensAgent(p)
       \/ Goes(p, "auth", "autherr") /\ UNCHANGED agents
       \/ Goes(p, "auth", "err") /\ UNCHANGED agents
    /\ UNCHANGED <<kh, env, conn, hist>>

Load(p) ==
    /\ \/ Goes(p, "load", "dial") /\ db' = [db EXCEPT ![p] = file]
       \/ Goes(p, "load", "err") /\ UNCHANGED db
    /\ UNCHANGED <<kh, env, host, captured, verified, retried, agents, hist>>

\* The handshake accepted the key; authentication follows.
Accepts(p, k) ==
    /\ verified' = [verified EXCEPT ![p] = k]
    /\ accepted' = [accepted EXCEPT ![host[p]] = @ \cup {k}]

DialFails(p) ==
    /\ Goes(p, "dial", "err") \/ Goes(p, "redial", "err")
    /\ UNCHANGED <<kh, env, conn, agents, hist>>

Dial(p) ==
    LET k == serverKey[host[p]]
        v == Verdict(db[p], host[p], k)
    IN  /\ Goes(p, "dial", IF v = "ok" THEN "login"
                            ELSE IF v = "unknown" THEN "ask" ELSE "err")
        /\ IF v = "ok" THEN Accepts(p, k) ELSE UNCHANGED <<verified, accepted>>
        /\ captured' = [captured EXCEPT ![p] = k]
        /\ UNCHANGED <<kh, env, host, db, retried, agents, given, trusted>>

Trust(p) ==
    /\ Goes(p, "ask", "append")
    /\ trusted' = trusted \cup {<<host[p], captured[p]>>}
    /\ UNCHANGED <<kh, env, conn, agents, given, accepted>>

Abort(p) ==
    /\ Goes(p, "ask", "err")
    /\ UNCHANGED <<kh, env, conn, agents, hist>>

\* What becomes of the lines before when text follows: the last one may not be
\* valid any more if it lacked its newline.
Kept ==
    IF file = None THEN {<<>>}
    ELSE {file} \cup (IF tail = "open" THEN {SubSeq(file, 1, Len(file) - 1)} ELSE {})

\* A line is one of its own only after a newline.
AppendHost(p) ==
    LET l == [host |-> host[p], key |-> captured[p], revoked |-> FALSE]
    IN  /\ Goes(p, "append", "reload")
        /\ \E f \in Kept : file' = IF tail = "newline" THEN Append(f, l) ELSE f
        /\ tail' = "newline"
        /\ UNCHANGED <<env, conn, agents, hist>>

\* The file cannot be opened, or the disk is full in the middle of the line.
AppendFails(p) ==
    /\ Goes(p, "append", "err")
    /\ \/ UNCHANGED kh
       \/ file' \in Kept /\ tail' = "junk"
    /\ UNCHANGED <<env, conn, agents, hist>>

Reload(p) ==
    /\ \/ /\ file # None
          /\ Goes(p, "reload", "redial")
          /\ db' = [db EXCEPT ![p] = file]
       \/ Goes(p, "reload", "err") /\ UNCHANGED db
    /\ UNCHANGED <<kh, env, host, captured, verified, retried, agents, hist>>

\* Faulty: the user has answered, so the second handshake checks nothing.
RedialUnchecked(p) ==
    /\ Goes(p, "redial", "login")
    /\ Accepts(p, serverKey[host[p]])
    /\ UNCHANGED <<kh, env, host, db, captured, retried, agents, given, trusted>>

\* Faulty: the second handshake compares with the answer, not with the file.
RedialByAnswer(p) ==
    /\ Goes(p, "redial", "login")
    /\ serverKey[host[p]] = captured[p]
    /\ Accepts(p, captured[p])
    /\ UNCHANGED <<kh, env, host, db, captured, retried, agents, given, trusted>>

\* The second handshake, and the last: nobody is asked again.
Redial(p) ==
    LET k == serverKey[host[p]]
    IN  IF Verdict(db[p], host[p], k) = "ok"
        THEN /\ Goes(p, "redial", "login")
             /\ Accepts(p, k)
             /\ UNCHANGED <<kh, env, host, db, captured, retried, agents, given, trusted>>
        ELSE /\ Goes(p, "redial", "err")
             /\ UNCHANGED <<kh, env, conn, agents, hist>>

Ends(p) == verified' = [verified EXCEPT ![p] = None]

LoggedIn(p) ==
    /\ Goes(p, "login", "connected")
    /\ UNCHANGED <<kh, env, conn, agents, hist>>

\* Faulty: both failures count as one that is neither.
LoginFailsUnsorted(p) ==
    /\ Goes(p, "login", "failed")
    /\ Ends(p)
    /\ UNCHANGED <<kh, env, host, db, captured, retried, agents, hist>>

\* Authentication, or the SFTP subsystem, is refused.
LoginFails(p) ==
    /\ Goes(p, "login", "autherr") \/ Goes(p, "login", "err")
    /\ Ends(p)
    /\ UNCHANGED <<kh, env, host, db, captured, retried, agents, hist>>

-------------------------------------------------------------------------------
(* Its caller: one retry with a password, if authentication failed.        *)

Returns(p, from) ==
    /\ Goes(p, from, "idle")
    /\ host' = [host EXCEPT ![p] = None] /\ db' = [db EXCEPT ![p] = None]
    /\ captured' = [captured EXCEPT ![p] = None]
    /\ Ends(p)
    /\ retried' = [retried EXCEPT ![p] = FALSE]
    /\ UNCHANGED <<kh, env, hist>>

\* Connect has returned an error, and nobody knows of the agent any more.
LosesAgent(p) ==
    /\ agent' = [agent EXCEPT ![p] = FALSE]
    /\ leaked' = (leaked \/ agent[p])

ShowError(p) ==
    /\ Returns(p, "err") \/ Returns(p, "autherr")
    /\ LosesAgent(p)

EnterPassword(p) ==
    /\ ~retried[p]
    /\ Goes(p, "autherr", "auth")
    /\ retried' = [retried EXCEPT ![p] = TRUE]
    /\ LosesAgent(p)
    /\ UNCHANGED <<kh, env, host, db, captured, verified, hist>>

Close(p) ==
    /\ Returns(p, "connected")
    /\ agent' = [agent EXCEPT ![p] = FALSE]
    /\ UNCHANGED leaked

-------------------------------------------------------------------------------
(* The world: a server is reinstalled or impersonated; the user removes an *)
(* old entry, as the message about a changed key says.                     *)

Rekey(h, k) ==
    /\ rekeys < MaxRekeys /\ k # serverKey[h]
    /\ rekeys' = rekeys + 1
    /\ serverKey' = [serverKey EXCEPT ![h] = k]
    /\ UNCHANGED <<kh, opens, pc, conn, agents, hist>>

\* What was accepted of the entry's host and algorithm is not held against the
\* next key any more.
Forget ==
    /\ \A p \in Instance : pc[p] = "idle"
    /\ file # None
    /\ \E i \in DOMAIN file :
         /\ ~file[i].revoked
         /\ file' = SubSeq(file, 1, i - 1) \o SubSeq(file, i + 1, Len(file))
         /\ accepted' = [accepted EXCEPT ![file[i].host] =
                            {k \in @ : KeyType[k] # KeyType[file[i].key]}]
    /\ tail' = "newline"
    /\ UNCHANGED <<env, pc, conn, agents, given, trusted>>

-------------------------------------------------------------------------------

ConnectStep(p) ==
    \/ BuildAuth(p) \/ Load(p) \/ Dial(p) \/ DialFails(p) \/ Trust(p) \/ Abort(p)
    \/ AppendHost(p) \/ AppendFails(p) \/ Reload(p) \/ Redial(p)
    \/ LoggedIn(p) \/ LoginFails(p)
    \/ ShowError(p) \/ EnterPassword(p) \/ Close(p)

Next ==
    \/ \E p \in Instance : ConnectStep(p) \/ \E h \in Host : Begin(p, h)
    \/ \E h \in Host, k \in Key : Rekey(h, k)
    \/ Forget

Spec == Init /\ [][Next]_vars

-------------------------------------------------------------------------------
(* What a connection must guarantee.                                       *)

KeyOrNone == Key \cup {None}

TypeOK ==
    /\ file \in {None} \cup Seq(Line)
    /\ tail \in {"newline", "open", "junk"}
    /\ serverKey \in [Host -> Key]
    /\ pc \in [Instance -> {"idle", "auth", "load", "dial", "ask", "append", "reload",
                            "redial", "login", "connected", "err", "autherr"}]
    /\ host \in [Instance -> Host \cup {None}]
    /\ db \in [Instance -> {None} \cup Seq(Line)]
    /\ captured \in [Instance -> KeyOrNone] /\ verified \in [Instance -> KeyOrNone]
    /\ retried \in [Instance -> BOOLEAN]
    /\ agent \in [Instance -> BOOLEAN] /\ leaked \in BOOLEAN
    /\ opens \in 0 .. MaxOpens /\ rekeys \in 0 .. MaxRekeys
    /\ given \subseteq Line /\ trusted \subseteq Host \X Key
    /\ accepted \in [Host -> SUBSET Key]

(* A password or a signature goes only to a server whose key known_hosts   *)
(* held from the beginning or the user agreed to, shown by its fingerprint,*)
(* even if the server shows another key to the second handshake            *)
(* (sftp.go:66-75, 112-137).                                               *)
OnlyTrustedIsAccepted ==
    \A h \in Host : \A k \in accepted[h] :
        \/ [host |-> h, key |-> k, revoked |-> FALSE] \in given
        \/ <<h, k>> \in trusted

(* Once a key of a host is accepted, no other key of its algorithm is, in  *)
(* whatever instance and whatever the user answers, until the user removes *)
(* its entry: two instances that ask about one host at a time do not both  *)
(* succeed with different keys (sftp.go:94-96, 127-136).                   *)
ChangedKeyIsRefused ==
    \A h \in Host : \A k, l \in accepted[h] : KeyType[k] = KeyType[l] => k = l

(* A key that known_hosts revokes is never accepted, although the question *)
(* about it is that of an unknown host, and the user may say yes           *)
(* (sftp.go:99-101, 135).                                                  *)
RevokedIsRefused ==
    \A l \in given : l.revoked => \A h \in Host : l.key \notin accepted[h]

-------------------------------------------------------------------------------
(* The invariant that carries the proofs of HostTrustProofs.               *)

Sanctioned(h, k) ==
    \/ [host |-> h, key |-> k, revoked |-> FALSE] \in given
    \/ <<h, k>> \in trusted

\* Where an attempt stands says what it knows.
AttemptInv ==
    \A p \in Instance :
        /\ pc[p] = "idle" => db[p] = None
        /\ pc[p] # "idle" => host[p] \in Host
        /\ pc[p] \in {"ask", "append"} => captured[p] \in Key
        /\ pc[p] = "append" => <<host[p], captured[p]>> \in trusted

\* No copy of known_hosts names a key that nobody vouched for.
Vouched(f) == \A l \in LinesOf(f) : l.revoked \/ Sanctioned(l.host, l.key)

SanctionInv == Vouched(file) /\ \A p \in Instance : Vouched(db[p])

\* Faulty file endings apart, what an attempt has loaded is how the file begins.
PrefixInv ==
    /\ tail # "open"
    /\ \A p \in Instance : db[p] # None =>
           /\ file # None /\ Len(db[p]) <= Len(file)
           /\ \A i \in 1 .. Len(db[p]) : db[p][i] = file[i]

\* A revocation stays, and every handshake sees it.
RevokedInv ==
    \A l \in given : l.revoked =>
        /\ l \in LinesOf(file)
        /\ \A p \in Instance : pc[p] \in {"dial", "redial"} => l \in LinesOf(db[p])

\* The entry that let a key be accepted still decides for its algorithm.
DecidedInv ==
    \A h \in Host : \A k \in accepted[h] :
        file # None /\ Holds(file, h, k)

(* What every step keeps, of the attempts and of the file, so that the     *)
(* three properties above hold (sftp.go:50-140, 433-447).                  *)
TrustInv ==
    /\ AttemptInv /\ SanctionInv /\ OnlyTrustedIsAccepted
    /\ ~HandEdited => PrefixInv /\ RevokedInv /\ RevokedIsRefused /\ DecidedInv

===============================================================================
