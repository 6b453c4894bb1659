------------------------------ MODULE Connecting ------------------------------
(***************************************************************************)
(* The pages of lazyssh and what is on them while it connects              *)
(* (internal/ui/app.go, internal/ssh/terminal.go).                         *)
(*                                                                         *)
(* What the user sees is a page, the host list, the form or the file       *)
(* browser, and overlays on it, one for each name.  Every attempt to       *)
(* connect has a goroutine, which asks, waits and reports by overlays.     *)
(* A key or a report is one step: both run on the UI's goroutine.          *)
(***************************************************************************)
EXTENDS Naturals, Sequences, FiniteSets, SequencesExt

CONSTANTS Attempt,      \* attempts to connect, of which each may be made again
          Nobody,       \* no attempt
          MaxShells     \* bound: ssh clients at work at once

ASSUME ConnectingAssumption ==
    IsFiniteSet(Attempt) /\ Nobody \notin Attempt /\ MaxShells \in Nat

VARIABLES
    att,            \* the attempts
    base,           \* the page SwitchToPage was last called with
    overlays,       \* the overlays, from the bottom
    focus,          \* the page that gets the keys
    master,         \* is there a master password?
    shells,         \* the ssh clients launched whose failure is reported
    fallbacks,      \* those whose failure is not
    suspended,      \* has one of them the terminal?
    leftSelector,   \* history: did the selector, when it was left, give the focus to
                    \* the host list behind another page, which is still there?
    crossed         \* history: were two of them at work at once?

screen == <<base, overlays, focus, leftSelector>>
terminal == <<shells, fallbacks, suspended>>
vars == <<att, screen, master, terminal, crossed>>

Base == {"hosts", "form", "browser"}

\* The overlays, each on the page it is added as.
PageOf == [info |-> "modal", error |-> "modal", trust |-> "modal", deploy |-> "modal",
           confirm |-> "modal", shell |-> "modal", choose |-> "modal",
           name |-> "input", password |-> "input", session |-> "input",
           master |-> "masterpwd", sessions |-> "sessions"]

Overlay == [kind : DOMAIN PageOf, by : Attempt \cup {Nobody}]

Asking == {"master", "trust", "password", "deploy"}

\* The steps in which an attempt has a goroutine that will report.
Busy == {"decide", "dial", "redial", "refused", "prepare", "announce", "upload", "list"}

AtRest == [pc |-> "idle", op |-> "files", encrypted |-> FALSE, retried |-> FALSE]

Init ==
    /\ att = [c \in Attempt |-> AtRest]
    /\ base = "hosts" /\ overlays = <<>> /\ focus = "hosts"
    /\ master = FALSE /\ shells = 0 /\ fallbacks = 0 /\ suspended = FALSE
    /\ leftSelector = FALSE /\ crossed = FALSE

-------------------------------------------------------------------------------
(* Pages.                                                                  *)

Page(o) == PageOf[o.kind]

Without(page, s) ==
    IF \E i \in DOMAIN s : Page(s[i]) = page
    THEN RemoveAt(s, CHOOSE i \in DOMAIN s : Page(s[i]) = page)
    ELSE s

\* Faulty: a page of the same name stays below.
AddAnother(kind, c, s) == Append(s, [kind |-> kind, by |-> c])

\* A page of the same name is replaced.
Add(kind, c, s) == Append(Without(PageOf[kind], s), [kind |-> kind, by |-> c])

FrontPage(b, s) == IF s = <<>> THEN b ELSE Page(Last(s))

RemoveModal(s) == IF s # <<>> /\ Page(Last(s)) = "modal" THEN Front(s) ELSE s

\* To add or to remove a page gives the focus to the page in front.
Show(s) ==
    /\ overlays' = s /\ focus' = FrontPage(base, s)
    /\ UNCHANGED <<base, leftSelector>>

\* All the other pages are hidden, for good.
SwitchTo(b) ==
    /\ base' = b /\ overlays' = <<>> /\ focus' = b
    /\ leftSelector' = FALSE

\* The host list gets the focus, whatever is in front of it.
ShowAndFocusHosts(s) == overlays' = s /\ focus' = "hosts" /\ UNCHANGED base

CloseSelector(s) ==
    LET left == Without("sessions", s) IN
    /\ ShowAndFocusHosts(left)
    /\ leftSelector' = (leftSelector \/ FrontPage(base, left) # "hosts")

\* A key for an overlay of this kind and attempt.
Key(kind, c) ==
    /\ ~suspended
    /\ \E i \in DOMAIN overlays : /\ overlays[i] = [kind |-> kind, by |-> c]
                                  /\ focus = Page(overlays[i])

KeyOn(page) == ~suspended /\ focus = page

AtWork == {c \in Attempt : att[c].pc # "idle"}

Goes(c, pc) == att' = [att EXCEPT ![c].pc = pc]

Ends(c) == att' = [att EXCEPT ![c] = AtRest]

\* What every step ends with.
Watch == crossed' = (crossed \/ Cardinality(AtWork') + shells' + fallbacks' > 1)

-------------------------------------------------------------------------------
(* The dialogs of the host list and of the browser.                        *)

OpenForm ==
    /\ KeyOn("hosts")
    /\ SwitchTo("form")
    /\ UNCHANGED <<att, master, terminal>>

InvalidForm ==
    /\ KeyOn("form")
    /\ Show(Add("error", Nobody, overlays))
    /\ UNCHANGED <<att, master, terminal>>

CloseForm ==
    /\ KeyOn("form")
    /\ SwitchTo("hosts")
    /\ UNCHANGED <<att, master, terminal>>

CloseBrowser ==
    /\ KeyOn("browser")
    /\ SwitchTo("hosts")
    /\ UNCHANGED <<att, master, terminal>>

\* A question, or a prompt for a name or a path.
OpenDialog(kind) ==
    /\ KeyOn("hosts") \/ KeyOn("browser")
    /\ Show(Add(kind, Nobody, overlays))
    /\ UNCHANGED <<att, master, terminal>>

\* What is confirmed may fail.
AnswerConfirm ==
    /\ Key("confirm", Nobody)
    /\ LET s == RemoveModal(overlays)
       IN Show(s) \/ Show(Add("error", Nobody, s))
    /\ UNCHANGED <<att, master, terminal>>

\* The path may be wrong.
AnswerName ==
    /\ Key("name", Nobody)
    /\ LET s == Without("input", overlays)
       IN Show(s) \/ Show(Add("error", Nobody, s))
    /\ UNCHANGED <<att, master, terminal>>

\* Faulty: it gives the focus to the host list, as the chooser does.
PressOKToTheHosts ==
    /\ Key("error", Nobody)
    /\ overlays' = RemoveModal(overlays) /\ focus' = "hosts"
    /\ UNCHANGED <<att, base, leftSelector, master, terminal>>

PressOK ==
    /\ Key("error", Nobody)
    /\ Show(RemoveModal(overlays))
    /\ UNCHANGED <<att, master, terminal>>

DialogNext ==
    \/ OpenForm \/ InvalidForm \/ CloseForm \/ CloseBrowser
    \/ \E k \in {"confirm", "name"} : OpenDialog(k)
    \/ AnswerConfirm \/ AnswerName \/ PressOK

-------------------------------------------------------------------------------
(* Shells.  A goroutine runs ssh; until it has suspended the interface,    *)
(* keys still come.                                                        *)

HasRoom == shells + fallbacks < MaxShells

Launch == HasRoom /\ shells' = shells + 1 /\ UNCHANGED <<fallbacks, suspended>>

LaunchFallback == HasRoom /\ fallbacks' = fallbacks + 1 /\ UNCHANGED <<shells, suspended>>

ShellGone ==
    /\ shells > 0 /\ shells' = shells - 1
    /\ suspended' = FALSE /\ UNCHANGED fallbacks

OpenPlainSSH ==
    /\ KeyOn("hosts")
    /\ Launch
    /\ UNCHANGED <<att, screen, master>>

TakeTerminal ==
    /\ shells > 0 \/ fallbacks > 0
    /\ suspended' = TRUE
    /\ UNCHANGED <<att, screen, master, shells, fallbacks>>

\* There is no ssh.
ShellFails ==
    /\ ShellGone
    /\ Show(Add("error", Nobody, overlays))
    /\ UNCHANGED <<att, master>>

ShellEnds ==
    /\ ShellGone
    /\ UNCHANGED <<att, screen, master>>

FallbackEnds ==
    /\ fallbacks > 0 /\ fallbacks' = fallbacks - 1
    /\ suspended' = FALSE
    /\ UNCHANGED <<att, screen, master, shells>>

ShellNext ==
    \/ OpenPlainSSH \/ TakeTerminal
    \/ ShellFails \/ ShellEnds \/ FallbackEnds

-------------------------------------------------------------------------------
(* To connect.                                                             *)

Begins(c, op) ==
    /\ att[c].pc = "idle"
    /\ \E e \in BOOLEAN :
         att' = [att EXCEPT ![c] = [pc |-> "decide", op |-> op, encrypted |-> e,
                                    retried |-> FALSE]]

OpenFileBrowser(c) ==
    /\ KeyOn("hosts") /\ Begins(c, "files")
    /\ Show(Add("info", Nobody, overlays))
    /\ UNCHANGED <<master, terminal>>

ChooseSSHMode ==
    /\ KeyOn("hosts")
    /\ Show(Add("choose", Nobody, overlays))
    /\ UNCHANGED <<att, master, terminal>>

ChooseSessions(c) ==
    /\ Key("choose", Nobody) /\ Begins(c, "session")
    /\ Show(Add("info", Nobody, overlays))
    /\ UNCHANGED <<master, terminal>>

ChoosePlain ==
    /\ Key("choose", Nobody)
    /\ ShowAndFocusHosts(RemoveModal(overlays)) /\ UNCHANGED leftSelector
    /\ Launch
    /\ UNCHANGED <<att, master>>

ChooseCancel ==
    /\ Key("choose", Nobody)
    /\ ShowAndFocusHosts(RemoveModal(overlays)) /\ UNCHANGED leftSelector
    /\ UNCHANGED <<att, master, terminal>>

\* The browser's terminal key.
OpenTerminal(c) ==
    /\ KeyOn("browser") /\ Begins(c, "session")
    /\ Show(Add("info", Nobody, overlays))
    /\ UNCHANGED <<master, terminal>>

StartNext ==
    \/ \E c \in Attempt : OpenFileBrowser(c) \/ ChooseSessions(c) \/ OpenTerminal(c)
    \/ ChooseSSHMode \/ ChoosePlain \/ ChooseCancel

-------------------------------------------------------------------------------
(* The goroutine of an attempt, up to the connection.                      *)

NeedsMaster(c) == att[c].encrypted /\ ~att[c].retried

\* Faulty: what says that it connects stays below the prompt.
AskMasterOverInfo(c) ==
    /\ att[c].pc = "decide" /\ NeedsMaster(c) /\ ~master
    /\ Goes(c, "master")
    /\ Show(Add("master", c, overlays))
    /\ UNCHANGED <<master, terminal>>

\* The goroutine ends, and with it what is on the modal page.
AskMaster(c) ==
    /\ att[c].pc = "decide" /\ NeedsMaster(c) /\ ~master
    /\ Goes(c, "master")
    /\ Show(Add("master", c, Without("modal", overlays)))
    /\ UNCHANGED <<master, terminal>>

\* Nothing says that it connects again.  What was typed may be empty.
EnterMaster(c) ==
    /\ Key("master", c)
    /\ Goes(c, "decide") /\ master' \in BOOLEAN
    /\ Show(Without("masterpwd", overlays))
    /\ UNCHANGED terminal

CancelMaster(c) ==
    /\ Key("master", c)
    /\ Ends(c)
    /\ Show(Without("masterpwd", overlays))
    /\ UNCHANGED <<master, terminal>>

DecryptFails(c) ==
    /\ att[c].pc = "decide" /\ NeedsMaster(c) /\ master
    /\ Ends(c) /\ master' = FALSE
    /\ Show(Add("error", Nobody, overlays))
    /\ UNCHANGED terminal

Dial(c) ==
    /\ att[c].pc = "decide" /\ (NeedsMaster(c) => master)
    /\ Goes(c, "dial")
    /\ UNCHANGED <<screen, master, terminal>>

ShowUnknownHost(c) ==
    /\ att[c].pc = "dial"
    /\ Goes(c, "trust")
    /\ Show(Add("trust", c, overlays))
    /\ UNCHANGED <<master, terminal>>

\* Nothing says that it dials once more.
AnswerTrust(c) ==
    /\ Key("trust", c)
    /\ Goes(c, "redial") \/ Goes(c, "refused")
    /\ Show(RemoveModal(overlays))
    /\ UNCHANGED <<master, terminal>>

ConnectFails(c) ==
    /\ att[c].pc \in {"dial", "redial", "refused"}
    /\ Ends(c)
    /\ Show(Add("error", Nobody, RemoveModal(overlays)))
    /\ UNCHANGED <<master, terminal>>

\* The password is asked for once.
AuthFails(c) ==
    /\ att[c].pc \in {"dial", "redial"} /\ ~att[c].retried
    /\ Goes(c, "password")
    /\ Show(Add("password", c, RemoveModal(overlays)))
    /\ UNCHANGED <<master, terminal>>

EnterPassword(c) ==
    /\ Key("password", c)
    /\ att' = [att EXCEPT ![c].pc = "decide", ![c].retried = TRUE]
    /\ Show(Add("info", Nobody, Without("input", overlays)))
    /\ UNCHANGED <<master, terminal>>

\* Cancelled, or left empty.
NoPassword(c) ==
    /\ Key("password", c)
    /\ Ends(c)
    /\ LET s == Without("input", overlays)
       IN Show(s) \/ Show(Add("error", Nobody, s))
    /\ UNCHANGED <<master, terminal>>

\* The browser takes the place of all that is there.
ConnectedFiles(c) ==
    /\ att[c].pc \in {"dial", "redial"} /\ att[c].op = "files"
    /\ Ends(c)
    /\ SwitchTo("browser")
    /\ UNCHANGED <<master, terminal>>

ConnectedSession(c) ==
    /\ att[c].pc \in {"dial", "redial"} /\ att[c].op = "session"
    /\ Goes(c, "prepare")
    /\ Show(Add("info", Nobody, RemoveModal(overlays)))
    /\ UNCHANGED <<master, terminal>>

ConnectNext(c) ==
    \/ AskMaster(c) \/ EnterMaster(c) \/ CancelMaster(c) \/ DecryptFails(c) \/ Dial(c)
    \/ ShowUnknownHost(c) \/ AnswerTrust(c)
    \/ ConnectFails(c) \/ AuthFails(c) \/ EnterPassword(c) \/ NoPassword(c)
    \/ ConnectedFiles(c) \/ ConnectedSession(c)

-------------------------------------------------------------------------------
(* The session selector.                                                   *)

\* No helper is built for this machine.
Unsupported(c) ==
    /\ att[c].pc = "prepare"
    /\ Ends(c)
    /\ IF FrontPage(base, overlays) = "modal" THEN Show(RemoveModal(overlays))
                                              ELSE UNCHANGED screen
    /\ LaunchFallback
    /\ UNCHANGED master

\* The home directory is not known, or the upload fails.
PrepareFails(c) ==
    /\ att[c].pc \in {"prepare", "upload"}
    /\ Ends(c)
    /\ Show(Add("error", Nobody, RemoveModal(overlays)))
    /\ UNCHANGED <<master, terminal>>

\* This build has none: a plain shell instead?
NoHelper(c) ==
    /\ att[c].pc = "prepare"
    /\ Ends(c)
    /\ Show(Add("shell", Nobody, RemoveModal(overlays)))
    /\ UNCHANGED <<master, terminal>>

AnswerShell ==
    /\ Key("shell", Nobody)
    /\ Show(RemoveModal(overlays))
    /\ LaunchFallback \/ UNCHANGED terminal
    /\ UNCHANGED <<att, master>>

HelperReady(c) ==
    /\ att[c].pc \in {"prepare", "upload"}
    /\ Goes(c, "list")
    /\ UNCHANGED <<screen, master, terminal>>

\* Faulty: the modal page is removed once the question is there.
AskDeployRemoved(c) ==
    /\ att[c].pc = "prepare"
    /\ Goes(c, "deploy")
    /\ Show(RemoveModal(Add("deploy", c, overlays)))
    /\ UNCHANGED <<master, terminal>>

AskDeploy(c) ==
    /\ att[c].pc = "prepare"
    /\ Goes(c, "deploy")
    /\ Show(Add("deploy", c, RemoveModal(overlays)))
    /\ UNCHANGED <<master, terminal>>

AnswerDeploy(c) ==
    /\ Key("deploy", c)
    /\ Goes(c, "announce") \/ Ends(c)
    /\ Show(RemoveModal(overlays))
    /\ UNCHANGED <<master, terminal>>

Announce(c) ==
    /\ att[c].pc = "announce"
    /\ Goes(c, "upload")
    /\ Show(Add("info", Nobody, overlays))
    /\ UNCHANGED <<master, terminal>>

ShowSelector(c) ==
    /\ att[c].pc = "list"
    /\ Ends(c)
    /\ Show(Add("sessions", Nobody, RemoveModal(overlays)))
    /\ UNCHANGED <<master, terminal>>

\* Esc, or a session: ssh runs it.
LeaveSelector ==
    /\ Key("sessions", Nobody)
    /\ CloseSelector(overlays)
    /\ Launch \/ UNCHANGED terminal
    /\ UNCHANGED <<att, master>>

NewSession ==
    /\ Key("sessions", Nobody)
    /\ Show(Add("session", Nobody, Without("sessions", overlays)))
    /\ UNCHANGED <<att, master, terminal>>

NameSession ==
    /\ Key("session", Nobody)
    /\ CloseSelector(Without("input", overlays))
    /\ Launch
    /\ UNCHANGED <<att, master>>

\* Cancelled, or left empty.
NameNothing ==
    /\ Key("session", Nobody)
    /\ Show(Without("input", overlays))
    /\ UNCHANGED <<att, master, terminal>>

SelectorNext ==
    \/ \E c \in Attempt :
         \/ Unsupported(c) \/ PrepareFails(c) \/ NoHelper(c) \/ HelperReady(c)
         \/ AskDeploy(c) \/ AnswerDeploy(c) \/ Announce(c) \/ ShowSelector(c)
    \/ AnswerShell \/ LeaveSelector \/ NewSession \/ NameSession \/ NameNothing

-------------------------------------------------------------------------------

Next ==
    /\ \/ DialogNext \/ ShellNext \/ StartNext
       \/ \E c \in Attempt : ConnectNext(c)
       \/ SelectorNext
    /\ Watch

Spec == Init /\ [][Next]_vars

-------------------------------------------------------------------------------

TypeOK ==
    /\ att \in [Attempt -> [pc : Busy \cup Asking \cup {"idle"},
                            op : {"files", "session"},
                            encrypted : BOOLEAN, retried : BOOLEAN]]
    /\ base \in Base
    /\ overlays \in Seq(Overlay)
    /\ \A i, j \in DOMAIN overlays : Page(overlays[i]) = Page(overlays[j]) => i = j
    /\ focus \in Base \/ \E i \in DOMAIN overlays : focus = Page(overlays[i])
    /\ master \in BOOLEAN /\ shells \in Nat /\ fallbacks \in Nat /\ suspended \in BOOLEAN
    /\ leftSelector \in BOOLEAN /\ crossed \in BOOLEAN

(* The keys go to the page in front, until a session selector is left with *)
(* another page below it than the host list: the host list then takes the  *)
(* keys from behind, "d" for a deletion, until the page is left            *)
(* (app.go:507-510).                                                       *)
FocusFollows == leftSelector \/ focus = FrontPage(base, overlays)

(* An attempt that waits for an answer has its question in front and with  *)
(* the keys, as long as no other attempt and no shell was there to put     *)
(* something else in its place (app.go:144-149, 455-469).                  *)
WaitsOnScreen ==
    ~crossed =>
        \A c \in Attempt : att[c].pc \in Asking =>
            /\ overlays # <<>> /\ Last(overlays) = [kind |-> att[c].pc, by |-> c]
            /\ focus = Page(Last(overlays))

(* A dialog without a button is on the screen only while somebody is at    *)
(* work who will take it away: else the keyboard is dead (app.go:191-194). *)
InfoHasWorker ==
    ~crossed /\ (\E i \in DOMAIN overlays : overlays[i].kind = "info") =>
        \E c \in Attempt : att[c].pc \in Busy

===============================================================================
