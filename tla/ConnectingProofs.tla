--------------------------- MODULE ConnectingProofs ---------------------------
(***************************************************************************)
(* What Connecting says of the keys, of questions and of dialogs without a *)
(* button holds for any number of attempts to connect.                     *)
(*                                                                         *)
(* The first part is about stacks of overlays, the second sorts the steps  *)
(* by what they do to the screen, the third follows one attempt.           *)
(***************************************************************************)
EXTENDS Connecting, SequenceTheorems, FiniteSetTheorems, TLAPS

-------------------------------------------------------------------------------
(* Stacks of overlays.                                                     *)

\* One overlay for each page.
Proper(s) ==
    /\ s \in Seq(Overlay)
    /\ \A i, j \in DOMAIN s : Page(s[i]) = Page(s[j]) => i = j

\* t has overlays of s, none of which has moved up.
From(t, s) ==
    /\ Proper(t)
    /\ \A i \in DOMAIN t : \E j \in DOMAIN s : i <= j /\ t[i] = s[j]

\* t has them and o in front.
Adds(t, s, o) ==
    /\ Proper(t) /\ t # <<>> /\ Last(t) = o
    /\ \A i \in DOMAIN t : i # Len(t) => \E j \in DOMAIN s : i <= j /\ t[i] = s[j]

(* To remove an overlay moves down those above it.                         *)
LEMMA RemoveOverlay ==
    ASSUME NEW s \in Seq(Overlay), NEW k \in 1 .. Len(s), NEW t, t = RemoveAt(s, k)
    PROVE  /\ t \in Seq(Overlay) /\ Len(t) = Len(s) - 1
           /\ \A j \in 1 .. Len(s) - 1 : t[j] = IF j < k THEN s[j] ELSE s[j + 1]
  <1> DEFINE a == SubSeq(s, 1, k - 1)
             b == SubSeq(s, k + 1, Len(s))
  <1>1. k \in Nat /\ Len(s) \in Nat /\ 1 <= k /\ k <= Len(s)
    OBVIOUS
  <1>2. /\ a \in Seq(Overlay) /\ Len(a) = k - 1
        /\ \A j \in 1 .. k - 1 : a[j] = s[j]
    BY <1>1, SubSeqProperties
  <1>3. /\ b \in Seq(Overlay) /\ Len(b) = Len(s) - k
        /\ \A j \in 1 .. Len(s) - k : b[j] = s[k + j]
    BY <1>1, SubSeqProperties
  <1>4. t = a \o b
    BY DEF RemoveAt
  <1> HIDE DEF a, b
  <1>5. /\ a \o b \in Seq(Overlay) /\ Len(a \o b) = Len(a) + Len(b)
        /\ \A j \in 1 .. Len(a) + Len(b) :
              (a \o b)[j] = IF j <= Len(a) THEN a[j] ELSE b[j - Len(a)]
    BY <1>2, <1>3, ConcatProperties, Zenon
  <1>6. Len(a) = k - 1 /\ Len(a) + Len(b) = Len(s) - 1
    BY <1>1, <1>2, <1>3
  <1>7. ASSUME NEW j \in 1 .. Len(s) - 1
        PROVE  t[j] = IF j < k THEN s[j] ELSE s[j + 1]
    <2>1. CASE j < k
      BY <1>1, <1>2, <1>4, <1>5, <1>6, <2>1
    <2>2. CASE ~(j < k)
      <3>1. j - (k - 1) \in 1 .. Len(s) - k /\ k + (j - (k - 1)) = j + 1
        BY <1>1, <2>2
      <3>2. t[j] = b[j - (k - 1)]
        BY <1>1, <1>4, <1>5, <1>6, <2>2
      <3> QED
        BY <1>3, <2>2, <3>1, <3>2
    <2> QED
      BY <2>1, <2>2
  <1> QED
    BY <1>4, <1>5, <1>6, <1>7

(* A page that is removed is gone, and nothing else is.                    *)
LEMMA WithoutPage ==
    ASSUME NEW s, Proper(s), NEW page
    PROVE  /\ From(Without(page, s), s)
           /\ \A i \in DOMAIN Without(page, s) : Page(Without(page, s)[i]) # page
  <1>1. CASE ~ \E i \in DOMAIN s : Page(s[i]) = page
    <2>1. Without(page, s) = s
      BY <1>1 DEF Without
    <2>2. DOMAIN s \subseteq Nat
      BY DEF Proper
    <2> QED
      BY <1>1, <2>1, <2>2 DEF From
  <1>2. CASE \E i \in DOMAIN s : Page(s[i]) = page
    <2> DEFINE k == CHOOSE i \in DOMAIN s : Page(s[i]) = page
               t == Without(page, s)
    <2>1. k \in DOMAIN s /\ Page(s[k]) = page
      BY <1>2
    <2>2. t = RemoveAt(s, k)
      BY <1>2 DEF Without
    <2> HIDE DEF k, t
    <2>3. s \in Seq(Overlay) /\ Len(s) \in Nat /\ DOMAIN s = 1 .. Len(s)
      BY DEF Proper
    <2>4. k \in 1 .. Len(s)
      BY <2>1, <2>3
    <2>5. /\ t \in Seq(Overlay) /\ Len(t) = Len(s) - 1
          /\ \A j \in 1 .. Len(s) - 1 : t[j] = IF j < k THEN s[j] ELSE s[j + 1]
      BY <2>2, <2>3, <2>4, RemoveOverlay
    <2>6. DOMAIN t = 1 .. Len(s) - 1
      BY <2>5
    <2> DEFINE up(i) == IF i < k THEN i ELSE i + 1
    <2>7. ASSUME NEW i \in DOMAIN t
          PROVE  up(i) \in DOMAIN s /\ up(i) # k /\ i <= up(i) /\ t[i] = s[up(i)]
      BY <2>3, <2>4, <2>5, <2>6
    <2>8. \A i, j \in DOMAIN t : up(i) = up(j) => i = j
      BY <2>3, <2>4, <2>6
    <2> HIDE DEF up
    <2>9. \A i \in DOMAIN t : Page(t[i]) # page
      BY <2>1, <2>7 DEF Proper
    <2>10. Proper(t)
      BY <2>5, <2>7, <2>8 DEF Proper
    <2> QED
      BY <2>7, <2>9, <2>10 DEF From, t
  <1> QED
    BY <1>1, <1>2

(* What is added is in front, and what it replaces is gone.                *)
LEMMA AddPage ==
    ASSUME NEW s, NEW u, Proper(s), From(u, s),
           NEW kind \in DOMAIN PageOf, NEW c \in Attempt \cup {Nobody}
    PROVE  Adds(Add(kind, c, u), s, [kind |-> kind, by |-> c])
  <1> DEFINE w == Without(PageOf[kind], u)
             o == [kind |-> kind, by |-> c]
             t == Append(w, o)
  <1>1. /\ From(w, u)
        /\ \A i \in DOMAIN w : Page(w[i]) # PageOf[kind]
    BY WithoutPage DEF From
  <1>2. w \in Seq(Overlay) /\ o \in Overlay /\ Page(o) = PageOf[kind]
    BY <1>1 DEF From, Proper, Overlay, Page
  <1>3. t = Add(kind, c, u)
    BY DEF Add
  <1> HIDE DEF w, o
  <1>4. /\ t \in Seq(Overlay) /\ Len(t) = Len(w) + 1 /\ Len(w) \in Nat
        /\ DOMAIN t = 1 .. Len(w) + 1 /\ DOMAIN w = 1 .. Len(w)
        /\ \A i \in DOMAIN w : t[i] = w[i]
        /\ t[Len(w) + 1] = o
    BY <1>2
  <1>5. \A i \in DOMAIN t : i = Len(w) + 1 \/ i \in DOMAIN w
    BY <1>4
  <1> HIDE DEF t
  <1>6. Proper(t)
    BY <1>1, <1>2, <1>4, <1>5 DEF Proper, From
  <1>7. t # <<>> /\ Last(t) = o
    BY <1>4 DEF Last
  <1>8. ASSUME NEW i \in DOMAIN t, i # Len(t)
        PROVE  \E j \in DOMAIN s : i <= j /\ t[i] = s[j]
    <2>1. i \in DOMAIN w /\ t[i] = w[i]
      BY <1>4, <1>5, <1>8
    <2>2. PICK j \in DOMAIN u : i <= j /\ w[i] = u[j]
      BY <1>1, <2>1 DEF From
    <2>3. PICK k \in DOMAIN s : j <= k /\ u[j] = s[k]
      BY <2>2 DEF From
    <2>4. i \in Nat /\ j \in Nat /\ k \in Nat
      BY <1>4, <2>1, <2>2, <2>3 DEF From, Proper
    <2> QED
      BY <2>1, <2>2, <2>3, <2>4
  <1> QED
    BY <1>3, <1>6, <1>7, <1>8 DEF Adds, o

(* removeModal takes away the modal page if it is in front.                *)
LEMMA RemoveModalPage ==
    ASSUME NEW s, Proper(s)
    PROVE  /\ From(RemoveModal(s), s)
           /\ s # <<>> /\ Page(Last(s)) = "modal" =>
                 /\ Len(RemoveModal(s)) = Len(s) - 1
                 /\ \A i \in DOMAIN RemoveModal(s) : Page(RemoveModal(s)[i]) # "modal"
  <1>1. s \in Seq(Overlay) /\ Len(s) \in Nat /\ DOMAIN s = 1 .. Len(s)
    BY DEF Proper
  <1>2. CASE ~(s # <<>> /\ Page(Last(s)) = "modal")
    <2>1. RemoveModal(s) = s
      BY <1>2 DEF RemoveModal
    <2>2. \A i \in DOMAIN s : i <= i
      BY <1>1
    <2> QED
      BY <1>2, <2>1, <2>2 DEF From
  <1>3. CASE s # <<>> /\ Page(Last(s)) = "modal"
    <2> DEFINE t == SubSeq(s, 1, Len(s) - 1)
    <2>1. t = RemoveModal(s) /\ Len(s) >= 1
      BY <1>1, <1>3 DEF RemoveModal, Front
    <2>2. /\ t \in Seq(Overlay) /\ Len(t) = Len(s) - 1
          /\ \A i \in 1 .. Len(s) - 1 : t[i] = s[i]
      BY <1>1, <2>1, SubSeqProperties
    <2> HIDE DEF t
    <2>3. \A i \in DOMAIN t : i \in DOMAIN s /\ i # Len(s) /\ i <= i /\ t[i] = s[i]
      BY <1>1, <2>1, <2>2
    <2>4. Len(s) \in DOMAIN s /\ Page(s[Len(s)]) = "modal"
      BY <1>1, <1>3, <2>1 DEF Last
    <2>5. \A i \in DOMAIN t : Page(t[i]) # "modal"
      BY <2>3, <2>4 DEF Proper
    <2>6. Proper(t)
      BY <2>2, <2>3 DEF Proper
    <2> QED
      BY <2>1, <2>2, <2>3, <2>5, <2>6 DEF From
  <1> QED
    BY <1>2, <1>3

-------------------------------------------------------------------------------
(* What a step does to the screen.                                         *)

AnyBy == Attempt \cup {Nobody}

ShowsLess == \E t : From(t, overlays) /\ Show(t)

ShowsMore(kinds) ==
    \E t, kind, c : /\ kind \in kinds /\ c \in AnyBy
                    /\ Adds(t, overlays, [kind |-> kind, by |-> c]) /\ Show(t)

HasKind(kind) == \E i \in DOMAIN overlays : overlays[i].kind = kind

LeavesChooser ==
    /\ focus = "modal" /\ HasKind("choose")
    /\ ShowAndFocusHosts(RemoveModal(overlays)) /\ UNCHANGED leftSelector

LeavesSelector ==
    \E t : /\ From(t, overlays) /\ ShowAndFocusHosts(t)
           /\ leftSelector' = (leftSelector \/ FrontPage(base, t) # "hosts")

ScreenStep ==
    \/ UNCHANGED screen
    \/ \E b \in Base : SwitchTo(b)
    \/ ShowsLess
    \/ ShowsMore(DOMAIN PageOf \ {"choose"})
    \/ ShowsMore({"choose"}) /\ focus = "hosts"
    \/ LeavesChooser
    \/ LeavesSelector

(* The stacks that steps show are made of overlays that are there.         *)
LEMMA FromOverlays ==
    ASSUME NEW s, Proper(s)
    PROVE  /\ From(s, s) /\ From(RemoveModal(s), s)
           /\ \A page : From(Without(page, s), s)
           /\ \A page, other : From(Without(page, Without(other, s)), s)
  <1>1. From(s, s)
    <2>1. \A i \in DOMAIN s : i <= i
      BY DEF Proper
    <2> QED
      BY <2>1 DEF From
  <1>2. ASSUME NEW page, NEW other
        PROVE  From(Without(page, Without(other, s)), s)
    <2> DEFINE u == Without(other, s)
               w == Without(page, u)
    <2>1. From(u, s)
      BY WithoutPage
    <2>2. From(w, u)
      BY <2>1, WithoutPage DEF From
    <2> HIDE DEF u, w
    <2>3. ASSUME NEW i \in DOMAIN w
          PROVE  \E j \in DOMAIN s : i <= j /\ w[i] = s[j]
      <3>1. PICK j \in DOMAIN u : i <= j /\ w[i] = u[j]
        BY <2>2 DEF From
      <3>2. PICK k \in DOMAIN s : j <= k /\ u[j] = s[k]
        BY <2>1 DEF From
      <3>3. i \in Nat /\ j \in Nat /\ k \in Nat
        BY <2>1, <2>2, <3>1, <3>2 DEF From, Proper
      <3> QED
        BY <3>1, <3>2, <3>3
    <2> QED
      BY <2>2, <2>3 DEF From, u, w
  <1> QED
    BY <1>1, <1>2, RemoveModalPage, WithoutPage

(* The same for what is added to them.                                     *)
LEMMA AddOverlay ==
    ASSUME Proper(overlays),
           NEW kind \in DOMAIN PageOf, NEW c \in AnyBy, NEW u,
           From(u, overlays), Show(Add(kind, c, u))
    PROVE  ShowsMore({kind})
  BY AddPage DEF ShowsMore, AnyBy

(* Every step of Next is a step of the screen.                             *)
LEMMA NextScreen ==
    ASSUME Proper(overlays), Next
    PROVE  ScreenStep
  <1> USE DEF AnyBy
  <1>1. /\ From(overlays, overlays) /\ From(RemoveModal(overlays), overlays)
        /\ \A page : From(Without(page, overlays), overlays)
        /\ \A page, other : From(Without(page, Without(other, overlays)), overlays)
    BY FromOverlays, Zenon
  <1>2. ASSUME NEW kind \in DOMAIN PageOf \ {"choose"}, NEW c \in AnyBy,
               NEW u, From(u, overlays), Show(Add(kind, c, u))
        PROVE  ScreenStep
    <2>1. ShowsMore({kind})
      BY <1>2, AddOverlay, Zenon
    <2> QED
      BY <2>1 DEF ShowsMore, ScreenStep
  <1>3. ASSUME NEW u, From(u, overlays), Show(u)
        PROVE  ScreenStep
    BY <1>3 DEF ScreenStep, ShowsLess
  <1>4. ASSUME NEW b \in Base, SwitchTo(b)
        PROVE  ScreenStep
    BY <1>4 DEF ScreenStep
  <1>5. ASSUME UNCHANGED screen
        PROVE  ScreenStep
    BY <1>5 DEF ScreenStep
  <1>k. {"info", "error", "trust", "deploy", "confirm", "shell", "name", "password",
         "session", "master", "sessions"} \subseteq DOMAIN PageOf \ {"choose"}
    BY DEF PageOf
  <1>b. {"hosts", "form", "browser"} \subseteq Base
    BY DEF Base
  <1>6. ASSUME DialogNext
        PROVE  ScreenStep
    <2>1. CASE OpenForm \/ CloseForm \/ CloseBrowser
      BY <1>4, <1>b, <2>1 DEF OpenForm, CloseForm, CloseBrowser
    <2>2. CASE InvalidForm
      BY <1>1, <1>2, <1>k, <2>2 DEF InvalidForm
    <2>3. CASE \E k \in {"confirm", "name"} : OpenDialog(k)
      BY <1>1, <1>2, <1>k, <2>3 DEF OpenDialog
    <2>4. CASE AnswerConfirm
      BY <1>1, <1>2, <1>3, <1>k, <2>4 DEF AnswerConfirm
    <2>5. CASE AnswerName
      BY <1>1, <1>2, <1>3, <1>k, <2>5 DEF AnswerName
    <2>6. CASE PressOK
      BY <1>1, <1>3, <2>6 DEF PressOK
    <2> QED
      BY <1>6, <2>1, <2>2, <2>3, <2>4, <2>5, <2>6 DEF DialogNext
  <1>7. ASSUME ShellNext
        PROVE  ScreenStep
    <2>1. CASE ShellFails
      BY <1>1, <1>2, <1>k, <2>1 DEF ShellFails
    <2>2. CASE OpenPlainSSH \/ TakeTerminal \/ ShellEnds \/ FallbackEnds
      BY <1>5, <2>2 DEF OpenPlainSSH, TakeTerminal, ShellEnds, FallbackEnds
    <2> QED
      BY <1>7, <2>1, <2>2 DEF ShellNext
  <1>8. ASSUME StartNext
        PROVE  ScreenStep
    <2>1. CASE \E c \in Attempt : OpenFileBrowser(c) \/ ChooseSessions(c) \/ OpenTerminal(c)
      BY <1>1, <1>2, <1>k, <2>1 DEF OpenFileBrowser, ChooseSessions, OpenTerminal
    <2>2. CASE ChooseSSHMode
      <3>1. ShowsMore({"choose"}) /\ focus = "hosts"
        <4>1. "choose" \in DOMAIN PageOf
          BY DEF PageOf
        <4> QED
          BY <1>1, <2>2, <4>1, AddOverlay DEF ChooseSSHMode, KeyOn
      <3> QED
        BY <3>1 DEF ScreenStep
    <2>3. CASE ChoosePlain \/ ChooseCancel
      <3>1. PICK i \in DOMAIN overlays :
              overlays[i] = [kind |-> "choose", by |-> Nobody] /\ focus = Page(overlays[i])
        BY <2>3 DEF ChoosePlain, ChooseCancel, Key
      <3>2. focus = "modal" /\ HasKind("choose")
        BY <3>1 DEF Page, PageOf, HasKind
      <3> QED
        BY <2>3, <3>2 DEF ChoosePlain, ChooseCancel, ScreenStep, LeavesChooser
    <2> QED
      BY <1>8, <2>1, <2>2, <2>3 DEF StartNext
  <1>9. ASSUME NEW c \in Attempt, ConnectNext(c)
        PROVE  ScreenStep
    <2>1. CASE AskMaster(c)
      BY <1>1, <1>2, <1>k, <2>1 DEF AskMaster
    <2>2. CASE EnterMaster(c) \/ CancelMaster(c)
      BY <1>1, <1>3, <2>2 DEF EnterMaster, CancelMaster
    <2>3. CASE DecryptFails(c)
      BY <1>1, <1>2, <1>k, <2>3 DEF DecryptFails
    <2>4. CASE Dial(c)
      BY <1>5, <2>4 DEF Dial
    <2>5. CASE ShowUnknownHost(c)
      BY <1>1, <1>2, <1>k, <2>5 DEF ShowUnknownHost
    <2>6. CASE AnswerTrust(c)
      BY <1>1, <1>3, <2>6 DEF AnswerTrust
    <2>7. CASE ConnectFails(c)
      BY <1>1, <1>2, <1>k, <2>7 DEF ConnectFails
    <2>8. CASE AuthFails(c)
      BY <1>1, <1>2, <1>k, <2>8 DEF AuthFails
    <2>9. CASE EnterPassword(c)
      BY <1>1, <1>2, <1>k, <2>9 DEF EnterPassword
    <2>10. CASE NoPassword(c)
      BY <1>1, <1>2, <1>3, <1>k, <2>10 DEF NoPassword
    <2>11. CASE ConnectedFiles(c)
      BY <1>4, <1>b, <2>11 DEF ConnectedFiles
    <2>12. CASE ConnectedSession(c)
      BY <1>1, <1>2, <1>k, <2>12 DEF ConnectedSession
    <2> QED
      BY <1>9, <2>1, <2>2, <2>3, <2>4, <2>5, <2>6, <2>7, <2>8, <2>9, <2>10, <2>11,
         <2>12 DEF ConnectNext
  <1>10. ASSUME SelectorNext
         PROVE  ScreenStep
    <2>1. ASSUME NEW c \in Attempt, Unsupported(c) \/ AnswerDeploy(c)
          PROVE  ScreenStep
      BY <1>1, <1>3, <1>5, <2>1 DEF Unsupported, AnswerDeploy
    <2>2. ASSUME NEW c \in Attempt,
                 PrepareFails(c) \/ NoHelper(c) \/ AskDeploy(c) \/ ShowSelector(c)
          PROVE  ScreenStep
      BY <1>1, <1>2, <1>k, <2>2 DEF PrepareFails, NoHelper, AskDeploy, ShowSelector
    <2>3. ASSUME NEW c \in Attempt, HelperReady(c)
          PROVE  ScreenStep
      BY <1>5, <2>3 DEF HelperReady
    <2>4. ASSUME NEW c \in Attempt, Announce(c)
          PROVE  ScreenStep
      BY <1>1, <1>2, <1>k, <2>4 DEF Announce
    <2>5. CASE AnswerShell \/ NameNothing
      BY <1>1, <1>3, <2>5 DEF AnswerShell, NameNothing
    <2>6. CASE NewSession
      BY <1>1, <1>2, <1>k, <2>6 DEF NewSession
    <2>7. CASE LeaveSelector \/ NameSession
      <3>1. LeavesSelector
        BY <1>1, <2>7 DEF LeaveSelector, NameSession, CloseSelector, LeavesSelector
      <3> QED
        BY <3>1 DEF ScreenStep
    <2> QED
      BY <1>10, <2>1, <2>2, <2>3, <2>4, <2>5, <2>6, <2>7 DEF SelectorNext
  <1> QED
    BY <1>6, <1>7, <1>8, <1>9, <1>10 DEF Next

-------------------------------------------------------------------------------
(* Pages and focus.                                                        *)

\* The chooser lies on the host list, and nothing lies between them.
ChooserInv ==
    ~leftSelector /\ HasKind("choose") =>
        /\ base = "hosts"
        /\ \A i \in DOMAIN overlays : overlays[i].kind = "choose" => i = 1

ScreenTyped ==
    /\ base \in Base /\ Proper(overlays)
    /\ focus \in Base \/ \E i \in DOMAIN overlays : focus = Page(overlays[i])
    /\ leftSelector \in BOOLEAN

PagesInv == ScreenTyped /\ FocusFollows /\ ChooserInv

(* The page in front is the base, or that of the last overlay.             *)
LEMMA FrontIsThere ==
    ASSUME NEW s, NEW b \in Base, Proper(s)
    PROVE  /\ s = <<>> => FrontPage(b, s) = b
           /\ s # <<>> => /\ Len(s) \in DOMAIN s /\ s[Len(s)] = Last(s)
                          /\ FrontPage(b, s) = Page(s[Len(s)])
                          /\ FrontPage(b, s) \notin Base
  <1>1. CASE s = <<>>
    BY <1>1 DEF FrontPage
  <1>2. CASE s # <<>>
    <2>1. s \in Seq(Overlay) /\ Len(s) \in DOMAIN s /\ s[Len(s)] \in Overlay
      BY <1>2 DEF Proper
    <2>2. s[Len(s)] = Last(s)
      BY DEF Last
    <2>3. Page(s[Len(s)]) \notin Base
      BY <2>1 DEF Overlay, Page, PageOf, Base
    <2> QED
      BY <1>2, <2>1, <2>2, <2>3 DEF FrontPage
  <1> QED
    BY <1>1, <1>2

(* A step that shows something keeps the types of the screen.              *)
LEMMA ShowTyped ==
    ASSUME NEW t, Proper(t), base \in Base, leftSelector \in BOOLEAN, Show(t)
    PROVE  ScreenTyped' /\ FocusFollows'
  <1>1. base' = base /\ overlays' = t /\ focus' = FrontPage(base, t)
        /\ leftSelector' = leftSelector
    BY DEF Show
  <1>2. focus' \in Base \/ \E i \in DOMAIN t : focus' = Page(t[i])
    BY <1>1, FrontIsThere
  <1>3. ScreenTyped'
    BY <1>1, <1>2 DEF ScreenTyped, Proper, Page
  <1>4. FocusFollows'
    BY <1>1 DEF FocusFollows, FrontPage, Page
  <1> QED
    BY <1>3, <1>4

(* Each step of the screen keeps PagesInv.                                 *)
LEMMA PagesStep ==
    ASSUME PagesInv, ScreenStep
    PROVE  PagesInv'
  <1> USE DEF PagesInv
  <1>1. CASE UNCHANGED screen
    BY <1>1 DEF screen, ScreenTyped, Proper, Page, FocusFollows, FrontPage,
                ChooserInv, HasKind
  <1>2. ASSUME NEW b \in Base, SwitchTo(b)
        PROVE  PagesInv'
    <2>1. base' = b /\ overlays' = <<>> /\ focus' = b /\ leftSelector' = FALSE
      BY <1>2 DEF SwitchTo
    <2>2. DOMAIN overlays' = {} /\ overlays' \in Seq(Overlay)
      BY <2>1
    <2> QED
      BY <1>2, <2>1, <2>2 DEF ScreenTyped, Proper, FocusFollows, FrontPage,
         ChooserInv, HasKind
  <1>3. CASE ShowsLess
    <2>1. PICK t : From(t, overlays) /\ Show(t)
      BY <1>3 DEF ShowsLess
    <2>2. ScreenTyped' /\ FocusFollows'
      BY <2>1, ShowTyped DEF ScreenTyped, From
    <2>3. overlays' = t /\ base' = base /\ leftSelector' = leftSelector
      BY <2>1 DEF Show
    <2>4. ASSUME NEW i \in DOMAIN t, ~leftSelector, t[i].kind = "choose"
          PROVE  base = "hosts" /\ i = 1
      <3>1. PICK j \in DOMAIN overlays : i <= j /\ t[i] = overlays[j]
        BY <2>1 DEF From
      <3>2. base = "hosts" /\ j = 1
        BY <2>4, <3>1 DEF ChooserInv, HasKind
      <3> QED
        BY <2>1, <3>1, <3>2 DEF From, Proper
    <2> QED
      BY <2>2, <2>3, <2>4 DEF ChooserInv, HasKind
  <1>4. ASSUME NEW t, NEW kind \in DOMAIN PageOf, NEW c \in AnyBy,
               Adds(t, overlays, [kind |-> kind, by |-> c]), Show(t),
               kind = "choose" => focus = "hosts"
        PROVE  PagesInv'
    <2>1. ScreenTyped' /\ FocusFollows'
      BY <1>4, ShowTyped DEF ScreenTyped, Adds
    <2>2. overlays' = t /\ base' = base /\ leftSelector' = leftSelector
      BY <1>4 DEF Show
    <2>3. ASSUME NEW i \in DOMAIN t, ~leftSelector, t[i].kind = "choose", i # Len(t)
          PROVE  base = "hosts" /\ i = 1
      <3>1. PICK j \in DOMAIN overlays : i <= j /\ t[i] = overlays[j]
        BY <1>4, <2>3 DEF Adds
      <3>2. base = "hosts" /\ j = 1
        BY <2>3, <3>1 DEF ChooserInv, HasKind
      <3> QED
        BY <1>4, <3>1, <3>2 DEF Adds, Proper
    <2>4. ASSUME NEW i \in DOMAIN t, ~leftSelector, t[i].kind = "choose", i = Len(t)
          PROVE  base = "hosts" /\ i = 1
      <3>1. t[i] = [kind |-> kind, by |-> c]
        BY <1>4, <2>4 DEF Adds, Last
      <3>2. focus = "hosts" /\ "hosts" \in Base
        BY <1>4, <2>4, <3>1 DEF Base
      <3>3. FrontPage(base, overlays) = "hosts"
        BY <2>4, <3>2 DEF FocusFollows
      <3>4. overlays = <<>> /\ base = "hosts"
        BY <3>2, <3>3, FrontIsThere DEF ScreenTyped
      <3>5. \A n \in DOMAIN t : n = Len(t)
        BY <1>4, <3>4 DEF Adds
      <3>6. t \in Seq(Overlay) /\ 1 \in DOMAIN t
        BY <1>4 DEF Adds, Proper
      <3> QED
        BY <2>4, <3>4, <3>5, <3>6
    <2> QED
      BY <2>1, <2>2, <2>3, <2>4 DEF ChooserInv, HasKind
  <1>5. CASE LeavesChooser
    <2> DEFINE t == RemoveModal(overlays)
    <2>1. /\ overlays' = t /\ focus' = "hosts" /\ base' = base
          /\ leftSelector' = leftSelector
      BY <1>5 DEF LeavesChooser, ShowAndFocusHosts
    <2>2. From(t, overlays)
      BY RemoveModalPage DEF ScreenTyped
    <2>3. ScreenTyped'
      BY <2>1, <2>2 DEF ScreenTyped, From, Proper, Page, Base
    <2>4. CASE leftSelector
      BY <2>1, <2>3, <2>4 DEF FocusFollows, ChooserInv
    <2>5. CASE ~leftSelector
      <3>1. PICK i \in DOMAIN overlays : overlays[i].kind = "choose"
        BY <1>5 DEF LeavesChooser, HasKind
      <3>2. base = "hosts" /\ i = 1
        BY <2>5, <3>1 DEF ChooserInv, HasKind
      <3>3. overlays # <<>> /\ Page(overlays[1]) = "modal"
        BY <3>1, <3>2 DEF Page, PageOf
      <3>4. /\ Len(overlays) \in DOMAIN overlays
            /\ Page(overlays[Len(overlays)]) = "modal"
            /\ overlays[Len(overlays)] = Last(overlays)
        BY <1>5, <2>5, <3>3, FrontIsThere DEF ScreenTyped, FocusFollows, LeavesChooser
      <3>5. Len(overlays) = 1
        BY <3>1, <3>2, <3>3, <3>4 DEF ScreenTyped, Proper
      <3>6. Len(t) = 0
        <4>1. Page(Last(overlays)) = "modal"
          BY <3>4
        <4>2. Len(t) = Len(overlays) - 1
          BY <3>3, <4>1, RemoveModalPage DEF ScreenTyped
        <4> QED
          BY <3>5, <4>2
      <3>7. t = <<>> /\ DOMAIN t = {}
        BY <2>2, <3>6 DEF From, Proper
      <3> QED
        BY <2>1, <2>3, <3>2, <3>7 DEF FocusFollows, FrontPage, ChooserInv, HasKind
    <2> QED
      BY <2>4, <2>5
  <1>6. CASE LeavesSelector
    <2>1. PICK t : /\ From(t, overlays) /\ ShowAndFocusHosts(t)
                   /\ leftSelector' = (leftSelector \/ FrontPage(base, t) # "hosts")
      BY <1>6 DEF LeavesSelector
    <2>2. overlays' = t /\ focus' = "hosts" /\ base' = base
      BY <2>1 DEF ShowAndFocusHosts
    <2>3. ScreenTyped'
      BY <2>1, <2>2 DEF ScreenTyped, From, Proper, Page, Base
    <2>4. FocusFollows'
      BY <2>1, <2>2 DEF FocusFollows, FrontPage, Page
    <2>5. ASSUME NEW i \in DOMAIN t, ~leftSelector', t[i].kind = "choose"
          PROVE  base = "hosts" /\ i = 1
      <3>1. PICK j \in DOMAIN overlays : i <= j /\ t[i] = overlays[j]
        BY <2>1 DEF From
      <3>2. base = "hosts" /\ j = 1
        BY <2>1, <2>5, <3>1 DEF ChooserInv, HasKind
      <3> QED
        BY <2>1, <3>1, <3>2 DEF From, Proper
    <2> QED
      BY <2>2, <2>3, <2>4, <2>5 DEF ChooserInv, HasKind
  <1>7. CASE ShowsMore(DOMAIN PageOf \ {"choose"})
    BY <1>4, <1>7 DEF ShowsMore
  <1>8. CASE ShowsMore({"choose"}) /\ focus = "hosts"
    <2>1. "choose" \in DOMAIN PageOf
      BY DEF PageOf
    <2> QED
      BY <1>4, <1>8, <2>1 DEF ShowsMore
  <1> QED
    BY <1>1, <1>2, <1>3, <1>5, <1>6, <1>7, <1>8 DEF ScreenStep

-------------------------------------------------------------------------------
(* Types.                                                                  *)

AttTyped ==
    att \in [Attempt -> [pc : Busy \cup Asking \cup {"idle"}, op : {"files", "session"},
                         encrypted : BOOLEAN, retried : BOOLEAN]]

CountTyped ==
    master \in BOOLEAN /\ shells \in Nat /\ fallbacks \in Nat /\ suspended \in BOOLEAN

LEMMA TypeParts == TypeOK <=> AttTyped /\ ScreenTyped /\ CountTyped /\ crossed \in BOOLEAN
  BY DEF TypeOK, AttTyped, ScreenTyped, CountTyped, Proper

(* Shells come and go one by one.                                          *)
LEMMA ShellsTyped ==
    ASSUME CountTyped
    PROVE  /\ Launch \/ LaunchFallback \/ ShellGone \/ UNCHANGED terminal =>
                 shells' \in Nat /\ fallbacks' \in Nat /\ suspended' \in BOOLEAN
           /\ TakeTerminal \/ FallbackEnds => CountTyped'
  <1>1. shells \in Nat /\ fallbacks \in Nat /\ suspended \in BOOLEAN /\ master \in BOOLEAN
    BY DEF CountTyped
  <1>2. CASE UNCHANGED terminal
    BY <1>1, <1>2 DEF terminal, TakeTerminal, FallbackEnds, screen, CountTyped
  <1>3. Launch \/ LaunchFallback \/ ShellGone \/ TakeTerminal \/ FallbackEnds =>
            shells' \in Nat /\ fallbacks' \in Nat
    BY <1>1 DEF Launch, LaunchFallback, ShellGone, TakeTerminal, FallbackEnds
  <1>4. /\ Launch \/ LaunchFallback => suspended' = suspended
        /\ ShellGone => suspended' = FALSE
        /\ TakeTerminal => suspended' = TRUE /\ master' = master
        /\ FallbackEnds => suspended' = FALSE /\ master' = master
    BY DEF Launch, LaunchFallback, ShellGone, TakeTerminal, FallbackEnds
  <1> QED
    BY <1>1, <1>2, <1>3, <1>4 DEF CountTyped

(* Where an attempt goes is one of its steps.                              *)
LEMMA AttKept ==
    ASSUME AttTyped, NEW c \in Attempt
    PROVE  /\ \A pc \in Busy \cup Asking \cup {"idle"} : Goes(c, pc) => AttTyped'
           /\ Ends(c) => AttTyped'
           /\ \A op \in {"files", "session"} : Begins(c, op) => AttTyped'
           /\ att' = [att EXCEPT ![c].pc = "decide", ![c].retried = TRUE] => AttTyped'
  <1> DEFINE R == [pc : Busy \cup Asking \cup {"idle"}, op : {"files", "session"},
                   encrypted : BOOLEAN, retried : BOOLEAN]
  <1>1. ASSUME NEW r \in R, att' = [att EXCEPT ![c] = r]
        PROVE  AttTyped'
    BY <1>1 DEF AttTyped
  <1>2. att[c] \in R
    BY DEF AttTyped
  <1>3. ASSUME NEW pc \in Busy \cup Asking \cup {"idle"}
        PROVE  [att[c] EXCEPT !.pc = pc] \in R
    BY <1>2
  <1>4. [att[c] EXCEPT !.pc = "decide", !.retried = TRUE] \in R
    BY <1>2 DEF Busy
  <1>5. AtRest \in R
    BY DEF AtRest
  <1>6. ASSUME NEW op \in {"files", "session"}, NEW e \in BOOLEAN
        PROVE  [pc |-> "decide", op |-> op, encrypted |-> e, retried |-> FALSE] \in R
    BY DEF Busy
  <1> HIDE DEF R
  <1>7. \A pc \in Busy \cup Asking \cup {"idle"} : Goes(c, pc) => AttTyped'
    BY <1>1, <1>3 DEF Goes
  <1>8. Ends(c) => AttTyped'
    BY <1>1, <1>5 DEF Ends
  <1>9. \A op \in {"files", "session"} : Begins(c, op) => AttTyped'
    BY <1>1, <1>6 DEF Begins
  <1>10. att' = [att EXCEPT ![c].pc = "decide", ![c].retried = TRUE] => AttTyped'
    BY <1>1, <1>4
  <1> QED
    BY <1>7, <1>8, <1>9, <1>10

LEMMA UserTyped ==
    ASSUME AttTyped, CountTyped, DialogNext \/ ShellNext \/ StartNext
    PROVE  AttTyped' /\ CountTyped'
  <1>1. CASE DialogNext
    BY <1>1 DEF DialogNext, OpenForm, InvalidForm, CloseForm, CloseBrowser, OpenDialog,
       AnswerConfirm, AnswerName, PressOK, terminal, AttTyped, CountTyped
  <1>2. CASE ShellNext
    <2>1. att' = att /\ master' = master
      BY <1>2 DEF ShellNext, OpenPlainSSH, TakeTerminal, ShellFails, ShellEnds, FallbackEnds
    <2>2. Launch \/ ShellGone \/ TakeTerminal \/ FallbackEnds
      BY <1>2 DEF ShellNext, OpenPlainSSH, ShellFails, ShellEnds
    <2> QED
      BY <2>1, <2>2, ShellsTyped DEF AttTyped, CountTyped
  <1>3. CASE StartNext
    <2>1. CASE ChooseSSHMode \/ ChoosePlain \/ ChooseCancel
      <3>1. att' = att /\ master' = master /\ (Launch \/ UNCHANGED terminal)
        BY <2>1 DEF ChooseSSHMode, ChoosePlain, ChooseCancel
      <3> QED
        BY <3>1, ShellsTyped DEF AttTyped, CountTyped
    <2>2. ASSUME NEW c \in Attempt, OpenFileBrowser(c) \/ ChooseSessions(c) \/ OpenTerminal(c)
          PROVE  AttTyped' /\ CountTyped'
      BY <2>2, AttKept DEF OpenFileBrowser, ChooseSessions, OpenTerminal, terminal, CountTyped
    <2> QED
      BY <1>3, <2>1, <2>2 DEF StartNext
  <1> QED
    BY <1>1, <1>2, <1>3

LEMMA AttemptTyped ==
    ASSUME AttTyped, CountTyped, NEW c \in Attempt, ConnectNext(c)
    PROVE  AttTyped' /\ CountTyped'
  <1>1. AttTyped'
    BY AttKept DEF ConnectNext, AskMaster, EnterMaster, CancelMaster, DecryptFails, Dial,
       ShowUnknownHost, AnswerTrust, ConnectFails, AuthFails, EnterPassword, NoPassword,
       ConnectedFiles, ConnectedSession, Busy, Asking
  <1>2. CountTyped'
    BY DEF ConnectNext, AskMaster, EnterMaster, CancelMaster, DecryptFails, Dial,
       ShowUnknownHost, AnswerTrust, ConnectFails, AuthFails, EnterPassword, NoPassword,
       ConnectedFiles, ConnectedSession, terminal, CountTyped
  <1> QED
    BY <1>1, <1>2

LEMMA SelectorTyped ==
    ASSUME AttTyped, CountTyped, SelectorNext
    PROVE  AttTyped' /\ CountTyped'
  <1>1. CASE AnswerShell \/ LeaveSelector \/ NewSession \/ NameSession \/ NameNothing
    <2>1. /\ att' = att /\ master' = master
          /\ Launch \/ LaunchFallback \/ UNCHANGED terminal
      BY <1>1 DEF AnswerShell, LeaveSelector, NewSession, NameSession, NameNothing
    <2> QED
      BY <2>1, ShellsTyped DEF AttTyped, CountTyped
  <1>2. ASSUME NEW c \in Attempt,
               \/ Unsupported(c) \/ PrepareFails(c) \/ NoHelper(c) \/ HelperReady(c)
               \/ AskDeploy(c) \/ AnswerDeploy(c) \/ Announce(c) \/ ShowSelector(c)
        PROVE  AttTyped' /\ CountTyped'
    <2>1. AttTyped'
      BY <1>2, AttKept DEF Unsupported, PrepareFails, NoHelper, HelperReady, AskDeploy,
         AnswerDeploy, Announce, ShowSelector, Busy, Asking
    <2>2. master' = master /\ (LaunchFallback \/ UNCHANGED terminal)
      BY <1>2 DEF Unsupported, PrepareFails, NoHelper, HelperReady, AskDeploy,
         AnswerDeploy, Announce, ShowSelector
    <2> QED
      BY <2>1, <2>2, ShellsTyped DEF CountTyped
  <1> QED
    BY <1>1, <1>2 DEF SelectorNext

-------------------------------------------------------------------------------
(* The pages.                                                              *)

TypedPages == TypeOK /\ FocusFollows /\ ChooserInv

LEMMA InitPages == Init => TypedPages
  <1> SUFFICES ASSUME Init
               PROVE  TypedPages
    OBVIOUS
  <1>1. AttTyped
    BY DEF Init, AttTyped, AtRest
  <1>2. overlays = <<>> /\ DOMAIN overlays = {} /\ overlays \in Seq(Overlay)
    BY DEF Init
  <1>3. ScreenTyped /\ FocusFollows /\ ChooserInv
    BY <1>2 DEF Init, ScreenTyped, Proper, Base, FocusFollows, FrontPage, ChooserInv, HasKind
  <1>4. CountTyped /\ crossed \in BOOLEAN
    BY DEF Init, CountTyped
  <1> QED
    BY <1>1, <1>3, <1>4, TypeParts DEF TypedPages

LEMMA NextPages == TypedPages /\ [Next]_vars => TypedPages'
  <1> SUFFICES ASSUME TypedPages, [Next]_vars
               PROVE  TypedPages'
    OBVIOUS
  <1>1. AttTyped /\ ScreenTyped /\ CountTyped /\ crossed \in BOOLEAN /\ PagesInv
    BY TypeParts DEF TypedPages, PagesInv
  <1>2. CASE UNCHANGED vars
    BY <1>2 DEF vars, screen, terminal, TypedPages, TypeOK, FocusFollows, FrontPage,
       ChooserInv, HasKind, Page
  <1>3. CASE Next
    <2>1. PagesInv'
      BY <1>1, <1>3, NextScreen, PagesStep DEF ScreenTyped
    <2>2. AttTyped' /\ CountTyped'
      BY <1>1, <1>3, UserTyped, AttemptTyped, SelectorTyped DEF Next
    <2>3. crossed' \in BOOLEAN
      BY <1>1, <1>3 DEF Next, Watch
    <2>4. TypeOK'
      BY <2>1, <2>2, <2>3 DEF TypeOK, AttTyped, CountTyped, PagesInv, ScreenTyped, Proper, Page
    <2> QED
      BY <2>1, <2>4 DEF TypedPages, PagesInv
  <1> QED
    BY <1>2, <1>3

(* Every variable keeps its type, and no page is there twice, however many *)
(* attempts there are.                                                     *)
THEOREM TypeCorrect == Spec => []TypeOK
  <1>1. TypedPages => TypeOK
    BY DEF TypedPages
  <1> QED
    BY <1>1, InitPages, NextPages, PTL DEF Spec

(* The keys go to the page in front, unless a selector was left with       *)
(* another page below it than the host list.                               *)
THEOREM KeysGoToTheFront == Spec => []FocusFollows
  <1>1. TypedPages => FocusFollows
    BY DEF TypedPages
  <1> QED
    BY <1>1, InitPages, NextPages, PTL DEF Spec

-------------------------------------------------------------------------------
(* One attempt at a time.                                                  *)

CountInv == ~crossed => Cardinality(AtWork) + shells + fallbacks <= 1

\* What has no button is in front, and somebody is at work.
InfoInv ==
    ~crossed /\ HasKind("info") =>
        /\ overlays # <<>> /\ Last(overlays).kind = "info" /\ focus = "modal"
        /\ \E c \in Attempt : att[c].pc \in Busy

ConnectingInv == TypedPages /\ CountInv /\ WaitsOnScreen /\ InfoInv

NoInfo(t) == \A i \in DOMAIN t : t[i].kind # "info"

(* Of at most one there is no other.                                       *)
LEMMA OneAtMost ==
    ASSUME NEW S, IsFiniteSet(S), NEW a \in Nat, NEW b \in Nat,
           Cardinality(S) + a + b <= 1, NEW c \in S
    PROVE  S = {c} /\ a = 0 /\ b = 0
  <1>1. /\ Cardinality(S) \in Nat /\ IsFiniteSet(S \ {c})
        /\ Cardinality(S \ {c}) = Cardinality(S) - 1
    BY FS_CardinalityType, FS_RemoveElement
  <1>2. Cardinality(S \ {c}) \in Nat
    BY <1>1, FS_CardinalityType
  <1>3. Cardinality(S \ {c}) = 0 /\ a = 0 /\ b = 0
    BY <1>1, <1>2
  <1>4. S \ {c} = {}
    BY <1>1, <1>3, FS_EmptySet
  <1> QED
    BY <1>3, <1>4

(* Who works while nothing has crossed works alone.                        *)
LEMMA WorksAlone ==
    ASSUME TypeOK, CountInv, ~crossed, NEW c \in Attempt, att[c].pc # "idle"
    PROVE  /\ \A d \in Attempt : d # c => att[d].pc = "idle"
           /\ shells = 0 /\ fallbacks = 0
  <1>1. IsFiniteSet(AtWork) /\ c \in AtWork
    BY FS_Subset, ConnectingAssumption DEF AtWork
  <1>2. AtWork = {c} /\ shells = 0 /\ fallbacks = 0
    BY <1>1, OneAtMost DEF CountInv, TypeOK
  <1> QED
    BY <1>2 DEF AtWork

LEMMA WorksAloneNext ==
    ASSUME TypeOK', CountInv', ~crossed', NEW c \in Attempt, att'[c].pc # "idle"
    PROVE  \A d \in Attempt : d # c => att'[d].pc = "idle"
  <1>1. IsFiniteSet(AtWork') /\ c \in AtWork'
    BY FS_Subset, ConnectingAssumption DEF AtWork
  <1>2. AtWork' = {c}
    BY <1>1, OneAtMost DEF CountInv, TypeOK
  <1> QED
    BY <1>2 DEF AtWork

(* While a question or a dialog without a button is on the screen, and     *)
(* nothing has crossed, only a key for what is in front does anything.     *)
LEMMA OnlyTheFront ==
    ASSUME ConnectingInv, ~crossed, NEW c \in Attempt,
           att[c].pc \in Asking \/ HasKind("info")
    PROVE  /\ shells = 0 /\ fallbacks = 0
           /\ \A page \in Base : ~KeyOn(page)
           /\ \A kind, d : Key(kind, d) => Last(overlays) = [kind |-> kind, by |-> d]
  <1>1. Proper(overlays)
    BY DEF ConnectingInv, TypedPages, TypeOK, Proper
  <1>2. PICK b \in Attempt : att[b].pc \in Asking \cup Busy
    BY DEF ConnectingInv, InfoInv
  <1>3. shells = 0 /\ fallbacks = 0
    BY <1>2, WorksAlone DEF ConnectingInv, TypedPages, Asking, Busy
  <1>4. /\ overlays # <<>> /\ focus = Page(Last(overlays))
    <2>1. CASE att[c].pc \in Asking
      BY <2>1 DEF ConnectingInv, WaitsOnScreen
    <2>2. CASE HasKind("info")
      BY <2>2 DEF ConnectingInv, InfoInv, Page, PageOf
    <2> QED
      BY <2>1, <2>2
  <1>5. /\ Len(overlays) \in DOMAIN overlays
        /\ overlays[Len(overlays)] = Last(overlays)
        /\ Last(overlays) \in Overlay
    BY <1>1, <1>4 DEF Proper, Last
  <1>6. focus \notin Base
    BY <1>4, <1>5 DEF Overlay, Page, PageOf, Base
  <1>7. ASSUME NEW kind, NEW d, Key(kind, d)
        PROVE  Last(overlays) = [kind |-> kind, by |-> d]
    <2>1. PICK i \in DOMAIN overlays :
            overlays[i] = [kind |-> kind, by |-> d] /\ focus = Page(overlays[i])
      BY <1>7 DEF Key
    <2>2. i = Len(overlays)
      BY <1>1, <1>4, <1>5, <2>1 DEF Proper
    <2> QED
      BY <1>5, <2>1, <2>2
  <1> QED
    BY <1>3, <1>6, <1>7 DEF KeyOn

(* Stacks without such a dialog.                                           *)
LEMMA NoInfoStacks ==
    ASSUME ConnectingInv, ~crossed
    PROVE  /\ NoInfo(RemoveModal(overlays))
           /\ NoInfo(Without("modal", overlays))
           /\ ~HasKind("info") => \A t : From(t, overlays) => NoInfo(t)
  <1>1. Proper(overlays)
    BY DEF ConnectingInv, TypedPages, TypeOK, Proper
  <1>2. ASSUME ~HasKind("info"), NEW t, From(t, overlays)
        PROVE  NoInfo(t)
    BY <1>2 DEF HasKind, From, NoInfo
  <1>3. NoInfo(RemoveModal(overlays))
    <2>1. CASE ~HasKind("info")
      BY <1>1, <1>2, <2>1, RemoveModalPage
    <2>2. CASE HasKind("info")
      <3>1. overlays # <<>> /\ Page(Last(overlays)) = "modal"
        BY <2>2 DEF ConnectingInv, InfoInv, Page, PageOf
      <3> QED
        BY <1>1, <3>1, RemoveModalPage DEF NoInfo, Page, PageOf
    <2> QED
      BY <2>1, <2>2
  <1>4. NoInfo(Without("modal", overlays))
    BY <1>1, WithoutPage DEF NoInfo, Page, PageOf
  <1> QED
    BY <1>2, <1>3, <1>4

(* Another dialog on such a stack is no such dialog, and one on the modal  *)
(* page takes its place.                                                   *)
LEMMA AddNoInfo ==
    ASSUME NEW u, Proper(u), NEW kind \in DOMAIN PageOf \ {"info"}, NEW c \in AnyBy,
           NoInfo(u) \/ PageOf[kind] = "modal"
    PROVE  NoInfo(Add(kind, c, u))
  <1> DEFINE t == Add(kind, c, u)
             o == [kind |-> kind, by |-> c]
  <1>1. Adds(t, u, o)
    BY AddPage, FromOverlays DEF AnyBy
  <1> HIDE DEF t
  <1>2. t \in Seq(Overlay) /\ Len(t) \in DOMAIN t /\ t[Len(t)] = o
    BY <1>1 DEF Adds, Proper, Last
  <1>3. ASSUME NEW i \in DOMAIN t, t[i].kind = "info"
        PROVE  FALSE
    <2>1. i # Len(t)
      BY <1>2, <1>3
    <2>2. \E j \in DOMAIN u : t[i] = u[j]
      BY <1>1, <2>1 DEF Adds
    <2>3. PageOf[kind] # "modal"
      BY <1>1, <1>2, <1>3, <2>1 DEF Adds, Proper, Page, PageOf
    <2> QED
      BY <1>3, <2>2, <2>3 DEF NoInfo
  <1> QED
    BY <1>3 DEF NoInfo, t

(* What is shown last is in front and has the keys.                        *)
LEMMA ShownInFront ==
    ASSUME NEW u, Proper(u), NEW kind \in DOMAIN PageOf, NEW c \in AnyBy,
           Show(Add(kind, c, u))
    PROVE  /\ overlays' # <<>> /\ Last(overlays') = [kind |-> kind, by |-> c]
           /\ focus' = PageOf[kind]
  <1>1. Adds(Add(kind, c, u), u, [kind |-> kind, by |-> c])
    BY AddPage, FromOverlays DEF AnyBy
  <1>2. overlays' = Add(kind, c, u) /\ focus' = FrontPage(base, Add(kind, c, u))
    BY DEF Show
  <1> QED
    BY <1>1, <1>2 DEF Adds, FrontPage, Page

\* What the user does about no attempt.
UserStep ==
    \/ DialogNext \/ ShellNext \/ ChooseSSHMode \/ ChoosePlain \/ ChooseCancel
    \/ AnswerShell \/ LeaveSelector \/ NewSession \/ NameSession \/ NameNothing

StartStep(c) == OpenFileBrowser(c) \/ ChooseSessions(c) \/ OpenTerminal(c)

AttemptStep(c) ==
    \/ ConnectNext(c)
    \/ Unsupported(c) \/ PrepareFails(c) \/ NoHelper(c) \/ HelperReady(c)
    \/ AskDeploy(c) \/ AnswerDeploy(c) \/ Announce(c) \/ ShowSelector(c)

LEMMA NextSteps ==
    Next => UserStep \/ \E c \in Attempt : StartStep(c) \/ AttemptStep(c)
  BY DEF Next, StartNext, SelectorNext, UserStep, StartStep, AttemptStep

(* The user can do so only while nobody asks and nothing lacks a button,   *)
(* and it stays so.                                                        *)
LEMMA UserKeeps ==
    ASSUME ConnectingInv, ~crossed, UserStep
    PROVE  (\A c \in Attempt : att'[c].pc \notin Asking) /\ NoInfo(overlays')
  <1>1. /\ \E kind \in {"confirm", "name", "error", "choose", "shell", "sessions", "session"} :
              \/ Key(kind, Nobody)
              \/ \E page \in Base : KeyOn(page)
              \/ shells > 0 \/ fallbacks > 0
        /\ att' = att
    BY DEF UserStep, DialogNext, OpenForm, InvalidForm, CloseForm, CloseBrowser, OpenDialog,
       AnswerConfirm, AnswerName, PressOK, ShellNext, OpenPlainSSH, TakeTerminal, ShellFails,
       ShellEnds, ShellGone, FallbackEnds, ChooseSSHMode, ChoosePlain, ChooseCancel, AnswerShell, LeaveSelector,
       NewSession, NameSession, NameNothing, Base
  <1>2. ASSUME NEW c \in Attempt, att[c].pc \in Asking \/ HasKind("info")
        PROVE  FALSE
    <2>1. PICK kind \in {"confirm", "name", "error", "choose", "shell", "sessions", "session"} :
            Last(overlays) = [kind |-> kind, by |-> Nobody]
      BY <1>1, <1>2, OnlyTheFront
    <2>2. CASE att[c].pc \in Asking
      <3>1. Last(overlays).by = c
        BY <1>2, <2>2 DEF ConnectingInv, WaitsOnScreen
      <3> QED
        BY <2>1, <3>1, ConnectingAssumption
    <2>3. CASE HasKind("info")
      <3>1. Last(overlays).kind = "info"
        BY <2>3 DEF ConnectingInv, InfoInv
      <3> QED
        BY <2>1, <3>1
    <2> QED
      BY <1>2, <2>2, <2>3
  <1>3. ~HasKind("info")
    <2>1. HasKind("info") => \E c \in Attempt : att[c].pc \in Busy
      BY DEF ConnectingInv, InfoInv
    <2> QED
      BY <1>2, <2>1
  <1>4. Proper(overlays)
    BY DEF ConnectingInv, TypedPages, TypeOK, Proper
  <1>5. \A t : From(t, overlays) => Proper(t) /\ NoInfo(t)
    BY <1>3, NoInfoStacks DEF From
  <1>6. ASSUME NEW u, From(u, overlays), NEW kind \in DOMAIN PageOf \ {"info"}
        PROVE  NoInfo(Add(kind, Nobody, u))
    BY <1>5, <1>6, AddNoInfo DEF AnyBy
  <1>7. /\ From(overlays, overlays) /\ From(RemoveModal(overlays), overlays)
        /\ \A page : From(Without(page, overlays), overlays)
        /\ \A page, other : From(Without(page, Without(other, overlays)), overlays)
    BY <1>4, FromOverlays, Zenon
  <1>8. {"confirm", "name", "error", "choose", "session"} \subseteq DOMAIN PageOf \ {"info"}
    BY DEF PageOf
  <1>9. NoInfo(overlays')
    <2>1. CASE \/ OpenForm \/ CloseForm \/ CloseBrowser
      BY <2>1 DEF OpenForm, CloseForm, CloseBrowser, SwitchTo, NoInfo
    <2>2. CASE \/ InvalidForm \/ (\E k \in {"confirm", "name"} : OpenDialog(k))
               \/ AnswerConfirm \/ AnswerName \/ PressOK
      BY <1>5, <1>6, <1>7, <1>8, <2>2 DEF InvalidForm, OpenDialog, AnswerConfirm,
         AnswerName, PressOK, Show
    <2>3. CASE ShellFails \/ ChooseSSHMode
      BY <1>6, <1>7, <1>8, <2>3 DEF ShellFails, ChooseSSHMode, Show
    <2>4. CASE OpenPlainSSH \/ TakeTerminal \/ ShellEnds \/ FallbackEnds
      BY <1>5, <1>7, <2>4 DEF OpenPlainSSH, TakeTerminal, ShellEnds, FallbackEnds, screen
    <2>5. CASE ChoosePlain \/ ChooseCancel \/ LeaveSelector \/ NameSession
      BY <1>5, <1>7, <2>5 DEF ChoosePlain, ChooseCancel, LeaveSelector, NameSession,
         CloseSelector, ShowAndFocusHosts
    <2>6. CASE AnswerShell \/ NewSession \/ NameNothing
      BY <1>5, <1>6, <1>7, <1>8, <2>6 DEF AnswerShell, NewSession, NameNothing, Show
    <2> QED
      BY <2>1, <2>2, <2>3, <2>4, <2>5, <2>6 DEF UserStep, DialogNext, ShellNext
  <1> QED
    BY <1>1, <1>2, <1>9

\* c's dialog without a button is in front.
Informs(c) ==
    /\ overlays' # <<>> /\ Last(overlays').kind = "info" /\ focus' = "modal"
    /\ att'[c].pc \in Busy

\* c's question is in front.
Questions(c) ==
    /\ overlays' # <<>> /\ Last(overlays') = [kind |-> att'[c].pc, by |-> c]
    /\ focus' = Page(Last(overlays'))
    /\ NoInfo(overlays')

(* An attempt that begins says so.                                         *)
LEMMA StartInforms ==
    ASSUME TypeOK, NEW c \in Attempt, StartStep(c)
    PROVE  Informs(c)
  <1>1. Show(Add("info", Nobody, overlays)) /\ att'[c].pc = "decide"
    BY DEF StartStep, OpenFileBrowser, ChooseSessions, OpenTerminal, Begins, TypeOK
  <1>2. Proper(overlays) /\ "info" \in DOMAIN PageOf /\ PageOf["info"] = "modal"
    BY DEF TypeOK, Proper, PageOf
  <1> QED
    BY <1>1, <1>2, ShownInFront DEF Informs, Busy, AnyBy

\* No question of c's, and nothing without a button.
Silent(c) == att'[c].pc \notin Asking /\ NoInfo(overlays')

\* c goes on behind what is on the screen.
GoesOn(c) == att[c].pc \in Busy /\ att'[c].pc \in Busy /\ UNCHANGED screen

(* What each step of an attempt leaves on the screen.                      *)
LEMMA AttemptOutcome ==
    ASSUME ConnectingInv, ~crossed, NEW c \in Attempt, AttemptStep(c)
    PROVE  Informs(c) \/ Questions(c) \/ Silent(c) \/ GoesOn(c)
  <1>1. TypeOK /\ Proper(overlays)
    BY DEF ConnectingInv, TypedPages, TypeOK, Proper
  <1>2. /\ \A pc : Goes(c, pc) => att'[c].pc = pc
        /\ Ends(c) => att'[c].pc = "idle"
    BY <1>1 DEF TypeOK, Goes, Ends, AtRest
  <1>3. /\ From(RemoveModal(overlays), overlays)
        /\ \A page : From(Without(page, overlays), overlays)
        /\ NoInfo(RemoveModal(overlays)) /\ NoInfo(Without("modal", overlays))
        /\ ~HasKind("info") => \A page : NoInfo(Without(page, overlays))
    BY <1>1, FromOverlays, NoInfoStacks
  <1>4. ASSUME att[c].pc \in Asking
        PROVE  ~HasKind("info")
    <2>1. Last(overlays).kind = att[c].pc
      BY <1>4 DEF ConnectingInv, WaitsOnScreen
    <2>2. "info" \notin Asking
      BY DEF Asking
    <2> QED
      BY <1>4, <2>1, <2>2 DEF ConnectingInv, InfoInv
  <1>5. ASSUME NEW kind, NEW d, Key(kind, d)
        PROVE  kind # "info" => ~HasKind("info")
    BY <1>5, OnlyTheFront DEF ConnectingInv, InfoInv
  <1>6. ASSUME NEW u, Proper(u), NEW kind \in DOMAIN PageOf \ {"info"},
               NoInfo(u) \/ PageOf[kind] = "modal", Show(Add(kind, Nobody, u)),
               att'[c].pc \notin Asking
        PROVE  Silent(c)
    BY <1>6, AddNoInfo DEF Silent, Show, AnyBy
  <1>7. ASSUME NEW u, NoInfo(u), Show(u), att'[c].pc \notin Asking
        PROVE  Silent(c)
    BY <1>7 DEF Silent, Show
  <1>8. ASSUME NEW u, Proper(u), NEW kind \in Asking, Goes(c, kind),
               NoInfo(u) \/ PageOf[kind] = "modal", Show(Add(kind, c, u))
        PROVE  Questions(c)
    <2>1. kind \in DOMAIN PageOf \ {"info"}
      BY DEF Asking, PageOf
    <2>2. NoInfo(overlays')
      BY <1>8, <2>1, AddNoInfo DEF Show, AnyBy
    <2>3. /\ overlays' # <<>> /\ Last(overlays') = [kind |-> kind, by |-> c]
          /\ focus' = PageOf[kind]
      BY <1>8, <2>1, ShownInFront DEF AnyBy
    <2> QED
      BY <1>2, <1>8, <2>2, <2>3 DEF Questions, Page
  <1>9. ASSUME NEW u, Proper(u), Show(Add("info", Nobody, u)), att'[c].pc \in Busy
        PROVE  Informs(c)
    <2>1. "info" \in DOMAIN PageOf /\ PageOf["info"] = "modal"
      BY DEF PageOf
    <2> QED
      BY <1>9, <2>1, ShownInFront DEF Informs, AnyBy
  <1>10. /\ "idle" \notin Asking /\ "error" \in DOMAIN PageOf \ {"info"}
         /\ {"shell", "sessions"} \subseteq DOMAIN PageOf \ {"info"}
         /\ PageOf["error"] = "modal" /\ PageOf["shell"] = "modal"
         /\ PageOf["trust"] = "modal" /\ PageOf["deploy"] = "modal"
    BY DEF Asking, PageOf
  <1>11. Proper(RemoveModal(overlays)) /\ \A page : Proper(Without(page, overlays))
    BY <1>3 DEF From
  <1>12. CASE AskMaster(c)
    BY <1>3, <1>8, <1>11, <1>12 DEF AskMaster, Asking
  <1>13. CASE EnterMaster(c) \/ CancelMaster(c)
    <2>1. ~HasKind("info")
      BY <1>5, <1>13 DEF EnterMaster, CancelMaster
    <2> QED
      BY <1>2, <1>3, <1>7, <1>13, <2>1 DEF EnterMaster, CancelMaster, Asking
  <1>14. CASE DecryptFails(c)
    BY <1>1, <1>2, <1>6, <1>10, <1>14 DEF DecryptFails
  <1>15. CASE Dial(c) \/ HelperReady(c)
    BY <1>2, <1>15 DEF Dial, HelperReady, GoesOn, Busy
  <1>16. CASE ShowUnknownHost(c)
    BY <1>1, <1>8, <1>10, <1>16 DEF ShowUnknownHost, Asking
  <1>17. CASE AnswerTrust(c) \/ AnswerDeploy(c)
    BY <1>2, <1>3, <1>7, <1>17 DEF AnswerTrust, AnswerDeploy, Asking
  <1>27. CASE Unsupported(c)
    <2>1. att'[c].pc \notin Asking
      BY <1>2, <1>10, <1>27 DEF Unsupported
    <2>2. FrontPage(base, overlays) # "modal" => RemoveModal(overlays) = overlays
      BY DEF FrontPage, RemoveModal
    <2>3. overlays' = RemoveModal(overlays)
      BY <1>27, <2>2 DEF Unsupported, Show, screen
    <2> QED
      BY <1>3, <2>1, <2>3 DEF Silent
  <1>18. CASE ConnectFails(c) \/ PrepareFails(c)
    BY <1>2, <1>6, <1>10, <1>11, <1>18 DEF ConnectFails, PrepareFails
  <1>19. CASE AuthFails(c)
    BY <1>3, <1>8, <1>11, <1>19 DEF AuthFails, Asking
  <1>20. CASE EnterPassword(c)
    <2>1. att'[c].pc = "decide"
      BY <1>1, <1>20 DEF EnterPassword, TypeOK
    <2> QED
      BY <1>9, <1>11, <1>20, <2>1 DEF EnterPassword, Busy
  <1>21. CASE NoPassword(c)
    <2>1. ~HasKind("info")
      BY <1>5, <1>21 DEF NoPassword
    <2>2. NoInfo(Without("input", overlays)) /\ Proper(Without("input", overlays))
      BY <1>3, <1>11, <2>1
    <2>3. att'[c].pc \notin Asking
      BY <1>2, <1>10, <1>21 DEF NoPassword
    <2> QED
      BY <1>6, <1>7, <1>10, <1>21, <2>2, <2>3 DEF NoPassword
  <1>22. CASE ConnectedFiles(c)
    BY <1>2, <1>10, <1>22 DEF ConnectedFiles, SwitchTo, Silent, NoInfo
  <1>23. CASE ConnectedSession(c)
    BY <1>2, <1>9, <1>11, <1>23 DEF ConnectedSession, Busy
  <1>24. CASE NoHelper(c) \/ ShowSelector(c)
    BY <1>2, <1>3, <1>6, <1>10, <1>11, <1>24 DEF NoHelper, ShowSelector
  <1>25. CASE AskDeploy(c)
    BY <1>3, <1>8, <1>11, <1>25 DEF AskDeploy, Asking
  <1>26. CASE Announce(c)
    BY <1>1, <1>2, <1>9, <1>26 DEF Announce, Busy
  <1> QED
    BY <1>12, <1>13, <1>14, <1>15, <1>16, <1>17, <1>27, <1>18, <1>19, <1>20, <1>21, <1>22,
       <1>23, <1>24, <1>25, <1>26 DEF AttemptStep, ConnectNext

(* An attempt's step is its own.                                           *)
LEMMA OthersStay ==
    ASSUME TypeOK, NEW c \in Attempt, StartStep(c) \/ AttemptStep(c)
    PROVE  \A d \in Attempt : d # c => att'[d] = att[d]
  <1>1. \/ \E pc : Goes(c, pc)
        \/ Ends(c)
        \/ \E op : Begins(c, op)
        \/ att' = [att EXCEPT ![c].pc = "decide", ![c].retried = TRUE]
    <2>1. CASE StartStep(c)
      BY <2>1 DEF StartStep, OpenFileBrowser, ChooseSessions, OpenTerminal
    <2>2. CASE ConnectNext(c)
      BY <2>2 DEF ConnectNext, AskMaster, EnterMaster, CancelMaster, DecryptFails, Dial,
         ShowUnknownHost, AnswerTrust, ConnectFails, AuthFails, EnterPassword, NoPassword,
         ConnectedFiles, ConnectedSession
    <2>3. CASE AttemptStep(c) /\ ~ConnectNext(c)
      BY <2>3 DEF AttemptStep, Unsupported, PrepareFails, NoHelper, HelperReady, AskDeploy,
         AnswerDeploy, Announce, ShowSelector
    <2> QED
      BY <2>1, <2>2, <2>3
  <1> QED
    BY <1>1 DEF TypeOK, Goes, Ends, Begins

(* An attempt that steps is at work, or the key is for its question.       *)
LEMMA WorksOrHasKey ==
    ASSUME NEW c \in Attempt, AttemptStep(c)
    PROVE  att[c].pc # "idle" \/ \E kind : Key(kind, c)
  <1>1. CASE ConnectNext(c)
    BY <1>1 DEF ConnectNext, AskMaster, EnterMaster, CancelMaster, DecryptFails, Dial,
       ShowUnknownHost, AnswerTrust, ConnectFails, AuthFails, EnterPassword, NoPassword,
       ConnectedFiles, ConnectedSession
  <1>2. CASE ~ConnectNext(c)
    BY <1>2 DEF AttemptStep, Unsupported, PrepareFails, NoHelper, HelperReady, AskDeploy,
       AnswerDeploy, Announce, ShowSelector
  <1> QED
    BY <1>1, <1>2

(* A step that nobody crosses leaves the questions and the dialogs without *)
(* a button as the invariant has them.                                     *)
LEMMA AloneKeeps ==
    ASSUME ConnectingInv, TypeOK', CountInv', ~crossed, ~crossed', Next
    PROVE  WaitsOnScreen' /\ InfoInv'
  <1>1. CASE UserStep
    BY <1>1, UserKeeps DEF WaitsOnScreen, InfoInv, NoInfo, HasKind
  <1>2. ASSUME NEW c \in Attempt, StartStep(c) \/ AttemptStep(c)
        PROVE  WaitsOnScreen' /\ InfoInv'
    <2>0. TypeOK /\ CountInv
      BY DEF ConnectingInv, TypedPages
    <2>1. Informs(c) \/ Questions(c) \/ GoesOn(c) \/ (AttemptStep(c) /\ Silent(c))
      BY <1>2, <2>0, StartInforms, AttemptOutcome
    <2>2. "idle" \notin Asking /\ "idle" \notin Busy /\ Busy \cap Asking = {}
      BY DEF Asking, Busy
    <2>3. ASSUME att'[c].pc # "idle", NEW d \in Attempt, att'[d].pc \in Asking
          PROVE  d = c
      BY <2>0, <2>2, <2>3, WorksAloneNext
    <2>4. CASE Informs(c)
      <3>1. WaitsOnScreen'
        BY <2>2, <2>3, <2>4 DEF Informs, WaitsOnScreen
      <3> QED
        BY <2>4, <3>1 DEF Informs, InfoInv
    <2>5. CASE Questions(c)
      <3>1. InfoInv'
        BY <2>5 DEF Questions, InfoInv, NoInfo, HasKind
      <3>2. att'[c].pc # "idle"
        <4>1. "idle" \notin DOMAIN PageOf
          BY DEF PageOf
        <4>2. Last(overlays') \in Overlay
          <5>1. overlays' \in Seq(Overlay) /\ overlays' # <<>>
            BY <2>5 DEF TypeOK, Questions
          <5> QED
            BY <5>1 DEF Last
        <4> QED
          BY <2>5, <4>1, <4>2 DEF Questions, Overlay
      <3>3. WaitsOnScreen'
        BY <2>3, <2>5, <3>2 DEF Questions, WaitsOnScreen
      <3> QED
        BY <3>1, <3>3
    <2>6. CASE GoesOn(c)
      <3>1. WaitsOnScreen'
        BY <2>2, <2>3, <2>6 DEF GoesOn, WaitsOnScreen
      <3>2. overlays' = overlays /\ focus' = focus
        BY <2>6 DEF GoesOn, screen
      <3> QED
        BY <2>6, <3>1, <3>2 DEF ConnectingInv, GoesOn, InfoInv, HasKind
    <2>7. CASE AttemptStep(c) /\ Silent(c)
      <3>1. InfoInv'
        BY <2>7 DEF Silent, InfoInv, NoInfo, HasKind
      <3>2. ASSUME NEW d \in Attempt, att'[d].pc \in Asking
            PROVE  FALSE
        <4>1. d # c
          BY <2>7, <3>2 DEF Silent
        <4>2. att[d].pc \in Asking
          BY <1>2, <2>0, <3>2, <4>1, OthersStay
        <4>3. CASE att[c].pc # "idle"
          BY <2>0, <2>2, <4>1, <4>2, <4>3, WorksAlone
        <4>4. ASSUME NEW kind, Key(kind, c)
              PROVE  FALSE
          <5>1. Last(overlays) = [kind |-> kind, by |-> c]
            BY <4>2, <4>4, OnlyTheFront
          <5>2. Last(overlays).by = d
            BY <4>2 DEF ConnectingInv, WaitsOnScreen
          <5> QED
            BY <4>1, <5>1, <5>2
        <4> QED
          BY <2>7, <4>3, <4>4, WorksOrHasKey
      <3> QED
        BY <3>1, <3>2 DEF WaitsOnScreen
    <2> QED
      BY <2>1, <2>4, <2>5, <2>6, <2>7
  <1> QED
    BY <1>1, <1>2, NextSteps

LEMMA InitConnecting == Init => ConnectingInv
  <1> SUFFICES ASSUME Init
               PROVE  ConnectingInv
    OBVIOUS
  <1>1. TypedPages
    BY InitPages
  <1>2. AtWork = {}
    BY DEF Init, AtWork, AtRest
  <1>3. CountInv
    BY <1>2, FS_EmptySet DEF Init, CountInv
  <1>4. WaitsOnScreen
    BY DEF Init, AtRest, WaitsOnScreen, Asking
  <1>5. InfoInv
    BY DEF Init, InfoInv, HasKind
  <1> QED
    BY <1>1, <1>3, <1>4, <1>5 DEF ConnectingInv

LEMMA NextConnecting == ConnectingInv /\ [Next]_vars => ConnectingInv'
  <1> SUFFICES ASSUME ConnectingInv, [Next]_vars
               PROVE  ConnectingInv'
    OBVIOUS
  <1>1. TypedPages'
    BY NextPages DEF ConnectingInv
  <1>2. CASE Next
    <2>1. crossed' = (crossed \/ Cardinality(AtWork') + shells' + fallbacks' > 1)
      BY <1>2 DEF Next, Watch
    <2>2. TypeOK' /\ crossed \in BOOLEAN
      BY <1>1 DEF ConnectingInv, TypedPages, TypeOK
    <2>3. CountInv'
      <3>1. AtWork' \subseteq Attempt
        BY DEF AtWork
      <3>2. Cardinality(AtWork') \in Nat /\ shells' \in Nat /\ fallbacks' \in Nat
        BY <2>2, <3>1, FS_Subset, FS_CardinalityType, ConnectingAssumption DEF TypeOK
      <3>3. ~crossed' => ~(Cardinality(AtWork') + shells' + fallbacks' > 1)
        BY <2>1, Zenon
      <3> QED
        BY <3>2, <3>3 DEF CountInv
    <2>4. ~crossed' => ~crossed
      BY <2>1
    <2>5. ~crossed' => WaitsOnScreen' /\ InfoInv'
      BY <1>2, <2>2, <2>3, <2>4, AloneKeeps
    <2>6. crossed' => WaitsOnScreen' /\ InfoInv'
      BY DEF WaitsOnScreen, InfoInv
    <2> QED
      BY <1>1, <2>3, <2>5, <2>6 DEF ConnectingInv
  <1>3. CASE UNCHANGED vars
    BY <1>1, <1>3 DEF vars, screen, terminal, ConnectingInv, CountInv, AtWork, WaitsOnScreen,
       InfoInv, HasKind
  <1> QED
    BY <1>2, <1>3

LEMMA Invariance == Spec => []ConnectingInv
  BY InitConnecting, NextConnecting, PTL DEF Spec

(* While nothing crosses, an attempt that waits for an answer has its      *)
(* question in front and with the keys.                                    *)
THEOREM QuestionsAreInFront == Spec => []WaitsOnScreen
  <1>1. ConnectingInv => WaitsOnScreen
    BY DEF ConnectingInv
  <1> QED
    BY <1>1, Invariance, PTL

(* While nothing crosses, a dialog without a button has somebody at work   *)
(* who takes it away.                                                      *)
THEOREM NoKeyboardIsDead == Spec => []InfoHasWorker
  <1>1. ConnectingInv => InfoHasWorker
    BY DEF ConnectingInv, InfoInv, InfoHasWorker, HasKind
  <1> QED
    BY <1>1, Invariance, PTL

===============================================================================
