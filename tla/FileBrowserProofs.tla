--------------------------- MODULE FileBrowserProofs ---------------------------
(***************************************************************************)
(* What FileBrowser says of its rows, its listings and its requests holds  *)
(* for any names, any listings and any number of jobs.                     *)
(*                                                                         *)
(* IInv carries the proofs.  Of the remote panel it knows that a listing   *)
(* under way is of the directory it is in, and that nobody leaves that     *)
(* directory meanwhile; of a question or an edit, that the path it keeps   *)
(* is the one next to the row it was asked on.                             *)
(***************************************************************************)
EXTENDS FileBrowser, SequenceTheorems, FiniteSetTheorems, TLAPS

-------------------------------------------------------------------------------
(* Stacks of pages.                                                        *)

\* Everything that may lie on the browser.
Overlay ==
    {Modal("error"), Modal("info"), [page |-> "viewer", kind |-> "viewer"]}
    \cup {Progress(j) : j \in Job}
    \cup [page : {"input"}, kind : Panel]
    \cup [page : {"modal"}, kind : {"confirm"}, panel : Panel, name : Name,
          target : Seq(Name), row : Seq(Name) \cup {Unseen}]

\* One page of each name.
Proper(s) ==
    /\ s \in Seq(Overlay)
    /\ \A i, k \in DOMAIN s : s[i].page = s[k].page => i = k

\* What lies in s was in t.
From(s, t) ==
    /\ Proper(s)
    /\ \A i \in DOMAIN s : \E k \in DOMAIN t : s[i] = t[k]

Work == [op : {"upload", "download", "remove", "view", "edit"},
         stage : {"run", "returned", "closed", "save"}, cancel : BOOLEAN,
         result : {"none", "ok", "error", "cancelled"},
         target : Seq(Name), row : Seq(Name) \cup {Unseen}]

(* What lies on the browser is one of three pages; a question is complete. *)
LEMMA OverlayPages ==
    ASSUME NEW o \in Overlay
    PROVE  /\ o.page \in {"modal", "input", "viewer"}
           /\ o.kind = "confirm" => o \in [page : {"modal"}, kind : {"confirm"}, panel : Panel,
                    name : Name, target : Seq(Name), row : Seq(Name) \cup {Unseen}]
  BY DEF Overlay, Modal, Progress, Panel, Local, Remote

(* To remove a page leaves the others.                                     *)
LEMMA RemovePage ==
    ASSUME NEW s, Proper(s), NEW k \in DOMAIN s
    PROVE  /\ From(RemoveAt(s, k), s)
           /\ \A i \in DOMAIN RemoveAt(s, k) : RemoveAt(s, k)[i].page # s[k].page
  <1> DEFINE a == SubSeq(s, 1, k - 1)
             b == SubSeq(s, k + 1, Len(s))
             t == RemoveAt(s, k)
  <1>1. /\ s \in Seq(Overlay) /\ DOMAIN s = 1 .. Len(s)
        /\ k \in Nat /\ Len(s) \in Nat /\ 1 <= k /\ k <= Len(s)
    BY DEF Proper
  <1>2. /\ a \in Seq(Overlay) /\ Len(a) = k - 1
        /\ \A j \in 1 .. k - 1 : a[j] = s[j]
    BY <1>1, SubSeqProperties
  <1>3. /\ b \in Seq(Overlay) /\ Len(b) = Len(s) - k
        /\ \A j \in 1 .. Len(s) - k : b[j] = s[k + j]
    BY <1>1, SubSeqProperties
  <1>4. t = a \o b
    BY DEF RemoveAt
  <1> HIDE DEF a, b
  <1>5. /\ a \o b \in Seq(Overlay) /\ Len(a \o b) = Len(a) + Len(b)
        /\ \A j \in 1 .. Len(a) + Len(b) :
              (a \o b)[j] = IF j <= Len(a) THEN a[j] ELSE b[j - Len(a)]
    BY <1>2, <1>3, ConcatProperties, Zenon
  <1> DEFINE up(i) == IF i < k THEN i ELSE i + 1
  <1>6. t \in Seq(Overlay) /\ DOMAIN t = 1 .. Len(s) - 1
    <2>1. Len(a) + Len(b) = Len(s) - 1
      BY <1>1, <1>2, <1>3
    <2> HIDE DEF t
    <2>2. t \in Seq(Overlay) /\ Len(t) = Len(s) - 1
      BY <1>4, <1>5, <2>1
    <2> QED
      BY <2>2
  <1>7. ASSUME NEW j \in DOMAIN t
        PROVE  up(j) \in DOMAIN s /\ up(j) # k /\ t[j] = s[up(j)]
    <2>1. j \in 1 .. Len(s) - 1 /\ Len(a) + Len(b) = Len(s) - 1
      BY <1>1, <1>2, <1>3, <1>6
    <2>2. CASE j < k
      BY <1>1, <1>2, <1>4, <1>5, <2>1, <2>2
    <2>3. CASE ~(j < k)
      <3>1. j - (k - 1) \in 1 .. Len(s) - k /\ k + (j - (k - 1)) = j + 1
        BY <1>1, <2>1, <2>3
      <3>2. t[j] = b[j - (k - 1)]
        BY <1>1, <1>2, <1>4, <1>5, <2>1, <2>3
      <3>3. t[j] = s[j + 1]
        BY <1>3, <3>1, <3>2
      <3> QED
        BY <1>1, <2>1, <2>3, <3>3
    <2> QED
      BY <2>2, <2>3
  <1>8. \A i, j \in DOMAIN t : up(i) = up(j) => i = j
    BY <1>1, <1>6
  <1> HIDE DEF up, t
  <1>9. Proper(t)
    BY <1>6, <1>7, <1>8 DEF Proper
  <1> QED
    BY <1>7, <1>9 DEF From, Proper, t

(* The page of that name is gone, and nothing else is.                     *)
LEMMA WithoutPage ==
    ASSUME NEW s, Proper(s), NEW name
    PROVE  /\ From(Without(name, s), s)
           /\ \A i \in DOMAIN Without(name, s) : Without(name, s)[i].page # name
  <1>1. CASE ~ \E i \in DOMAIN s : s[i].page = name
    BY <1>1 DEF Without, From
  <1>2. CASE \E i \in DOMAIN s : s[i].page = name
    <2> DEFINE k == CHOOSE i \in DOMAIN s : s[i].page = name
    <2>1. k \in DOMAIN s /\ s[k].page = name
      BY <1>2
    <2>2. Without(name, s) = RemoveAt(s, k)
      BY <1>2 DEF Without
    <2> HIDE DEF k
    <2> QED
      BY <2>1, <2>2, RemovePage
  <1> QED
    BY <1>1, <1>2

(* A page put in front replaces the one of its name.                       *)
LEMMA RaisePage ==
    ASSUME NEW s, Proper(s), NEW o \in Overlay
    PROVE  /\ Proper(Raise(s, o))
           /\ \A i \in DOMAIN Raise(s, o) :
                Raise(s, o)[i] = o \/ \E k \in DOMAIN s : Raise(s, o)[i] = s[k]
  <1> DEFINE w == Without(o.page, s)
             t == Append(w, o)
  <1>1. /\ Proper(w) /\ \A i \in DOMAIN w : \E k \in DOMAIN s : w[i] = s[k]
        /\ \A i \in DOMAIN w : w[i].page # o.page
    BY WithoutPage DEF From
  <1>2. t = Raise(s, o)
    BY DEF Raise
  <1> HIDE DEF w
  <1>3. /\ t \in Seq(Overlay) /\ Len(w) \in Nat
        /\ DOMAIN t = 1 .. Len(w) + 1 /\ DOMAIN w = 1 .. Len(w)
        /\ \A i \in DOMAIN w : t[i] = w[i]
        /\ t[Len(w) + 1] = o
    BY <1>1 DEF Proper
  <1>4. \A i \in DOMAIN t : i = Len(w) + 1 \/ i \in DOMAIN w
    BY <1>3
  <1> HIDE DEF t
  <1>5. Proper(t)
    BY <1>1, <1>3, <1>4 DEF Proper
  <1>6. \A i \in DOMAIN t : t[i] = o \/ \E k \in DOMAIN s : t[i] = s[k]
    BY <1>1, <1>3, <1>4
  <1> QED
    BY <1>2, <1>5, <1>6

(* What the dialogs that close leave was there before.                     *)
LEMMA FrontPages ==
    ASSUME NEW s, Proper(s)
    PROVE  From(s, s) /\ From(Front(s), s) /\ From(RemoveModal(s), s)
  <1>1. /\ s \in Seq(Overlay) /\ DOMAIN s = 1 .. Len(s) /\ Len(s) \in Nat
        /\ \A i, k \in DOMAIN s : s[i].page = s[k].page => i = k
    BY DEF Proper
  <1>2. From(s, s)
    BY DEF From
  <1>3. From(Front(s), s)
    <2> DEFINE t == SubSeq(s, 1, Len(s) - 1)
    <2>1. t = Front(s)
      BY DEF Front
    <2>2. CASE Len(s) = 0
      <3>1. t \in Seq(Overlay) /\ DOMAIN t = {}
        BY <1>1, <2>2
      <3> QED
        BY <2>1, <3>1 DEF From, Proper
    <2>3. CASE Len(s) # 0
      <3>1. /\ t \in Seq(Overlay) /\ Len(t) = Len(s) - 1
            /\ \A i \in 1 .. Len(s) - 1 : t[i] = s[i]
        BY <1>1, <2>3, SubSeqProperties
      <3> HIDE DEF t
      <3>2. \A i \in DOMAIN t : i \in DOMAIN s /\ t[i] = s[i]
        BY <1>1, <3>1
      <3> QED
        BY <1>1, <2>1, <3>1, <3>2 DEF From, Proper
    <2> QED
      BY <2>2, <2>3
  <1> QED
    BY <1>2, <1>3 DEF RemoveModal

-------------------------------------------------------------------------------

Focus == Panel \cup {"modal", "input", "viewer", "hosts"}

\* The question about a remote entry is about the row it was asked on.
Sound(o) ==
    o.kind = "confirm" /\ o.panel = Remote => o.row \in {Unseen, o.target}

PagesInv ==
    /\ Proper(pages) /\ focus \in Focus
    /\ \A i \in DOMAIN pages : Sound(pages[i])

Flags == open \in BOOLEAN /\ active \in Panel

(* Pages that were there, with one of them in front or none, keep PagesInv. *)
LEMMA PagesStay ==
    ASSUME PagesInv, Flags, NEW s, From(s, pages)
    PROVE  /\ Show(s) => PagesInv'
           /\ FocusActive(s) => PagesInv'
  <1>1. /\ Proper(s)
        /\ \A i \in DOMAIN s : Sound(s[i])
    BY DEF From, PagesInv
  <1>2. FrontFocus(s) \in Focus
    <2>1. CASE s = <<>>
      BY <2>1 DEF FrontFocus, Focus, Panel
    <2>2. CASE s # <<>>
      <3>1. Last(s) \in Overlay
        BY <1>1, <2>2 DEF Last, Proper
      <3> QED
        BY <2>2, <3>1, OverlayPages DEF FrontFocus, Focus
    <2> QED
      BY <2>1, <2>2
  <1>3. Show(s) => pages' = s /\ focus' \in Focus
    BY <1>2 DEF Show, PagesInv
  <1>4. FocusActive(s) => pages' = s /\ focus' \in Focus
    BY DEF FocusActive, Flags, Focus
  <1> QED
    BY <1>1, <1>3, <1>4 DEF PagesInv

(* A page in front of what was there, with the focus or without.           *)
LEMMA PagesGrow ==
    ASSUME PagesInv, Flags, NEW s, From(s, pages), NEW o \in Overlay, Sound(o)
    PROVE  /\ Add(s, o) => PagesInv'
           /\ pages' = Raise(s, o) /\ focus' \in Focus => PagesInv'
           /\ FocusActive(Raise(s, o)) => PagesInv'
  <1>1. /\ Proper(Raise(s, o))
        /\ \A i \in DOMAIN Raise(s, o) :
             Raise(s, o)[i] = o \/ \E k \in DOMAIN s : Raise(s, o)[i] = s[k]
    BY RaisePage DEF From
  <1>2. \A i \in DOMAIN Raise(s, o) : Sound(Raise(s, o)[i])
    BY <1>1 DEF From, PagesInv
  <1>3. pages' = Raise(s, o) /\ focus' \in Focus => PagesInv'
    BY <1>1, <1>2 DEF PagesInv
  <1>4. o.page \in Focus
    BY OverlayPages DEF Focus
  <1> QED
    BY <1>3, <1>4 DEF Add, FocusActive, PagesInv, Flags, Focus

(* Messages, transfers and names asked for are no questions.               *)
LEMMA PagesPlain ==
    /\ Modal("error") \in Overlay /\ Sound(Modal("error"))
    /\ Modal("info") \in Overlay /\ Sound(Modal("info"))
    /\ \A j \in Job : Progress(j) \in Overlay /\ Sound(Progress(j))
    /\ \A p \in Panel : /\ [page |-> "input", kind |-> p] \in Overlay
                        /\ Sound([page |-> "input", kind |-> p])
  BY DEF Overlay, Sound, Modal, Progress, Panel, Local, Remote

(* An error, an information or a transfer's dialog over what was there.    *)
LEMMA ErrorStays ==
    ASSUME PagesInv, Flags, NEW s, From(s, pages)
    PROVE  /\ ShowError(s) => PagesInv'
           /\ FocusActive(Raise(s, Modal("error"))) => PagesInv'
           /\ Add(s, Modal("info")) => PagesInv'
           /\ \A j \in Job : Add(s, Progress(j)) => PagesInv'
  <1>1. "modal" \in Focus
    BY DEF Focus
  <1> QED
    BY <1>1, PagesGrow, PagesPlain DEF ShowError

(* The viewer, or the host list, hides everything else.                    *)
LEMMA ViewerAlone ==
    ASSUME PagesInv, ShowViewer \/ (pages' = <<>> /\ focus' = "hosts")
    PROVE  PagesInv'
  <1>1. CASE ShowViewer
    <2> DEFINE o == [page |-> "viewer", kind |-> "viewer"]
    <2>1. o \in Overlay /\ Sound(o)
      BY DEF Overlay, Sound
    <2>2. pages' = <<o>> /\ focus' = "viewer"
      BY <1>1 DEF ShowViewer
    <2> HIDE DEF o
    <2>3. <<o>> \in Seq(Overlay) /\ DOMAIN <<o>> = {1} /\ <<o>>[1] = o
      BY <2>1
    <2> QED
      BY <2>1, <2>2, <2>3 DEF PagesInv, Proper, Focus
  <1>2. CASE pages' = <<>> /\ focus' = "hosts"
    <2>1. <<>> \in Seq(Overlay) /\ DOMAIN <<>> = {}
      OBVIOUS
    <2> QED
      BY <1>2, <2>1 DEF PagesInv, Proper, Focus
  <1> QED
    BY <1>1, <1>2

-------------------------------------------------------------------------------

PanelsInv ==
    /\ dir \in [Panel -> Dir] /\ path \in [Panel -> Dir]
    /\ files \in [Panel -> SUBSET Name] /\ sel \in [Panel -> Name \cup {Up}]

(* A directory is a path of names, no deeper than directories are opened.  *)
LEMMA DirIs == \A d : d \in Dir <=> d \in Seq(DirName) /\ Len(d) <= MaxDepth
  <1> SUFFICES ASSUME NEW d
               PROVE  d \in Dir <=> d \in Seq(DirName) /\ Len(d) <= MaxDepth
    OBVIOUS
  <1>1. ASSUME d \in Dir
        PROVE  d \in Seq(DirName) /\ Len(d) <= MaxDepth
    <2>1. PICK k \in 0 .. MaxDepth : d \in [1 .. k -> DirName]
      BY <1>1 DEF Dir
    <2>2. MaxDepth \in Nat
      BY BrowserAssumption DEF BrowserAssumption
    <2>3. k \in Nat /\ k <= MaxDepth
      BY <2>2
    <2>4. d \in Seq(DirName) /\ Len(d) = k
      BY <2>1, <2>3
    <2> QED
      BY <2>3, <2>4
  <1>2. ASSUME d \in Seq(DirName), Len(d) <= MaxDepth
        PROVE  d \in Dir
    <2>1. Len(d) \in 0 .. MaxDepth /\ d \in [1 .. Len(d) -> DirName]
      BY <1>2, BrowserAssumption DEF BrowserAssumption
    <2> QED
      BY <2>1 DEF Dir
  <1> QED
    BY <1>1, <1>2

(* A panel enters a directory, and the other panel stays.                  *)
LEMMA EntersTyped ==
    ASSUME PanelsInv, NEW p \in Panel, Enters(p)
    PROVE  dir' \in [Panel -> Dir] /\ \A q \in Panel \ {p} : dir'[q] = dir[q]
  <1>1. MaxDepth \in Nat /\ dir[p] \in Seq(DirName) /\ Len(dir[p]) <= MaxDepth
    BY DirIs, BrowserAssumption DEF PanelsInv, BrowserAssumption
  <1>2. CASE dir' = [dir EXCEPT ![p] = Parent(@)]
    <2>1. Parent(dir[p]) \in Dir
      <3>1. CASE dir[p] = <<>>
        BY <3>1 DEF Parent, PanelsInv
      <3>2. CASE dir[p] # <<>>
        <4> DEFINE d == dir[p]
        <4> HIDE DEF d
        <4>1. d \in Seq(DirName) /\ Len(d) \in Nat /\ Len(d) >= 1 /\ Len(d) <= MaxDepth
          BY <1>1, <3>2 DEF d
        <4>2. Front(d) \in Seq(DirName) /\ Len(Front(d)) = Len(d) - 1
          <5> DEFINE t == SubSeq(d, 1, Len(d) - 1)
          <5>1. DOMAIN d = 1 .. Len(d)
            BY <4>1
          <5>2. /\ t \in Seq(DirName) /\ Len(t) = Len(d) - 1
                /\ \A i \in 1 .. Len(d) - 1 : t[i] = d[i]
            BY <4>1, <5>1, SubSeqProperties
          <5> QED
            BY <5>2 DEF Front
        <4>3. Front(d) \in Dir
          BY <1>1, <4>1, <4>2, DirIs
        <4> QED
          BY <3>2, <4>3 DEF d, Parent
      <3> QED
        BY <3>1, <3>2
    <2> QED
      BY <1>2, <2>1 DEF PanelsInv
  <1>3. ASSUME NEW n \in DirName, Len(dir[p]) < MaxDepth, dir' = [dir EXCEPT ![p] = Append(@, n)]
        PROVE  dir' \in [Panel -> Dir] /\ \A q \in Panel \ {p} : dir'[q] = dir[q]
    <2>1. Append(dir[p], n) \in Seq(DirName) /\ Len(Append(dir[p], n)) <= MaxDepth
      BY <1>1, <1>3
    <2>2. Append(dir[p], n) \in Dir
      BY <2>1, DirIs
    <2> QED
      BY <1>3, <2>2 DEF PanelsInv
  <1> QED
    BY <1>2, <1>3 DEF Enters

(* A panel is listed, and the other panel stays.                           *)
LEMMA ListedTyped ==
    ASSUME PanelsInv, NEW p \in Panel, NEW d \in Dir, NEW names \in Listings,
           Listed(p, d, names)
    PROVE  /\ path' \in [Panel -> Dir] /\ files' \in [Panel -> SUBSET Name]
           /\ sel' \in [Panel -> Name \cup {Up}]
           /\ path'[p] = d /\ \A q \in Panel \ {p} : path'[q] = path[q]
  BY BrowserAssumption DEF PanelsInv, Listed, BrowserAssumption

-------------------------------------------------------------------------------

LoadInv ==
    /\ remoteLoading \in BOOLEAN /\ shown \in {"rows", "loading", "blank"}
    /\ remoteLoading <=> listings # {}
    /\ remoteLoading <=> shown = "loading"
    /\ listings \subseteq {dir[Remote]}
    /\ shown = "rows" => path[Remote] = dir[Remote]

(* Where the remote panel stays, so does what is known of its listings.    *)
LEMMA LoadStays ==
    ASSUME LoadInv, UNCHANGED load, dir'[Remote] = dir[Remote], path'[Remote] = path[Remote]
    PROVE  LoadInv'
  BY DEF LoadInv, load

(* A listing is of the directory of this moment, or there was one already. *)
LEMMA LoadStarts ==
    ASSUME LoadInv, StartRemoteLoad, path'[Remote] = path[Remote],
           dir'[Remote] = dir[Remote] \/ ~remoteLoading
    PROVE  LoadInv'
  BY DEF LoadInv, load, StartRemoteLoad

JobSound(job) ==
    job.op = "edit" => job.stage \in {"run", "save"} /\ job.row \in {Unseen, job.target}

JobsInv ==
    /\ DOMAIN jobs \subseteq Job /\ jobs \in [DOMAIN jobs -> Work]
    /\ \A j \in DOMAIN jobs : JobSound(jobs[j])
    /\ temps \subseteq {j \in DOMAIN jobs : jobs[j].op = "edit"}

(* A new job is one more.                                                  *)
LEMMA JobBegins ==
    ASSUME JobsInv, NEW j \in Job, j \notin DOMAIN jobs, NEW job \in Work, JobSound(job),
           jobs' = With(j, job),
           temps' = temps \/ (temps' = temps \cup {j} /\ job.op = "edit")
    PROVE  JobsInv'
  <1>1. /\ DOMAIN jobs' = DOMAIN jobs \cup {j}
        /\ jobs'[j] = job /\ \A i \in DOMAIN jobs : jobs'[i] = jobs[i]
        /\ jobs' = [i \in DOMAIN jobs' |-> jobs'[i]]
    BY DEF With
  <1>2. \A i \in DOMAIN jobs' : jobs'[i] \in Work /\ JobSound(jobs'[i])
    BY <1>1 DEF JobsInv
  <1>3. temps' \subseteq {i \in DOMAIN jobs' : jobs'[i].op = "edit"}
    BY <1>1 DEF JobsInv
  <1>4. jobs' \in [DOMAIN jobs' -> Work] /\ DOMAIN jobs' \subseteq Job
    BY <1>1, <1>2 DEF JobsInv
  <1> QED
    BY <1>2, <1>3, <1>4 DEF JobsInv

(* A job that changes is the only one, and keeps its kind.                 *)
LEMMA JobChanges ==
    ASSUME JobsInv, NEW j \in DOMAIN jobs, NEW job \in Work, JobSound(job),
           job.op = jobs[j].op, jobs' = [jobs EXCEPT ![j] = job], temps' = temps
    PROVE  JobsInv'
  <1>1. /\ DOMAIN jobs' = DOMAIN jobs
        /\ jobs'[j] = job /\ \A i \in DOMAIN jobs : i # j => jobs'[i] = jobs[i]
        /\ jobs' = [i \in DOMAIN jobs' |-> jobs'[i]]
    BY DEF JobsInv
  <1>2. \A i \in DOMAIN jobs' : jobs'[i] \in Work /\ JobSound(jobs'[i])
    BY <1>1 DEF JobsInv
  <1>3. temps' \subseteq {i \in DOMAIN jobs' : jobs'[i].op = "edit"}
    BY <1>1 DEF JobsInv
  <1>4. jobs' \in [DOMAIN jobs' -> Work] /\ DOMAIN jobs' \subseteq Job
    BY <1>1, <1>2 DEF JobsInv
  <1> QED
    BY <1>2, <1>3, <1>4 DEF JobsInv

(* A job that ends takes its temporary file with it.                       *)
LEMMA JobEnds ==
    ASSUME JobsInv, NEW j \in DOMAIN jobs, Done(j),
           temps' = temps \ {j} \/ (temps' = temps /\ jobs[j].op # "edit")
    PROVE  JobsInv'
  <1>1. /\ DOMAIN jobs' = DOMAIN jobs \ {j}
        /\ \A i \in DOMAIN jobs' : jobs'[i] = jobs[i]
        /\ jobs' = [i \in DOMAIN jobs' |-> jobs'[i]]
    BY DEF Done
  <1>2. \A i \in DOMAIN jobs' : jobs'[i] \in Work /\ JobSound(jobs'[i])
    BY <1>1 DEF JobsInv
  <1>3. temps' \subseteq {i \in DOMAIN jobs' : jobs'[i].op = "edit"}
    BY <1>1 DEF JobsInv
  <1>4. jobs' \in [DOMAIN jobs' -> Work] /\ DOMAIN jobs' \subseteq Job
    BY <1>1, <1>2 DEF JobsInv
  <1> QED
    BY <1>2, <1>3, <1>4 DEF JobsInv

IInv == Flags /\ PanelsInv /\ LoadInv /\ PagesInv /\ JobsInv /\ strayed = FALSE

(* What a step leaves alone stays as it was.                               *)
LEMMA KeptKeeps ==
    ASSUME IInv
    PROVE  /\ UNCHANGED panels => PanelsInv'
           /\ UNCHANGED work => JobsInv'
           /\ UNCHANGED <<panels, load>> => LoadInv'
           /\ UNCHANGED screen => PagesInv'
  <1>1. UNCHANGED panels => PanelsInv'
    BY DEF IInv, PanelsInv, panels
  <1>2. UNCHANGED work => JobsInv'
    BY DEF IInv, JobsInv, work
  <1>3. UNCHANGED <<panels, load>> => LoadInv'
    BY LoadStays DEF IInv, panels
  <1>4. UNCHANGED screen => PagesInv'
    BY DEF IInv, PagesInv, screen
  <1> QED
    BY <1>1, <1>2, <1>3, <1>4

(* Keys that only change what is in front.                                 *)
LEMMA ScreenKeys ==
    ASSUME IInv, \/ SwitchPanel \/ CloseBrowser \/ Refused \/ AskName \/ ViewLocal
                 \/ PressOK \/ PressNo \/ PressCancelName \/ CloseViewer
                 \/ \E n \in Name : AskDelete(n)
    PROVE  IInv'
  <1>i. Flags /\ PagesInv /\ PanelsInv /\ Proper(pages)
    BY DEF IInv, PagesInv
  <1>1. UNCHANGED <<panels, load, work, strayed>> /\ Flags'
    BY <1>i DEF SwitchPanel, CloseBrowser, Refused, AskName, ViewLocal, PressOK, PressNo,
       PressCancelName, CloseViewer, AskDelete, Flags, Panel
  <1>f. From(pages, pages) /\ From(Front(pages), pages) /\ From(RemoveModal(pages), pages)
    BY <1>i, FrontPages
  <1>s. SUFFICES PagesInv'
    BY <1>1, KeptKeeps DEF IInv
  <1>2. CASE SwitchPanel
    BY <1>2, <1>1, <1>i DEF SwitchPanel, PagesInv, Flags, Focus, Panel
  <1>3. CASE CloseBrowser
    BY <1>3, <1>i, ViewerAlone DEF CloseBrowser
  <1>4. CASE Refused
    BY <1>4, <1>i, <1>f, ErrorStays DEF Refused
  <1>5. CASE AskName
    <2> DEFINE o == [page |-> "input", kind |-> active]
    <2>1. o \in Overlay /\ Sound(o)
      BY <1>i, PagesPlain DEF Flags
    <2>2. pages' = Raise(pages, o) /\ focus' \in Focus
      BY <1>5 DEF AskName, Focus
    <2> HIDE DEF o
    <2> QED
      BY <1>i, <1>f, <2>1, <2>2, PagesGrow
  <1>6. CASE ViewLocal
    BY <1>6, <1>i, <1>f, ErrorStays, ViewerAlone DEF ViewLocal
  <1>7. CASE PressOK \/ PressNo \/ PressCancelName
    BY <1>7, <1>i, <1>f, PagesStay DEF PressOK, PressNo, PressCancelName
  <1>8. CASE CloseViewer
    <2>1. From(<<>>, pages)
      <3>1. <<>> \in Seq(Overlay) /\ DOMAIN <<>> = {}
        OBVIOUS
      <3> QED
        BY <3>1 DEF From, Proper
    <2> QED
      BY <1>8, <1>i, <2>1, PagesStay DEF CloseViewer
  <1>9. ASSUME NEW n \in Name, AskDelete(n)
        PROVE  PagesInv'
    <2> DEFINE o == [page |-> "modal", kind |-> "confirm", panel |-> active,
                     name |-> n, target |-> Append(dir[active], n),
                     row |-> RowOf(active, n)]
    <2>1. dir[active] \in Seq(Name) /\ path[active] \in Seq(Name)
      BY <1>i, DirIs, BrowserAssumption DEF PanelsInv, Flags, BrowserAssumption
    <2>2. /\ Append(dir[active], n) \in Seq(Name)
          /\ RowOf(active, n) \in Seq(Name) \cup {Unseen}
      BY <2>1 DEF RowOf
    <2>3. o \in Overlay
      <3>1. o \in [page : {"modal"}, kind : {"confirm"}, panel : Panel, name : Name,
                   target : Seq(Name), row : Seq(Name) \cup {Unseen}]
        BY <1>i, <2>2 DEF Flags
      <3> HIDE DEF o
      <3> QED
        BY <3>1 DEF Overlay
    <2>4. Sound(o)
      <3>1. active = Remote => RowOf(active, n) \in {Unseen, Append(dir[active], n)}
        BY DEF IInv, LoadInv, RowOf
      <3> QED
        BY <3>1 DEF Sound
    <2>5. pages' = Raise(pages, o) /\ focus' \in Focus
      BY <1>9 DEF AskDelete, Focus
    <2> HIDE DEF o
    <2> QED
      BY <1>i, <1>f, <2>3, <2>4, <2>5, PagesGrow
  <1> QED
    BY <1>2, <1>3, <1>4, <1>5, <1>6, <1>7, <1>8, <1>9

(* The question in front was asked about the row its answer is about.      *)
LEMMA AnswersTheRow ==
    ASSUME IInv, Confirms(Remote)
    PROVE  Last(pages).row \in {Unseen, Last(pages).target}
  <1>1. /\ pages \in Seq(Overlay) /\ \A i \in DOMAIN pages : Sound(pages[i])
        /\ pages # <<>> /\ Last(pages).kind = "confirm" /\ Last(pages).panel = Remote
    BY DEF IInv, PagesInv, Proper, Confirms, Has, InFront
  <1>2. Last(pages) = pages[Len(pages)] /\ Len(pages) \in DOMAIN pages
    BY <1>1 DEF Last
  <1> QED
    BY <1>1, <1>2 DEF Sound

(* Moving the cursor, and the table moving it.                             *)
LEMMA CursorKeys ==
    ASSUME IInv, \/ \E n \in Name \cup {Up} : MoveCursor(n)
                 \/ \E n \in Name : CursorSlips(n)
    PROVE  IInv'
  <1>i. Flags /\ PanelsInv
    BY DEF IInv
  <1>1. /\ UNCHANGED <<dir, path, files, load, screen, work, strayed>> /\ Flags'
        /\ \E p \in Panel, n \in Name \cup {Up} : sel' = [sel EXCEPT ![p] = n]
    <2>1. ASSUME NEW n \in Name \cup {Up}, MoveCursor(n)
          PROVE  <1>1!:
      BY <1>i, <2>1 DEF MoveCursor, TableKey, Flags
    <2>2. ASSUME NEW n \in Name, CursorSlips(n)
          PROVE  <1>1!:
      BY <1>i, <2>2 DEF CursorSlips, Panel, Flags
    <2> QED
      BY <2>1, <2>2
  <1>2. PanelsInv'
    BY <1>i, <1>1 DEF PanelsInv
  <1>3. LoadInv'
    BY <1>1, LoadStays DEF IInv
  <1> QED
    BY <1>1, <1>2, <1>3, KeptKeeps DEF IInv

(* The left panel is read, or cannot be.                                   *)
LocalRead ==
    \/ \E names \in Listings : Listed(Local, dir'[Local], names)
    \/ SameRows

(* To read the left panel does not touch the right one.                    *)
LEMMA LocalKeeps ==
    ASSUME IInv, LocalRead, dir' \in [Panel -> Dir], dir'[Remote] = dir[Remote],
           UNCHANGED load
    PROVE  PanelsInv' /\ LoadInv'
  <1>i. PanelsInv /\ LoadInv /\ Local \in Panel /\ Remote \in Panel \ {Local}
    BY DEF IInv, Panel, Local, Remote
  <1>1. /\ path' \in [Panel -> Dir] /\ files' \in [Panel -> SUBSET Name]
        /\ sel' \in [Panel -> Name \cup {Up}] /\ path'[Remote] = path[Remote]
    <2>1. CASE SameRows
      BY <1>i, <2>1 DEF SameRows, PanelsInv
    <2>2. ASSUME NEW names \in Listings, Listed(Local, dir'[Local], names)
          PROVE  <1>1!:
      <3>1. dir'[Local] \in Dir
        BY <1>i
      <3> QED
        BY <1>i, <2>2, <3>1, ListedTyped
    <2> QED
      BY <2>1, <2>2 DEF LocalRead
  <1> QED
    BY <1>i, <1>1, LoadStays DEF PanelsInv

(* Keys after which the left panel is read.                                *)
LEMMA LocalKeys ==
    ASSUME IInv, OpenLocal \/ EditLocal \/ YesLocal \/ CreateLocal
    PROVE  IInv'
  <1>i. Flags /\ PanelsInv /\ PagesInv /\ Local \in Panel /\ Remote \in Panel \ {Local}
    BY DEF IInv, Panel, Local, Remote
  <1>f. From(pages, pages) /\ From(Front(pages), pages)
    BY <1>i, FrontPages DEF PagesInv
  <1>1. UNCHANGED <<load, work, strayed>> /\ Flags'
    BY <1>i DEF OpenLocal, EditLocal, YesLocal, CreateLocal, Flags
  <1>2. dir' \in [Panel -> Dir] /\ dir'[Remote] = dir[Remote]
    <2>1. CASE OpenLocal
      BY <1>i, <2>1, EntersTyped DEF OpenLocal
    <2>2. CASE EditLocal \/ YesLocal \/ CreateLocal
      BY <1>i, <2>2 DEF EditLocal, YesLocal, CreateLocal, PanelsInv
    <2> QED
      BY <2>1, <2>2
  <1>3. LocalRead
    <2>1. CASE OpenLocal \/ EditLocal \/ YesLocal
      BY <2>1 DEF OpenLocal, EditLocal, YesLocal, LoadLocal, LoadLocalFocused, LocalRead
    <2>2. CASE CreateLocal
      BY <2>2 DEF CreateLocal, LocalRead
    <2> QED
      BY <2>1, <2>2
  <1>4. PagesInv'
    <2>1. CASE OpenLocal \/ EditLocal
      BY <1>i, <1>f, <2>1, PagesStay, ErrorStays DEF OpenLocal, EditLocal, LoadLocal
    <2>2. CASE YesLocal
      BY <1>i, <1>f, <2>2, PagesStay, ErrorStays DEF YesLocal, LoadLocalFocused
    <2>3. CASE CreateLocal
      BY <1>i, <1>f, <2>3, PagesStay, ErrorStays DEF CreateLocal
    <2> QED
      BY <2>1, <2>2, <2>3
  <1> QED
    BY <1>1, <1>2, <1>3, <1>4, LocalKeeps, KeptKeeps DEF IInv

(* What asks for the right panel to be listed, and the listings.           *)
LEMMA RemoteKeys ==
    ASSUME IInv, OpenRemote \/ CreateRemote \/ YesRemoteFile
    PROVE  IInv'
  <1>i. Flags /\ PanelsInv /\ LoadInv /\ PagesInv /\ Remote \in Panel
    BY DEF IInv, Panel, Local, Remote
  <1>f. From(pages, pages) /\ From(Front(pages), pages)
    BY <1>i, FrontPages DEF PagesInv
  <1>1. UNCHANGED <<path, files, sel, work>> /\ Flags'
    BY <1>i DEF OpenRemote, CreateRemote, YesRemoteFile, SameRows, Flags
  <1>2. dir' \in [Panel -> Dir] /\ (dir' = dir \/ ~remoteLoading)
    <2>1. CASE OpenRemote
      BY <1>i, <2>1, EntersTyped DEF OpenRemote
    <2>2. CASE CreateRemote \/ YesRemoteFile
      BY <1>i, <2>2 DEF CreateRemote, YesRemoteFile, PanelsInv
    <2> QED
      BY <2>1, <2>2
  <1>3. StartRemoteLoad \/ (dir' = dir /\ UNCHANGED load)
    BY DEF OpenRemote, CreateRemote, YesRemoteFile
  <1>4. LoadInv'
    BY <1>i, <1>1, <1>2, <1>3, LoadStarts, LoadStays
  <1>5. PagesInv'
    <2>1. CASE OpenRemote
      BY <2>1, KeptKeeps DEF OpenRemote
    <2>2. CASE CreateRemote
      BY <1>i, <1>f, <2>2, PagesStay, ErrorStays DEF CreateRemote
    <2>3. CASE YesRemoteFile
      BY <1>i, <1>f, <2>3, PagesStay, ErrorStays DEF YesRemoteFile
    <2> QED
      BY <2>1, <2>2, <2>3
  <1>6. strayed' = FALSE
    <2>1. CASE OpenRemote \/ CreateRemote
      BY <2>1 DEF OpenRemote, CreateRemote, IInv
    <2>2. CASE YesRemoteFile
      BY <2>2, AnswersTheRow DEF YesRemoteFile, IInv, Asks
    <2> QED
      BY <2>1, <2>2
  <1>7. PanelsInv'
    BY <1>i, <1>1, <1>2 DEF PanelsInv
  <1> QED
    BY <1>1, <1>4, <1>5, <1>6, <1>7, KeptKeeps DEF IInv

(* A listing that arrives or fails ends the loading.                       *)
LEMMA ListingResults ==
    ASSUME IInv, NEW d \in listings, ListingArrives(d) \/ ListingFails(d)
    PROVE  IInv'
  <1>i. Flags /\ PanelsInv /\ LoadInv /\ PagesInv /\ Remote \in Panel
    BY DEF IInv, Panel, Local, Remote
  <1>1. UNCHANGED <<open, active, dir, work, strayed>> /\ Flags'
    BY <1>i DEF ListingArrives, ListingFails, panels, Flags
  <1>d. d = dir[Remote] /\ d \in Dir /\ listings = {d}
    BY <1>i DEF LoadInv, PanelsInv
  <1>2. CASE ListingArrives(d)
    <2>1. /\ path' \in [Panel -> Dir] /\ files' \in [Panel -> SUBSET Name]
          /\ sel' \in [Panel -> Name \cup {Up}] /\ path'[Remote] = d
      BY <1>i, <1>d, <1>2, ListedTyped DEF ListingArrives
    <2>2. LoadInv'
      BY <1>d, <1>1, <1>2, <2>1 DEF ListingArrives, LoadInv
    <2>3. PanelsInv' /\ UNCHANGED screen
      BY <1>i, <1>1, <1>2, <2>1 DEF ListingArrives, PanelsInv
    <2> QED
      BY <1>1, <2>2, <2>3, KeptKeeps DEF IInv
  <1>3. CASE ListingFails(d)
    <2>1. UNCHANGED panels
      BY <1>3 DEF ListingFails
    <2>2. LoadInv'
      BY <1>d, <1>3, <2>1 DEF ListingFails, LoadInv, panels
    <2>3. PagesInv'
      BY <1>i, <1>3, FrontPages, ErrorStays DEF ListingFails, PagesInv
    <2> QED
      BY <1>1, <2>1, <2>2, <2>3, KeptKeeps DEF IInv
  <1> QED
    BY <1>2, <1>3

-------------------------------------------------------------------------------
(* Jobs begin.                                                             *)

(* A new job has no target to keep, unless it is an edit.                  *)
LEMMA StartIsWork ==
    ASSUME NEW op \in {"upload", "download", "remove", "view"}
    PROVE  Start(op) \in Work /\ JobSound(Start(op))
  <1>1. <<>> \in Seq(Name)
    OBVIOUS
  <1> QED
    BY <1>1 DEF Start, Task, Work, JobSound

(* An edit keeps the path next to its row.                                 *)
LEMMA EditIsWork ==
    ASSUME NEW target \in Seq(Name), NEW row \in Seq(Name) \cup {Unseen},
           row \in {Unseen, target}
    PROVE  /\ Task("edit", target, row) \in Work /\ JobSound(Task("edit", target, row))
           /\ Task("edit", target, row).op = "edit"
  BY DEF Task, Work, JobSound

(* Who asks for what the row names does not stray.                         *)
LEMMA AsksRight ==
    ASSUME strayed = FALSE, NEW target, NEW row, row \in {Unseen, target}, Asks(target, row)
    PROVE  strayed' = FALSE
  <1>1. ~(row # Unseen /\ row # target)
    OBVIOUS
  <1> QED
    BY <1>1 DEF Asks

(* What is asked for on a remote row that is shown is what the row names.  *)
LEMMA RowIsTarget ==
    ASSUME IInv, NEW n \in Name
    PROVE  /\ RowOf(Remote, n) \in {Unseen, Append(dir[Remote], n)}
           /\ Append(dir[Remote], n) \in Seq(Name)
           /\ Asks(Append(dir[Remote], n), RowOf(Remote, n)) => strayed' = FALSE
  <1>1. RowOf(Remote, n) \in {Unseen, Append(dir[Remote], n)}
    BY DEF IInv, LoadInv, RowOf
  <1>2. dir[Remote] \in Seq(Name)
    BY DirIs, BrowserAssumption DEF IInv, PanelsInv, Panel, BrowserAssumption
  <1>3. Append(dir[Remote], n) \in Seq(Name)
    BY <1>2
  <1> DEFINE row == RowOf(Remote, n)
             target == Append(dir[Remote], n)
  <1> HIDE DEF row, target
  <1>4. Asks(target, row) => strayed' = FALSE
    <2>1. row \in {Unseen, target} /\ strayed = FALSE
      BY <1>1 DEF row, target, IInv
    <2> QED
      BY <2>1, AsksRight
  <1> QED
    BY <1>1, <1>3, <1>4 DEF row, target

(* A key that begins a job and puts an overlay in front.                   *)
LEMMA JobKeys ==
    ASSUME IInv, NEW j \in Job,
           Upload(j) \/ Download(j) \/ ViewRemote(j) \/ EditRemote(j) \/ YesRemoteDir(j)
    PROVE  IInv'
  <1>i. Flags /\ PanelsInv /\ PagesInv /\ JobsInv /\ strayed = FALSE
    BY DEF IInv
  <1>f. From(pages, pages) /\ From(Front(pages), pages)
    BY <1>i, FrontPages DEF PagesInv
  <1>1. UNCHANGED <<panels, load>> /\ Flags'
    BY <1>i DEF Upload, Download, ViewRemote, EditRemote, YesRemoteDir, Flags
  <1>2. PagesInv'
    BY <1>i, <1>f, ErrorStays DEF Upload, Download, ViewRemote, EditRemote, YesRemoteDir
  <1>3. strayed' = FALSE
    <2>1. CASE Upload(j)
      BY <1>i, <2>1 DEF Upload
    <2>2. CASE Download(j)
      BY <2>2, RowIsTarget DEF Download
    <2>3. CASE ViewRemote(j)
      BY <2>3, RowIsTarget DEF ViewRemote
    <2>4. CASE EditRemote(j)
      BY <2>4, RowIsTarget DEF EditRemote
    <2>5. CASE YesRemoteDir(j)
      BY <1>i, <2>5, AnswersTheRow DEF YesRemoteDir, Asks
    <2> QED
      BY <2>1, <2>2, <2>3, <2>4, <2>5
  <1>4. JobsInv'
    <2>1. CASE ~EditRemote(j)
      <3>1. PICK op \in {"upload", "download", "remove", "view"} : Begin(j, op)
        BY <2>1 DEF Upload, Download, ViewRemote, YesRemoteDir
      <3>2. temps' = temps
        BY <2>1 DEF Upload, Download, ViewRemote, YesRemoteDir
      <3>3. Start(op) \in Work /\ JobSound(Start(op))
        BY StartIsWork
      <3>4. j \notin DOMAIN jobs /\ jobs' = With(j, Start(op))
        BY <3>1 DEF Begin, Free
      <3> HIDE DEF Start
      <3> QED
        BY <1>i, <3>2, <3>3, <3>4, JobBegins
    <2>2. CASE EditRemote(j)
      <3>1. PICK n \in Name :
              /\ Free(j)
              /\ jobs' = With(j, Task("edit", Append(dir[Remote], n), RowOf(Remote, n)))
        BY <2>2 DEF EditRemote
      <3> DEFINE job == Task("edit", Append(dir[Remote], n), RowOf(Remote, n))
      <3>2. /\ RowOf(Remote, n) \in {Unseen, Append(dir[Remote], n)}
            /\ Append(dir[Remote], n) \in Seq(Name)
        BY RowIsTarget
      <3>3. job \in Work /\ JobSound(job) /\ job.op = "edit"
        <4> DEFINE row == RowOf(Remote, n)
                   target == Append(dir[Remote], n)
        <4> HIDE DEF row, target
        <4>1. /\ target \in Seq(Name) /\ row \in Seq(Name) \cup {Unseen}
              /\ row \in {Unseen, target}
          BY <3>2 DEF row, target
        <4>2. /\ Task("edit", target, row) \in Work /\ JobSound(Task("edit", target, row))
              /\ Task("edit", target, row).op = "edit"
          BY <4>1, EditIsWork
        <4> QED
          BY <4>2 DEF row, target
      <3>4. temps' = temps \cup {j} /\ jobs' = With(j, job) /\ j \notin DOMAIN jobs
        BY <2>2, <3>1 DEF EditRemote, Free
      <3> HIDE DEF job
      <3> QED
        BY <1>i, <3>3, <3>4, JobBegins
    <2> QED
      BY <2>1, <2>2
  <1> QED
    BY <1>1, <1>2, <1>3, <1>4, KeptKeeps DEF IInv

-------------------------------------------------------------------------------
(* Jobs report.                                                            *)

(* Cancel is noted in a job.                                               *)
LEMMA CancelIsWork ==
    ASSUME JobsInv, NEW j \in DOMAIN jobs, jobs' = [jobs EXCEPT ![j].cancel = TRUE],
           temps' = temps
    PROVE  JobsInv'
  <1> DEFINE job == [jobs[j] EXCEPT !.cancel = TRUE]
  <1>1. jobs[j] \in Work /\ JobSound(jobs[j])
    BY DEF JobsInv
  <1>2. job \in Work /\ JobSound(job) /\ job.op = jobs[j].op
    BY <1>1 DEF Work, JobSound
  <1>3. jobs' = [jobs EXCEPT ![j] = job]
    OBVIOUS
  <1> HIDE DEF job
  <1> QED
    BY <1>2, <1>3, JobChanges

(* A job goes on to its next stage.                                        *)
LEMMA StageIsWork ==
    ASSUME JobsInv, NEW j \in DOMAIN jobs, NEW to \in {"returned", "closed", "save"},
           to # "save" => jobs[j].op # "edit",
           jobs' = [jobs EXCEPT ![j].stage = to], temps' = temps
    PROVE  JobsInv'
  <1> DEFINE job == [jobs[j] EXCEPT !.stage = to]
  <1>1. jobs[j] \in Work /\ JobSound(jobs[j])
    BY DEF JobsInv
  <1>2. job \in Work /\ JobSound(job) /\ job.op = jobs[j].op
    BY <1>1 DEF Work, JobSound
  <1>3. jobs' = [jobs EXCEPT ![j] = job]
    OBVIOUS
  <1> HIDE DEF job
  <1> QED
    BY <1>2, <1>3, JobChanges

(* A transfer returns with a result.                                       *)
LEMMA ReturnIsWork ==
    ASSUME JobsInv, NEW j \in DOMAIN jobs, jobs[j].op # "edit",
           NEW r \in {"ok", "error", "cancelled"},
           jobs' = [jobs EXCEPT ![j].stage = "returned", ![j].result = r], temps' = temps
    PROVE  JobsInv'
  <1> DEFINE half == [jobs[j] EXCEPT !.stage = "returned"]
             job == [half EXCEPT !.result = r]
  <1>1. jobs[j] \in Work
    BY DEF JobsInv
  <1>2. half \in Work /\ half.op = jobs[j].op
    BY <1>1 DEF Work
  <1>3. jobs' = [[jobs EXCEPT ![j] = half] EXCEPT ![j].result = r]
    OBVIOUS
  <1> HIDE DEF half
  <1>4. jobs' = [jobs EXCEPT ![j] = job]
    BY <1>3
  <1>5. job \in Work /\ job.op = jobs[j].op
    BY <1>2 DEF Work
  <1> HIDE DEF job
  <1>6. JobSound(job)
    BY <1>5 DEF JobSound
  <1> QED
    BY <1>4, <1>5, <1>6, JobChanges

(* The dialog of a transfer: its Cancel, and its job on the way to its end. *)
LEMMA TransferSteps ==
    ASSUME IInv, PressCancel \/ \E j \in DOMAIN jobs : TransferReturns(j) \/ TransferCloses(j)
    PROVE  IInv'
  <1>i. Flags /\ PanelsInv /\ PagesInv /\ JobsInv
    BY DEF IInv
  <1>f. From(RemoveModal(pages), pages)
    BY <1>i, FrontPages DEF PagesInv
  <1>1. CASE PressCancel
    <2>1. UNCHANGED <<panels, load, strayed>> /\ Flags' /\ PagesInv' /\ temps' = temps
      BY <1>i, <1>f, <1>1, PagesStay DEF PressCancel, Flags
    <2> DEFINE j == Last(pages).job
    <2>2. jobs' = IF j \in DOMAIN jobs THEN [jobs EXCEPT ![j].cancel = TRUE] ELSE jobs
      BY <1>1 DEF PressCancel
    <2> HIDE DEF j
    <2>3. JobsInv'
      BY <1>i, <2>1, <2>2, CancelIsWork, KeptKeeps DEF work
    <2> QED
      BY <2>1, <2>3, KeptKeeps DEF IInv
  <1>2. ASSUME NEW j \in DOMAIN jobs, TransferReturns(j)
        PROVE  IInv'
    <2>1. UNCHANGED <<panels, load, screen, strayed>> /\ Flags' /\ temps' = temps
      BY <1>i, <1>2 DEF TransferReturns, Flags
    <2>2. PICK r \in {"ok", "error"} :
            jobs' = [jobs EXCEPT ![j].stage = "returned",
                                 ![j].result = IF jobs[j].cancel THEN "cancelled" ELSE r]
      BY <1>2 DEF TransferReturns
    <2> DEFINE result == IF jobs[j].cancel THEN "cancelled" ELSE r
    <2>3. result \in {"ok", "error", "cancelled"} /\ jobs[j].op # "edit"
      BY <1>2 DEF TransferReturns, Runs
    <2> HIDE DEF result
    <2>4. JobsInv'
      BY <1>i, <2>1, <2>2, <2>3, ReturnIsWork DEF result
    <2> QED
      BY <2>1, <2>4, KeptKeeps DEF IInv
  <1>3. ASSUME NEW j \in DOMAIN jobs, TransferCloses(j)
        PROVE  IInv'
    <2>1. UNCHANGED <<panels, load, strayed>> /\ Flags' /\ PagesInv' /\ temps' = temps
      BY <1>i, <1>f, <1>3, PagesStay DEF TransferCloses, Flags
    <2>2. JobSound(jobs[j])
      BY <1>i DEF JobsInv
    <2>3. jobs[j].op # "edit" /\ jobs' = [jobs EXCEPT ![j].stage = "closed"]
      BY <1>3, <2>2 DEF TransferCloses, JobSound
    <2>4. JobsInv'
      BY <1>i, <2>1, <2>3, StageIsWork
    <2> QED
      BY <2>1, <2>4, KeptKeeps DEF IInv
  <1> QED
    BY <1>1, <1>2, <1>3

(* A job that ends, and tells so on the screen.                            *)
LEMMA JobReports ==
    ASSUME IInv, NEW j \in DOMAIN jobs,
           \/ TransferCancelled(j) \/ TransferFailed(j) \/ ViewReports(j)
           \/ EditFailsToLoad(j) \/ EditUnchanged(j)
    PROVE  IInv'
  <1>i. Flags /\ PanelsInv /\ PagesInv /\ JobsInv
    BY DEF IInv
  <1>f. From(pages, pages) /\ From(RemoveModal(pages), pages)
    BY <1>i, FrontPages DEF PagesInv
  <1>1. UNCHANGED <<panels, load, strayed>> /\ Flags' /\ Done(j)
    BY <1>i DEF TransferCancelled, TransferFailed, ViewReports, EditFailsToLoad, EditUnchanged, Flags
  <1>2. JobSound(jobs[j])
    BY <1>i DEF JobsInv
  <1>3. temps' = temps \ {j} \/ (temps' = temps /\ jobs[j].op # "edit")
    BY <1>2 DEF TransferCancelled, TransferFailed, ViewReports, EditFailsToLoad, EditUnchanged,
       Closed, Runs, JobSound
  <1>4. PagesInv'
    <2>1. CASE TransferCancelled(j)
      BY <1>i, <1>f, <2>1, PagesStay DEF TransferCancelled
    <2>2. CASE TransferFailed(j)
      BY <1>i, <1>f, <2>2, ErrorStays DEF TransferFailed
    <2>3. CASE ViewReports(j)
      BY <1>i, <1>f, <2>3, ErrorStays, ViewerAlone DEF ViewReports
    <2>4. CASE EditFailsToLoad(j)
      BY <1>i, <1>f, <2>4, ErrorStays DEF EditFailsToLoad
    <2>5. CASE EditUnchanged(j)
      BY <1>i, <1>f, <2>5, PagesStay DEF EditUnchanged
    <2> QED
      BY <2>1, <2>2, <2>3, <2>4, <2>5
  <1> QED
    BY <1>i, <1>1, <1>3, <1>4, JobEnds, KeptKeeps DEF IInv

(* A job that ends, after which the right panel is listed or not.          *)
LEMMA JobReloads ==
    ASSUME IInv, NEW j \in DOMAIN jobs, UploadDone(j) \/ RemoveReports(j) \/ EditSaved(j)
    PROVE  IInv'
  <1>i. Flags /\ PanelsInv /\ LoadInv /\ PagesInv /\ JobsInv
    BY DEF IInv
  <1>f. From(RemoveModal(pages), pages)
    BY <1>i, FrontPages DEF PagesInv
  <1>1. UNCHANGED <<panels, strayed>> /\ Flags' /\ Done(j)
    BY <1>i DEF UploadDone, RemoveReports, EditSaved, Flags
  <1>2. temps' = temps \ {j} \/ (temps' = temps /\ jobs[j].op # "edit")
    BY DEF UploadDone, RemoveReports, EditSaved, Runs
  <1>3. StartRemoteLoad \/ UNCHANGED load
    BY DEF UploadDone, RemoveReports, EditSaved
  <1>4. LoadInv'
    BY <1>i, <1>1, <1>3, LoadStarts, LoadStays DEF panels
  <1>5. PagesInv'
    <2>1. CASE UploadDone(j)
      BY <2>1, KeptKeeps DEF UploadDone
    <2>2. CASE RemoveReports(j)
      BY <1>i, <1>f, <2>2, PagesStay, ErrorStays DEF RemoveReports
    <2>3. CASE EditSaved(j)
      BY <1>i, <1>f, <2>3, PagesStay, ErrorStays DEF EditSaved
    <2> QED
      BY <2>1, <2>2, <2>3
  <1> QED
    BY <1>i, <1>1, <1>2, <1>4, <1>5, JobEnds, KeptKeeps DEF IInv

(* A download ends with the left panel read.                               *)
LEMMA DownloadReads ==
    ASSUME IInv, NEW j \in DOMAIN jobs, DownloadDone(j)
    PROVE  IInv'
  <1>i. Flags /\ PanelsInv /\ PagesInv /\ JobsInv
    BY DEF IInv
  <1>f. From(pages, pages)
    BY <1>i, FrontPages DEF PagesInv
  <1>1. /\ UNCHANGED <<dir, load, strayed, temps>> /\ Flags' /\ Done(j)
        /\ jobs[j].op # "edit" /\ LoadLocalFocused(pages)
    BY <1>i DEF DownloadDone, Flags
  <1>2. LocalRead
    BY <1>1 DEF LoadLocalFocused, LocalRead
  <1>3. PanelsInv' /\ LoadInv'
    BY <1>i, <1>1, <1>2, LocalKeeps DEF PanelsInv
  <1>4. PagesInv'
    BY <1>i, <1>f, <1>1, PagesStay, ErrorStays DEF LoadLocalFocused
  <1> QED
    BY <1>i, <1>1, <1>3, <1>4, JobEnds DEF IInv

(* An edited copy goes back to where it came from.                         *)
LEMMA EditGoesBack ==
    ASSUME IInv, NEW j \in DOMAIN jobs, EditChanged(j)
    PROVE  IInv'
  <1>i. Flags /\ PanelsInv /\ PagesInv /\ JobsInv /\ strayed = FALSE
    BY DEF IInv
  <1>f. From(RemoveModal(pages), pages)
    BY <1>i, FrontPages DEF PagesInv
  <1>1. /\ UNCHANGED <<panels, load, temps>> /\ Flags'
        /\ jobs[j].op = "edit" /\ jobs' = [jobs EXCEPT ![j].stage = "save"]
        /\ Asks(jobs[j].target, jobs[j].row)
    BY <1>i DEF EditChanged, Runs, Flags
  <1>2. jobs[j].row \in {Unseen, jobs[j].target}
    BY <1>i, <1>1 DEF JobsInv, JobSound
  <1>3. strayed' = FALSE
    BY <1>i, <1>1, <1>2, AsksRight
  <1>4. JobsInv'
    BY <1>i, <1>1, StageIsWork
  <1>5. PagesInv'
    BY <1>i, <1>f, ErrorStays DEF EditChanged
  <1> QED
    BY <1>1, <1>3, <1>4, <1>5, KeptKeeps DEF IInv

-------------------------------------------------------------------------------
(* Theorems.                                                               *)

(* The browser opens with its left panel read and its right one loading.   *)
LEMMA InitIInv == Init => IInv
  <1> SUFFICES ASSUME Init
               PROVE  IInv
    OBVIOUS
  <1>1. PanelsInv
    <2>1. <<>> \in Dir
      <3> DEFINE top == <<>>
      <3>1. top \in Seq(DirName) /\ Len(top) <= MaxDepth
        BY BrowserAssumption DEF BrowserAssumption
      <3> HIDE DEF top
      <3>2. top \in Dir
        BY <3>1, DirIs
      <3> QED
        BY <3>2 DEF top
    <2>2. files \in [Panel -> SUBSET Name]
      BY BrowserAssumption DEF Init, BrowserAssumption
    <2> QED
      BY <2>1, <2>2 DEF Init, PanelsInv
  <1>2. LoadInv
    BY DEF Init, LoadInv
  <1>3. PagesInv
    <2>1. <<>> \in Seq(Overlay) /\ DOMAIN <<>> = {}
      OBVIOUS
    <2> QED
      BY <2>1 DEF Init, PagesInv, Proper, Focus, Panel
  <1>4. JobsInv
    <2>1. DOMAIN jobs = {} /\ jobs = [j \in {} |-> jobs[j]] /\ temps = {}
      BY DEF Init
    <2> QED
      BY <2>1 DEF JobsInv
  <1> QED
    BY <1>1, <1>2, <1>3, <1>4 DEF Init, IInv, Flags, Panel

(* Every key and every result keeps IInv.                                  *)
LEMMA NextIInv == IInv /\ [Next]_vars => IInv'
  <1> SUFFICES ASSUME IInv, [Next]_vars
               PROVE  IInv'
    OBVIOUS
  <1>1. CASE KeyInTables
    BY <1>1, ScreenKeys, CursorKeys, LocalKeys, RemoteKeys, JobKeys DEF KeyInTables
  <1>2. CASE KeyInDialogs
    BY <1>2, ScreenKeys, LocalKeys, RemoteKeys, JobKeys, TransferSteps DEF KeyInDialogs
  <1>3. CASE Result
    <2>1. ASSUME NEW d \in listings, ListingArrives(d) \/ ListingFails(d)
          PROVE  IInv'
      BY <2>1, ListingResults
    <2>2. ASSUME NEW j \in DOMAIN jobs, TransferReturns(j) \/ TransferCloses(j)
          PROVE  IInv'
      BY <2>2, TransferSteps
    <2>3. ASSUME NEW j \in DOMAIN jobs,
                 \/ TransferCancelled(j) \/ TransferFailed(j) \/ ViewReports(j)
                 \/ EditFailsToLoad(j) \/ EditUnchanged(j)
          PROVE  IInv'
      BY <2>3, JobReports
    <2>4. ASSUME NEW j \in DOMAIN jobs,
                 \/ UploadDone(j) \/ RemoveReports(j) \/ EditSaved(j)
                 \/ DownloadDone(j) \/ EditChanged(j)
          PROVE  IInv'
      BY <2>4, JobReloads, DownloadReads, EditGoesBack
    <2> QED
      BY <1>3, <2>1, <2>2, <2>3, <2>4 DEF Result
  <1>4. CASE \E n \in Name : CursorSlips(n)
    BY <1>4, CursorKeys
  <1>5. CASE UNCHANGED vars
    <2>1. UNCHANGED <<panels, load, screen, work, strayed>> /\ Flags'
      BY <1>5 DEF vars, IInv, Flags
    <2> QED
      BY <2>1, KeptKeeps DEF IInv
  <1> QED
    BY <1>1, <1>2, <1>3, <1>4, <1>5 DEF Next

(* So it holds always.                                                     *)
LEMMA Invariance == Spec => []IInv
  BY InitIInv, NextIInv, PTL DEF Spec

(* What the variables hold, for any names, listings and jobs: one page of  *)
(* each name, and a temporary file only with the edit it belongs to.       *)
THEOREM TypeCorrect == Spec => []TypeOK
  <1>1. IInv => TypeOK
    <2> SUFFICES ASSUME IInv
                 PROVE  TypeOK
      OBVIOUS
    <2>1. /\ open \in BOOLEAN /\ active \in Panel /\ remoteLoading \in BOOLEAN
          /\ shown \in {"rows", "loading", "blank"} /\ strayed \in BOOLEAN
          /\ dir \in [Panel -> Dir] /\ path \in [Panel -> Dir]
          /\ files \in [Panel -> SUBSET Name] /\ sel \in [Panel -> Name \cup {Up}]
      BY DEF IInv, Flags, PanelsInv, LoadInv
    <2>2. listings \subseteq Dir
      BY <2>1 DEF IInv, LoadInv, Panel
    <2>3. /\ focus \in Panel \cup {"modal", "input", "viewer", "hosts"}
          /\ \A i, k \in DOMAIN pages : pages[i].page = pages[k].page => i = k
      BY DEF IInv, PagesInv, Proper, Focus
    <2>4. /\ DOMAIN jobs \subseteq Job
          /\ temps \subseteq {j \in DOMAIN jobs : jobs[j].op = "edit"}
      BY DEF IInv, JobsInv
    <2> QED
      BY <2>1, <2>2, <2>3, <2>4 DEF TypeOK
  <1> QED
    BY <1>1, Invariance, PTL

(* The remote rows are those of the directory that is worked in.           *)
THEOREM RowsAreCurrent == Spec => []RowsAreOfTheDirectory
  <1>1. IInv => RowsAreOfTheDirectory
    BY DEF IInv, LoadInv, RowsAreOfTheDirectory
  <1> QED
    BY <1>1, Invariance, PTL

(* The panel is loading while one listing, of its directory, is under way. *)
THEOREM LoadingMeansOneListing == Spec => []LoadingIsServed
  <1>1. IInv => LoadingIsServed
    <2> SUFFICES ASSUME IInv
                 PROVE  LoadingIsServed
      OBVIOUS
    <2>1. CASE listings = {}
      <3>1. Cardinality(listings) = 0
        BY <2>1, FS_EmptySet
      <3> QED
        BY <2>1, <3>1 DEF IInv, LoadInv, LoadingIsServed
    <2>2. CASE listings # {}
      <3>1. listings = {dir[Remote]}
        BY <2>2 DEF IInv, LoadInv
      <3>2. Cardinality(listings) = 1
        BY <3>1, FS_Singleton
      <3> QED
        BY <3>1, <3>2 DEF IInv, LoadInv, LoadingIsServed
    <2> QED
      BY <2>1, <2>2
  <1> QED
    BY <1>1, Invariance, PTL

(* No remote request goes elsewhere than the row it was asked for.         *)
THEOREM ChosenRowsAreActedOn == Spec => []ActsOnChosenRow
  <1>1. IInv => ActsOnChosenRow
    BY DEF IInv, ActsOnChosenRow
  <1> QED
    BY <1>1, Invariance, PTL

===============================================================================
