------------------------------ MODULE FileBrowser ------------------------------
(***************************************************************************)
(* The dual-pane file browser (internal/ui/filebrowser.go) with the        *)
(* dialogs it puts in front (internal/ui/app.go).                          *)
(*                                                                         *)
(* One event loop handles keys and the results that goroutines queue for   *)
(* it; every action is one such event, or the return of a goroutine.  What *)
(* is in a directory is for others to say: a listing brings any set of     *)
(* names.  Whole trees are the subject of Transfers.                       *)
(***************************************************************************)
EXTENDS Naturals, Sequences, FiniteSets, SequencesExt

CONSTANTS Name,      \* the names of entries
          DirName,   \* those that name directories
          Listings,  \* the sets of names a listing may bring
          Job,       \* bound: the goroutines that can be at work
          Up,        \* the first row, ".."
          Unseen,    \* no row was shown
          MaxDepth   \* bound: directories are opened this deep

ASSUME BrowserAssumption ==
    /\ DirName \subseteq Name
    /\ Listings \subseteq SUBSET Name
    /\ Up \notin Name
    /\ MaxDepth \in Nat

Local == "local"
Remote == "remote"
Panel == {Local, Remote}

VARIABLES
    open,          \* is the browser there, or has it given way to the host list?
    dir,           \* localDir, remoteDir
    path,          \* localPathStr, remotePathStr: the directory last listed
    files,         \* localFiles, remoteFiles
    sel,           \* the selected row of each table
    active,        \* the highlighted panel
    remoteLoading,
    listings,      \* the directories whose listing is under way
    shown,         \* the remote table: "rows", "loading" or "blank"
    pages,         \* what lies on the browser or the host list, the front last
    focus,         \* who gets the keys: a table, a page, or "hosts"
    jobs,          \* the goroutine behind each job
    temps,         \* the jobs whose temporary file exists
    strayed        \* history: has a request gone elsewhere than the row it was
                   \* asked for?

panels == <<dir, path, files, sel>>
load == <<remoteLoading, listings, shown>>
screen == <<pages, focus>>
work == <<jobs, temps>>
vars == <<open, panels, active, load, screen, work, strayed>>

-------------------------------------------------------------------------------
(* Pages, one of each name, and the focus, which follows the front page as *)
(* long as it is on some page that exists.                                 *)

Modal(kind) == [page |-> "modal", kind |-> kind]
Progress(j) == [page |-> "modal", kind |-> "progress", job |-> j]

Without(name, s) ==
    IF \E i \in DOMAIN s : s[i].page = name
    THEN RemoveAt(s, CHOOSE i \in DOMAIN s : s[i].page = name)
    ELSE s

Raise(s, p) == Append(Without(p.page, s), p)

InFront(s, name) == s # <<>> /\ Last(s).page = name

\* Whatever dialog is in front.
RemoveModal(s) == IF InFront(s, "modal") THEN Front(s) ELSE s

\* The browser passes the focus on to its left table.
FrontFocus(s) ==
    IF s # <<>> THEN Last(s).page ELSE IF open THEN Local ELSE "hosts"

OnSomePage == open \/ focus \notin Panel

\* Nothing but removals leads to s.
Show(s) ==
    /\ pages' = s
    /\ focus' = IF s # pages /\ OnSomePage THEN FrontFocus(s) ELSE focus

Add(s, p) ==
    /\ pages' = Raise(s, p)
    /\ focus' = IF OnSomePage THEN p.page ELSE focus

\* An error takes the focus by itself.
ShowError(s) == pages' = Raise(s, Modal("error")) /\ focus' = "modal"

FocusActive(s) == pages' = s /\ focus' = active

\* Is s the page that gets the keys?
Has(name, kind) == focus = name /\ InFront(pages, name) /\ Last(pages).kind = kind

TableKey == open /\ focus \in Panel

-------------------------------------------------------------------------------
(* The panels.                                                             *)

Parent(d) == IF d = <<>> THEN <<>> ELSE Front(d)

\* The selected entry is one of those that were listed last.
Selected(p, n) == sel[p] = n /\ n \in files[p]

\* The path the panel shows next to the row.
RowOf(p, n) ==
    IF p = Remote /\ shown # "rows" THEN Unseen ELSE Append(path[p], n)

Asks(target, row) == strayed' = (strayed \/ (row # Unseen /\ row # target))

NoRequest == strayed' = strayed

Listed(p, d, names) ==
    /\ files' = [files EXCEPT ![p] = names]
    /\ sel' = [sel EXCEPT ![p] = Up]
    /\ path' = [path EXCEPT ![p] = d]

SameRows == UNCHANGED <<path, files, sel>>

\* loadLocal, on the screen s: one call reads the directory.
LoadLocal(s) ==
    \/ \E names \in Listings : Listed(Local, dir'[Local], names) /\ Show(s)
    \/ SameRows /\ ShowError(s)

\* The same, followed by focusActive.
LoadLocalFocused(s) ==
    \/ \E names \in Listings : Listed(Local, dir'[Local], names) /\ FocusActive(s)
    \/ SameRows /\ FocusActive(Raise(s, Modal("error")))

\* Faulty: a second listing is started beside the first.
StartAnotherLoad ==
    /\ remoteLoading' = TRUE
    /\ listings' = listings \cup {dir'[Remote]}
    /\ shown' = "loading"

StartRemoteLoad ==
    IF remoteLoading
    THEN UNCHANGED load
    ELSE /\ remoteLoading' = TRUE
         /\ listings' = {dir'[Remote]}
         /\ shown' = "loading"

Init ==
    /\ open = TRUE
    /\ dir = [p \in Panel |-> <<>>]
    /\ path = dir
    /\ \E names \in Listings : files = [p \in Panel |-> IF p = Local THEN names ELSE {}]
    /\ sel = [p \in Panel |-> Up]
    /\ active = Local
    /\ remoteLoading = TRUE /\ listings = {dir[Remote]} /\ shown = "loading"
    /\ pages = <<>> /\ focus = Local
    /\ jobs = [j \in {} |-> 0] /\ temps = {}
    /\ strayed = FALSE

-------------------------------------------------------------------------------
(* Moving around.                                                          *)

SwitchPanel ==
    /\ TableKey
    /\ active' = IF active = Local THEN Remote ELSE Local
    /\ focus' = active'
    /\ UNCHANGED <<open, panels, load, pages, work, strayed>>

\* The arrow keys are those of the table that has the focus.
MoveCursor(n) ==
    /\ TableKey /\ (focus = Remote => shown = "rows")
    /\ n \in files[focus] \cup {Up}
    /\ sel' = [sel EXCEPT ![focus] = n]
    /\ UNCHANGED <<open, dir, path, files, active, load, screen, work, strayed>>

\* A table without selectable rows moves the selection past them when drawn.
CursorSlips(n) ==
    /\ shown # "rows" /\ sel[Remote] = Up /\ n \in files[Remote]
    /\ sel' = [sel EXCEPT ![Remote] = n]
    /\ UNCHANGED <<open, dir, path, files, active, load, screen, work, strayed>>

\* The directory changes before anybody knows whether it can be listed.
Enters(p) ==
    \/ sel[p] = Up /\ dir' = [dir EXCEPT ![p] = Parent(@)]
    \/ \E n \in DirName :
        /\ Selected(p, n) /\ Len(dir[p]) < MaxDepth
        /\ dir' = [dir EXCEPT ![p] = Append(@, n)]

OpenLocal ==
    /\ TableKey /\ active = Local
    /\ Enters(Local)
    /\ LoadLocal(pages)
    /\ UNCHANGED <<open, active, load, work, strayed>>

\* Faulty: the next directory is opened while the last one is loading.
OpenRemoteAnyTime ==
    /\ TableKey /\ active = Remote
    /\ Enters(Remote)
    /\ SameRows /\ StartRemoteLoad
    /\ UNCHANGED <<open, active, screen, work, strayed>>

OpenRemote ==
    /\ TableKey /\ active = Remote /\ ~remoteLoading
    /\ Enters(Remote)
    /\ SameRows /\ StartRemoteLoad
    /\ UNCHANGED <<open, active, screen, work, strayed>>

ListingArrives(d) ==
    /\ d \in listings /\ listings' = listings \ {d}
    /\ remoteLoading' = FALSE /\ shown' = "rows"
    /\ \E names \in Listings : Listed(Remote, d, names)
    /\ UNCHANGED <<open, dir, active, screen, work, strayed>>

\* Faulty: only a listing that arrives ends the loading.
ListingFailsLoading(d) ==
    /\ d \in listings /\ listings' = listings \ {d}
    /\ remoteLoading' = remoteLoading /\ shown' = "blank"
    /\ ShowError(pages)
    /\ UNCHANGED <<open, panels, active, work, strayed>>

\* The table is emptied; the entries listed last and the new directory stay.
ListingFails(d) ==
    /\ d \in listings /\ listings' = listings \ {d}
    /\ remoteLoading' = FALSE /\ shown' = "blank"
    /\ ShowError(pages)
    /\ UNCHANGED <<open, panels, active, work, strayed>>

\* Esc.  Goroutines go on; what lay on the browser is hidden for good.
CloseBrowser ==
    /\ TableKey
    /\ open' = FALSE
    /\ pages' = <<>> /\ focus' = "hosts"
    /\ UNCHANGED <<panels, active, load, work, strayed>>

-------------------------------------------------------------------------------
(* Dialogs.                                                                *)

\* Nothing to upload; nothing to download, or not yet; no temporary file.
Refused ==
    /\ TableKey
    /\ \/ sel[Local] = Up
       \/ remoteLoading \/ sel[Remote] = Up
       \/ active = Remote /\ sel[Remote] \in files[Remote] \ DirName
    /\ ShowError(pages)
    /\ UNCHANGED <<open, panels, active, load, work, strayed>>

PressOK ==
    /\ Has("modal", "error")
    /\ Show(RemoveModal(pages))
    /\ UNCHANGED <<open, panels, active, load, work, strayed>>

PressCancel ==
    /\ Has("modal", "progress")
    /\ LET j == Last(pages).job IN
       jobs' = IF j \in DOMAIN jobs THEN [jobs EXCEPT ![j].cancel = TRUE] ELSE jobs
    /\ Show(RemoveModal(pages))
    /\ UNCHANGED <<open, panels, active, load, temps, strayed>>

PressNo ==
    /\ Has("modal", "confirm")
    /\ Show(RemoveModal(pages))
    /\ UNCHANGED <<open, panels, active, load, work, strayed>>

\* createFile and mkdir ask for a name.
AskName ==
    /\ TableKey /\ (active = Remote => ~remoteLoading)
    /\ pages' = Raise(pages, [page |-> "input", kind |-> active]) /\ focus' = "input"
    /\ UNCHANGED <<open, panels, active, load, work, strayed>>

PressCancelName ==
    /\ focus = "input"
    /\ Show(Front(pages))
    /\ UNCHANGED <<open, panels, active, load, work, strayed>>

\* Created, or refused, in the directory of this moment; an empty name is
\* passed over.
CreateLocal ==
    /\ Has("input", Local)
    /\ LET s == Front(pages) IN
       \/ FocusActive(s) /\ \E names \in Listings : Listed(Local, dir[Local], names)
       \/ FocusActive(s) /\ SameRows
       \/ ShowError(s) /\ SameRows
    /\ UNCHANGED <<open, dir, active, load, work, strayed>>

CreateRemote ==
    /\ Has("input", Remote)
    /\ UNCHANGED <<dir, path, files, sel>>
    /\ LET s == Front(pages) IN
       \/ FocusActive(s) /\ StartRemoteLoad
       \/ FocusActive(s) /\ UNCHANGED load
       \/ ShowError(s) /\ UNCHANGED load
    /\ UNCHANGED <<open, active, work, strayed>>

-------------------------------------------------------------------------------
(* Operations on the selected row.                                         *)

Task(op, target, row) ==
    [op |-> op, stage |-> "run", cancel |-> FALSE, result |-> "none",
     target |-> target, row |-> row]

Start(op) == Task(op, <<>>, Unseen)

\* No goroutine and no dialog goes by this name.
Free(j) ==
    /\ j \notin DOMAIN jobs
    /\ \A i \in DOMAIN pages : pages[i] # Progress(j)

With(j, job) == [i \in DOMAIN jobs \cup {j} |-> IF i = j THEN job ELSE jobs[i]]

Begin(j, op) == Free(j) /\ jobs' = With(j, Start(op))

Done(j) == jobs' = [i \in DOMAIN jobs \ {j} |-> jobs[i]]

Upload(j) ==
    /\ TableKey
    /\ \E n \in Name : Selected(Local, n)
    /\ Begin(j, "upload")
    /\ Add(pages, Progress(j))
    /\ UNCHANGED <<open, panels, active, load, temps, strayed>>

\* To the directory on the left, whichever panel is active.
Download(j) ==
    /\ TableKey /\ ~remoteLoading
    /\ \E n \in Name :
        /\ Selected(Remote, n)
        /\ Asks(Append(dir[Remote], n), RowOf(Remote, n))
    /\ Begin(j, "download")
    /\ Add(pages, Progress(j))
    /\ UNCHANGED <<open, panels, active, load, temps>>

\* The question keeps the entry, and for a remote one its path.
AskDelete(n) ==
    /\ TableKey /\ (active = Remote => ~remoteLoading)
    /\ Selected(active, n)
    /\ pages' = Raise(pages, [page |-> "modal", kind |-> "confirm", panel |-> active,
                              name |-> n, target |-> Append(dir[active], n),
                              row |-> RowOf(active, n)])
    /\ focus' = "modal"
    /\ UNCHANGED <<open, panels, active, load, work, strayed>>

Confirms(p) == Has("modal", "confirm") /\ Last(pages).panel = p

\* The path is put together only now.
YesLocal ==
    /\ Confirms(Local)
    /\ UNCHANGED dir /\ LoadLocalFocused(Front(pages))
    /\ UNCHANGED <<open, active, load, work, strayed>>

\* Faulty: the path is put together when the answer is there.
YesRemoteFileAnew ==
    /\ Confirms(Remote) /\ Last(pages).name \notin DirName
    /\ Asks(Append(dir[Remote], Last(pages).name), Last(pages).row)
    /\ UNCHANGED dir
    /\ LET s == Front(pages) IN
       \/ FocusActive(s) /\ StartRemoteLoad
       \/ FocusActive(Raise(s, Modal("error"))) /\ UNCHANGED load
    /\ UNCHANGED <<open, path, files, sel, active, work>>

\* If it fails, the table takes the focus from the error.
YesRemoteFile ==
    /\ Confirms(Remote) /\ Last(pages).name \notin DirName
    /\ Asks(Last(pages).target, Last(pages).row)
    /\ UNCHANGED dir
    /\ LET s == Front(pages) IN
       \/ FocusActive(s) /\ StartRemoteLoad
       \/ FocusActive(Raise(s, Modal("error"))) /\ UNCHANGED load
    /\ UNCHANGED <<open, path, files, sel, active, work>>

YesRemoteDir(j) ==
    /\ Confirms(Remote) /\ Last(pages).name \in DirName
    /\ Asks(Last(pages).target, Last(pages).row)
    /\ Begin(j, "remove")
    /\ Add(Front(pages), Modal("info"))
    /\ UNCHANGED <<open, panels, active, load, temps>>

SelectedFile(n) == Selected(active, n) /\ n \notin DirName

\* The viewer hides everything else.
ShowViewer == pages' = <<[page |-> "viewer", kind |-> "viewer"]>> /\ focus' = "viewer"

ViewLocal ==
    /\ TableKey /\ active = Local
    /\ \E n \in Name : SelectedFile(n)
    /\ ShowViewer \/ ShowError(pages)
    /\ UNCHANGED <<open, panels, active, load, work, strayed>>

ViewRemote(j) ==
    /\ TableKey /\ active = Remote /\ ~remoteLoading
    /\ \E n \in Name :
        SelectedFile(n) /\ Asks(Append(dir[Remote], n), RowOf(Remote, n))
    /\ Begin(j, "view")
    /\ Add(pages, Modal("info"))
    /\ UNCHANGED <<open, panels, active, load, temps>>

\* To the browser, or to an empty screen if it is gone.
CloseViewer ==
    /\ focus = "viewer"
    /\ FocusActive(<<>>)
    /\ UNCHANGED <<open, panels, active, load, work, strayed>>

\* The editor has the terminal to itself; afterwards the directory is read.
EditLocal ==
    /\ TableKey /\ active = Local
    /\ \E n \in Name : SelectedFile(n)
    /\ UNCHANGED dir /\ LoadLocal(pages)
    /\ UNCHANGED <<open, active, load, work, strayed>>

EditRemote(j) ==
    /\ TableKey /\ active = Remote /\ ~remoteLoading
    /\ \E n \in Name :
        LET target == Append(dir[Remote], n) IN
        /\ SelectedFile(n)
        /\ Asks(target, RowOf(Remote, n))
        /\ Free(j)
        /\ jobs' = With(j, Task("edit", target, RowOf(Remote, n)))
    /\ temps' = temps \cup {j}
    /\ Add(pages, Modal("info"))
    /\ UNCHANGED <<open, panels, active, load>>

-------------------------------------------------------------------------------
(* What the goroutines do, and what they queue for the event loop.         *)

Runs(j, op) == j \in DOMAIN jobs /\ jobs[j].op = op /\ jobs[j].stage = "run"

\* It looks whether it was cancelled, then has its dialog closed.
TransferReturns(j) ==
    /\ Runs(j, "upload") \/ Runs(j, "download")
    /\ \E r \in {"ok", "error"} :
        jobs' = [jobs EXCEPT ![j].stage = "returned",
                             ![j].result = IF jobs[j].cancel THEN "cancelled" ELSE r]
    /\ UNCHANGED <<open, panels, active, load, screen, temps, strayed>>

\* closeFn removes whatever dialog is in front.
TransferCloses(j) ==
    /\ j \in DOMAIN jobs /\ jobs[j].stage = "returned"
    /\ jobs' = [jobs EXCEPT ![j].stage = "closed"]
    /\ Show(RemoveModal(pages))
    /\ UNCHANGED <<open, panels, active, load, temps, strayed>>

Closed(j, r) == j \in DOMAIN jobs /\ jobs[j].stage = "closed" /\ jobs[j].result = r

TransferCancelled(j) ==
    /\ Closed(j, "cancelled") /\ Done(j)
    /\ FocusActive(pages)
    /\ UNCHANGED <<open, panels, active, load, temps, strayed>>

TransferFailed(j) ==
    /\ Closed(j, "error") /\ Done(j)
    /\ ShowError(pages)
    /\ UNCHANGED <<open, panels, active, load, temps, strayed>>

UploadDone(j) ==
    /\ Closed(j, "ok") /\ jobs[j].op = "upload" /\ Done(j)
    /\ UNCHANGED panels /\ StartRemoteLoad
    /\ UNCHANGED <<open, active, screen, temps, strayed>>

DownloadDone(j) ==
    /\ Closed(j, "ok") /\ jobs[j].op = "download" /\ Done(j)
    /\ UNCHANGED dir /\ LoadLocalFocused(pages)
    /\ UNCHANGED <<open, active, load, temps, strayed>>

RemoveReports(j) ==
    /\ Runs(j, "remove") /\ Done(j)
    /\ UNCHANGED panels
    /\ LET s == RemoveModal(pages) IN
       \/ FocusActive(s) /\ StartRemoteLoad
       \/ FocusActive(Raise(s, Modal("error"))) /\ UNCHANGED load
    /\ UNCHANGED <<open, active, temps, strayed>>

ViewReports(j) ==
    /\ Runs(j, "view") /\ Done(j)
    /\ ShowViewer \/ ShowError(RemoveModal(pages))
    /\ UNCHANGED <<open, panels, active, load, temps, strayed>>

\* Faulty: the temporary file is forgotten with the error.
EditFailsToLoadKeepingTemp(j) ==
    /\ Runs(j, "edit") /\ Done(j)
    /\ UNCHANGED temps
    /\ ShowError(RemoveModal(pages))
    /\ UNCHANGED <<open, panels, active, load, strayed>>

EditFailsToLoad(j) ==
    /\ Runs(j, "edit") /\ Done(j)
    /\ temps' = temps \ {j}
    /\ ShowError(RemoveModal(pages))
    /\ UNCHANGED <<open, panels, active, load, strayed>>

\* The editor returned and the file is as it was.
EditUnchanged(j) ==
    /\ Runs(j, "edit") /\ Done(j)
    /\ temps' = temps \ {j}
    /\ Show(RemoveModal(pages))
    /\ UNCHANGED <<open, panels, active, load, strayed>>

\* The copy goes back to where it came from.
EditChanged(j) ==
    /\ Runs(j, "edit")
    /\ jobs' = [jobs EXCEPT ![j].stage = "save"]
    /\ Asks(jobs[j].target, jobs[j].row)
    /\ Add(RemoveModal(pages), Modal("info"))
    /\ UNCHANGED <<open, panels, active, load, temps>>

\* The temporary file goes even if the upload failed.
EditSaved(j) ==
    /\ j \in DOMAIN jobs /\ jobs[j].stage = "save" /\ Done(j)
    /\ temps' = temps \ {j}
    /\ UNCHANGED panels
    /\ LET s == RemoveModal(pages) IN
       \/ Show(s) /\ StartRemoteLoad
       \/ ShowError(s) /\ UNCHANGED load
    /\ UNCHANGED <<open, active, strayed>>

-------------------------------------------------------------------------------

KeyInTables ==
    \/ SwitchPanel \/ OpenLocal \/ OpenRemote \/ CloseBrowser \/ Refused
    \/ AskName \/ ViewLocal \/ EditLocal
    \/ \E n \in Name \cup {Up} : MoveCursor(n)
    \/ \E n \in Name : AskDelete(n)
    \/ \E j \in Job : Upload(j) \/ Download(j) \/ ViewRemote(j) \/ EditRemote(j)

KeyInDialogs ==
    \/ PressOK \/ PressCancel \/ PressNo \/ YesLocal \/ YesRemoteFile
    \/ \E j \in Job : YesRemoteDir(j)
    \/ PressCancelName \/ CreateLocal \/ CreateRemote \/ CloseViewer

Result ==
    \/ \E d \in listings : ListingArrives(d) \/ ListingFails(d)
    \/ \E j \in DOMAIN jobs :
        \/ TransferReturns(j) \/ TransferCloses(j) \/ TransferCancelled(j)
        \/ TransferFailed(j) \/ UploadDone(j) \/ DownloadDone(j)
        \/ RemoveReports(j) \/ ViewReports(j)
        \/ EditFailsToLoad(j) \/ EditUnchanged(j) \/ EditChanged(j) \/ EditSaved(j)

Next == KeyInTables \/ KeyInDialogs \/ Result \/ \E n \in Name : CursorSlips(n)

Spec == Init /\ [][Next]_vars

-------------------------------------------------------------------------------
(* What the user may rely on.                                              *)

Dir == UNION {[1 .. k -> DirName] : k \in 0 .. MaxDepth}

TypeOK ==
    /\ open \in BOOLEAN /\ active \in Panel /\ remoteLoading \in BOOLEAN
    /\ dir \in [Panel -> Dir] /\ path \in [Panel -> Dir]
    /\ files \in [Panel -> SUBSET Name] /\ sel \in [Panel -> Name \cup {Up}]
    /\ listings \subseteq Dir /\ shown \in {"rows", "loading", "blank"}
    /\ focus \in Panel \cup {"modal", "input", "viewer", "hosts"}
    /\ DOMAIN jobs \subseteq Job
    /\ temps \subseteq {j \in DOMAIN jobs : jobs[j].op = "edit"}
    /\ \A i, k \in DOMAIN pages : pages[i].page = pages[k].page => i = k
    /\ strayed \in BOOLEAN

(* The rows on the remote side are those of the directory that the next    *)
(* operation there would work in, however keys and listings are            *)
(* interleaved (filebrowser.go:131-154, 388-430).                          *)
RowsAreOfTheDirectory == shown = "rows" => path[Remote] = dir[Remote]

(* The panel says that it is loading, and refuses operations, exactly      *)
(* while one listing is under way (filebrowser.go:131-143).                *)
LoadingIsServed ==
    /\ remoteLoading <=> Cardinality(listings) = 1
    /\ remoteLoading <=> shown = "loading"
    /\ listings # {} => listings = {dir[Remote]}

(* A remote entry chosen from the rows on the screen is the one that is    *)
(* fetched, deleted, edited and saved, though a question or an editor may  *)
(* come between (filebrowser.go:522, 661, 721, 851).                       *)
ActsOnChosenRow == ~strayed

(* README.md:315: Esc returns to the host list.  From then on it, or what  *)
(* is shown on it, gets the keys.                                          *)
HostListGetsTheKeys == ~open => focus \notin Panel

===============================================================================
