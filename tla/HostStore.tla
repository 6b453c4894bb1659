------------------------------- MODULE HostStore -------------------------------
(***************************************************************************)
(* The hosts in memory and on disk (internal/config/config.go), the list   *)
(* that shows them (internal/ui/hostlist.go), the form that edits them     *)
(* (internal/ui/hostform.go) and the master password of a session          *)
(* (internal/ui/app.go).                                                   *)
(*                                                                         *)
(* One key is one step: saving is part of the step of the key that asks    *)
(* for it, and may fail, or be the last thing the process does.  Hosts are *)
(* objects, and the list and the form point to them.                       *)
(***************************************************************************)
EXTENDS Naturals, Sequences, FiniteSets, SequencesExt

CONSTANTS Id,           \* identifiers of hosts
          Text,         \* what a host says apart from its password
          Master,       \* master passwords
          Filter,       \* what may be searched for
          Matches,      \* the pairs of a filter and a text that it finds
          Importable,   \* the lists of hosts in files elsewhere
          FirstDisk,    \* the hosts files a first start may find
          MaxObjects,   \* bound: host objects a process creates
          MaxEdits,     \* bound: forms saved, and files imported or exported
          MaxUnlocks    \* bound: decryptions at work with nothing on the screen

CONSTANTS Absent, Torn, NoFilter, NoMaster

\* A password is absent, in the clear, or encrypted by a master password.
None == "none"
Clear == "clear"
Password == {None, Clear} \cup Master
Host == [id : Id, text : Text, pwd : Password]

ASSUME StoreAssumption ==
    /\ Matches \subseteq Filter \X Text
    /\ Importable \subseteq Seq(Host)
    /\ FirstDisk \subseteq {Absent, Torn} \cup Seq(Host)
    /\ \A s \in FirstDisk \ {Absent, Torn} : Len(s) <= MaxObjects
    /\ {Absent, Torn} \cap Seq(Host) = {}
    /\ NoFilter \notin Filter /\ NoMaster \notin Password
    /\ {None, Clear} \cap Master = {}
    /\ MaxObjects \in Nat /\ MaxEdits \in Nat /\ MaxUnlocks \in Nat

VARIABLES
    disk,       \* hosts.yaml: absent, no YAML of a store, or a list of hosts
    heap,       \* the host objects of the process
    hosts,      \* store.Hosts: which of them, in order
    rows,       \* the objects the tree shows
    filter, searching,
    mode,       \* what has the keys; "down" when no process runs
    under,      \* what the error in front lies on
    target,     \* the host the form, the question or the prompt is about; 0: a new one
    masterPwd,
    unlocks,    \* decryptions at work with nothing on the screen
    edits,
    faults,     \* history: what may have kept the last changes off the disk
    brought,    \* history: has a file brought an encrypted password?
    proven      \* history: has the master password decrypted something?

list == <<heap, hosts, rows>>
search == <<filter, searching>>
screen == <<mode, under, target>>
secret == <<masterPwd, unlocks, proven>>
history == <<faults, brought>>
vars == <<disk, list, search, screen, secret, edits, history>>

\* Decrypting pwd by the master password "by".
Unlock == [pwd : Master, by : Master]

Values(h, s) == [i \in DOMAIN s |-> h[s[i]]]

IsStore(d) == d \notin {Absent, Torn}

Encrypted(s) == \E i \in DOMAIN s : s[i].pwd \in Master

\* Of a list whose writing was cut short, Load makes nothing or a shorter list,
\* perhaps with a last host that has lost the end of its entry.
CutShort(s) ==
    {Torn} \cup {SubSeq(s, 1, k) : k \in 0 .. Len(s)}
           \cup {[SubSeq(s, 1, k) EXCEPT ![k].pwd = None] : k \in 1 .. Len(s)}

Init ==
    /\ disk \in FirstDisk
    /\ heap = <<>> /\ hosts = <<>> /\ rows = <<>>
    /\ filter = NoFilter /\ searching = FALSE
    /\ mode = "down" /\ under = "list" /\ target = 0
    /\ masterPwd = NoMaster /\ unlocks = {} /\ proven = FALSE
    /\ edits = 0
    /\ faults = {} /\ brought = FALSE

-------------------------------------------------------------------------------
(* The list, and the process.                                              *)

Found(f, text) == f = NoFilter \/ <<f, text>> \in Matches

\* What s has of the set S, in order.
Kept(s, S) ==
    LET kept[i \in 0 .. Len(s)] ==
            IF i = 0 THEN <<>>
            ELSE IF s[i] \in S THEN Append(kept[i - 1], s[i])
            ELSE kept[i - 1]
    IN kept[Len(s)]

Shown(h, s, f) == Kept(s, {r \in DOMAIN h : Found(f, h[r].text)})

Rebuild == rows' = Shown(heap', hosts', filter')

\* rows holds r, and so may the host list's cursor.
OnRow(r) == mode = "list" /\ \E i \in DOMAIN rows : rows[i] = r

At(m) == mode' = m /\ UNCHANGED <<under, target>>

About(m, r) == mode' = m /\ target' = r /\ UNCHANGED under

\* An error takes the place of a question: there is one modal page.
ErrorOver(m) ==
    /\ mode' = "error" /\ under' = m
    /\ target' = IF m \in {"form", "unlock"} THEN target ELSE 0

\* What stays when an error comes from elsewhere.  The host list gets the focus
\* back on its tree.
Below ==
    IF mode = "error" THEN under ELSE IF mode \in {"confirm", "search"} THEN "list" ELSE mode

PressOK ==
    /\ mode = "error"
    /\ mode' = under /\ under' = "list" /\ UNCHANGED target
    /\ UNCHANGED <<disk, list, search, secret, edits, history>>

\* Quit, or killed.
Gone ==
    /\ mode' = "down" /\ under' = "list" /\ target' = 0
    /\ heap' = <<>> /\ hosts' = <<>> /\ rows' = <<>>
    /\ filter' = NoFilter /\ searching' = FALSE
    /\ masterPwd' = NoMaster /\ unlocks' = {} /\ proven' = FALSE

End ==
    /\ mode # "down" /\ Gone
    /\ UNCHANGED <<disk, edits, history>>

\* A file that cannot be decoded ends the program before it starts.
StartFails ==
    /\ mode = "down" /\ disk = Torn
    /\ UNCHANGED vars

Start ==
    /\ mode = "down" /\ disk # Torn
    /\ heap' = IF disk = Absent THEN <<>> ELSE disk
    /\ hosts' = [i \in DOMAIN heap' |-> i]
    /\ At("list")
    /\ faults' = {}
    /\ brought' = (brought \/ Encrypted(heap'))
    /\ UNCHANGED <<disk, search, secret, edits>>
    /\ Rebuild

-------------------------------------------------------------------------------
(* Search.                                                                 *)

OpenSearch ==
    /\ mode = "list"
    /\ searching' = TRUE /\ UNCHANGED filter
    /\ At("search")
    /\ UNCHANGED <<disk, list, secret, edits, history>>

Type ==
    /\ mode = "search"
    /\ filter' \in Filter \cup {NoFilter}
    /\ UNCHANGED <<disk, heap, hosts, searching, screen, secret, edits, history>>
    /\ Rebuild

\* Enter or Tab.
GoToResults ==
    /\ mode = "search"
    /\ At("list")
    /\ UNCHANGED <<disk, list, search, secret, edits, history>>

\* Faulty: the rows stay as they were searched for.
HideSearchOnly ==
    /\ mode \in {"list", "search"} /\ searching
    /\ searching' = FALSE /\ filter' = NoFilter
    /\ At("list")
    /\ UNCHANGED <<disk, list, secret, edits, history>>

HideSearch ==
    /\ mode \in {"list", "search"} /\ searching
    /\ searching' = FALSE /\ filter' = NoFilter
    /\ At("list")
    /\ UNCHANGED <<disk, heap, hosts, secret, edits, history>>
    /\ Rebuild

-------------------------------------------------------------------------------
(* Saving: the file is truncated, then written.                            *)

Saved ==
    /\ disk' = Values(heap', hosts')
    /\ faults' = {}

SaveFails ==
    /\ disk' \in {disk} \cup CutShort(Values(heap', hosts'))
    /\ faults' = faults \cup {"save"}

Edit == edits < MaxEdits /\ edits' = edits + 1

\* The process is killed while it saves the list s.
KilledSaving(s) ==
    /\ disk' \in CutShort(s)
    /\ Gone
    /\ UNCHANGED history

-------------------------------------------------------------------------------
(* The form.                                                               *)

OpenForm ==
    /\ mode = "list"
    /\ About("form", 0) \/ \E i \in DOMAIN rows : About("form", rows[i])
    /\ UNCHANGED <<disk, list, search, secret, edits, history>>

CancelForm ==
    /\ mode = "form"
    /\ About("list", 0)
    /\ UNCHANGED <<disk, heap, hosts, search, secret, edits, history>>
    /\ Rebuild

\* A name, a hostname or a user is missing.
InvalidForm ==
    /\ mode = "form" /\ ErrorOver("form")
    /\ UNCHANGED <<disk, list, search, secret, edits, history>>

IsNew(i) ==
    /\ \A r \in DOMAIN heap : heap[r].id # i
    /\ IsStore(disk) => \A k \in DOMAIN disk : disk[k].id # i
    /\ \A s \in Importable : \A k \in DOMAIN s : s[k].id # i

\* A random identifier that nothing has yet; which one is of no matter.
NewID == CHOOSE i \in Id : IsNew(i)

HasRoom == target = 0 => Len(heap) < MaxObjects /\ \E i \in Id : IsNew(i)

\* The objects and the list once the form is taken over.
Filled(text, pwd) ==
    IF target = 0 THEN Append(heap, [id |-> NewID, text |-> text, pwd |-> pwd])
    ELSE [heap EXCEPT ![target] = [id |-> @.id, text |-> text, pwd |-> pwd]]

Entered == IF target = 0 THEN Append(hosts, Len(heap) + 1) ELSE hosts

OldPassword == IF target = 0 THEN None ELSE heap[target].pwd

\* Faulty: a master password is not looked for.
NewPasswordUnchecked == masterPwd

\* A typed password is encrypted if there is a master password, else it is not.
NewPassword == IF masterPwd = NoMaster THEN Clear ELSE masterPwd

\* When saving fails, closing the form hides the error.
SaveForm(text, pwd) ==
    /\ mode = "form" /\ HasRoom /\ Edit
    /\ \/ KilledSaving(Values(Filled(text, pwd), Entered))
       \/ /\ heap' = Filled(text, pwd) /\ hosts' = Entered
          /\ Saved \/ SaveFails
          /\ About("list", 0)
          /\ UNCHANGED <<search, secret, brought>>
          /\ Rebuild

\* The host is in the store, the form stays open, and would enter it again.
EncryptFails(text) ==
    /\ mode = "form" /\ masterPwd # NoMaster /\ HasRoom /\ Edit
    /\ heap' = Filled(text, OldPassword) /\ hosts' = Entered
    /\ faults' = faults \cup {"encrypt"}
    /\ ErrorOver("form")
    /\ UNCHANGED <<disk, rows, search, secret, brought>>

FormNext ==
    \/ OpenForm \/ CancelForm \/ InvalidForm
    \/ \E t \in Text : \/ SaveForm(t, OldPassword) \/ SaveForm(t, NewPassword)
                       \/ EncryptFails(t)

-------------------------------------------------------------------------------
(* Deletion.                                                               *)

AskDelete(r) ==
    /\ OnRow(r)
    /\ About("confirm", r)
    /\ UNCHANGED <<disk, list, search, secret, edits, history>>

PressNo ==
    /\ mode = "confirm"
    /\ About("list", 0)
    /\ UNCHANGED <<disk, list, search, secret, edits, history>>

\* Every host with this identifier.
Left == Kept(hosts, {r \in DOMAIN heap : heap[r].id # heap[target].id})

\* Faulty: nothing is saved.
DeleteUnsaved ==
    /\ mode = "confirm"
    /\ hosts' = Left
    /\ About("list", 0)
    /\ UNCHANGED <<disk, heap, search, secret, edits, history>>
    /\ Rebuild

Delete ==
    /\ mode = "confirm"
    /\ UNCHANGED edits
    /\ \/ KilledSaving(Values(heap, Left))
       \/ /\ hosts' = Left
          /\ UNCHANGED <<heap, search, secret, brought>>
          /\ (Saved /\ About("list", 0)) \/ (SaveFails /\ ErrorOver("list"))
          /\ Rebuild

-------------------------------------------------------------------------------
(* Import and export.                                                      *)

OpenPrompt(m) ==
    /\ mode = "list"
    /\ About(m, 0)
    /\ UNCHANGED <<disk, list, search, secret, edits, history>>

CancelPrompt ==
    /\ mode \in {"import", "export"}
    /\ About("list", 0)
    /\ UNCHANGED <<disk, list, search, secret, edits, history>>

\* The list with the objects "new" merged in: one with the identifier of a host
\* that was there takes its place, the last one's if there are several.
Merged(h, new) ==
    LET Places(r) == {i \in DOMAIN hosts : h[hosts[i]].id = h[r].id}
        Merge(s, r) == IF Places(r) = {} THEN Append(s, r)
                       ELSE [s EXCEPT ![Max(Places(r))] = r]
        merged[k \in 0 .. Len(new)] ==
            IF k = 0 THEN hosts ELSE Merge(merged[k - 1], new[k])
    IN merged[Len(new)]

\* If saving fails, the tree keeps the objects it had.
Import(imported) ==
    LET h   == heap \o imported
        new == [k \in DOMAIN imported |-> Len(heap) + k]
    IN
    /\ mode = "import" /\ Len(h) <= MaxObjects /\ Edit
    /\ \/ KilledSaving(Values(h, Merged(h, new)))
       \/ /\ heap' = h /\ hosts' = Merged(h, new)
          /\ brought' = (brought \/ Encrypted(imported))
          /\ UNCHANGED <<search, secret>>
          /\ \/ Saved /\ About("list", 0) /\ Rebuild
             \/ /\ disk' \in {disk} \cup CutShort(Values(heap', hosts'))
                /\ faults' = faults \cup {"save", "import"}
                /\ ErrorOver("list")
                /\ UNCHANGED rows

\* No such file, or nothing that can be decoded.
ImportNothing ==
    /\ mode = "import" /\ ErrorOver("list")
    /\ UNCHANGED <<disk, list, search, secret, edits, history>>

\* To another file, with or without success: a dialog says so.
Export ==
    /\ mode = "export" /\ ErrorOver("list")
    /\ UNCHANGED <<disk, list, search, secret, edits, history>>

\* To the file itself, which is truncated before it is read.
ExportOntoItself ==
    /\ mode = "export" /\ disk # Absent /\ ErrorOver("list")
    /\ Edit
    /\ disk' = Torn
    /\ faults' = faults \cup {"export"}
    /\ UNCHANGED <<list, search, secret, brought>>

FileNext ==
    \/ OpenPrompt("import") \/ OpenPrompt("export") \/ CancelPrompt
    \/ \E s \in Importable \cup (IF IsStore(disk) THEN {disk} ELSE {}) : Import(s)
    \/ ImportNothing \/ Export \/ ExportOntoItself

-------------------------------------------------------------------------------
(* The master password.                                                    *)

Asks(r) == About("unlock", r) /\ UNCHANGED secret

\* Faulty: asks for it whatever the password is.
UnlockAnything(r) ==
    /\ OnRow(r) /\ heap[r].pwd # None
    /\ masterPwd = NoMaster /\ Asks(r)
    /\ UNCHANGED <<disk, list, search, edits, history>>

\* Connecting to a host decrypts its password.
Decrypt(r) ==
    /\ OnRow(r) /\ heap[r].pwd \in Master
    /\ \/ masterPwd = NoMaster /\ Asks(r)
       \/ /\ masterPwd = heap[r].pwd
          /\ proven' = TRUE
          /\ UNCHANGED <<screen, masterPwd, unlocks>>
       \/ /\ masterPwd \notin {NoMaster, heap[r].pwd}
          /\ masterPwd' = NoMaster /\ proven' = FALSE
          /\ ErrorOver("list")
          /\ UNCHANGED unlocks
    /\ UNCHANGED <<disk, list, search, edits, history>>

\* Without one the prompt comes again.  Afterwards nothing is on the screen
\* while the password is decrypted.
EnterMaster(m) ==
    /\ mode = "unlock" /\ Cardinality(unlocks) < MaxUnlocks
    /\ masterPwd' = m /\ proven' = FALSE
    /\ unlocks' = unlocks \cup {[pwd |-> heap[target].pwd, by |-> m]}
    /\ About("list", 0)
    /\ UNCHANGED <<disk, list, search, edits, history>>

CancelMaster ==
    /\ mode = "unlock"
    /\ About("list", 0)
    /\ UNCHANGED <<disk, list, search, secret, edits, history>>

\* Faulty: a master password that does not fit is kept.
UnlockEndsEither(u) ==
    /\ u \in unlocks /\ unlocks' = unlocks \ {u}
    /\ UNCHANGED <<masterPwd, proven>>
    /\ IF u.pwd = u.by THEN UNCHANGED screen ELSE ErrorOver(Below)
    /\ UNCHANGED <<disk, list, search, edits, history>>

UnlockEnds(u) ==
    /\ u \in unlocks /\ unlocks' = unlocks \ {u}
    /\ \/ /\ u.pwd = u.by
          /\ proven' = (proven \/ masterPwd = u.by)
          /\ UNCHANGED <<screen, masterPwd>>
       \/ /\ u.pwd # u.by
          /\ masterPwd' = NoMaster /\ proven' = FALSE
          /\ ErrorOver(Below)
    /\ UNCHANGED <<disk, list, search, edits, history>>

SecretNext ==
    \/ \E r \in DOMAIN heap : Decrypt(r)
    \/ \E m \in Master : EnterMaster(m)
    \/ CancelMaster
    \/ \E u \in unlocks : UnlockEnds(u)

-------------------------------------------------------------------------------

Next ==
    \/ Start \/ StartFails \/ End \/ PressOK
    \/ OpenSearch \/ Type \/ GoToResults \/ HideSearch
    \/ FormNext
    \/ \E r \in DOMAIN heap : AskDelete(r)
    \/ PressNo \/ Delete
    \/ FileNext
    \/ SecretNext

Spec == Init /\ [][Next]_vars

-------------------------------------------------------------------------------

TypeOK ==
    /\ disk \in {Absent, Torn} \/ disk \in Seq(Host)
    /\ heap \in Seq(Host) /\ Len(heap) <= MaxObjects
    /\ hosts \in Seq(DOMAIN heap) /\ rows \in Seq(DOMAIN heap)
    /\ filter \in Filter \cup {NoFilter} /\ searching \in BOOLEAN
    /\ mode \in {"down", "list", "search", "form", "confirm", "import", "export",
                 "unlock", "error"}
    /\ under \in {"list", "form", "import", "export", "unlock"}
    /\ target \in {0} \cup DOMAIN heap
    /\ masterPwd \in Master \cup {NoMaster}
    /\ unlocks \subseteq Unlock /\ proven \in BOOLEAN
    /\ edits \in 0 .. MaxEdits
    /\ faults \subseteq {"save", "encrypt", "import", "export"} /\ brought \in BOOLEAN

(* As long as no save and no encryption failed, and the store was not      *)
(* exported onto itself, the file holds the hosts that are in memory, so   *)
(* that a crash between two keys loses nothing (app.go:57-62).             *)
MemoryIsOnDisk ==
    mode # "down" /\ faults = {} =>
        Values(heap, hosts) = IF IsStore(disk) THEN disk ELSE <<>>

(* The tree shows the objects that are in the store and match the search,  *)
(* and what is edited is one of them: an edit that is saved changes the    *)
(* store.  Only an import that could not be saved leaves the tree behind   *)
(* (hostlist.go:88, 349-356; hostform.go:136-138).                         *)
RowsAreOfTheStore ==
    "import" \notin faults =>
        /\ mode = "list" => rows = Shown(heap, hosts, filter)
        /\ mode = "form" /\ target # 0 => \E i \in DOMAIN hosts : hosts[i] = target

(* A master password that has not decrypted anything is in use only while  *)
(* it is being tried (app.go:122, 129-131).                                *)
MasterIsVerified ==
    masterPwd # NoMaster =>
        proven \/ \E u \in unlocks : u.by = masterPwd

(* No password is ever encrypted, and no master password asked for, unless *)
(* a file has brought an encrypted one: the form does not prompt, against  *)
(* README.md:221 (hostform.go:156-166, app.go:117-118).                    *)
EncryptedOnlyIfBrought ==
    ~brought =>
        /\ masterPwd = NoMaster /\ mode # "unlock"
        /\ ~Encrypted(heap)
        /\ IsStore(disk) /\ mode # "down" => ~Encrypted(disk)

===============================================================================
