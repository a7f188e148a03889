-------------------------- MODULE DocumentEditing --------------------------
(***************************************************************************)
(* Editing and publishing documents: the editor's tabs (Editor.svelte and  *)
(* the document page), the document handlers of internal/api/docs.go, the  *)
(* stores of internal/store they are routed to, and the git repository of  *)
(* the workspace.  Projects come from a scan, POST /api/projects, an       *)
(* import or a link, which also decides the store that serves them.        *)
(*                                                                         *)
(* A document stands for its project: every project holds one.  A text is  *)
(* the number of the edit it comes from.  A handler's path is relative to  *)
(* the workspace (validateDocPath); the store of a project made here is    *)
(* rooted in the project's directory instead, so it puts and looks for the *)
(* same path one directory further down: the place "project".              *)
(* Body limits, path checks, formats and events are left out.              *)
(***************************************************************************)
EXTENDS Naturals, FiniteSets

CONSTANTS Docs,         \* documents, one per project
          Scanned,      \* those that are there, committed, from the start
          Movable,      \* those whose projects are created, imported and linked
          Tabs, NoTab,  \* editor tabs; the tab of a request of no tab
          NoText,       \* the text of a file that does not exist
          MaxEdits,     \* bound on the texts that are made
          MaxRequests,  \* bound on the requests that are sent
          MaxFaults     \* bound on failing writes and git commands, and on restarts

ASSUME DocsAssumption == Scanned \subseteq Docs /\ Movable \subseteq Docs
ASSUME TabsAssumption == IsFiniteSet(Tabs) /\ NoTab \notin Tabs
ASSUME NoTextAssumption == NoText \notin Nat
ASSUME BoundsAssumption == {MaxEdits, MaxRequests, MaxFaults} \subseteq Nat

VARIABLES
  route,     \* route[d]: the store registered for d's project
  linked,    \* projects in .vedox/links.json
  dirs,      \* projects with a directory in the workspace
  draft,     \* draft[d]: the text of d's draft file
  file,      \* file[d][p]: the text of d's file at place p
  older,     \* older[d]: the places whose file was last written before d's draft
  index, head,  \* index[d], head[d]: d in git's index and in its last commit
  tab,       \* tab[t]: the state of the editor in tab t
  requests,  \* requests being handled, and those answered but not yet noticed
  edits, sent, faults,  \* counters for the bounds
  touched    \* history: documents changed in other ways than by publishing them

disk  == <<draft, file, older>>
git   == <<index, head>>
proj  == <<route, linked, dirs>>
count == <<edits, sent, faults>>
vars  == <<proj, disk, git, tab, requests, count, touched>>

Places == {"workspace", "project"}
Texts  == 0 .. MaxEdits
Files  == Texts \cup {NoText}
Closed == [doc |-> NoText, text |-> NoText, timer |-> FALSE, dialog |-> FALSE, op |-> "idle"]
PublishSteps == {"read", "promote", "drop", "add", "commit"}

OpenTab == [doc : Docs, text : Texts, timer : BOOLEAN, dialog : BOOLEAN,
            op : {"idle", "saving", "publishing"}]
Request == [id : 1 .. MaxRequests, kind : {"save", "publish", "delete"}, doc : Docs,
            tab : Tabs \cup {NoTab}, text : Files, shown : Files,
            route : Places \cup {"external"},
            pc : PublishSteps \cup {"save", "delete", "deletedraft", "ok", "failed"}]

TypeOK ==
  /\ route \in [Docs -> Places \cup {"external"}] /\ linked \subseteq Docs
  /\ dirs \subseteq Docs /\ touched \subseteq Docs
  /\ draft \in [Docs -> Files] /\ file \in [Docs -> [Places -> Files]]
  /\ older \in [Docs -> SUBSET Places]
  /\ index \in [Docs -> Files] /\ head \in [Docs -> Files]
  /\ tab \in [Tabs -> {Closed} \cup OpenTab] /\ requests \subseteq Request
  /\ edits \in 0 .. MaxEdits /\ sent \in 0 .. MaxRequests /\ faults \in 0 .. MaxFaults

Init ==
  /\ route = [d \in Docs |-> "workspace"] /\ linked = {} /\ dirs = Scanned
  /\ draft = [d \in Docs |-> NoText]
  /\ file = [d \in Docs |-> [p \in Places |->
               IF p = "workspace" /\ d \in Scanned THEN 0 ELSE NoText]]
  /\ older = [d \in Docs |-> {}]
  /\ index = [d \in Docs |-> file[d]["workspace"]] /\ head = index
  /\ tab = [t \in Tabs |-> Closed]
  /\ requests = {} /\ touched = {}
  /\ edits = 0 /\ sent = 0 /\ faults = 0

-----------------------------------------------------------------------------
(***************************************************************************)
(* The stores.                                                             *)
(***************************************************************************)
\* A store rooted in the workspace or in the directory of the project.
LocalRead(d, p) == file[d][p]

\* The root of a linked project holds no directory with the project's name, in which the
\* handlers look for its documents.
LinkedRead(d) == NoText
Editable(s) == s # "external"

\* The committed file as the store of the project finds it.
Committed(d) == IF Editable(route[d]) THEN LocalRead(d, route[d]) ELSE LinkedRead(d)

\* GET answers with the draft when it is newer than the file.
DraftServed(d) ==
  /\ draft[d] # NoText
  /\ Committed(d) = NoText \/ route[d] \in older[d]
Served(d) == IF DraftServed(d) THEN draft[d] ELSE Committed(d)

\* Write goes through a temporary file: the new text is there at once or not at all.
WriteFile(d, p, text) ==
  /\ file' = [file EXCEPT ![d][p] = text]
  /\ older' = [older EXCEPT ![d] = @ \ {p}]

RemoveFile(d, p) == file' = [file EXCEPT ![d][p] = NoText]

WriteDraft(d, text) ==
  /\ draft' = [draft EXCEPT ![d] = text]
  /\ older' = [older EXCEPT ![d] = Places]

Fault == faults < MaxFaults /\ faults' = faults + 1
Goto(r, pc) == requests' = (requests \ {r}) \cup {[r EXCEPT !.pc = pc]}

-----------------------------------------------------------------------------
(***************************************************************************)
(* A tab: the editor and its document page.                                *)
(***************************************************************************)
Send(kind, d, t, text, shown, pc) ==
  /\ sent < MaxRequests
  /\ sent' = sent + 1
  /\ requests' = requests \cup
       {[id |-> sent + 1, kind |-> kind, doc |-> d, tab |-> t, text |-> text,
         shown |-> shown, route |-> route[d], pc |-> pc]}

Open(t, d) ==
  /\ tab[t] = Closed /\ Served(d) # NoText
  /\ tab' = [tab EXCEPT ![t] = [Closed EXCEPT !.doc = d, !.text = Served(d)]]
  /\ UNCHANGED <<proj, disk, git, requests, count, touched>>

\* Leaving the page drops the timer and what it would have saved.  The requests of the
\* page go on, but nobody looks at their answers.
Close(t) ==
  /\ tab[t] # Closed
  /\ tab' = [tab EXCEPT ![t] = Closed]
  /\ requests' = {IF r.tab = t THEN [r EXCEPT !.tab = NoTab] ELSE r : r \in requests}
  /\ UNCHANGED <<proj, disk, git, count, touched>>

Type(t) ==
  /\ tab[t] # Closed /\ ~tab[t].dialog /\ edits < MaxEdits
  /\ edits' = edits + 1
  /\ tab' = [tab EXCEPT ![t].text = edits + 1, ![t].timer = TRUE]
  /\ UNCHANGED <<proj, disk, git, requests, sent, faults, touched>>

\* The timer calls handleChange, which drops the text while a publish is under way.
AutoSave(t) ==
  /\ tab[t].timer
  /\ IF tab[t].op = "publishing"
     THEN tab' = [tab EXCEPT ![t].timer = FALSE] /\ UNCHANGED <<requests, sent>>
     ELSE /\ tab' = [tab EXCEPT ![t].timer = FALSE, ![t].op = "saving"]
          /\ Send("save", tab[t].doc, t, tab[t].text, NoText, "save")
  /\ UNCHANGED <<proj, disk, git, edits, faults, touched>>

\* Opening the dialog cancels the timer, and with it the save.
OpenPublishDialog(t) ==
  /\ tab[t] # Closed /\ ~tab[t].dialog
  /\ tab' = [tab EXCEPT ![t].timer = FALSE, ![t].dialog = TRUE]
  /\ UNCHANGED <<proj, disk, git, requests, count, touched>>

CancelPublish(t) ==
  /\ tab[t].dialog
  /\ tab' = [tab EXCEPT ![t].dialog = FALSE]
  /\ UNCHANGED <<proj, disk, git, requests, count, touched>>

\* The text of the editor is handed to handlePublish, which does not send it.
ConfirmPublish(t) ==
  /\ tab[t].dialog
  /\ tab' = [tab EXCEPT ![t].dialog = FALSE, ![t].op = "publishing"]
  /\ Send("publish", tab[t].doc, t, NoText, tab[t].text, "read")
  /\ UNCHANGED <<proj, disk, git, edits, faults, touched>>

\* Mutant: a failed publish is not caught, and the page waits for ever.
NoticeOkOnly(r) ==
  /\ r.pc \in {"ok", "failed"}
  /\ requests' = requests \ {r}
  /\ tab' = IF r.tab = NoTab \/ (r.pc = "failed" /\ r.kind = "publish") THEN tab
            ELSE [tab EXCEPT ![r.tab].op = "idle"]
  /\ UNCHANGED <<proj, disk, git, count, touched>>

\* Any answer, also the one to a save, ends the state "publishing".
Notice(r) ==
  /\ r.pc \in {"ok", "failed"}
  /\ requests' = requests \ {r}
  /\ tab' = IF r.tab = NoTab THEN tab ELSE [tab EXCEPT ![r.tab].op = "idle"]
  /\ UNCHANGED <<proj, disk, git, count, touched>>

-----------------------------------------------------------------------------
(***************************************************************************)
(* The handlers.                                                           *)
(***************************************************************************)
\* Requests from outside of the editor: agents and scripts use the same API.
ClientSave(d) ==
  /\ edits < MaxEdits /\ edits' = edits + 1
  /\ Send("save", d, NoTab, edits + 1, NoText, "save")
  /\ UNCHANGED <<proj, disk, git, tab, faults, touched>>

ClientDelete(d) ==
  /\ Send("delete", d, NoTab, NoText, NoText, "delete")
  /\ UNCHANGED <<proj, disk, git, tab, edits, faults, touched>>

\* PUT writes the draft, in the store of the workspace whatever the project.
SaveDraft(r) ==
  /\ r.pc = "save"
  /\ \/ WriteDraft(r.doc, r.text) /\ Goto(r, "ok") /\ UNCHANGED faults
     \/ Fault /\ Goto(r, "failed") /\ UNCHANGED <<draft, older>>
  /\ UNCHANGED <<proj, file, git, tab, edits, sent, touched>>

\* DELETE: a linked project refuses; a file that is not there is no error.
DeleteFile(r) ==
  /\ r.pc = "delete"
  /\ IF Editable(r.route)
     THEN /\ RemoveFile(r.doc, r.route)
          /\ touched' = touched \cup {r.doc}
          /\ Goto(r, "deletedraft")
     ELSE Goto(r, "failed") /\ UNCHANGED <<file, touched>>
  /\ UNCHANGED <<proj, draft, older, git, tab, count>>

DeleteDraft(r) ==
  /\ r.pc = "deletedraft"
  /\ draft' = [draft EXCEPT ![r.doc] = NoText]
  /\ Goto(r, "ok")
  /\ UNCHANGED <<proj, file, older, git, tab, count, touched>>

\* A failed publish leaves the document as it is, also the part that was done.
Fail(r) == Goto(r, "failed") /\ touched' = touched \cup {r.doc}

\* A publish that is alone makes good what happened to the document before.
Alone(r) == \A s \in requests \ {r} : s.doc # r.doc

\* git config cannot be run, or has no user.name or no user.email.
NoIdentity(r) == Fault /\ Fail(r)

\* Publish looks for the user's identity, then reads the draft, if there is one.
ReadDraft(r) ==
  /\ r.pc = "read"
  /\ \/ NoIdentity(r)
     \/ /\ requests' = (requests \ {r}) \cup
             {[r EXCEPT !.text = draft[r.doc],
                        !.pc = IF draft[r.doc] = NoText THEN "add" ELSE "promote"]}
        /\ touched' = IF Alone(r) THEN touched \ {r.doc} ELSE touched
        /\ UNCHANGED faults
  /\ UNCHANGED <<proj, disk, git, tab, edits, sent>>

\* Mutant: the draft is moved aside before the store has taken its text.
PromoteMoving(r) ==
  /\ r.pc = "promote"
  /\ draft' = [draft EXCEPT ![r.doc] = NoText]
  /\ \/ /\ Editable(r.route)
        /\ WriteFile(r.doc, r.route, r.text) /\ Goto(r, "drop")
        /\ UNCHANGED <<faults, touched>>
     \/ ~Editable(r.route) /\ Fail(r) /\ UNCHANGED <<file, older, faults>>
     \/ Fault /\ Fail(r) /\ UNCHANGED <<file, older>>
  /\ UNCHANGED <<proj, git, tab, edits, sent>>

Promote(r) ==
  /\ r.pc = "promote"
  /\ \/ /\ Editable(r.route)
        /\ WriteFile(r.doc, r.route, r.text) /\ Goto(r, "drop")
        /\ UNCHANGED <<faults, touched>>
     \/ ~Editable(r.route) /\ Fail(r) /\ UNCHANGED <<file, older, faults>>
     \/ Fault /\ Fail(r) /\ UNCHANGED <<file, older>>
  /\ UNCHANGED <<proj, draft, git, tab, edits, sent>>

\* The draft that is dropped need not be the one that was read.
DropDraft(r) ==
  /\ r.pc = "drop"
  /\ \/ draft' = [draft EXCEPT ![r.doc] = NoText] /\ UNCHANGED faults
     \/ Fault /\ UNCHANGED draft
  /\ Goto(r, "add")
  /\ UNCHANGED <<proj, file, older, git, tab, edits, sent, touched>>

\* Git is asked for the path in the workspace.  A file that is not there can be added
\* when git knows it: that stages its deletion.
GitAdd(r) ==
  /\ r.pc = "add"
  /\ LET text == file[r.doc]["workspace"] IN
     \/ /\ text # NoText \/ index[r.doc] # NoText
        /\ index' = [index EXCEPT ![r.doc] = text]
        /\ Goto(r, "commit") /\ UNCHANGED <<faults, touched>>
     \/ /\ text = NoText /\ index[r.doc] = NoText
        /\ Fail(r) /\ UNCHANGED <<index, faults>>
     \/ Fault /\ Fail(r) /\ UNCHANGED index
  /\ UNCHANGED <<proj, disk, head, tab, edits, sent>>

\* Mutant: the outcome of git commit is not looked at.
GitCommitUnchecked(r) ==
  /\ r.pc = "commit"
  /\ \/ head' = index /\ UNCHANGED faults
     \/ Fault /\ UNCHANGED head
  /\ Goto(r, "ok")
  /\ UNCHANGED <<proj, disk, index, tab, edits, sent, touched>>

\* git commit is given no path: it commits all that is staged, and fails when nothing is.
GitCommit(r) ==
  /\ r.pc = "commit"
  /\ \/ /\ index # head /\ head' = index
        /\ Goto(r, "ok") /\ UNCHANGED <<faults, touched>>
     \/ index = head /\ Fail(r) /\ UNCHANGED <<head, faults>>
     \/ Fault /\ Fail(r) /\ UNCHANGED head
  /\ UNCHANGED <<proj, disk, index, tab, edits, sent>>

-----------------------------------------------------------------------------
(***************************************************************************)
(* Projects.                                                               *)
(***************************************************************************)
Register(d, s) == route' = [route EXCEPT ![d] = s]

\* POST /api/projects: the directory, a README if there is something to put into it, and
\* a store that is rooted in the directory.
CreateProject(d) ==
  /\ d \notin dirs /\ dirs' = dirs \cup {d}
  /\ \/ /\ edits < MaxEdits /\ edits' = edits + 1
        /\ WriteFile(d, "workspace", edits + 1)
     \/ UNCHANGED <<edits, file, older>>
  /\ Register(d, "project")
  /\ touched' = touched \cup {d}
  /\ UNCHANGED <<linked, draft, git, tab, requests, sent, faults>>

\* The files of the imported project replace those in the workspace; one that cannot be
\* written is skipped.
CopyFiles(d) ==
  \/ WriteFile(d, "workspace", edits + 1) /\ UNCHANGED faults
  \/ Fault /\ UNCHANGED <<file, older>>

\* POST /api/import copies, then registers a store as POST /api/projects does.
Import(d) ==
  /\ edits < MaxEdits /\ edits' = edits + 1
  /\ dirs' = dirs \cup {d}
  /\ CopyFiles(d)
  /\ Register(d, "project")
  /\ touched' = touched \cup {d}
  /\ UNCHANGED <<linked, draft, git, tab, requests, sent>>

AddLink(d) == linked' = linked \cup {d}

\* POST /api/link, whether or not the workspace has a project of that name.  A link that
\* cannot be saved is good until the next start.
Link(d) ==
  /\ d \notin linked \/ route[d] # "external"
  /\ Register(d, "external")
  /\ \/ AddLink(d) /\ UNCHANGED faults
     \/ Fault /\ UNCHANGED linked
  /\ UNCHANGED <<dirs, disk, git, tab, requests, edits, sent, touched>>

\* Only the links are registered again when vedox starts.
Restart ==
  /\ Fault
  /\ route' = [d \in Docs |-> IF d \in linked THEN "external" ELSE "workspace"]
  /\ touched' = touched \cup {r.doc : r \in requests}
  /\ tab' = [t \in Tabs |-> [tab[t] EXCEPT !.op = "idle"]]
  /\ requests' = {}
  /\ UNCHANGED <<linked, dirs, disk, git, edits, sent>>

\* A file is changed outside of Vedox.
ExternalEdit(d) ==
  /\ d \in dirs /\ edits < MaxEdits /\ edits' = edits + 1
  /\ WriteFile(d, "workspace", edits + 1)
  /\ touched' = touched \cup {d}
  /\ UNCHANGED <<proj, draft, git, tab, requests, sent, faults>>

TabNext(t) ==
  \/ \E d \in Docs : Open(t, d)
  \/ Close(t) \/ Type(t) \/ AutoSave(t)
  \/ OpenPublishDialog(t) \/ CancelPublish(t) \/ ConfirmPublish(t)
Handle(r) ==
  \/ SaveDraft(r) \/ DeleteFile(r) \/ DeleteDraft(r)
  \/ ReadDraft(r) \/ Promote(r) \/ DropDraft(r) \/ GitAdd(r) \/ GitCommit(r)
  \/ Notice(r)
DocNext(d) ==
  \/ ClientSave(d) \/ ClientDelete(d) \/ ExternalEdit(d)
  \/ d \in Movable /\ (CreateProject(d) \/ Import(d) \/ Link(d))
Next ==
  \/ \E t \in Tabs : TabNext(t)
  \/ \E r \in requests : Handle(r)
  \/ \E d \in Docs : DocNext(d)
  \/ Restart

Spec == Init /\ [][Next]_vars
\* Every request has a goroutine of its own, and git commands end.
FairSpec ==
  Spec /\ \A i \in 1 .. MaxRequests : WF_vars(\E r \in requests : r.id = i /\ Handle(r))

-----------------------------------------------------------------------------
\* A draft disappears only when a delete asks for it, or once the file that is read in its
\* place was written after it; the one exception is a save between a publish's read and
\* its removal of the draft, which docs.go does not guard against.
DraftNotLost ==
  [][\A d \in Docs :
       draft[d] # NoText /\ draft'[d] = NoText =>
         \E r \in requests :
           /\ r.doc = d
           /\ \/ r.pc = "deletedraft"
              \/ r.pc = "drop" /\ (r.route \notin older[d] \/ r.text # draft[d])]_vars

\* When nothing is under way for a document that was only ever published, or published
\* alone after anything else, its file is what git has committed: a publish that failed
\* half way is repaired by the next one, although the draft it promoted is gone.
SettledIsCommitted ==
  \A d \in Docs :
    (\A r \in requests : r.doc # d) /\ d \notin touched => head[d] = file[d]["workspace"]

\* A page does not stay in the state "publishing": handlePublish always answers, also when
\* git has nothing to commit or the store refuses.
PublishAnswered ==
  \A t \in Tabs : tab[t].op = "publishing" ~> tab[t].op # "publishing"

\* A publish never commits an older text than the editor showed when it was confirmed
\* (openPublishDialog: "Flush any pending auto-save timer so content is up to date").
PublishedIsCurrent ==
  \A r \in requests :
    r.kind = "publish" /\ r.pc = "ok" /\ head[r.doc] # NoText => head[r.doc] >= r.shown

\* GET finds the committed file of a project of the workspace (handleGetDoc: "Have
\* committed file, no newer draft -> serve committed").
CommittedIsServed ==
  \A d \in Docs :
    file[d]["workspace"] # NoText /\ d \notin linked => Served(d) # NoText
=============================================================================
