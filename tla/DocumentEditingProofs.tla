------------------------ MODULE DocumentEditingProofs ------------------------
(***************************************************************************)
(* What editing and publishing guarantee for all documents, tabs, texts    *)
(* and any number of requests, failures, restarts and edits by other       *)
(* programs: a document that was only published is what git has committed, *)
(* and a draft goes only when its text is in the file or a delete asks.    *)
(***************************************************************************)
EXTENDS DocumentEditing, TLAPS

\* The texts on their way to a draft: those being saved, and those a timer will save.
Saves == {r \in requests : r.pc = "save"}
Pends(x) ==
  \/ \E r \in Saves : r.text = x
  \/ \E t \in Tabs : tab[t].timer /\ tab[t].text = x

\* Each text is saved once, so it is not yet a draft, nor what a publish has read.
TextInv ==
  /\ \A r, s \in Saves : r.text = s.text => r = s
  /\ \A r \in Saves, t \in Tabs : tab[t].timer => r.text # tab[t].text
  /\ \A t, u \in Tabs : tab[t].timer /\ tab[u].timer /\ tab[t].text = tab[u].text => t = u
  /\ \A d \in Docs : ~Pends(draft[d])
  /\ \A r \in requests : r.pc \in {"promote", "drop"} => ~Pends(r.text)

\* No text has a number that is still to come.
Made == (0 .. edits) \cup {NoText}
MadeInv ==
  /\ \A d \in Docs : draft[d] \in Made
  /\ \A r \in requests : /\ r.text \in Made
                         /\ r.pc \in {"save", "promote", "drop"} => r.text # NoText
  /\ \A t \in Tabs : tab[t].timer => tab[t].text \in 0 .. edits

\* The file has the promoted text and is newer than the draft, unless another was saved.
DropInv ==
  \A r \in requests :
    r.pc = "drop" => r.route \notin older[r.doc] \/ r.text # draft[r.doc]

\* What of a published document is not yet staged, or not yet committed, a publish of it
\* that is under way still will.
WillAdd(d)    == \E r \in requests : r.doc = d /\ r.pc \in {"promote", "drop", "add"}
WillCommit(d) == WillAdd(d) \/ \E r \in requests : r.doc = d /\ r.pc = "commit"
CommitInv ==
  \A d \in Docs \ touched :
    /\ index[d] = file[d]["workspace"] \/ WillAdd(d)
    /\ head[d] = index[d] \/ WillCommit(d)

IInv == TypeOK /\ TextInv /\ MadeInv /\ DropInv /\ CommitInv

-----------------------------------------------------------------------------
(* Lemmas: what a step leaves as it was.                                   *)

LEMMA TextNumbers ==
  ASSUME TypeOK, MadeInv
  PROVE  ~Pends(NoText) /\ ~Pends(edits + 1) /\ edits + 1 \notin Made
<1>1. edits \in Nat
  BY BoundsAssumption DEF TypeOK
<1>2. \A x : Pends(x) => x \in 0 .. edits
  BY DEF MadeInv, Made, Pends, Saves
<1>3. NoText \notin 0 .. edits /\ edits + 1 \notin 0 .. edits /\ edits + 1 # NoText
  BY <1>1, NoTextAssumption
<1>4. QED BY <1>2, <1>3 DEF Made

\* While nothing new is on its way to a draft, texts stay apart.
LEMMA TextShrinks ==
  ASSUME TextInv, Saves' \subseteq Saves,
         \A t \in Tabs : tab'[t].timer => tab[t].timer /\ tab'[t].text = tab[t].text,
         \A d \in Docs : draft'[d] = draft[d] \/ ~Pends(draft'[d]),
         \A q \in requests' : q.pc \in {"promote", "drop"} => ~Pends(q.text)
  PROVE  TextInv'
<1>1. \A x : Pends(x)' => Pends(x)
  BY DEF Pends
<1>2. /\ \A d \in Docs : ~Pends(draft'[d])
      /\ \A d \in Docs : ~Pends(draft[d])'
  BY <1>1 DEF TextInv
<1>3. /\ \A r, s \in Saves' : r.text = s.text => r = s
      /\ \A r \in Saves', t \in Tabs : tab'[t].timer => r.text # tab'[t].text
      /\ \A t, u \in Tabs : tab'[t].timer /\ tab'[u].timer /\ tab'[t].text = tab'[u].text => t = u
  BY DEF TextInv
<1>4. \A q \in requests' : q.pc \in {"promote", "drop"} => ~Pends(q.text)'
  BY <1>1
<1>5. QED BY <1>2, <1>3, <1>4 DEF TextInv

LEMMA MovedRequest ==
  ASSUME TypeOK, NEW r \in requests,
         NEW l \in PublishSteps \cup {"save", "delete", "deletedraft", "ok", "failed"},
         Goto(r, l)
  PROVE  \E n \in Request : /\ requests' = (requests \ {r}) \cup {n}
                            /\ n.pc = l /\ n.doc = r.doc /\ n.text = r.text
                            /\ n.route = r.route /\ n.tab = r.tab
<1> DEFINE n == [r EXCEPT !.pc = l]
<1>1. r \in Request
  BY DEF TypeOK
<1>2. /\ n \in Request /\ n.pc = l /\ n.doc = r.doc /\ n.text = r.text
      /\ n.route = r.route /\ n.tab = r.tab
  BY <1>1 DEF Request
<1>3. requests' = (requests \ {r}) \cup {n}
  BY DEF Goto
<1> HIDE DEF n
<1>4. QED BY <1>2, <1>3

\* A publish that moves on is still under way, or it was not, or the document is now one
\* that something else happened to.
LEMMA CommitMove ==
  ASSUME CommitInv, NEW r \in requests, NEW n \in Request, n.doc = r.doc,
         requests' = (requests \ {r}) \cup {n},
         UNCHANGED <<index, head>>, touched \subseteq touched',
         \A d \in Docs : file'[d]["workspace"] = file[d]["workspace"],
         \/ r.pc \notin {"promote", "drop", "add", "commit"}
         \/ r.doc \in touched'
         \/ r.pc \in {"promote", "drop", "add"} /\ n.pc \in {"promote", "drop", "add"}
  PROVE  CommitInv'
<1>1. SUFFICES ASSUME NEW d \in Docs \ touched'
               PROVE  /\ index[d] = file[d]["workspace"] \/ WillAdd(d)'
                      /\ head[d] = index[d] \/ WillCommit(d)'
  BY DEF CommitInv
<1>2. /\ index[d] = file[d]["workspace"] \/ WillAdd(d)
      /\ head[d] = index[d] \/ WillCommit(d)
  BY <1>1 DEF CommitInv
<1>3. WillAdd(d) => WillAdd(d)'
  BY <1>1 DEF WillAdd
<1>4. WillCommit(d) => WillCommit(d)'
  BY <1>1, <1>3 DEF WillAdd, WillCommit
<1>5. QED BY <1>2, <1>3, <1>4

\* Nothing of a publish changes: its requests, files and git are as they were.
LEMMA CommitStays ==
  ASSUME CommitInv, UNCHANGED <<file, index, head>>, touched \subseteq touched',
         \A r \in requests : r.pc \in {"promote", "drop", "add", "commit"} =>
            \E n \in requests' : n.doc = r.doc /\ n.pc = r.pc
  PROVE  CommitInv'
<1>1. SUFFICES ASSUME NEW d \in Docs \ touched'
               PROVE  /\ index[d] = file[d]["workspace"] \/ WillAdd(d)'
                      /\ head[d] = index[d] \/ WillCommit(d)'
  BY DEF CommitInv
<1>2. /\ index[d] = file[d]["workspace"] \/ WillAdd(d)
      /\ head[d] = index[d] \/ WillCommit(d)
  BY <1>1 DEF CommitInv
<1>3. WillAdd(d) => WillAdd(d)'
  BY <1>1 DEF WillAdd
<1>4. WillCommit(d) => WillCommit(d)'
  BY <1>1, <1>3 DEF WillCommit
<1>5. QED BY <1>2, <1>3, <1>4

LEMMA FaultFacts ==
  ASSUME TypeOK, Fault \/ UNCHANGED faults
  PROVE  faults' \in 0 .. MaxFaults
BY BoundsAssumption DEF TypeOK, Fault

\* The variables that no step of a tab or a request of it touches.
LEMMA RestTyped ==
  ASSUME TypeOK, UNCHANGED <<proj, disk, git, touched>>
  PROVE  /\ route' \in [Docs -> Places \cup {"external"}] /\ linked' \subseteq Docs
         /\ dirs' \subseteq Docs /\ touched' \subseteq Docs
         /\ draft' \in [Docs -> Files] /\ file' \in [Docs -> [Places -> Files]]
         /\ older' \in [Docs -> SUBSET Places]
         /\ index' \in [Docs -> Files] /\ head' \in [Docs -> Files]
BY DEF TypeOK, proj, disk, git

-----------------------------------------------------------------------------
(* A tab.                                                                  *)

\* A tab changes its state and no new text is on its way.
LEMMA TabStep ==
  ASSUME IInv, tab' \in [Tabs -> {Closed} \cup OpenTab],
         UNCHANGED <<proj, disk, git, requests, count, touched>>,
         \A t \in Tabs : tab'[t].timer => tab[t].timer /\ tab'[t].text = tab[t].text
  PROVE  IInv'
<1>1. UNCHANGED <<draft, file, older, index, head, requests, touched, edits, sent, faults>>
  BY DEF disk, git, count
<1>2. TypeOK'
  BY <1>1, RestTyped DEF IInv, TypeOK
<1>3. TextInv'
  <2>1. Saves' = Saves /\ \A q \in requests' : q.pc \in {"promote", "drop"} => ~Pends(q.text)
    BY <1>1 DEF Saves, IInv, TextInv
  <2>2. \A d \in Docs : draft'[d] = draft[d]
    BY <1>1
  <2>3. QED BY <2>1, <2>2, TextShrinks DEF IInv
<1>4. MadeInv' /\ DropInv'
  BY <1>1 DEF IInv, MadeInv, Made, DropInv
<1>5. CommitInv'
  BY <1>1, CommitStays DEF IInv
<1>6. QED BY <1>2, <1>3, <1>4, <1>5 DEF IInv

LEMMA TabTyped ==
  ASSUME TypeOK, NEW t \in Tabs
  PROVE  tab[t] = Closed \/ tab[t] \in OpenTab
BY DEF TypeOK

LEMMA IdleClosed ==
  [Closed EXCEPT !.op = "idle"] = Closed
<1>1. /\ Closed = [f \in DOMAIN Closed |-> Closed[f]] /\ Closed.op = "idle"
  BY DEF Closed
<1>2. QED BY <1>1

LEMMA OpenStep ==
  ASSUME IInv, NEW t \in Tabs, NEW d \in Docs, Open(t, d)
  PROVE  IInv'
<1> DEFINE o == [Closed EXCEPT !.doc = d, !.text = Served(d)]
<1>1. Served(d) \in Files
  BY DEF IInv, TypeOK, Served, Committed, Editable, LocalRead, LinkedRead, Files
<1>2. o \in OpenTab /\ ~o.timer
  BY <1>1 DEF Open, Closed, OpenTab, Files
<1>3. tab' = [tab EXCEPT ![t] = o]
  BY DEF Open
<1> HIDE DEF o
<1>4. /\ tab' \in [Tabs -> {Closed} \cup OpenTab]
      /\ \A u \in Tabs : tab'[u].timer => tab[u].timer /\ tab'[u].text = tab[u].text
  BY <1>2, <1>3 DEF IInv, TypeOK
<1>5. QED BY <1>4, TabStep DEF Open

LEMMA OpenDialogStep ==
  ASSUME IInv, NEW t \in Tabs, OpenPublishDialog(t)
  PROVE  IInv'
<1> DEFINE o == [tab[t] EXCEPT !.timer = FALSE, !.dialog = TRUE]
<1>1. tab[t] \in OpenTab
  BY TabTyped DEF OpenPublishDialog, IInv
<1>2. o \in OpenTab /\ ~o.timer
  BY <1>1 DEF OpenTab
<1>3. tab' = [tab EXCEPT ![t] = o]
  BY DEF OpenPublishDialog
<1> HIDE DEF o
<1>4. /\ tab' \in [Tabs -> {Closed} \cup OpenTab]
      /\ \A u \in Tabs : tab'[u].timer => tab[u].timer /\ tab'[u].text = tab[u].text
  BY <1>2, <1>3 DEF IInv, TypeOK
<1>5. QED BY <1>4, TabStep DEF OpenPublishDialog

LEMMA CancelPublishStep ==
  ASSUME IInv, NEW t \in Tabs, CancelPublish(t)
  PROVE  IInv'
<1> DEFINE o == [tab[t] EXCEPT !.dialog = FALSE]
<1>1. tab[t] \in OpenTab
  BY TabTyped DEF CancelPublish, IInv, Closed
<1>2. o \in OpenTab /\ o.timer = tab[t].timer /\ o.text = tab[t].text
  BY <1>1 DEF OpenTab
<1>3. tab' = [tab EXCEPT ![t] = o]
  BY DEF CancelPublish
<1> HIDE DEF o
<1>4. /\ tab' \in [Tabs -> {Closed} \cup OpenTab]
      /\ \A u \in Tabs : tab'[u].timer => tab[u].timer /\ tab'[u].text = tab[u].text
  BY <1>2, <1>3 DEF IInv, TypeOK
<1>5. QED BY <1>4, TabStep DEF CancelPublish

LEMMA TypeStep ==
  ASSUME IInv, NEW t \in Tabs, Type(t)
  PROVE  IInv'
<1> DEFINE o == [tab[t] EXCEPT !.text = edits + 1, !.timer = TRUE]
<1>1. tab[t] \in OpenTab /\ edits \in Nat /\ edits' = edits + 1 /\ edits' \in 0 .. MaxEdits
  BY TabTyped, BoundsAssumption DEF Type, IInv, TypeOK
<1>2. o \in OpenTab /\ o.timer /\ o.text = edits + 1
  BY <1>1 DEF OpenTab, Texts
<1>3. tab' = [tab EXCEPT ![t] = o]
  BY DEF Type
<1> HIDE DEF o
<1>4. tab' \in [Tabs -> {Closed} \cup OpenTab] /\ tab'[t] = o /\ \A u \in Tabs \ {t} : tab'[u] = tab[u]
  BY <1>2, <1>3 DEF IInv, TypeOK
<1>5. UNCHANGED <<proj, disk, git, touched, draft, file, older, index, head, requests, sent, faults>>
  BY DEF Type, disk, git
<1>6. TypeOK'
  BY <1>1, <1>4, <1>5, RestTyped DEF IInv, TypeOK
<1>7. MadeInv' /\ DropInv'
  BY <1>1, <1>2, <1>4, <1>5 DEF IInv, MadeInv, Made, DropInv
<1>8. TextInv'
  <2>1. edits + 1 \notin Made /\ ~Pends(edits + 1)
    BY <1>1, TextNumbers DEF IInv
  <2>2. Saves' = Saves /\ \A x : Pends(x)' => Pends(x) \/ x = edits + 1
    BY <1>2, <1>4, <1>5 DEF Saves, Pends
  <2>3. \A d \in Docs : ~Pends(draft[d])'
    BY <1>5, <2>1, <2>2 DEF IInv, TextInv, MadeInv
  <2>4. \A r \in requests' : r.pc \in {"promote", "drop"} => ~Pends(r.text)'
    BY <1>5, <2>1, <2>2 DEF IInv, TextInv, MadeInv
  <2>5. /\ \A r, s \in Saves' : r.text = s.text => r = s
        /\ \A r \in Saves', u \in Tabs : tab'[u].timer => r.text # tab'[u].text
    BY <1>2, <1>4, <2>1, <2>2 DEF IInv, TextInv, Pends
  <2>6. \A u, v \in Tabs : tab'[u].timer /\ tab'[v].timer /\ tab'[u].text = tab'[v].text => u = v
    BY <1>2, <1>4, <2>1 DEF IInv, TextInv, Pends
  <2>7. QED BY <2>3, <2>4, <2>5, <2>6 DEF TextInv
<1>9. CommitInv'
  BY <1>5, CommitStays DEF IInv
<1>10. QED BY <1>6, <1>7, <1>8, <1>9 DEF IInv

LEMMA CloseStep ==
  ASSUME IInv, NEW t \in Tabs, Close(t)
  PROVE  IInv'
<1> DEFINE Away(r) == IF r.tab = t THEN [r EXCEPT !.tab = NoTab] ELSE r
<1>1. \A r \in requests : /\ Away(r) \in Request /\ Away(r).pc = r.pc /\ Away(r).doc = r.doc
                          /\ Away(r).text = r.text /\ Away(r).route = r.route
  BY DEF IInv, TypeOK, Request
<1>2. requests' = {Away(r) : r \in requests}
  BY DEF Close
<1> HIDE DEF Away
<1>3. requests' \subseteq Request
  BY <1>1, <1>2
<1>4. /\ tab' \in [Tabs -> {Closed} \cup OpenTab]
      /\ \A u \in Tabs : tab'[u].timer => tab[u].timer /\ tab'[u].text = tab[u].text
  BY DEF Close, IInv, TypeOK, Closed
<1>5. UNCHANGED <<proj, disk, git, touched, draft, file, older, index, head, edits, sent, faults>>
  BY DEF Close, disk, git, count
<1>6. TypeOK'
  BY <1>3, <1>4, <1>5, RestTyped DEF IInv, TypeOK
<1>7. MadeInv' /\ DropInv'
  BY <1>1, <1>2, <1>4, <1>5 DEF IInv, MadeInv, Made, DropInv
<1>8. TextInv'
  <2>1. \A x : Pends(x)' => Pends(x)
    BY <1>1, <1>2, <1>4 DEF Pends, Saves
  <2>2. /\ \A r, s \in Saves' : r.text = s.text => r = s
        /\ \A r \in Saves', u \in Tabs : tab'[u].timer => r.text # tab'[u].text
    BY <1>1, <1>2, <1>4 DEF IInv, TextInv, Saves
  <2>3. \A u, v \in Tabs : tab'[u].timer /\ tab'[v].timer /\ tab'[u].text = tab'[v].text => u = v
    BY <1>4 DEF IInv, TextInv
  <2>4. \A d \in Docs : ~Pends(draft[d])'
    BY <1>5, <2>1 DEF IInv, TextInv
  <2>5. \A r \in requests' : r.pc \in {"promote", "drop"} => ~Pends(r.text)'
    BY <1>1, <1>2, <2>1 DEF IInv, TextInv
  <2>6. QED BY <2>2, <2>3, <2>4, <2>5 DEF TextInv
<1>9. CommitInv'
  <2>1. \A r \in requests : r.pc \in {"promote", "drop", "add", "commit"} =>
           \E n \in requests' : n.doc = r.doc /\ n.pc = r.pc
    BY <1>1, <1>2
  <2>2. QED BY <1>5, <2>1, CommitStays DEF IInv
<1>10. QED BY <1>6, <1>7, <1>8, <1>9 DEF IInv

-----------------------------------------------------------------------------
(* Requests are sent.                                                      *)

LEMMA SentRequest ==
  ASSUME TypeOK, NEW kind \in {"save", "publish", "delete"}, NEW d \in Docs,
         NEW t \in Tabs \cup {NoTab}, NEW text \in Files, NEW seen \in Files,
         NEW l \in {"save", "read", "delete"}, Send(kind, d, t, text, seen, l)
  PROVE  /\ sent' \in 0 .. MaxRequests
         /\ \E n \in Request : /\ requests' = requests \cup {n}
                               /\ n.pc = l /\ n.doc = d /\ n.text = text
<1> DEFINE n == [id |-> sent + 1, kind |-> kind, doc |-> d, tab |-> t, text |-> text,
                 shown |-> seen, route |-> route[d], pc |-> l]
<1>1. sent + 1 \in 1 .. MaxRequests /\ sent' \in 0 .. MaxRequests
  BY BoundsAssumption DEF Send, TypeOK
<1>2. n \in Request /\ n.pc = l /\ n.doc = d /\ n.text = text
  BY <1>1 DEF Request, TypeOK, PublishSteps
<1>3. requests' = requests \cup {n}
  BY DEF Send
<1> HIDE DEF n
<1>4. QED BY <1>1, <1>2, <1>3

\* A request that saves nothing is sent.
LEMMA SentStep ==
  ASSUME IInv, NEW n \in Request, requests' = requests \cup {n},
         n.pc \in {"read", "delete"}, n.text = NoText, sent' \in 0 .. MaxRequests,
         tab' \in [Tabs -> {Closed} \cup OpenTab],
         UNCHANGED <<proj, disk, git, edits, faults, touched>>,
         \A t \in Tabs : tab'[t].timer => tab[t].timer /\ tab'[t].text = tab[t].text
  PROVE  IInv'
<1>1. UNCHANGED <<draft, file, older, index, head, touched, edits, faults>>
  BY DEF disk, git
<1>2. TypeOK'
  BY <1>1, RestTyped DEF IInv, TypeOK
<1>3. TextInv'
  <2>1. /\ Saves' \subseteq Saves /\ \A d \in Docs : draft'[d] = draft[d]
        /\ \A q \in requests' : q.pc \in {"promote", "drop"} => ~Pends(q.text)
    BY <1>1 DEF Saves, IInv, TextInv
  <2>2. QED BY <2>1, TextShrinks DEF IInv
<1>4. MadeInv' /\ DropInv'
  BY <1>1 DEF IInv, MadeInv, Made, DropInv
<1>5. CommitInv'
  BY <1>1, CommitStays DEF IInv
<1>6. QED BY <1>2, <1>3, <1>4, <1>5 DEF IInv

LEMMA ConfirmPublishStep ==
  ASSUME IInv, NEW t \in Tabs, ConfirmPublish(t)
  PROVE  IInv'
<1> DEFINE o == [tab[t] EXCEPT !.dialog = FALSE, !.op = "publishing"]
<1>1. tab[t] \in OpenTab
  BY TabTyped DEF ConfirmPublish, IInv, Closed
<1>2. o \in OpenTab /\ o.timer = tab[t].timer /\ o.text = tab[t].text
  BY <1>1 DEF OpenTab
<1>3. tab' = [tab EXCEPT ![t] = o]
  BY DEF ConfirmPublish
<1> HIDE DEF o
<1>4. /\ tab' \in [Tabs -> {Closed} \cup OpenTab]
      /\ \A u \in Tabs : tab'[u].timer => tab[u].timer /\ tab'[u].text = tab[u].text
  BY <1>2, <1>3 DEF IInv, TypeOK
<1>5. tab[t].doc \in Docs /\ tab[t].text \in Files /\ NoText \in Files
  BY <1>1 DEF OpenTab, Files
<1>6. PICK n \in Request : /\ requests' = requests \cup {n} /\ n.pc = "read"
                           /\ n.text = NoText /\ sent' \in 0 .. MaxRequests
  BY <1>5, SentRequest DEF ConfirmPublish, IInv
<1>7. QED BY <1>4, <1>6, SentStep DEF ConfirmPublish

LEMMA ClientDeleteStep ==
  ASSUME IInv, NEW d \in Docs, ClientDelete(d)
  PROVE  IInv'
<1>1. NoText \in Files
  BY DEF Files
<1>2. PICK n \in Request : /\ requests' = requests \cup {n} /\ n.pc = "delete"
                           /\ n.text = NoText /\ sent' \in 0 .. MaxRequests
  BY <1>1, SentRequest DEF ClientDelete, IInv
<1>3. /\ tab' \in [Tabs -> {Closed} \cup OpenTab]
      /\ \A t \in Tabs : tab'[t].timer => tab[t].timer /\ tab'[t].text = tab[t].text
  BY DEF ClientDelete, IInv, TypeOK
<1>4. QED BY <1>2, <1>3, SentStep DEF ClientDelete

\* A request to save a text that was not on its way, or only in the timer of t.
LEMMA SaveSentStep ==
  ASSUME IInv, NEW n \in Request, requests' = requests \cup {n},
         n.pc = "save", n.text \in 0 .. edits', sent' \in 0 .. MaxRequests,
         edits' \in 0 .. MaxEdits, edits' \in {edits, edits + 1},
         tab' \in [Tabs -> {Closed} \cup OpenTab],
         UNCHANGED <<proj, disk, git, faults, touched>>,
         \A t \in Tabs : tab'[t].timer =>
            tab[t].timer /\ tab'[t].text = tab[t].text /\ n.text # tab[t].text,
         \A r \in Saves : r.text # n.text,
         \A d \in Docs : draft[d] # n.text,
         \A r \in requests : r.pc \in {"promote", "drop"} => r.text # n.text
  PROVE  IInv'
<1>1. UNCHANGED <<draft, file, older, index, head, touched, faults>>
  BY DEF disk, git
<1>2. TypeOK'
  BY <1>1, RestTyped DEF IInv, TypeOK
<1>3. edits \in Nat /\ n.text # NoText
  BY BoundsAssumption, NoTextAssumption DEF IInv, TypeOK
<1>4. MadeInv' /\ DropInv'
  BY <1>1, <1>3 DEF IInv, MadeInv, Made, DropInv
<1>5. TextInv'
  <2>1. Saves' = Saves \cup {n} /\ \A x : Pends(x)' => Pends(x) \/ x = n.text
    BY DEF Saves, Pends
  <2>2. \A d \in Docs : ~Pends(draft[d])'
    BY <1>1, <2>1 DEF IInv, TextInv
  <2>3. \A r \in requests' : r.pc \in {"promote", "drop"} => ~Pends(r.text)'
    BY <2>1 DEF IInv, TextInv
  <2>4. /\ \A r, s \in Saves' : r.text = s.text => r = s
        /\ \A r \in Saves', u \in Tabs : tab'[u].timer => r.text # tab'[u].text
    BY <2>1 DEF IInv, TextInv
  <2>5. \A u, v \in Tabs : tab'[u].timer /\ tab'[v].timer /\ tab'[u].text = tab'[v].text => u = v
    BY DEF IInv, TextInv
  <2>6. QED BY <2>2, <2>3, <2>4, <2>5 DEF TextInv
<1>6. CommitInv'
  BY <1>1, CommitStays DEF IInv
<1>7. QED BY <1>2, <1>4, <1>5, <1>6 DEF IInv

LEMMA AutoSaveStep ==
  ASSUME IInv, NEW t \in Tabs, AutoSave(t)
  PROVE  IInv'
<1>1. tab[t] \in OpenTab /\ tab[t].timer
  BY TabTyped DEF AutoSave, IInv, Closed
<1>2. CASE tab[t].op = "publishing"
  <2> DEFINE o == [tab[t] EXCEPT !.timer = FALSE]
  <2>1. o \in OpenTab /\ ~o.timer
    BY <1>1 DEF OpenTab
  <2>2. tab' = [tab EXCEPT ![t] = o] /\ UNCHANGED <<requests, sent>>
    BY <1>2 DEF AutoSave
  <2> HIDE DEF o
  <2>3. /\ tab' \in [Tabs -> {Closed} \cup OpenTab]
        /\ \A u \in Tabs : tab'[u].timer => tab[u].timer /\ tab'[u].text = tab[u].text
    BY <2>1, <2>2 DEF IInv, TypeOK
  <2>4. QED BY <2>2, <2>3, TabStep DEF AutoSave, count
<1>3. CASE tab[t].op # "publishing"
  <2> DEFINE o == [tab[t] EXCEPT !.timer = FALSE, !.op = "saving"]
  <2>1. o \in OpenTab /\ ~o.timer
    BY <1>1 DEF OpenTab
  <2>2. /\ tab' = [tab EXCEPT ![t] = o]
        /\ Send("save", tab[t].doc, t, tab[t].text, NoText, "save")
        /\ UNCHANGED <<proj, disk, git, edits, faults, touched>>
    BY <1>3 DEF AutoSave
  <2> HIDE DEF o
  <2>3. tab[t].doc \in Docs /\ tab[t].text \in Files /\ NoText \in Files
    BY <1>1 DEF OpenTab, Files
  <2>4. PICK n \in Request : /\ requests' = requests \cup {n} /\ n.pc = "save"
                             /\ n.text = tab[t].text /\ sent' \in 0 .. MaxRequests
    BY <2>2, <2>3, SentRequest DEF IInv
  <2>5. tab' \in [Tabs -> {Closed} \cup OpenTab] /\ ~tab'[t].timer
        /\ \A u \in Tabs \ {t} : tab'[u] = tab[u]
    BY <2>1, <2>2 DEF IInv, TypeOK
  <2>6. Pends(n.text) /\ n.text \in 0 .. edits
    BY <1>1, <2>4 DEF Pends, IInv, MadeInv
  <2>7. /\ \A u \in Tabs : tab'[u].timer =>
              tab[u].timer /\ tab'[u].text = tab[u].text /\ n.text # tab[u].text
        /\ \A r \in Saves : r.text # n.text
    BY <1>1, <2>4, <2>5 DEF IInv, TextInv
  <2>8. /\ \A d \in Docs : draft[d] # n.text
        /\ \A r \in requests : r.pc \in {"promote", "drop"} => r.text # n.text
    BY <2>6 DEF IInv, TextInv
  <2>9. edits' = edits /\ edits' \in 0 .. MaxEdits
    BY <2>2 DEF IInv, TypeOK
  <2>10. QED BY <2>2, <2>4, <2>5, <2>6, <2>7, <2>8, <2>9, SaveSentStep
<1>4. QED BY <1>2, <1>3

LEMMA ClientSaveStep ==
  ASSUME IInv, NEW d \in Docs, ClientSave(d)
  PROVE  IInv'
<1>1. edits \in Nat /\ edits' = edits + 1 /\ edits' \in 0 .. MaxEdits
  BY BoundsAssumption DEF ClientSave, IInv, TypeOK
<1>2. edits + 1 \in Files /\ NoText \in Files
  BY <1>1 DEF Files, Texts
<1>3. PICK n \in Request : /\ requests' = requests \cup {n} /\ n.pc = "save"
                           /\ n.text = edits + 1 /\ sent' \in 0 .. MaxRequests
  BY <1>2, SentRequest DEF ClientSave, IInv
<1>4. UNCHANGED <<proj, disk, git, tab, faults, touched>>
  BY DEF ClientSave
<1>5. ~Pends(n.text) /\ n.text \notin Made
  BY <1>3, TextNumbers DEF IInv
<1>6. /\ \A t \in Tabs : tab'[t].timer =>
            tab[t].timer /\ tab'[t].text = tab[t].text /\ n.text # tab[t].text
      /\ \A r \in Saves : r.text # n.text
  BY <1>4, <1>5 DEF Pends
<1>7. /\ \A c \in Docs : draft[c] # n.text
      /\ \A r \in requests : r.pc \in {"promote", "drop"} => r.text # n.text
  BY <1>5 DEF IInv, MadeInv
<1>8. tab' \in [Tabs -> {Closed} \cup OpenTab]
  BY <1>4 DEF IInv, TypeOK
<1>9. n.text \in 0 .. edits'
  BY <1>1, <1>3
<1>10. QED BY <1>1, <1>3, <1>4, <1>6, <1>7, <1>8, <1>9, SaveSentStep

-----------------------------------------------------------------------------
(* The handlers.                                                           *)

\* A request that moves and does not save keeps the texts apart.
LEMMA TextMove ==
  ASSUME IInv, NEW r \in requests, NEW n \in Request,
         requests' = (requests \ {r}) \cup {n}, n.pc # "save", n.text \in Made,
         UNCHANGED edits,
         \A t \in Tabs : tab'[t].timer => tab[t].timer /\ tab'[t].text = tab[t].text,
         \A d \in Docs : draft'[d] = draft[d] \/ draft'[d] = NoText,
         n.pc \in {"promote", "drop"} => n.text # NoText /\ ~Pends(n.text)
  PROVE  TextInv' /\ MadeInv'
<1>1. ~Pends(NoText)
  BY TextNumbers DEF IInv
<1>2. Saves' \subseteq Saves
  BY DEF Saves
<1>3. \A q \in requests' : q.pc \in {"promote", "drop"} => ~Pends(q.text)
  BY DEF IInv, TextInv
<1>4. \A d \in Docs : draft'[d] = draft[d] \/ ~Pends(draft'[d])
  BY <1>1
<1>5. TextInv'
  BY <1>2, <1>3, <1>4, TextShrinks DEF IInv
<1>6. MadeInv'
  BY DEF IInv, MadeInv, Made
<1>7. QED BY <1>5, <1>6

LEMMA SaveDraftStep ==
  ASSUME IInv, NEW r \in requests, SaveDraft(r)
  PROVE  IInv'
<1>1. /\ UNCHANGED <<proj, file, index, head, tab, edits, sent, touched>> /\ r.pc = "save"
      /\ r \in Request /\ r \in Saves /\ faults' \in 0 .. MaxFaults
  BY FaultFacts DEF SaveDraft, git, IInv, TypeOK, Saves
<1>2. CASE WriteDraft(r.doc, r.text) /\ Goto(r, "ok")
  <2>1. PICK n \in Request : /\ requests' = (requests \ {r}) \cup {n}
                             /\ n.pc = "ok" /\ n.doc = r.doc /\ n.text = r.text
    BY <1>2, MovedRequest DEF IInv
  <2>2. /\ draft' \in [Docs -> Files] /\ draft'[r.doc] = r.text
        /\ \A d \in Docs \ {r.doc} : draft'[d] = draft[d] /\ older'[d] = older[d]
        /\ older' \in [Docs -> SUBSET Places] /\ r.doc \in Docs
    BY <1>1, <1>2 DEF WriteDraft, IInv, TypeOK, Request
  <2>3. TypeOK'
    BY <1>1, <2>1, <2>2 DEF IInv, TypeOK, proj
  <2>4. Pends(r.text)
    BY <1>1 DEF Pends
  <2>5. Saves' = Saves \ {r} /\ (\A x : Pends(x)' => Pends(x)) /\ ~Pends(r.text)'
    BY <1>1, <2>1 DEF Saves, Pends, IInv, TextInv
  <2>6. MadeInv'
    BY <1>1, <2>1, <2>2 DEF IInv, MadeInv, Made
  <2>7. TextInv'
    <3>1. \A d \in Docs : ~Pends(draft[d])'
      BY <2>2, <2>5 DEF IInv, TextInv
    <3>2. \A q \in requests' : q.pc \in {"promote", "drop"} => ~Pends(q.text)'
      BY <2>1, <2>5 DEF IInv, TextInv
    <3>3. /\ \A q, s \in Saves' : q.text = s.text => q = s
          /\ \A q \in Saves', t \in Tabs : tab'[t].timer => q.text # tab'[t].text
          /\ \A t, u \in Tabs : tab'[t].timer /\ tab'[u].timer /\ tab'[t].text = tab'[u].text => t = u
      BY <1>1, <2>5 DEF IInv, TextInv
    <3>4. QED BY <3>1, <3>2, <3>3 DEF TextInv
  <2>8. DropInv'
    <3>1. ASSUME NEW q \in requests', q.pc = "drop"
          PROVE  q.route \notin older'[q.doc] \/ q.text # draft'[q.doc]
      <4>1. q \in requests /\ q.doc \in Docs
        BY <2>1, <3>1 DEF IInv, TypeOK, Request
      <4>2. q.text # r.text
        BY <2>4, <3>1, <4>1 DEF IInv, TextInv
      <4>3. q.route \notin older[q.doc] \/ q.text # draft[q.doc]
        BY <3>1, <4>1 DEF IInv, DropInv
      <4>4. QED BY <2>2, <4>1, <4>2, <4>3
    <3>2. QED BY <3>1 DEF DropInv
  <2>9. CommitInv'
    BY <1>1, <2>1, CommitMove DEF IInv
  <2>10. QED BY <2>3, <2>6, <2>7, <2>8, <2>9 DEF IInv
<1>3. CASE Goto(r, "failed") /\ UNCHANGED <<draft, older>>
  <2>1. PICK n \in Request : /\ requests' = (requests \ {r}) \cup {n}
                             /\ n.pc = "failed" /\ n.doc = r.doc /\ n.text = r.text
    BY <1>3, MovedRequest DEF IInv
  <2>2. TypeOK'
    BY <1>1, <1>3, <2>1 DEF IInv, TypeOK, proj
  <2>3. TextInv' /\ MadeInv'
    BY <1>1, <1>3, <2>1, TextMove DEF IInv, MadeInv
  <2>4. DropInv'
    BY <1>3, <2>1 DEF IInv, DropInv
  <2>5. CommitInv'
    BY <1>1, <2>1, CommitMove DEF IInv
  <2>6. QED BY <2>2, <2>3, <2>4, <2>5 DEF IInv
<1>4. QED BY <1>2, <1>3 DEF SaveDraft

LEMMA DeleteFileStep ==
  ASSUME IInv, NEW r \in requests, DeleteFile(r)
  PROVE  IInv'
<1>1. /\ UNCHANGED <<proj, draft, older, index, head, tab, edits, sent, faults>>
      /\ r.pc = "delete" /\ r \in Request
  BY DEF DeleteFile, git, count, IInv, TypeOK
<1>2. PICK n \in Request : /\ requests' = (requests \ {r}) \cup {n}
                           /\ n.pc \in {"deletedraft", "failed"}
                           /\ n.doc = r.doc /\ n.text = r.text
  BY MovedRequest DEF DeleteFile, IInv
<1>3. TextInv' /\ MadeInv'
  BY <1>1, <1>2, TextMove DEF IInv, MadeInv
<1>4. DropInv'
  BY <1>1, <1>2 DEF IInv, DropInv
<1>5. CASE Editable(r.route)
  <2>1. /\ file' = [file EXCEPT ![r.doc][r.route] = NoText]
        /\ touched' = touched \cup {r.doc} /\ r.route \in Places /\ r.doc \in Docs
    BY <1>1, <1>5 DEF DeleteFile, RemoveFile, Editable, Request
  <2>2. file' \in [Docs -> [Places -> Files]] /\ \A d \in Docs \ {r.doc} : file'[d] = file[d]
    BY <2>1 DEF IInv, TypeOK, Files
  <2>3. TypeOK'
    BY <1>1, <1>2, <2>1, <2>2 DEF IInv, TypeOK, proj
  <2>4. CommitInv'
    <3>1. ASSUME NEW d \in Docs \ touched'
          PROVE  /\ index'[d] = file'[d]["workspace"] \/ WillAdd(d)'
                 /\ head'[d] = index'[d] \/ WillCommit(d)'
      <4>1. d \notin touched /\ d # r.doc /\ d \in Docs
        BY <2>1
      <4>2. /\ index[d] = file[d]["workspace"] \/ WillAdd(d)
            /\ head[d] = index[d] \/ WillCommit(d)
        BY <4>1 DEF IInv, CommitInv
      <4>3. (WillAdd(d) => WillAdd(d)') /\ (WillCommit(d) => WillCommit(d)')
        BY <1>2, <4>1 DEF WillAdd, WillCommit
      <4>4. QED BY <1>1, <2>2, <4>1, <4>2, <4>3
    <3>2. QED BY <3>1 DEF CommitInv
  <2>5. QED BY <1>3, <1>4, <2>3, <2>4 DEF IInv
<1>6. CASE ~Editable(r.route)
  <2>1. UNCHANGED <<file, touched>>
    BY <1>6 DEF DeleteFile
  <2>2. TypeOK'
    BY <1>1, <1>2, <2>1 DEF IInv, TypeOK, proj
  <2>3. CommitInv'
    BY <1>1, <1>2, <2>1, CommitMove DEF IInv
  <2>4. QED BY <1>3, <1>4, <2>2, <2>3 DEF IInv
<1>7. QED BY <1>5, <1>6

LEMMA DeleteDraftStep ==
  ASSUME IInv, NEW r \in requests, DeleteDraft(r)
  PROVE  IInv'
<1>1. /\ UNCHANGED <<proj, file, older, index, head, tab, edits, sent, faults, touched>>
      /\ r.pc = "deletedraft" /\ r \in Request /\ r.doc \in Docs
  BY DEF DeleteDraft, git, count, IInv, TypeOK, Request
<1>2. PICK n \in Request : /\ requests' = (requests \ {r}) \cup {n}
                           /\ n.pc = "ok" /\ n.doc = r.doc /\ n.text = r.text
  BY MovedRequest DEF DeleteDraft, IInv
<1>3. /\ draft' \in [Docs -> Files] /\ draft'[r.doc] = NoText
      /\ \A d \in Docs \ {r.doc} : draft'[d] = draft[d]
  BY <1>1 DEF DeleteDraft, IInv, TypeOK, Files
<1>4. TypeOK'
  BY <1>1, <1>2, <1>3 DEF IInv, TypeOK, proj
<1>5. TextInv' /\ MadeInv'
  BY <1>1, <1>2, <1>3, TextMove DEF IInv, MadeInv
<1>6. DropInv'
  BY <1>1, <1>2, <1>3 DEF IInv, DropInv, MadeInv, TypeOK, Request
<1>7. CommitInv'
  BY <1>1, <1>2, CommitMove DEF IInv
<1>8. QED BY <1>4, <1>5, <1>6, <1>7 DEF IInv

\* A publish that fails, and leaves everything but its request as it is.
LEMMA FailStep ==
  ASSUME IInv, NEW r \in requests, Fail(r), faults' \in 0 .. MaxFaults,
         UNCHANGED <<proj, disk, git, tab, edits, sent>>
  PROVE  IInv'
<1>1. /\ UNCHANGED <<draft, file, older, index, head>> /\ r \in Request
      /\ touched' = touched \cup {r.doc} /\ r.doc \in Docs
  BY DEF disk, git, Fail, IInv, TypeOK, Request
<1>2. PICK n \in Request : /\ requests' = (requests \ {r}) \cup {n}
                           /\ n.pc = "failed" /\ n.doc = r.doc /\ n.text = r.text
  BY MovedRequest DEF Fail, IInv
<1>3. TypeOK'
  BY <1>1, <1>2 DEF IInv, TypeOK, proj
<1>4. TextInv' /\ MadeInv'
  BY <1>1, <1>2, TextMove DEF IInv, MadeInv
<1>5. DropInv'
  BY <1>1, <1>2 DEF IInv, DropInv
<1>6. CommitInv'
  BY <1>1, <1>2, CommitMove DEF IInv
<1>7. QED BY <1>3, <1>4, <1>5, <1>6 DEF IInv

LEMMA ReadDraftStep ==
  ASSUME IInv, NEW r \in requests, ReadDraft(r)
  PROVE  IInv'
<1> DEFINE d == r.doc
           n == [r EXCEPT !.text = draft[d],
                          !.pc = IF draft[d] = NoText THEN "add" ELSE "promote"]
<1>1. /\ UNCHANGED <<proj, disk, git, tab, edits, sent>> /\ r.pc = "read"
      /\ r \in Request /\ d \in Docs /\ faults' \in 0 .. MaxFaults
      /\ UNCHANGED <<draft, file, older, index, head>>
  BY FaultFacts DEF ReadDraft, NoIdentity, disk, git, IInv, TypeOK, Request
<1>2. CASE NoIdentity(r)
  BY <1>1, <1>2, FailStep DEF NoIdentity
<1>3. CASE /\ requests' = (requests \ {r}) \cup {n}
           /\ touched' = IF Alone(r) THEN touched \ {d} ELSE touched
  <2>1. /\ n \in Request /\ n.doc = d /\ n.text = draft[d]
        /\ n.pc \in {"add", "promote"} /\ (n.pc = "promote" => n.text # NoText)
    BY <1>1 DEF Request, IInv, TypeOK, PublishSteps
  <2>2. requests' = (requests \ {r}) \cup {n}
    BY <1>3
  <2> HIDE DEF n
  <2>3. TypeOK'
    BY <1>1, <1>3, <2>1, <2>2 DEF IInv, TypeOK, proj
  <2>4. ~Pends(draft[d]) /\ draft[d] \in Made
    BY <1>1 DEF IInv, TextInv, MadeInv
  <2>5. TextInv' /\ MadeInv'
    BY <1>1, <2>1, <2>2, <2>4, TextMove
  <2>6. DropInv'
    BY <1>1, <2>1, <2>2 DEF IInv, DropInv
  <2>7. CommitInv'
    <3>1. ASSUME NEW c \in Docs \ touched'
          PROVE  /\ index[c] = file[c]["workspace"] \/ WillAdd(c)'
                 /\ head[c] = index[c] \/ WillCommit(c)'
      <4>1. CASE c = d
        BY <2>1, <2>2, <4>1 DEF WillAdd, WillCommit
      <4>2. CASE c # d
        <5>1. c \notin touched
          BY <1>3, <3>1, <4>2
        <5>2. /\ index[c] = file[c]["workspace"] \/ WillAdd(c)
              /\ head[c] = index[c] \/ WillCommit(c)
          BY <3>1, <5>1 DEF IInv, CommitInv
        <5>3. (WillAdd(c) => WillAdd(c)') /\ (WillCommit(c) => WillCommit(c)')
          BY <2>2, <4>2 DEF WillAdd, WillCommit
        <5>4. QED BY <5>2, <5>3
      <4>3. QED BY <4>1, <4>2
    <3>2. QED BY <1>1, <3>1 DEF CommitInv
  <2>8. QED BY <2>3, <2>5, <2>6, <2>7 DEF IInv
<1>4. QED BY <1>2, <1>3 DEF ReadDraft

LEMMA PromoteStep ==
  ASSUME IInv, NEW r \in requests, Promote(r)
  PROVE  IInv'
<1> DEFINE d == r.doc
<1>1. /\ UNCHANGED <<proj, draft, index, head, tab, edits, sent>> /\ r.pc = "promote"
      /\ r \in Request /\ d \in Docs /\ faults' \in 0 .. MaxFaults
  BY FaultFacts DEF Promote, git, IInv, TypeOK, Request
<1>2. CASE Fail(r) /\ UNCHANGED <<file, older>>
  BY <1>1, <1>2, FailStep DEF disk, git
<1>3. CASE Editable(r.route) /\ WriteFile(d, r.route, r.text) /\ Goto(r, "drop") /\ UNCHANGED touched
  <2>1. PICK n \in Request : /\ requests' = (requests \ {r}) \cup {n} /\ n.pc = "drop"
                             /\ n.doc = d /\ n.text = r.text /\ n.route = r.route
    BY <1>3, MovedRequest DEF IInv, PublishSteps
  <2>2. r.route \in Places /\ r.text \in Files
    BY <1>1, <1>3 DEF Editable, Request
  <2>3. /\ file' \in [Docs -> [Places -> Files]] /\ \A c \in Docs \ {d} : file'[c] = file[c]
        /\ older' \in [Docs -> SUBSET Places] /\ r.route \notin older'[d]
        /\ \A c \in Docs : older'[c] \subseteq older[c]
    BY <1>1, <1>3, <2>2 DEF WriteFile, IInv, TypeOK
  <2>4. TypeOK'
    BY <1>1, <1>3, <2>1, <2>3 DEF IInv, TypeOK, proj
  <2>5. TextInv' /\ MadeInv'
    BY <1>1, <2>1, TextMove DEF IInv, MadeInv, TextInv
  <2>6. DropInv'
    BY <1>1, <2>1, <2>3 DEF IInv, DropInv, TypeOK, Request
  <2>7. CommitInv'
    <3>1. ASSUME NEW c \in Docs \ touched'
          PROVE  /\ index[c] = file'[c]["workspace"] \/ WillAdd(c)'
                 /\ head[c] = index[c] \/ WillCommit(c)'
      <4>1. CASE c = d
        BY <2>1, <4>1 DEF WillAdd, WillCommit
      <4>2. CASE c # d
        <5>1. /\ index[c] = file[c]["workspace"] \/ WillAdd(c)
              /\ head[c] = index[c] \/ WillCommit(c)
          BY <1>3, <3>1 DEF IInv, CommitInv
        <5>2. (WillAdd(c) => WillAdd(c)') /\ (WillCommit(c) => WillCommit(c)')
          BY <2>1, <4>2 DEF WillAdd, WillCommit
        <5>3. QED BY <2>3, <3>1, <4>2, <5>1, <5>2
      <4>3. QED BY <4>1, <4>2
    <3>2. QED BY <1>1, <3>1 DEF CommitInv
  <2>8. QED BY <2>4, <2>5, <2>6, <2>7 DEF IInv
<1>4. QED BY <1>2, <1>3 DEF Promote

LEMMA DropDraftStep ==
  ASSUME IInv, NEW r \in requests, DropDraft(r)
  PROVE  IInv'
<1>1. /\ UNCHANGED <<proj, file, older, index, head, tab, edits, sent, touched>>
      /\ r.pc = "drop" /\ r \in Request /\ r.doc \in Docs /\ faults' \in 0 .. MaxFaults
  BY FaultFacts DEF DropDraft, git, IInv, TypeOK, Request
<1>2. PICK n \in Request : /\ requests' = (requests \ {r}) \cup {n}
                           /\ n.pc = "add" /\ n.doc = r.doc /\ n.text = r.text
  BY MovedRequest DEF DropDraft, IInv, PublishSteps
<1>3. /\ draft' \in [Docs -> Files]
      /\ \A d \in Docs : draft'[d] = draft[d] \/ draft'[d] = NoText
  BY <1>1 DEF DropDraft, IInv, TypeOK, Files
<1>4. TypeOK'
  BY <1>1, <1>2, <1>3 DEF IInv, TypeOK, proj
<1>5. TextInv' /\ MadeInv'
  BY <1>1, <1>2, <1>3, TextMove DEF IInv, MadeInv
<1>6. DropInv'
  BY <1>1, <1>2, <1>3 DEF IInv, DropInv, MadeInv, TypeOK, Request
<1>7. CommitInv'
  BY <1>1, <1>2, CommitMove DEF IInv
<1>8. QED BY <1>4, <1>5, <1>6, <1>7 DEF IInv

LEMMA GitAddStep ==
  ASSUME IInv, NEW r \in requests, GitAdd(r)
  PROVE  IInv'
<1> DEFINE d == r.doc
<1>1. /\ UNCHANGED <<proj, disk, draft, file, older, head, tab, edits, sent>> /\ r.pc = "add"
      /\ r \in Request /\ d \in Docs /\ faults' \in 0 .. MaxFaults
  BY FaultFacts DEF GitAdd, disk, IInv, TypeOK, Request
<1>2. CASE Fail(r) /\ UNCHANGED index
  BY <1>1, <1>2, FailStep DEF git
<1>3. CASE /\ index' = [index EXCEPT ![d] = file[d]["workspace"]]
           /\ Goto(r, "commit") /\ UNCHANGED touched
  <2>1. PICK n \in Request : /\ requests' = (requests \ {r}) \cup {n} /\ n.pc = "commit"
                             /\ n.doc = d /\ n.text = r.text /\ n.route = r.route
    BY <1>3, MovedRequest DEF IInv, PublishSteps
  <2>2. /\ index' \in [Docs -> Files] /\ index'[d] = file[d]["workspace"]
        /\ \A c \in Docs \ {d} : index'[c] = index[c]
    BY <1>1, <1>3 DEF IInv, TypeOK, Places
  <2>3. TypeOK'
    BY <1>1, <1>3, <2>1, <2>2 DEF IInv, TypeOK, proj
  <2>4. TextInv' /\ MadeInv'
    BY <1>1, <2>1, TextMove DEF IInv, MadeInv
  <2>5. DropInv'
    BY <1>1, <2>1 DEF IInv, DropInv
  <2>6. CommitInv'
    <3>1. ASSUME NEW c \in Docs \ touched'
          PROVE  /\ index'[c] = file[c]["workspace"] \/ WillAdd(c)'
                 /\ head[c] = index'[c] \/ WillCommit(c)'
      <4>1. CASE c = d
        BY <2>1, <2>2, <4>1 DEF WillCommit
      <4>2. CASE c # d
        <5>1. /\ index[c] = file[c]["workspace"] \/ WillAdd(c)
              /\ head[c] = index[c] \/ WillCommit(c)
          BY <1>3, <3>1 DEF IInv, CommitInv
        <5>2. (WillAdd(c) => WillAdd(c)') /\ (WillCommit(c) => WillCommit(c)')
          BY <2>1, <4>2 DEF WillAdd, WillCommit
        <5>3. QED BY <2>2, <3>1, <4>2, <5>1, <5>2
      <4>3. QED BY <4>1, <4>2
    <3>2. QED BY <1>1, <3>1 DEF CommitInv
  <2>7. QED BY <2>3, <2>4, <2>5, <2>6 DEF IInv
<1>4. QED BY <1>2, <1>3 DEF GitAdd

LEMMA GitCommitStep ==
  ASSUME IInv, NEW r \in requests, GitCommit(r)
  PROVE  IInv'
<1>1. /\ UNCHANGED <<proj, disk, draft, file, older, index, tab, edits, sent>> /\ r.pc = "commit"
      /\ r \in Request /\ r.doc \in Docs /\ faults' \in 0 .. MaxFaults
  BY FaultFacts DEF GitCommit, disk, IInv, TypeOK, Request
<1>2. CASE Fail(r) /\ UNCHANGED head
  BY <1>1, <1>2, FailStep DEF git
<1>3. CASE head' = index /\ Goto(r, "ok") /\ UNCHANGED touched
  <2>1. PICK n \in Request : /\ requests' = (requests \ {r}) \cup {n} /\ n.pc = "ok"
                             /\ n.doc = r.doc /\ n.text = r.text /\ n.route = r.route
    BY <1>3, MovedRequest DEF IInv
  <2>2. TypeOK'
    BY <1>1, <1>3, <2>1 DEF IInv, TypeOK, proj
  <2>3. TextInv' /\ MadeInv'
    BY <1>1, <2>1, TextMove DEF IInv, MadeInv
  <2>4. DropInv'
    BY <1>1, <2>1 DEF IInv, DropInv
  <2>5. CommitInv'
    <3>1. ASSUME NEW c \in Docs \ touched'
          PROVE  index[c] = file[c]["workspace"] \/ WillAdd(c)'
      <4>1. index[c] = file[c]["workspace"] \/ WillAdd(c)
        BY <1>3, <3>1 DEF IInv, CommitInv
      <4>2. WillAdd(c) => WillAdd(c)'
        BY <1>1, <2>1 DEF WillAdd
      <4>3. QED BY <4>1, <4>2
    <3>2. QED BY <1>1, <1>3, <3>1 DEF CommitInv
  <2>6. QED BY <2>2, <2>3, <2>4, <2>5 DEF IInv
<1>4. QED BY <1>2, <1>3 DEF GitCommit

LEMMA NoticeStep ==
  ASSUME IInv, NEW r \in requests, Notice(r)
  PROVE  IInv'
<1>1. /\ UNCHANGED <<proj, disk, git, count, touched>> /\ requests' = requests \ {r}
      /\ r.pc \in {"ok", "failed"} /\ r \in Request
      /\ UNCHANGED <<draft, file, older, index, head, edits, sent, faults>>
  BY DEF Notice, disk, git, count, IInv, TypeOK
<1>2. /\ tab' \in [Tabs -> {Closed} \cup OpenTab]
      /\ \A t \in Tabs : tab'[t].timer => tab[t].timer /\ tab'[t].text = tab[t].text
  <2>1. CASE r.tab = NoTab
    BY <2>1 DEF Notice, IInv, TypeOK
  <2>2. CASE r.tab # NoTab
    <3> DEFINE o == [tab[r.tab] EXCEPT !.op = "idle"]
    <3>1. r.tab \in Tabs /\ tab' = [tab EXCEPT ![r.tab] = o]
      BY <1>1, <2>2 DEF Notice, Request
    <3>2. o \in {Closed} \cup OpenTab /\ o.timer = tab[r.tab].timer /\ o.text = tab[r.tab].text
      <4>1. CASE tab[r.tab] = Closed
        BY <4>1, IdleClosed
      <4>2. CASE tab[r.tab] \in OpenTab
        BY <4>2 DEF OpenTab
      <4>3. QED BY <3>1, <4>1, <4>2, TabTyped DEF IInv
    <3> HIDE DEF o
    <3>3. QED BY <3>1, <3>2 DEF IInv, TypeOK
  <2>3. QED BY <2>1, <2>2
<1>3. TypeOK'
  BY <1>1, <1>2, RestTyped DEF IInv, TypeOK
<1>4. TextInv'
  <2>1. /\ Saves' \subseteq Saves /\ \A d \in Docs : draft'[d] = draft[d]
        /\ \A q \in requests' : q.pc \in {"promote", "drop"} => ~Pends(q.text)
    BY <1>1 DEF Saves, IInv, TextInv
  <2>2. QED BY <1>2, <2>1, TextShrinks DEF IInv
<1>5. MadeInv' /\ DropInv'
  BY <1>1, <1>2 DEF IInv, MadeInv, Made, DropInv
<1>6. CommitInv'
  BY <1>1, CommitStays DEF IInv
<1>7. QED BY <1>3, <1>4, <1>5, <1>6 DEF IInv

-----------------------------------------------------------------------------
(* Projects.                                                               *)

\* The committed file of d changes, and the history says so.
LEMMA TouchedStep ==
  ASSUME IInv, NEW d \in Docs, UNCHANGED <<draft, index, head, tab, requests>>,
         touched' = touched \cup {d}, edits' \in {edits, edits + 1},
         \A c \in Docs \ {d} : file'[c] = file[c],
         \A c \in Docs : older'[c] \subseteq older[c]
  PROVE  TextInv' /\ MadeInv' /\ DropInv' /\ CommitInv'
<1>1. TextInv'
  BY DEF IInv, TextInv, Pends, Saves
<1>2. edits \in Nat /\ 0 .. edits \subseteq 0 .. edits'
  BY BoundsAssumption DEF IInv, TypeOK
<1>3. MadeInv'
  BY <1>2 DEF IInv, MadeInv, Made
<1>4. \A r \in requests : r.doc \in Docs
  BY DEF IInv, TypeOK, Request
<1>5. DropInv'
  BY <1>4 DEF IInv, DropInv
<1>6. CommitInv'
  <2>1. ASSUME NEW c \in Docs \ touched'
        PROVE  /\ index[c] = file'[c]["workspace"] \/ WillAdd(c)'
               /\ head[c] = index[c] \/ WillCommit(c)'
    <3>1. /\ index[c] = file[c]["workspace"] \/ WillAdd(c)
          /\ head[c] = index[c] \/ WillCommit(c)
      BY <2>1 DEF IInv, CommitInv
    <3>2. (WillAdd(c) => WillAdd(c)') /\ (WillCommit(c) => WillCommit(c)')
      BY DEF WillAdd, WillCommit
    <3>3. QED BY <2>1, <3>1, <3>2
  <2>2. QED BY <2>1 DEF CommitInv
<1>7. QED BY <1>1, <1>3, <1>5, <1>6

LEMMA WriteFacts ==
  ASSUME TypeOK, NEW d \in Docs, edits' = edits + 1, edits < MaxEdits,
         WriteFile(d, "workspace", edits + 1)
  PROVE  /\ file' \in [Docs -> [Places -> Files]] /\ older' \in [Docs -> SUBSET Places]
         /\ \A c \in Docs \ {d} : file'[c] = file[c]
         /\ \A c \in Docs : older'[c] \subseteq older[c]
         /\ edits' \in 0 .. MaxEdits
<1>1. edits + 1 \in Files /\ edits' \in 0 .. MaxEdits
  BY BoundsAssumption DEF TypeOK, Files, Texts
<1>2. QED BY <1>1 DEF TypeOK, WriteFile, Places

LEMMA CreateProjectStep ==
  ASSUME IInv, NEW d \in Docs, CreateProject(d)
  PROVE  IInv'
<1>1. /\ UNCHANGED <<linked, draft, index, head, tab, requests, sent, faults>>
      /\ touched' = touched \cup {d} /\ dirs' = dirs \cup {d}
      /\ route' = [route EXCEPT ![d] = "project"]
  BY DEF CreateProject, Register, git
<1>2. /\ file' \in [Docs -> [Places -> Files]] /\ older' \in [Docs -> SUBSET Places]
      /\ \A c \in Docs \ {d} : file'[c] = file[c]
      /\ \A c \in Docs : older'[c] \subseteq older[c]
      /\ edits' \in 0 .. MaxEdits /\ edits' \in {edits, edits + 1}
  <2>1. CASE edits' = edits + 1 /\ edits < MaxEdits /\ WriteFile(d, "workspace", edits + 1)
    BY <2>1, WriteFacts DEF IInv
  <2>2. CASE UNCHANGED <<edits, file, older>>
    BY <2>2 DEF IInv, TypeOK
  <2>3. QED BY <2>1, <2>2 DEF CreateProject
<1>3. TypeOK'
  BY <1>1, <1>2 DEF IInv, TypeOK, Places
<1>4. QED BY <1>1, <1>2, <1>3, TouchedStep DEF IInv

LEMMA ImportStep ==
  ASSUME IInv, NEW d \in Docs, Import(d)
  PROVE  IInv'
<1>1. /\ UNCHANGED <<linked, draft, index, head, tab, requests, sent>>
      /\ touched' = touched \cup {d} /\ dirs' = dirs \cup {d}
      /\ route' = [route EXCEPT ![d] = "project"]
      /\ edits < MaxEdits /\ edits' = edits + 1
      /\ faults' \in 0 .. MaxFaults
  BY FaultFacts DEF Import, CopyFiles, Register, git, IInv
<1>2. /\ file' \in [Docs -> [Places -> Files]] /\ older' \in [Docs -> SUBSET Places]
      /\ \A c \in Docs \ {d} : file'[c] = file[c]
      /\ \A c \in Docs : older'[c] \subseteq older[c]
      /\ edits' \in 0 .. MaxEdits
  <2>1. CASE WriteFile(d, "workspace", edits + 1)
    BY <1>1, <2>1, WriteFacts DEF IInv
  <2>2. CASE UNCHANGED <<file, older>>
    BY <1>1, <2>2, BoundsAssumption DEF IInv, TypeOK
  <2>3. QED BY <2>1, <2>2 DEF Import, CopyFiles
<1>3. TypeOK'
  BY <1>1, <1>2 DEF IInv, TypeOK, Places
<1>4. QED BY <1>1, <1>2, <1>3, TouchedStep DEF IInv

LEMMA ExternalEditStep ==
  ASSUME IInv, NEW d \in Docs, ExternalEdit(d)
  PROVE  IInv'
<1>1. /\ UNCHANGED <<route, linked, dirs, draft, index, head, tab, requests, sent, faults>>
      /\ touched' = touched \cup {d} /\ edits < MaxEdits /\ edits' = edits + 1
      /\ WriteFile(d, "workspace", edits + 1)
  BY DEF ExternalEdit, proj, git
<1>2. /\ file' \in [Docs -> [Places -> Files]] /\ older' \in [Docs -> SUBSET Places]
      /\ \A c \in Docs \ {d} : file'[c] = file[c]
      /\ \A c \in Docs : older'[c] \subseteq older[c]
      /\ edits' \in 0 .. MaxEdits
  BY <1>1, WriteFacts DEF IInv
<1>3. TypeOK'
  BY <1>1, <1>2 DEF IInv, TypeOK
<1>4. QED BY <1>1, <1>2, <1>3, TouchedStep DEF IInv

LEMMA LinkStep ==
  ASSUME IInv, NEW d \in Docs, Link(d)
  PROVE  IInv'
<1>1. /\ UNCHANGED <<dirs, draft, file, older, index, head, tab, requests, edits, sent, touched>>
      /\ route' = [route EXCEPT ![d] = "external"] /\ linked' \subseteq Docs
      /\ faults' \in 0 .. MaxFaults
  BY FaultFacts DEF Link, AddLink, Register, disk, git, IInv, TypeOK
<1>2. TypeOK'
  BY <1>1 DEF IInv, TypeOK
<1>3. TextInv' /\ MadeInv' /\ DropInv'
  BY <1>1 DEF IInv, TextInv, MadeInv, DropInv, Made, Pends, Saves
<1>4. CommitInv'
  BY <1>1, CommitStays DEF IInv
<1>5. QED BY <1>2, <1>3, <1>4 DEF IInv

\* A restart forgets the requests; the history remembers whose publishes it cut short.
LEMMA RestartStep ==
  ASSUME IInv, Restart
  PROVE  IInv'
<1>1. /\ UNCHANGED <<linked, dirs, draft, file, older, index, head, edits, sent>>
      /\ touched' = touched \cup {r.doc : r \in requests} /\ requests' = {}
      /\ route' \in [Docs -> Places \cup {"external"}]
      /\ faults' \in 0 .. MaxFaults
  BY FaultFacts DEF Restart, disk, git, IInv, Places
<1>2. /\ tab' \in [Tabs -> {Closed} \cup OpenTab]
      /\ \A t \in Tabs : tab'[t].timer = tab[t].timer /\ tab'[t].text = tab[t].text
  <2>1. ASSUME NEW t \in Tabs
        PROVE  /\ [tab[t] EXCEPT !.op = "idle"] \in {Closed} \cup OpenTab
               /\ [tab[t] EXCEPT !.op = "idle"].timer = tab[t].timer
               /\ [tab[t] EXCEPT !.op = "idle"].text = tab[t].text
    <3>1. CASE tab[t] = Closed
      BY <3>1, IdleClosed
    <3>2. CASE tab[t] \in OpenTab
      BY <3>2 DEF OpenTab
    <3>3. QED BY <3>1, <3>2, TabTyped DEF IInv
  <2>2. tab' = [t \in Tabs |-> [tab[t] EXCEPT !.op = "idle"]]
    BY DEF Restart
  <2>3. QED BY <2>1, <2>2
<1>3. touched' \subseteq Docs
  BY <1>1 DEF IInv, TypeOK, Request
<1>4. TypeOK'
  BY <1>1, <1>2, <1>3 DEF IInv, TypeOK
<1>5. TextInv'
  <2>1. /\ Saves' \subseteq Saves /\ \A d \in Docs : draft'[d] = draft[d]
        /\ \A q \in requests' : q.pc \in {"promote", "drop"} => ~Pends(q.text)
    BY <1>1 DEF Saves
  <2>2. QED BY <1>2, <2>1, TextShrinks DEF IInv
<1>6. MadeInv' /\ DropInv'
  BY <1>1, <1>2 DEF IInv, MadeInv, Made, DropInv
<1>7. CommitInv'
  <2>1. ASSUME NEW d \in Docs \ touched'
        PROVE  index[d] = file[d]["workspace"] /\ head[d] = index[d]
    <3>1. d \notin touched /\ ~WillAdd(d) /\ ~WillCommit(d)
      BY <1>1, <2>1 DEF WillAdd, WillCommit
    <3>2. QED BY <2>1, <3>1 DEF IInv, CommitInv
  <2>2. QED BY <1>1, <2>1 DEF CommitInv
<1>8. QED BY <1>4, <1>5, <1>6, <1>7 DEF IInv

-----------------------------------------------------------------------------
(* The theorems.                                                           *)

LEMMA InitInv ==
  Init => IInv
<1> SUFFICES ASSUME Init PROVE IInv
  OBVIOUS
<1>1. TypeOK
  BY DocsAssumption, BoundsAssumption
  DEF Init, TypeOK, Places, Files, Texts, Closed
<1>2. \A x : ~Pends(x)
  BY DEF Init, Pends, Saves, Closed
<1>3. TextInv /\ MadeInv /\ DropInv
  BY <1>2 DEF Init, TextInv, MadeInv, DropInv, Made, Saves, Closed
<1>4. CommitInv
  BY DEF Init, CommitInv
<1>5. QED BY <1>1, <1>3, <1>4 DEF IInv

LEMMA NextInv ==
  IInv /\ [Next]_vars => IInv'
<1> SUFFICES ASSUME IInv, [Next]_vars PROVE IInv'
  OBVIOUS
<1>1. CASE UNCHANGED vars
  <2>1. UNCHANGED <<route, linked, dirs, draft, file, older, index, head,
                    tab, requests, edits, sent, faults, touched>>
    BY <1>1 DEF vars, proj, disk, git, count
  <2>2. TypeOK'
    BY <2>1 DEF IInv, TypeOK
  <2>3. TextInv' /\ MadeInv' /\ DropInv'
    BY <2>1 DEF IInv, TextInv, MadeInv, DropInv, Made, Pends, Saves
  <2>4. CommitInv'
    BY <2>1, CommitStays DEF IInv
  <2>5. QED BY <2>2, <2>3, <2>4 DEF IInv
<1>2. ASSUME NEW t \in Tabs, TabNext(t)
      PROVE  IInv'
  BY <1>2, OpenStep, CloseStep, TypeStep, AutoSaveStep, OpenDialogStep,
     CancelPublishStep, ConfirmPublishStep DEF TabNext
<1>3. ASSUME NEW r \in requests, Handle(r)
      PROVE  IInv'
  BY <1>3, SaveDraftStep, DeleteFileStep, DeleteDraftStep, ReadDraftStep, PromoteStep,
     DropDraftStep, GitAddStep, GitCommitStep, NoticeStep DEF Handle
<1>4. ASSUME NEW d \in Docs, DocNext(d)
      PROVE  IInv'
  BY <1>4, ClientSaveStep, ClientDeleteStep, ExternalEditStep, CreateProjectStep,
     ImportStep, LinkStep DEF DocNext
<1>5. QED BY <1>1, <1>2, <1>3, <1>4, RestartStep DEF Next

\* The inductive invariant holds in every reachable state.
THEOREM Inductive ==
  Spec => []IInv
BY InitInv, NextInv, PTL DEF Spec

\* The tabs, requests, drafts, files and git's two versions of every document keep their
\* types: a text in a file, in git or in a request was made before.
THEOREM Types ==
  Spec => []TypeOK
<1>1. IInv => TypeOK
  BY DEF IInv
<1>2. QED BY <1>1, Inductive, PTL

\* When nothing is under way for a document that was only published, however many publishes,
\* saves and deletes of other documents ran beside and failed, git has committed its file.
THEOREM PublishCommits ==
  Spec => []SettledIsCommitted
<1>1. IInv => SettledIsCommitted
  <2> SUFFICES ASSUME IInv, NEW d \in Docs, \A r \in requests : r.doc # d, d \notin touched
               PROVE  head[d] = file[d]["workspace"]
    BY DEF SettledIsCommitted
  <2>1. ~WillAdd(d) /\ ~WillCommit(d)
    BY DEF WillAdd, WillCommit
  <2>2. QED BY <2>1 DEF IInv, CommitInv
<1>2. QED BY <1>1, Inductive, PTL

\* No step but the last of a delete or of a publish takes a draft away, and the publish's
\* only after the text it read is in the file, unless another was saved meanwhile.
LEMMA DraftStep ==
  ASSUME IInv, [Next]_vars, NEW d \in Docs, draft[d] # NoText, draft'[d] = NoText
  PROVE  \E r \in requests :
           /\ r.doc = d
           /\ \/ r.pc = "deletedraft"
              \/ r.pc = "drop" /\ (r.route \notin older[d] \/ r.text # draft[d])
<1>1. \/ \E r \in requests : SaveDraft(r) /\ WriteDraft(r.doc, r.text)
      \/ \E r \in requests : DeleteDraft(r) \/ DropDraft(r)
  <2>1. draft' # draft
    OBVIOUS
  <2>2. ASSUME NEW t \in Tabs, TabNext(t)
        PROVE  draft' = draft
    BY <2>2 DEF TabNext, Open, Close, Type, AutoSave, OpenPublishDialog, CancelPublish,
                ConfirmPublish, disk
  <2>3. ASSUME NEW c \in Docs, DocNext(c)
        PROVE  draft' = draft
    BY <2>3 DEF DocNext, ClientSave, ClientDelete, ExternalEdit, CreateProject, Import,
                Link, disk
  <2>4. ASSUME NEW r \in requests, Handle(r), ~DeleteDraft(r), ~DropDraft(r)
        PROVE  SaveDraft(r) /\ WriteDraft(r.doc, r.text)
    BY <2>1, <2>4 DEF Handle, SaveDraft, DeleteFile, ReadDraft, Promote, GitAdd,
                      GitCommit, Notice, disk
  <2>5. ~Restart /\ ~UNCHANGED vars
    BY <2>1 DEF Restart, vars, disk
  <2>6. QED BY <2>1, <2>2, <2>3, <2>4, <2>5 DEF Next
<1>2. \A r \in requests : r.doc \in Docs
  BY DEF IInv, TypeOK, Request
<1>3. ASSUME NEW r \in requests, SaveDraft(r), WriteDraft(r.doc, r.text)
      PROVE  FALSE
  <2>1. r.text # NoText
    BY <1>3 DEF SaveDraft, IInv, MadeInv
  <2>2. QED BY <1>2, <1>3, <2>1 DEF WriteDraft, IInv, TypeOK
<1>4. ASSUME NEW r \in requests, DeleteDraft(r)
      PROVE  r.doc = d /\ r.pc = "deletedraft"
  BY <1>2, <1>4 DEF DeleteDraft, IInv, TypeOK
<1>5. ASSUME NEW r \in requests, DropDraft(r)
      PROVE  r.doc = d /\ r.pc = "drop" /\ (r.route \notin older[d] \/ r.text # draft[d])
  <2>1. r.doc = d /\ r.pc = "drop"
    BY <1>2, <1>5 DEF DropDraft, IInv, TypeOK
  <2>2. QED BY <2>1 DEF IInv, DropInv
<1>6. QED BY <1>1, <1>3, <1>4, <1>5

\* A draft disappears only when a delete asks for it, or when a publish has put the text it
\* read into the file, for all interleavings of saves, publishes and deletes.
THEOREM DraftKept ==
  Spec => DraftNotLost
<1>1. IInv /\ [Next]_vars =>
        [\A d \in Docs :
           draft[d] # NoText /\ draft'[d] = NoText =>
             \E r \in requests :
               /\ r.doc = d
               /\ \/ r.pc = "deletedraft"
                  \/ r.pc = "drop" /\ (r.route \notin older[d] \/ r.text # draft[d])]_vars
  BY DraftStep
<1>2. QED BY <1>1, Inductive, PTL DEF Spec, DraftNotLost
=============================================================================
