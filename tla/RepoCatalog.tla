---------------------------- MODULE RepoCatalog -----------------------------
(***************************************************************************)
(* The commands and requests that create and register repositories:        *)
(* `vedox repos` and `vedox init` (cmd/repos.go, cmd/init.go) list them in *)
(* repos.json, POST /api/repos, /create and /register (api/repos.go) in    *)
(* table repos of global.db.  Each looks at the disk, changes it and       *)
(* registers in steps of its own; a call of the registry (module Registry) *)
(* and a write of global.db (module WriterFunnel) are one action here.     *)
(*                                                                         *)
(* Every repo has the command that registers it as its id, one that was    *)
(* there before has its directory.                                         *)
(***************************************************************************)
EXTENDS FiniteSets

CONSTANTS Commands,    \* commands and requests that run at the same time
          Places,      \* directories
          Managed,     \* those that `repos create` makes, below ~/.vedox/repos
          BaseName,    \* the last name of a directory
          Kept,        \* directories registered from the start
          NoRepo

ASSUME PlacesAssumption ==
    /\ Managed \subseteq Places /\ Kept \subseteq Places
    /\ Commands \cap Places = {} /\ NoRepo \notin Commands \cup Places
    /\ \A p, q \in Kept : BaseName[p] = BaseName[q] => p = q

VARIABLES
    disk,       \* what is at a place: nothing, a directory or a Git repository
    marked,     \* places with a .vedox directory
    entries,    \* repos.json: id -> place
    default,    \* its default
    repoRows,   \* repos of global.db: id -> place
    doing,      \* doing[c]: the operation of c and its place
    stage,      \* how far c is
    chosen,     \* the repo that c has found by its name
    outcome,    \* what c has told its caller
    announced,  \* repo.registered events
    shown,      \* history: the repos there were when c looked its name up
    undone,     \* history: which repo which command removed or made the default
    wiped       \* history: places emptied by a command whose git init failed

catalogVars == << disk, marked, entries, default, repoRows, doing, stage, chosen,
                  outcome, announced, shown, undone, wiped >>

ByCommand == {"create", "add", "init", "init --force", "remove", "set-default"}
ByRequest == {"POST /repos", "POST /create", "POST /register"}
Doings == [op : ByCommand \cup ByRequest, at : Places]

Op(c) == doing[c].op
Place(c) == doing[c].at
Goto(c, s) == stage' = [stage EXCEPT ![c] = s]
End(c, result) == Goto(c, "ended") /\ outcome' = [outcome EXCEPT ![c] = result]

CatalogInit ==
    /\ disk \in [Places -> {"none", "dir", "git"}]
    /\ \A p \in Kept : disk[p] = "git"
    /\ marked \in {{}, Kept}
    /\ entries = [p \in Kept |-> p] /\ default = NoRepo
    /\ repoRows = << >> /\ announced = {}
    /\ doing \in [Commands -> {d \in Doings : d.op = "create" => d.at \in Managed}]
    /\ stage = [c \in Commands |-> "begun"]
    /\ chosen = [c \in Commands |-> NoRepo]
    /\ outcome = [c \in Commands |-> "none"]
    /\ shown = [c \in Commands |-> {}] /\ undone = {} /\ wiped = {}

-----------------------------------------------------------------------------
(* Looking at the disk, and changing it.                                   *)

\* repos create wants a place that is free, repos add and /register one with a
\* .git entry; POST /repos takes any.
Check(c) ==
    /\ stage[c] = "begun"
    /\ Op(c) \in {"create", "add", "POST /repos", "POST /register"}
    /\ LET fits == CASE Op(c) = "create" -> disk[Place(c)] = "none"
                     [] Op(c) = "POST /repos" -> TRUE
                     [] OTHER -> disk[Place(c)] = "git"
       IN  IF ~fits THEN End(c, "error")
           ELSE outcome' = outcome /\ Goto(c, IF Op(c) = "create" THEN "free" ELSE "checked")
    /\ UNCHANGED << disk, marked, entries, default, repoRows, doing, chosen, announced,
                    shown, undone, wiped >>

MadeDir(p) == IF disk[p] = "none" THEN [disk EXCEPT ![p] = "dir"] ELSE disk

\* os.MkdirAll, which is content with a directory that has come meanwhile.
MakeDir(c) ==
    /\ \/ stage[c] = "free"
       \/ stage[c] = "begun" /\ Op(c) = "POST /create"
    /\ disk' = MadeDir(Place(c))
    /\ Goto(c, "made")
    /\ UNCHANGED << marked, entries, default, repoRows, doing, chosen, outcome, announced,
                    shown, undone, wiped >>

\* git init makes the directory if it is gone, and leaves a repository as it is.
GitInit(c) ==
    /\ stage[c] = "made"
    /\ disk' = [disk EXCEPT ![Place(c)] = "git"]
    /\ Goto(c, "checked")
    /\ UNCHANGED << marked, entries, default, repoRows, doing, chosen, outcome, announced,
                    shown, undone, wiped >>

Wiped(p) ==
    /\ disk' = [disk EXCEPT ![p] = "none"]
    /\ marked' = marked \ {p}
    /\ wiped' = wiped \cup {p}

\* repos create then removes the directory, with all there is in it by now.
GitInitFails(c) ==
    /\ stage[c] = "made"
    /\ IF Op(c) = "create" THEN Wiped(Place(c)) ELSE UNCHANGED << disk, marked, wiped >>
    /\ End(c, "error")
    /\ UNCHANGED << entries, default, repoRows, doing, chosen, announced, shown, undone >>

\* vedox init path: with a .vedox there, and without --force, nothing is left to do.
LookForMark(c) ==
    /\ stage[c] = "begun" /\ Op(c) \in {"init", "init --force"}
    /\ IF disk[Place(c)] = "none" THEN End(c, "error")
       ELSE IF Place(c) \in marked /\ Op(c) = "init" THEN End(c, "ok")
       ELSE Goto(c, "unmarked") /\ outcome' = outcome
    /\ UNCHANGED << disk, marked, entries, default, repoRows, doing, chosen, announced,
                    shown, undone, wiped >>

MakeMark(c) ==
    /\ stage[c] = "unmarked"
    /\ disk' = MadeDir(Place(c))
    /\ marked' = marked \cup {Place(c)}
    /\ Goto(c, "checked")
    /\ UNCHANGED << entries, default, repoRows, doing, chosen, outcome, announced,
                    shown, undone, wiped >>

-----------------------------------------------------------------------------
(* Registering.                                                            *)

With(f, c) == [r \in DOMAIN f \cup {c} |-> IF r = c THEN Place(c) ELSE f[r]]
NameTaken(p) == \E r \in DOMAIN entries : BaseName[entries[r]] = BaseName[p]

\* Mutant: what was made is removed when its name turns out to be taken.
AddCleanly(c) ==
    /\ stage[c] = "checked" /\ Op(c) \in ByCommand
    /\ IF NameTaken(Place(c))
         THEN /\ entries' = entries
              /\ End(c, IF Op(c) \in {"init", "init --force"} THEN "ok" ELSE "error")
              /\ disk' = IF Op(c) = "create" THEN [disk EXCEPT ![Place(c)] = "none"] ELSE disk
         ELSE /\ entries' = With(entries, c)
              /\ End(c, "ok")
              /\ disk' = disk
    /\ UNCHANGED << marked, default, repoRows, doing, chosen, announced, shown, undone, wiped >>

\* FileRegistry.Add.  init takes a name that is taken for its own from before.
Add(c) ==
    /\ stage[c] = "checked" /\ Op(c) \in ByCommand
    /\ IF NameTaken(Place(c))
         THEN /\ entries' = entries
              /\ End(c, IF Op(c) \in {"init", "init --force"} THEN "ok" ELSE "error")
         ELSE /\ entries' = With(entries, c)
              /\ End(c, "ok")
    /\ UNCHANGED << disk, marked, default, repoRows, doing, chosen, announced,
                    shown, undone, wiped >>

\* openRegistry or Add fails, or the command is killed: what it has made stays.
CommandFails(c) ==
    /\ stage[c] \in {"made", "unmarked", "checked", "found"} /\ Op(c) \in ByCommand
    /\ End(c, "error")
    /\ UNCHANGED << disk, marked, entries, default, repoRows, doing, chosen, announced,
                    shown, undone, wiped >>

\* UpsertRepo under a new id, where root_path is unique; GetRepo; the event.  A
\* request that is given up is told nothing, but its write may be done all the same.
Insert(c) ==
    /\ stage[c] = "checked" /\ Op(c) \in ByRequest
    /\ \/ /\ \A r \in DOMAIN repoRows : repoRows[r] # Place(c)
          /\ repoRows' = With(repoRows, c)
          /\ \/ End(c, "ok") /\ announced' = announced \cup {c}
             \/ End(c, "error") /\ announced' = announced
       \/ End(c, "error") /\ UNCHANGED << repoRows, announced >>
    /\ UNCHANGED << disk, marked, entries, default, doing, chosen, shown, undone, wiped >>

-----------------------------------------------------------------------------
(* repos remove and repos set-default take a name.                         *)

LookUp(c) ==
    /\ stage[c] = "begun" /\ Op(c) \in {"remove", "set-default"}
    /\ shown' = [shown EXCEPT ![c] = DOMAIN entries]
    /\ IF ~NameTaken(Place(c)) THEN End(c, "error") /\ chosen' = chosen
       ELSE /\ \E r \in DOMAIN entries :
                 /\ BaseName[entries[r]] = BaseName[Place(c)]
                 /\ chosen' = [chosen EXCEPT ![c] = r]
            /\ Goto(c, "found") /\ outcome' = outcome
    /\ UNCHANGED << disk, marked, entries, default, repoRows, doing, announced,
                    undone, wiped >>

\* Mutant: the name is looked up again.
ActByName(c) ==
    /\ stage[c] = "found"
    /\ LET named == {r \in DOMAIN entries : BaseName[entries[r]] = BaseName[Place(c)]} IN
       IF named = {} THEN End(c, "error") /\ UNCHANGED << entries, default, undone >>
       ELSE /\ End(c, "ok")
            /\ undone' = undone \cup ({c} \X named)
            /\ IF Op(c) = "remove"
                 THEN /\ entries' = [r \in DOMAIN entries \ named |-> entries[r]]
                      /\ default' = IF default \in named THEN NoRepo ELSE default
                 ELSE entries' = entries /\ default' = CHOOSE r \in named : TRUE
    /\ UNCHANGED << disk, marked, repoRows, doing, chosen, announced, shown, wiped >>

\* Remove or SetDefault, by the id that was found.
Act(c) ==
    /\ stage[c] = "found"
    /\ IF chosen[c] \notin DOMAIN entries
         THEN End(c, "error") /\ UNCHANGED << entries, default, undone >>
         ELSE /\ End(c, "ok")
              /\ undone' = undone \cup {<< c, chosen[c] >>}
              /\ IF Op(c) = "remove"
                   THEN /\ entries' = [r \in DOMAIN entries \ {chosen[c]} |-> entries[r]]
                        /\ default' = IF default = chosen[c] THEN NoRepo ELSE default
                   ELSE entries' = entries /\ default' = chosen[c]
    /\ UNCHANGED << disk, marked, repoRows, doing, chosen, announced, shown, wiped >>

CatalogNext ==
    \E c \in Commands :
        \/ Check(c) \/ MakeDir(c) \/ GitInit(c) \/ GitInitFails(c)
        \/ LookForMark(c) \/ MakeMark(c)
        \/ Add(c) \/ CommandFails(c) \/ Insert(c) \/ LookUp(c) \/ Act(c)

-----------------------------------------------------------------------------
(* Properties.                                                             *)

Stages == {"begun", "free", "made", "unmarked", "checked", "found", "ended"}

CatalogTypeOK ==
    /\ disk \in [Places -> {"none", "dir", "git"}] /\ marked \cup wiped \subseteq Places
    /\ doing \in [Commands -> Doings]
    /\ DOMAIN entries \subseteq Commands \cup Kept
    /\ default \in DOMAIN entries \cup {NoRepo}
    /\ DOMAIN repoRows \subseteq Commands
    /\ stage \in [Commands -> Stages]
    /\ outcome \in [Commands -> {"none", "ok", "error"}]
    /\ DOMAIN chosen = Commands /\ DOMAIN shown = Commands

MakesOrFindsRepo == {"create", "add", "POST /create", "POST /register"}

\* Who is told that a repository was created or registered has one, however many
\* commands were at the same place: no failure undoes another's work.  (But for
\* repos create whose git init fails, see FilesAreKept.)
RegisteredIsThere ==
    /\ \A c \in Commands : outcome[c] = "ok" /\ Op(c) \in MakesOrFindsRepo =>
           disk[Place(c)] = "git" \/ Place(c) \in wiped
    /\ \A c \in Commands : outcome[c] = "ok" /\ Op(c) \in ByRequest => c \in DOMAIN repoRows
    /\ announced \subseteq DOMAIN repoRows
    /\ \A q, r \in DOMAIN entries : BaseName[entries[q]] = BaseName[entries[r]] => q = r

\* A name may pass to another repository between the lookup and the call of Remove
\* or SetDefault; what is removed or made the default is one of those looked at.
ActsOnWhatItShowed ==
    \A u \in undone : u[2] \in shown[u[1]]   \* << command, repo >>

\* "This does NOT delete any files" is said of repos remove (cmd/repos.go:143), and
\* repos create refuses a place that is taken; but another's repository may have
\* been made there between its look and its clean-up.
FilesAreKept ==
    \A c \in Commands : outcome[c] = "ok" /\ Op(c) \in MakesOrFindsRepo =>
        disk[Place(c)] = "git"

\* "Both modes are idempotent: running twice is safe" (cmd/init.go:12).  Not so: an
\* init that fails after it has made .vedox is not made up for by the next, and one
\* whose name belongs to another directory registers nothing.
InitRegisters ==
    \A c \in Commands : outcome[c] = "ok" /\ Op(c) = "init" =>
        \/ \E r \in DOMAIN entries : entries[r] = Place(c)
        \/ \E d \in Commands : Op(d) = "remove" /\ outcome[d] = "ok"

\* "Mirrors `vedox repos add` but via HTTP" (api/repos.go:86), which takes only what
\* is a Git repository.
MirrorsReposAdd ==
    \A c \in Commands : outcome[c] = "ok" /\ Op(c) = "POST /repos" => disk[Place(c)] = "git"
=============================================================================
