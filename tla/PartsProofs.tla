----------------------------- MODULE PartsProofs -----------------------------
(***************************************************************************)
(* The parts of Upkeep and of Requests, each for a specification of its    *)
(* own, and that they keep their guarantees when they are put together: a  *)
(* behaviour of the whole is a behaviour of each part, which the others    *)
(* leave alone.  Of Upkeep: the repository catalogs, the stores of         *)
(* secrets, the service, the tables of the index, the history of a         *)
(* document and the previews of code.  Of Requests: the lists of projects, *)
(* the voice pipeline, the configuration panels, the tasks of a project    *)
(* and what is made of a transcript.                                       *)
(***************************************************************************)
EXTENDS Upkeep, Requests, FiniteSetTheorems, FunctionTheorems, SequenceTheorems, TLAPS

-----------------------------------------------------------------------------
(***************************************************************************)
(* The two catalogs of repositories, for every number of commands and      *)
(* requests and all directories and names: what each was told is there.    *)
(***************************************************************************)

CatalogSpec == CatalogInit /\ [][CatalogNext]_catalogVars

\* The stages of an operation, and that it tells nothing before its end.
StageInv ==
  \A c \in Commands :
    /\ stage[c] # "ended" => outcome[c] = "none"
    /\ stage[c] = "free" => Op(c) = "create"
    /\ stage[c] = "made" => Op(c) \in {"create", "POST /create"}
    /\ stage[c] = "unmarked" => Op(c) \in {"init", "init --force"}
    /\ stage[c] = "found" => Op(c) \in {"remove", "set-default"}
    /\ stage[c] = "checked" => Op(c) \notin {"remove", "set-default"}

\* Who is about to register a repository has it, unless a clean-up took it away.
HasRepo(c) == disk[Place(c)] = "git" \/ Place(c) \in wiped
RepoInv ==
  \A c \in Commands :
    (stage[c] = "checked" \/ outcome[c] = "ok") /\ Op(c) \in MakesOrFindsRepo => HasRepo(c)

RowsInv ==
  /\ \A c \in Commands : outcome[c] = "ok" /\ Op(c) \in ByRequest => c \in DOMAIN repoRows
  /\ announced \subseteq DOMAIN repoRows

NamesInv ==
  \A q, r \in DOMAIN entries : BaseName[entries[q]] = BaseName[entries[r]] => q = r

\* What was found was shown; only what has ended has removed something.
ChosenInv ==
  /\ \A c \in Commands : stage[c] = "found" => chosen[c] \in shown[c]
  /\ \A u \in undone : u[1] \in Commands /\ stage[u[1]] = "ended" /\ u[2] \in shown[u[1]]

CatalogInv == CatalogTypeOK /\ StageInv /\ RepoInv /\ RowsInv /\ NamesInv /\ ChosenInv

LEMMA InitCatalogInv == CatalogInit => CatalogInv
<1> SUFFICES ASSUME CatalogInit PROVE CatalogInv
  OBVIOUS
<1> USE PlacesAssumption DEF CatalogInit
<1>1. CatalogTypeOK
  BY DEF CatalogTypeOK, Stages
<1>2. StageInv /\ RepoInv /\ RowsInv /\ NamesInv /\ ChosenInv
  BY DEF StageInv, RepoInv, RowsInv, NamesInv, ChosenInv
<1>3. QED BY <1>1, <1>2 DEF CatalogInv

-----------------------------------------------------------------------------
(* One lemma per action. *)

\* What an operation that takes a step must show of itself; the others stay as they are.
LEMMA StageMoves ==
  ASSUME CatalogTypeOK, StageInv, NEW c \in Commands, doing' = doing,
         \A d \in Commands \ {c} : stage'[d] = stage[d] /\ outcome'[d] = outcome[d],
         \/ stage'[c] = "ended"
         \/ /\ outcome'[c] = "none"
            /\ \/ stage'[c] = "free" /\ Op(c) = "create"
               \/ stage'[c] = "made" /\ Op(c) \in {"create", "POST /create"}
               \/ stage'[c] = "unmarked" /\ Op(c) \in {"init", "init --force"}
               \/ stage'[c] = "found" /\ Op(c) \in {"remove", "set-default"}
               \/ stage'[c] = "checked" /\ Op(c) \notin {"remove", "set-default"}
  PROVE  StageInv'
<1>1. \A d \in Commands : Op(d)' = Op(d)
  BY DEF Op
<1>2. QED BY <1>1 DEF StageInv

LEMMA CheckStep ==
  ASSUME CatalogInv, NEW c \in Commands, Check(c)
  PROVE  CatalogInv'
<1> USE DEF CatalogInv, Check, Goto, End
<1>1. CatalogTypeOK'
  BY DEF CatalogTypeOK, Stages, Doings, Place
<1>2. StageInv'
  <2>1. \A d \in Commands \ {c} : stage'[d] = stage[d] /\ outcome'[d] = outcome[d]
    BY DEF CatalogTypeOK
  <2>2. \/ stage'[c] = "ended"
        \/ /\ outcome'[c] = "none"
           /\ \/ stage'[c] = "free" /\ Op(c) = "create"
              \/ stage'[c] = "checked" /\ Op(c) \notin {"remove", "set-default"}
    BY DEF StageInv, CatalogTypeOK
  <2>3. QED BY <2>1, <2>2, StageMoves
<1>3. RepoInv'
  <2>1. \A d \in Commands : HasRepo(d)' = HasRepo(d) /\ Op(d)' = Op(d)
    BY DEF HasRepo, Place, Op
  <2>2. \A d \in Commands \ {c} : stage'[d] = stage[d] /\ outcome'[d] = outcome[d]
    BY DEF CatalogTypeOK
  <2>3. (stage'[c] = "checked" \/ outcome'[c] = "ok") /\ Op(c) \in MakesOrFindsRepo => HasRepo(c)
    BY DEF RepoInv, StageInv, CatalogTypeOK, HasRepo, MakesOrFindsRepo
  <2>4. QED BY <2>1, <2>2, <2>3 DEF RepoInv
<1>4. RowsInv'
  <2>1. /\ UNCHANGED << repoRows, announced, doing >>
        /\ \A d \in Commands \ {c} : outcome'[d] = outcome[d]
    BY DEF CatalogTypeOK
  <2>2. outcome'[c] = "ok" => Op(c) \notin ByRequest
    BY DEF StageInv, CatalogTypeOK, ByRequest
  <2>3. QED BY <2>1, <2>2 DEF RowsInv, Op
<1>5. NamesInv'
  BY DEF NamesInv
<1>6. ChosenInv'
  BY DEF ChosenInv, CatalogTypeOK
<1>7. QED BY <1>1, <1>2, <1>3, <1>4, <1>5, <1>6

LEMMA MakeDirStep ==
  ASSUME CatalogInv, NEW c \in Commands, MakeDir(c)
  PROVE  CatalogInv'
<1> USE DEF CatalogInv, MakeDir, MadeDir, Goto, End
<1>1. CatalogTypeOK'
  BY DEF CatalogTypeOK, Stages, Doings, Place
<1>2. StageInv'
  BY DEF StageInv, CatalogTypeOK, Op
<1>3. RepoInv'
  BY DEF RepoInv, StageInv, CatalogTypeOK, HasRepo, Op, Place, MakesOrFindsRepo, Doings
<1>4. RowsInv'
  BY DEF RowsInv, StageInv, CatalogTypeOK, Op, ByRequest, ByCommand
<1>5. NamesInv'
  BY DEF NamesInv
<1>6. ChosenInv'
  BY DEF ChosenInv, CatalogTypeOK
<1>7. QED BY <1>1, <1>2, <1>3, <1>4, <1>5, <1>6

LEMMA GitInitStep ==
  ASSUME CatalogInv, NEW c \in Commands, GitInit(c)
  PROVE  CatalogInv'
<1> USE DEF CatalogInv, GitInit, Goto, End
<1>1. CatalogTypeOK'
  BY DEF CatalogTypeOK, Stages, Doings, Place
<1>2. StageInv'
  BY DEF StageInv, CatalogTypeOK, Op
<1>3. RepoInv'
  BY DEF RepoInv, StageInv, CatalogTypeOK, HasRepo, Op, Place, MakesOrFindsRepo, Doings
<1>4. RowsInv'
  BY DEF RowsInv, StageInv, CatalogTypeOK, Op, ByRequest, ByCommand
<1>5. NamesInv'
  BY DEF NamesInv
<1>6. ChosenInv'
  BY DEF ChosenInv, CatalogTypeOK
<1>7. QED BY <1>1, <1>2, <1>3, <1>4, <1>5, <1>6

LEMMA GitInitFailsStep ==
  ASSUME CatalogInv, NEW c \in Commands, GitInitFails(c)
  PROVE  CatalogInv'
<1> USE DEF CatalogInv, GitInitFails, Wiped, Goto, End
<1>1. CatalogTypeOK'
  BY DEF CatalogTypeOK, Stages, Doings, Place
<1>2. StageInv'
  <2>1. \A d \in Commands \ {c} : stage'[d] = stage[d] /\ outcome'[d] = outcome[d]
    BY DEF CatalogTypeOK
  <2>2. stage'[c] = "ended"
    BY DEF StageInv, CatalogTypeOK
  <2>3. QED BY <2>1, <2>2, StageMoves
<1>3. RepoInv'
  <2>1. \A d \in Commands : HasRepo(d) => HasRepo(d)'
    BY DEF HasRepo, Place, CatalogTypeOK, Doings
  <2>2. \A d \in Commands :
          /\ Op(d)' = Op(d)
          /\ stage'[d] = "checked" => stage[d] = "checked"
          /\ outcome'[d] = "ok" => outcome[d] = "ok"
    BY DEF Op, CatalogTypeOK
  <2>3. QED BY <2>1, <2>2 DEF RepoInv, MakesOrFindsRepo
<1>4. RowsInv'
  BY DEF RowsInv, StageInv, CatalogTypeOK, Op, ByRequest, ByCommand
<1>5. NamesInv'
  BY DEF NamesInv
<1>6. ChosenInv'
  BY DEF ChosenInv, CatalogTypeOK
<1>7. QED BY <1>1, <1>2, <1>3, <1>4, <1>5, <1>6

LEMMA LookForMarkStep ==
  ASSUME CatalogInv, NEW c \in Commands, LookForMark(c)
  PROVE  CatalogInv'
<1> USE DEF CatalogInv, LookForMark, Goto, End
<1>1. CatalogTypeOK'
  BY DEF CatalogTypeOK, Stages, Doings, Place
<1>2. StageInv'
  <2>1. \A d \in Commands \ {c} : stage'[d] = stage[d] /\ outcome'[d] = outcome[d]
    BY DEF CatalogTypeOK
  <2>2. \/ stage'[c] = "ended"
        \/ /\ outcome'[c] = "none" /\ stage'[c] = "unmarked"
           /\ Op(c) \in {"init", "init --force"}
    BY DEF StageInv, CatalogTypeOK
  <2>3. QED BY <2>1, <2>2, StageMoves
<1>3. RepoInv'
  BY DEF RepoInv, StageInv, CatalogTypeOK, HasRepo, Op, Place, MakesOrFindsRepo, Doings
<1>4. RowsInv'
  BY DEF RowsInv, StageInv, CatalogTypeOK, Op, ByRequest, ByCommand
<1>5. NamesInv'
  BY DEF NamesInv
<1>6. ChosenInv'
  BY DEF ChosenInv, CatalogTypeOK
<1>7. QED BY <1>1, <1>2, <1>3, <1>4, <1>5, <1>6

LEMMA MakeMarkStep ==
  ASSUME CatalogInv, NEW c \in Commands, MakeMark(c)
  PROVE  CatalogInv'
<1> USE DEF CatalogInv, MakeMark, MadeDir, Goto, End
<1>1. CatalogTypeOK'
  BY DEF CatalogTypeOK, Stages, Doings, Place
<1>2. StageInv'
  BY DEF StageInv, CatalogTypeOK, Op
<1>3. RepoInv'
  BY DEF RepoInv, StageInv, CatalogTypeOK, HasRepo, Op, Place, MakesOrFindsRepo, Doings
<1>4. RowsInv'
  BY DEF RowsInv, StageInv, CatalogTypeOK, Op, ByRequest, ByCommand
<1>5. NamesInv'
  BY DEF NamesInv
<1>6. ChosenInv'
  BY DEF ChosenInv, CatalogTypeOK
<1>7. QED BY <1>1, <1>2, <1>3, <1>4, <1>5, <1>6

LEMMA AddStep ==
  ASSUME CatalogInv, NEW c \in Commands, Add(c)
  PROVE  CatalogInv'
<1> USE DEF CatalogInv, Add, NameTaken, Goto, End
<1>1. CatalogTypeOK'
  <2>1. stage' \in [Commands -> Stages] /\ outcome' \in [Commands -> {"none", "ok", "error"}]
    BY DEF CatalogTypeOK, Stages
  <2>2. DOMAIN entries \subseteq DOMAIN entries' /\ DOMAIN entries' \subseteq DOMAIN entries \cup {c}
    BY DEF With
  <2>3. QED BY <2>1, <2>2 DEF CatalogTypeOK
<1>2. StageInv'
  <2>1. \A d \in Commands \ {c} : stage'[d] = stage[d] /\ outcome'[d] = outcome[d]
    BY DEF CatalogTypeOK
  <2>2. stage'[c] = "ended"
    BY DEF StageInv, CatalogTypeOK
  <2>3. QED BY <2>1, <2>2, StageMoves
<1>3. RepoInv'
  <2>1. \A d \in Commands : HasRepo(d)' = HasRepo(d) /\ Op(d)' = Op(d)
    BY DEF HasRepo, Place, Op
  <2>2. /\ \A d \in Commands \ {c} : stage'[d] = stage[d] /\ outcome'[d] = outcome[d]
        /\ stage[c] = "checked"
    BY DEF CatalogTypeOK
  <2>3. QED BY <2>1, <2>2 DEF RepoInv
<1>4. RowsInv'
  BY DEF RowsInv, StageInv, CatalogTypeOK, Op, ByRequest, ByCommand
<1>5. NamesInv'
  <2>1. CASE NameTaken(Place(c))
    BY <2>1 DEF NamesInv
  <2>2. CASE ~NameTaken(Place(c))
    <3>1. entries' = With(entries, c)
      BY <2>2
    <3>2. \A r \in DOMAIN entries : BaseName[entries[r]] # BaseName[Place(c)]
      BY <2>2
    <3>3. QED BY <3>1, <3>2 DEF With, NamesInv
  <2>3. QED BY <2>1, <2>2
<1>6. ChosenInv'
  BY DEF ChosenInv, CatalogTypeOK
<1>7. QED BY <1>1, <1>2, <1>3, <1>4, <1>5, <1>6

LEMMA CommandFailsStep ==
  ASSUME CatalogInv, NEW c \in Commands, CommandFails(c)
  PROVE  CatalogInv'
<1> USE DEF CatalogInv, CommandFails, Goto, End
<1>1. CatalogTypeOK'
  BY DEF CatalogTypeOK, Stages, Doings, Place
<1>2. StageInv'
  <2>1. \A d \in Commands \ {c} : stage'[d] = stage[d] /\ outcome'[d] = outcome[d]
    BY DEF CatalogTypeOK
  <2>2. stage'[c] = "ended"
    BY DEF StageInv, CatalogTypeOK
  <2>3. QED BY <2>1, <2>2, StageMoves
<1>3. RepoInv'
  BY DEF RepoInv, StageInv, CatalogTypeOK, HasRepo, Op, Place, MakesOrFindsRepo, Doings
<1>4. RowsInv'
  BY DEF RowsInv, StageInv, CatalogTypeOK, Op, ByRequest, ByCommand
<1>5. NamesInv'
  BY DEF NamesInv
<1>6. ChosenInv'
  BY DEF ChosenInv, CatalogTypeOK
<1>7. QED BY <1>1, <1>2, <1>3, <1>4, <1>5, <1>6

LEMMA InsertStep ==
  ASSUME CatalogInv, NEW c \in Commands, Insert(c)
  PROVE  CatalogInv'
<1> USE DEF CatalogInv, Insert, Goto, End
<1>1. CatalogTypeOK'
  <2>1. stage' \in [Commands -> Stages] /\ outcome' \in [Commands -> {"none", "ok", "error"}]
    BY DEF CatalogTypeOK, Stages
  <2>2. DOMAIN repoRows' \subseteq DOMAIN repoRows \cup {c}
    BY DEF With
  <2>3. QED BY <2>1, <2>2 DEF CatalogTypeOK
<1>2. StageInv'
  <2>1. \A d \in Commands \ {c} : stage'[d] = stage[d] /\ outcome'[d] = outcome[d]
    BY DEF CatalogTypeOK
  <2>2. stage'[c] = "ended"
    BY DEF StageInv, CatalogTypeOK
  <2>3. QED BY <2>1, <2>2, StageMoves
<1>3. RepoInv'
  <2>1. \A d \in Commands : HasRepo(d)' = HasRepo(d) /\ Op(d)' = Op(d)
    BY DEF HasRepo, Place, Op
  <2>2. \A d \in Commands \ {c} : stage'[d] = stage[d] /\ outcome'[d] = outcome[d]
    BY DEF CatalogTypeOK
  <2>3. (stage'[c] = "checked" \/ outcome'[c] = "ok") /\ Op(c) \in MakesOrFindsRepo => HasRepo(c)
    BY DEF RepoInv, StageInv, CatalogTypeOK, HasRepo, MakesOrFindsRepo
  <2>4. QED BY <2>1, <2>2, <2>3 DEF RepoInv
<1>4. RowsInv'
  <2>1. DOMAIN repoRows \subseteq DOMAIN repoRows'
    BY DEF With
  <2>2. outcome'[c] = "ok" => c \in DOMAIN repoRows'
    BY DEF With, CatalogTypeOK
  <2>3. announced' \subseteq DOMAIN repoRows'
    BY DEF With, RowsInv
  <2>4. \A d \in Commands \ {c} : outcome'[d] = outcome[d] /\ Op(d)' = Op(d)
    BY DEF Op, CatalogTypeOK
  <2>5. QED BY <2>1, <2>2, <2>3, <2>4 DEF RowsInv
<1>5. NamesInv'
  BY DEF NamesInv
<1>6. ChosenInv'
  BY DEF ChosenInv, CatalogTypeOK
<1>7. QED BY <1>1, <1>2, <1>3, <1>4, <1>5, <1>6

LEMMA LookUpStep ==
  ASSUME CatalogInv, NEW c \in Commands, LookUp(c)
  PROVE  CatalogInv'
<1> USE DEF CatalogInv, LookUp, Goto, End
<1>1. CatalogTypeOK'
  BY DEF CatalogTypeOK, Stages, Doings, Place
<1>2. StageInv'
  <2>1. \A d \in Commands \ {c} : stage'[d] = stage[d] /\ outcome'[d] = outcome[d]
    BY DEF CatalogTypeOK
  <2>2. \/ stage'[c] = "ended"
        \/ /\ outcome'[c] = "none" /\ stage'[c] = "found"
           /\ Op(c) \in {"remove", "set-default"}
    BY DEF StageInv, CatalogTypeOK
  <2>3. QED BY <2>1, <2>2, StageMoves
<1>3. RepoInv'
  BY DEF RepoInv, StageInv, CatalogTypeOK, HasRepo, Op, Place, MakesOrFindsRepo, Doings
<1>4. RowsInv'
  BY DEF RowsInv, StageInv, CatalogTypeOK, Op, ByRequest, ByCommand
<1>5. NamesInv'
  BY DEF NamesInv
<1>6. ChosenInv'
  BY DEF ChosenInv, CatalogTypeOK
<1>7. QED BY <1>1, <1>2, <1>3, <1>4, <1>5, <1>6

LEMMA ActStep ==
  ASSUME CatalogInv, NEW c \in Commands, Act(c)
  PROVE  CatalogInv'
<1> USE DEF CatalogInv, Act, Goto, End
<1>1. CatalogTypeOK'
  <2>1. stage' \in [Commands -> Stages] /\ outcome' \in [Commands -> {"none", "ok", "error"}]
    BY DEF CatalogTypeOK, Stages
  <2>2. DOMAIN entries' \subseteq DOMAIN entries
    OBVIOUS
  <2>3. default' \in DOMAIN entries' \cup {NoRepo}
    BY DEF CatalogTypeOK
  <2>4. QED BY <2>1, <2>2, <2>3 DEF CatalogTypeOK
<1>2. StageInv'
  <2>1. \A d \in Commands \ {c} : stage'[d] = stage[d] /\ outcome'[d] = outcome[d]
    BY DEF CatalogTypeOK
  <2>2. stage'[c] = "ended"
    BY DEF StageInv, CatalogTypeOK
  <2>3. QED BY <2>1, <2>2, StageMoves
<1>3. RepoInv'
  <2>1. \A d \in Commands : HasRepo(d)' = HasRepo(d) /\ Op(d)' = Op(d)
    BY DEF HasRepo, Place, Op
  <2>2. \A d \in Commands \ {c} : stage'[d] = stage[d] /\ outcome'[d] = outcome[d]
    BY DEF CatalogTypeOK
  <2>3. Op(c) \notin MakesOrFindsRepo
    BY DEF StageInv, MakesOrFindsRepo
  <2>4. QED BY <2>1, <2>2, <2>3 DEF RepoInv
<1>4. RowsInv'
  <2>1. \A d \in Commands \ {c} : outcome'[d] = outcome[d]
    BY DEF CatalogTypeOK
  <2>2. Op(c) \notin ByRequest
    BY DEF StageInv, ByRequest
  <2>3. QED BY <2>1, <2>2 DEF RowsInv, Op
<1>5. NamesInv'
  BY DEF NamesInv
<1>6. ChosenInv'
  BY DEF ChosenInv, CatalogTypeOK
<1>7. QED BY <1>1, <1>2, <1>3, <1>4, <1>5, <1>6

LEMMA CatalogStutterStep ==
  ASSUME CatalogInv, UNCHANGED catalogVars
  PROVE  CatalogInv'
BY DEF catalogVars, CatalogInv, CatalogTypeOK, StageInv, RepoInv, RowsInv, NamesInv,
       ChosenInv,
     HasRepo, Op, Place

\* The invariant is kept by every step.
LEMMA StepCatalogInv == CatalogInv /\ [CatalogNext]_catalogVars => CatalogInv'
<1> SUFFICES ASSUME CatalogInv, [CatalogNext]_catalogVars PROVE CatalogInv'
  OBVIOUS
<1>1. CASE UNCHANGED catalogVars
  BY <1>1, CatalogStutterStep
<1>2. CASE CatalogNext
  BY <1>2, CheckStep, MakeDirStep, GitInitStep, GitInitFailsStep, LookForMarkStep, MakeMarkStep,
     AddStep, CommandFailsStep, InsertStep, LookUpStep, ActStep DEF CatalogNext
<1>3. QED BY <1>1, <1>2

\* The inductive invariant holds always.
THEOREM CatalogInductive == CatalogSpec => []CatalogInv
BY InitCatalogInv, StepCatalogInv, PTL DEF CatalogSpec

\* However many commands and requests create, register and remove at the same places:
\* who is told that a repository was created or registered has one, listed where it
\* asked for, under a name of its own.
THEOREM Registered == CatalogSpec => []RegisteredIsThere
<1>1. CatalogInv => RegisteredIsThere
  BY DEF CatalogInv, RepoInv, HasRepo, RowsInv, NamesInv, RegisteredIsThere
<1>2. QED BY <1>1, CatalogInductive, PTL

\* A command that takes a name removes, or makes the default, a repository that was
\* there when it looked the name up, whoever has the name by then.
THEOREM ActsOnShown == CatalogSpec => []ActsOnWhatItShowed
<1>1. CatalogInv => ActsOnWhatItShowed
  BY DEF CatalogInv, ChosenInv, ActsOnWhatItShowed
<1>2. QED BY <1>1, CatalogInductive, PTL

-----------------------------------------------------------------------------
(***************************************************************************)
(* The stores of secrets lose nothing, for every number of processes, keys *)
(* and passphrases, as long as no two processes have secrets.age open at   *)
(* one time.  The inductive invariant says of the map that a process holds *)
(* how it may differ from the file, also after it was closed and also      *)
(* before there is a file.                                                 *)
(***************************************************************************)

SecretsSpec == SecretsInit /\ [][SecretsNext]_secretVars

\* One process has the file open, with the passphrase it will write with.
OpenInv ==
  /\ ~mixed /\ Tier = "age" => \A p, q \in unlocked : p = q
  /\ Tier = "age" => \A p \in unlocked : phraseHeld[p] \in Phrases

\* The change that is being written is in the map of its process already.
PuttingInv ==
  \A p \in Holders : putting[p] # Resting =>
    /\ p \in unlocked /\ putting[p].key \in SecretKeys
    /\ cached[p][putting[p].key] = putting[p].value

\* As long as there is no file, every map, of an open store or of a closed one, has
\* only what somebody tried to store.
NoVaultInv ==
  Tier = "age" /\ vault.by = NoSecret =>
    /\ vault.held = Blank
    /\ \A p \in Holders, k \in SecretKeys : cached[p][k] \in {NoSecret} \cup tried[k]

SecretsInv == SecretsTypeOK /\ OpenInv /\ PuttingInv /\ NoVaultInv /\ SecretsKept

LEMMA BlankIsFine == Blank \in Secrets
BY DEF Blank, Secrets

\* What a process may open the file with.
LEMMA PassphrasesAre ==
  ASSUME SecretsTypeOK, NEW p \in Holders
  PROVE  Passphrases(p) \subseteq Phrases
BY DEF Passphrases, SecretsTypeOK, Sources

LEMMA InitSecretsInv == SecretsInit => SecretsInv
<1> SUFFICES ASSUME SecretsInit PROVE SecretsInv
  OBVIOUS
<1> USE DEF SecretsInit
<1>1. SecretsTypeOK
  <2>1. vault \in [by : Phrases \cup {NoSecret}, held : Secrets]
    BY BlankIsFine DEF NoVault
  <2>2. putting \in [Holders -> [key : SecretKeys \cup {NoSecret},
                                value : SecretValues \cup {NoSecret}]]
    BY DEF Resting
  <2>3. QED BY <2>1, <2>2, BlankIsFine DEF SecretsTypeOK
<1>2. OpenInv /\ PuttingInv
  BY DEF OpenInv, PuttingInv
<1>3. NoVaultInv
  BY DEF NoVaultInv, NoVault, Blank
<1>4. SecretsKept
  BY DEF SecretsKept, Stored, NoVault
<1>5. QED BY <1>1, <1>2, <1>3, <1>4 DEF SecretsInv

-----------------------------------------------------------------------------
(* One lemma per action. *)

LEMMA OpenVaultStep ==
  ASSUME SecretsInv, NEW p \in Holders, OpenVault(p)
  PROVE  SecretsInv'
<1> USE DEF SecretsInv, OpenVault
<1>1. PICK phrase \in Phrases : Readable(phrase) /\ phraseHeld' = [phraseHeld EXCEPT ![p] = phrase]
  BY PassphrasesAre
<1>2. SecretsTypeOK'
  BY <1>1 DEF SecretsTypeOK
<1>3. OpenInv'
  <2>1. ~mixed' => unlocked' = {p}
    OBVIOUS
  <2>2. Tier' = "age" => Tier = "age"
    BY DEF Tier
  <2>3. Tier = "age" => \A q \in unlocked' : phraseHeld'[q] \in Phrases
    BY <1>1 DEF OpenInv, SecretsTypeOK
  <2>4. QED BY <2>1, <2>2, <2>3 DEF OpenInv
<1>4. PuttingInv'
  BY DEF PuttingInv, SecretsTypeOK
<1>5. NoVaultInv'
  BY DEF NoVaultInv, Tier, SecretsTypeOK
<1>6. SecretsKept'
  <2> SUFFICES ASSUME ~mixed' PROVE SecretsKept'
    BY DEF SecretsKept
  <2>1. ~mixed /\ unlocked' = {p} /\ Tier = "age" /\ Tier' = "age"
    BY DEF Tier
  <2>2. \A k \in SecretKeys : Stored'[k] \in {acked'[k]} \cup tried'[k]
    BY <2>1 DEF Stored, SecretsKept
  <2>3. ASSUME NEW k \in SecretKeys PROVE cached'[p][k] \in {vault'.held[k]} \cup tried'[k]
    BY <2>3 DEF NoVaultInv, Blank, SecretsTypeOK
  <2>4. QED BY <2>1, <2>2, <2>3 DEF SecretsKept
<1>7. QED BY <1>2, <1>3, <1>4, <1>5, <1>6

LEMMA OpenEnvStep ==
  ASSUME SecretsInv, NEW p \in Holders, OpenEnv(p)
  PROVE  SecretsInv'
<1> USE DEF SecretsInv, OpenEnv
<1>1. SecretsTypeOK'
  BY DEF SecretsTypeOK
<1>2. OpenInv'
  BY DEF OpenInv, Tier, SecretsTypeOK
<1>3. PuttingInv'
  BY DEF PuttingInv, SecretsTypeOK
<1>4. NoVaultInv'
  BY DEF NoVaultInv, Tier, SecretsTypeOK
<1>5. SecretsKept'
  BY DEF SecretsKept, Stored, Tier, OpenInv, PuttingInv, NoVaultInv, SecretsTypeOK
<1>6. QED BY <1>1, <1>2, <1>3, <1>4, <1>5

LEMMA CloseVaultStep ==
  ASSUME SecretsInv, NEW p \in Holders, CloseVault(p)
  PROVE  SecretsInv'
<1> USE DEF SecretsInv, CloseVault
<1>1. SecretsTypeOK'
  BY DEF SecretsTypeOK
<1>2. OpenInv'
  BY DEF OpenInv, Tier, SecretsTypeOK
<1>3. PuttingInv'
  BY DEF PuttingInv, SecretsTypeOK
<1>4. NoVaultInv'
  BY DEF NoVaultInv, Tier, SecretsTypeOK
<1>5. SecretsKept'
  BY DEF SecretsKept, Stored, Tier, OpenInv, PuttingInv, NoVaultInv, SecretsTypeOK
<1>6. QED BY <1>1, <1>2, <1>3, <1>4, <1>5

LEMMA PutSecretStep ==
  ASSUME SecretsInv, NEW p \in Holders, NEW k \in SecretKeys, NEW v \in SecretValues, PutSecret(p, k, v)
  PROVE  SecretsInv'
<1> USE DEF SecretsInv, PutSecret, Begin, Secrets, Resting
<1>1. SecretsTypeOK'
  BY NoSecretAssumption DEF SecretsTypeOK
<1>2. OpenInv'
  BY NoSecretAssumption DEF OpenInv, Tier, SecretsTypeOK
<1>3. PuttingInv'
  BY NoSecretAssumption DEF PuttingInv, SecretsTypeOK
<1>4. NoVaultInv'
  BY NoSecretAssumption DEF NoVaultInv, Tier, SecretsTypeOK
<1>5. SecretsKept'
  BY NoSecretAssumption
     DEF SecretsKept, Stored, Tier, OpenInv, PuttingInv, NoVaultInv, SecretsTypeOK
<1>6. QED BY <1>1, <1>2, <1>3, <1>4, <1>5

LEMMA DeleteSecretStep ==
  ASSUME SecretsInv, NEW p \in Holders, NEW k \in SecretKeys, DeleteSecret(p, k)
  PROVE  SecretsInv'
<1> USE DEF SecretsInv, DeleteSecret, Begin, Secrets, Resting
<1>1. SecretsTypeOK'
  BY NoSecretAssumption DEF SecretsTypeOK
<1>2. OpenInv'
  BY NoSecretAssumption DEF OpenInv, Tier, SecretsTypeOK
<1>3. PuttingInv'
  BY NoSecretAssumption DEF PuttingInv, SecretsTypeOK
<1>4. NoVaultInv'
  BY NoSecretAssumption DEF NoVaultInv, Tier, SecretsTypeOK
<1>5. SecretsKept'
  BY NoSecretAssumption
     DEF SecretsKept, Stored, Tier, OpenInv, PuttingInv, NoVaultInv, SecretsTypeOK
<1>6. QED BY <1>1, <1>2, <1>3, <1>4, <1>5

LEMMA RenameVaultStep ==
  ASSUME SecretsInv, NEW p \in Holders, RenameVault(p)
  PROVE  SecretsInv'
<1> USE DEF SecretsInv, RenameVault
<1>1. /\ p \in unlocked /\ putting[p].key \in SecretKeys
      /\ cached[p][putting[p].key] = putting[p].value
  BY DEF PuttingInv
<1>2. phraseHeld[p] \in Phrases /\ cached[p] \in Secrets
  BY <1>1 DEF OpenInv, SecretsTypeOK
<1>3. SecretsTypeOK'
  <2>1. vault' \in [by : Phrases \cup {NoSecret}, held : Secrets]
    BY <1>2
  <2>2. acked' \in Secrets
    BY <1>1 DEF SecretsTypeOK, Secrets
  <2>3. tried' \in [SecretKeys -> SUBSET (SecretValues \cup {NoSecret})]
    BY DEF SecretsTypeOK
  <2>4. putting' \in [Holders -> [key : SecretKeys \cup {NoSecret},
                                 value : SecretValues \cup {NoSecret}]]
    BY DEF SecretsTypeOK, Resting
  <2>5. QED BY <2>1, <2>2, <2>3, <2>4 DEF SecretsTypeOK
<1>4. OpenInv'
  BY DEF OpenInv, Tier, SecretsTypeOK
<1>5. PuttingInv'
  BY DEF PuttingInv, SecretsTypeOK
<1>6. NoVaultInv'
  BY <1>2, NoSecretAssumption DEF NoVaultInv, Tier
<1>7. SecretsKept'
  <2> SUFFICES ASSUME ~mixed' PROVE SecretsKept'
    BY DEF SecretsKept
  <2>1. Tier = "age" /\ Tier' = "age" /\ unlocked' = {p}
    BY <1>1 DEF Tier, OpenInv
  <2>2. ASSUME NEW k \in SecretKeys PROVE cached[p][k] \in {acked'[k]} \cup tried'[k]
    BY <1>1, <2>1, <2>2 DEF SecretsKept, Stored, SecretsTypeOK, Secrets
  <2>3. QED BY <2>1, <2>2 DEF SecretsKept, Stored
<1>8. QED BY <1>3, <1>4, <1>5, <1>6, <1>7

LEMMA WriteVaultFailsStep ==
  ASSUME SecretsInv, NEW p \in Holders, WriteVaultFails(p)
  PROVE  SecretsInv'
<1> USE DEF SecretsInv, WriteVaultFails, Resting
<1>1. SecretsTypeOK'
  BY DEF SecretsTypeOK
<1>2. OpenInv'
  BY DEF OpenInv, Tier, SecretsTypeOK
<1>3. PuttingInv'
  BY DEF PuttingInv, SecretsTypeOK
<1>4. NoVaultInv'
  BY DEF NoVaultInv, Tier, SecretsTypeOK
<1>5. SecretsKept'
  BY DEF SecretsKept, Stored, Tier, OpenInv, PuttingInv, NoVaultInv, SecretsTypeOK
<1>6. QED BY <1>1, <1>2, <1>3, <1>4, <1>5

LEMMA RingChangeStep ==
  ASSUME SecretsInv, NEW k \in SecretKeys, NEW v \in SecretValues \cup {NoSecret},
         NEW p \in Holders, RingChange(p, k, v)
  PROVE  SecretsInv'
<1> USE DEF SecretsInv, RingChange
<1>1. SecretsTypeOK'
  <2>1. ring \in Secrets /\ acked \in Secrets
    BY DEF SecretsTypeOK
  <2>2. [ring EXCEPT ![k] = v] \in Secrets /\ [acked EXCEPT ![k] = v] \in Secrets
    BY <2>1 DEF Secrets
  <2>3. tried' \in [SecretKeys -> SUBSET (SecretValues \cup {NoSecret})]
    BY DEF SecretsTypeOK
  <2>4. QED BY <2>1, <2>2, <2>3 DEF SecretsTypeOK
<1>2. OpenInv' /\ PuttingInv'
  BY DEF OpenInv, PuttingInv, Tier
<1>3. NoVaultInv'
  BY DEF NoVaultInv, Tier
<1>4. SecretsKept'
  <2>1. /\ Tier' = Tier /\ Tier = "keychain"
        /\ UNCHANGED <<mixed, unlocked, cached, vault>>
        /\ ring \in Secrets /\ acked \in Secrets
        /\ tried \in [SecretKeys -> SUBSET (SecretValues \cup {NoSecret})]
    BY DEF Tier, SecretsTypeOK
  <2>2. CASE /\ ring' = [ring EXCEPT ![k] = v] /\ acked' = [acked EXCEPT ![k] = v]
             /\ tried' = [tried EXCEPT ![k] = {}]
    BY <2>1, <2>2 DEF SecretsKept, Stored, Secrets
  <2>3. CASE tried' = [tried EXCEPT ![k] = @ \cup {v}] /\ UNCHANGED << ring, acked >>
    BY <2>1, <2>3 DEF SecretsKept, Stored, Secrets
  <2>4. QED BY <2>2, <2>3
<1>5. QED BY <1>1, <1>2, <1>3, <1>4

LEMMA StartProbeStep ==
  ASSUME SecretsInv, NEW p \in Holders, StartProbe(p)
  PROVE  SecretsInv'
<1> USE DEF SecretsInv, StartProbe
<1>1. SecretsTypeOK'
  BY DEF SecretsTypeOK
<1>2. OpenInv'
  BY DEF OpenInv, Tier, SecretsTypeOK
<1>3. PuttingInv'
  BY DEF PuttingInv, SecretsTypeOK
<1>4. NoVaultInv'
  BY DEF NoVaultInv, Tier, SecretsTypeOK
<1>5. SecretsKept'
  BY DEF SecretsKept, Stored, Tier, OpenInv, PuttingInv, NoVaultInv, SecretsTypeOK
<1>6. QED BY <1>1, <1>2, <1>3, <1>4, <1>5

LEMMA EndProbeStep ==
  ASSUME SecretsInv, NEW p \in Holders, EndProbe(p)
  PROVE  SecretsInv'
<1> USE DEF SecretsInv, EndProbe
<1>1. SecretsTypeOK'
  BY DEF SecretsTypeOK
<1>2. OpenInv'
  BY DEF OpenInv, Tier, SecretsTypeOK
<1>3. PuttingInv'
  BY DEF PuttingInv, SecretsTypeOK
<1>4. NoVaultInv'
  BY DEF NoVaultInv, Tier, SecretsTypeOK
<1>5. SecretsKept'
  BY DEF SecretsKept, Stored, Tier, OpenInv, PuttingInv, NoVaultInv, SecretsTypeOK
<1>6. QED BY <1>1, <1>2, <1>3, <1>4, <1>5

LEMMA KillHolderStep ==
  ASSUME SecretsInv, NEW p \in Holders, KillHolder(p)
  PROVE  SecretsInv'
<1> USE DEF SecretsInv, KillHolder, Resting, Blank, Secrets
<1>1. SecretsTypeOK'
  BY BlankIsFine DEF SecretsTypeOK
<1>2. OpenInv'
  BY BlankIsFine DEF OpenInv, Tier, SecretsTypeOK
<1>3. PuttingInv'
  BY BlankIsFine DEF PuttingInv, SecretsTypeOK
<1>4. NoVaultInv'
  BY BlankIsFine DEF NoVaultInv, Tier, SecretsTypeOK
<1>5. SecretsKept'
  BY BlankIsFine
     DEF SecretsKept, Stored, Tier, OpenInv, PuttingInv, NoVaultInv, SecretsTypeOK
<1>6. QED BY <1>1, <1>2, <1>3, <1>4, <1>5

LEMMA SecretsStutterStep ==
  ASSUME SecretsInv, UNCHANGED secretVars
  PROVE  SecretsInv'
BY DEF secretVars, SecretsInv, SecretsTypeOK, OpenInv, PuttingInv, NoVaultInv, SecretsKept,
     Stored, Tier

\* The invariant is kept by every step.
LEMMA StepSecretsInv == SecretsInv /\ [SecretsNext]_secretVars => SecretsInv'
<1> SUFFICES ASSUME SecretsInv, [SecretsNext]_secretVars PROVE SecretsInv'
  OBVIOUS
<1>1. CASE UNCHANGED secretVars
  BY <1>1, SecretsStutterStep
<1>2. CASE SecretsNext
  BY <1>2, OpenVaultStep, OpenEnvStep, CloseVaultStep, PutSecretStep, DeleteSecretStep,
     RenameVaultStep, WriteVaultFailsStep, RingChangeStep, StartProbeStep, EndProbeStep,
     KillHolderStep DEF SecretsNext
<1>3. QED BY <1>1, <1>2

\* The inductive invariant holds always.
THEOREM SecretsInductive == SecretsSpec => []SecretsInv
BY InitSecretsInv, StepSecretsInv, PTL DEF SecretsSpec

\* For every number of processes, keys, values and passphrases: as long as no two
\* processes have had secrets.age open at one time, a store holds of every key what
\* the last successful change left or what a failed one since wanted, and so does
\* what a process has read of it.
THEOREM NothingIsLost == SecretsSpec => []SecretsKept
<1>1. SecretsInv => SecretsKept
  BY DEF SecretsInv
<1>2. QED BY <1>1, SecretsInductive, PTL

-----------------------------------------------------------------------------
(***************************************************************************)
(* What `vedox server install` and `uninstall` tell is true, whatever      *)
(* binaries there are, however often the manager retries and however many  *)
(* kills, starts by hand and reboots come between two steps.  The          *)
(* inductive invariant says what each step of a command has already done.  *)
(***************************************************************************)

ServiceSpec == ServiceInit /\ [][ServiceNext]_serviceVars

InstallSteps == {"write", "reload", "enable", "bootstrap", "kickstart"}
UninstallSteps == {"stop", "disable", "remove", "forget", "pid"}

\* A command tells nothing before its end, and each manager has steps of its own.
StepsInv ==
  /\ manager \in {"systemd", "launchd"}
  /\ command = NoCommand \/ told = "none"
  /\ command.op = "none" => command = NoCommand
  /\ command.op = "install" => command.at \in InstallSteps /\ command.bin \in Binaries
  /\ command.op = "uninstall" => command.at \in UninstallSteps
  /\ manager = "launchd" =>
       ~enabled /\ command.at \notin {"reload", "enable", "disable", "forget"}
  /\ manager = "systemd" => command.at \notin {"bootstrap", "kickstart"}

\* What the manager runs it has been told of.
RunsInv ==
  daemon = "supervised" => runs # NoUnit

\* An install has written its file, then made it known.
InstallInv ==
  /\ command.op = "install" /\ command.at # "write" => unitFile # NoUnit
  /\ command.op = "install" /\ command.at \in {"enable", "kickstart"} => known = unitFile
  /\ told \in {"installed", "started"} => unitFile # NoUnit
  /\ told \in {"installed", "started"} /\ manager = "systemd" => enabled /\ known = unitFile
  /\ told = "started" => known = unitFile

\* An uninstall that reached the manager has stopped its process and every start that
\* was due, then disabled it, then removed the file, then made that known.
Beyond(steps) == \/ command.op = "uninstall" /\ command.at \notin steps
                 \/ told = "uninstalled"
UninstallInv ==
  ~unreached =>
    /\ Beyond({"stop"}) => daemon # "supervised" /\ retries = -1
    /\ Beyond({"stop", "disable"}) => ~enabled
    /\ Beyond({"stop", "disable", "remove"}) => unitFile = NoUnit
    /\ Beyond({"stop", "disable", "remove", "forget"}) => known = NoUnit
    /\ Beyond({"stop"}) /\ manager = "launchd" => known = NoUnit

ServiceInv == ServiceTypeOK /\ StepsInv /\ RunsInv /\ InstallInv /\ UninstallInv

-----------------------------------------------------------------------------
\* What a command becomes is a command.
LEMMA NoCommandIsFine == NoCommand \in CommandStates
BY DEF NoCommand, CommandStates

LEMMA InstallIsFine ==
  ASSUME NEW auto \in BOOLEAN, NEW force \in BOOLEAN, NEW bin \in Binaries
  PROVE  [op |-> "install", auto |-> auto, force |-> force, bin |-> bin, at |-> "write"]
           \in CommandStates
BY DEF CommandStates

LEMMA StepIsFine ==
  ASSUME command \in CommandStates, NEW s, Step(s),
         s \in InstallSteps \cup UninstallSteps
  PROVE  command' \in CommandStates /\ command'.at = s /\ command'.op = command.op
         /\ command'.bin = command.bin /\ command'.auto = command.auto
BY DEF CommandStates, Step, InstallSteps, UninstallSteps

LEMMA RenderedIsFine ==
  ASSUME command \in CommandStates, command.bin \in Binaries
  PROVE  Rendered(command) \in Units
<1>1. (manager = "launchd" /\ command.auto) \in BOOLEAN
  BY Zenon
<1>2. QED BY <1>1 DEF Rendered, Units

\* The invariant holds at the start.
LEMMA InitServiceInv == ServiceInit => ServiceInv
<1> SUFFICES ASSUME ServiceInit PROVE ServiceInv
  OBVIOUS
<1> USE DEF ServiceInit
<1>1. ServiceTypeOK
  <2>1. retries \in -1..RestartLimit
    BY ServiceAssumption
  <2>2. enabled \in BOOLEAN
    BY Zenon
  <2>3. QED BY <2>1, <2>2, NoCommandIsFine DEF ServiceTypeOK
<1>2. StepsInv /\ RunsInv /\ InstallInv /\ UninstallInv
  BY DEF StepsInv, RunsInv, InstallInv, UninstallInv, Beyond, NoCommand
<1>3. QED BY <1>1, <1>2 DEF ServiceInv

-----------------------------------------------------------------------------
(* One lemma per action. *)

LEMMA InstallStep ==
  ASSUME ServiceInv, NEW auto \in BOOLEAN, NEW force \in BOOLEAN, NEW bin \in Binaries,
         Install(auto, force, bin)
  PROVE  ServiceInv'
<1> USE ServiceAssumption DEF ServiceInv, Install, EndCommand, managerVars
<1>1. ServiceTypeOK'
  BY NoCommandIsFine, InstallIsFine DEF ServiceTypeOK
<1>2. StepsInv' /\ RunsInv'
  BY DEF NoCommand, StepsInv, RunsInv, InstallSteps, UninstallSteps
<1>3. InstallInv' /\ UninstallInv'
  BY DEF NoCommand, StepsInv, InstallInv, UninstallInv, Beyond
<1>4. QED BY <1>1, <1>2, <1>3

LEMMA ManagerRestartsStep == ASSUME ServiceInv, ManagerRestarts PROVE ServiceInv'
<1> USE ServiceAssumption DEF ServiceInv, ManagerRestarts, Launched
<1>1. ServiceTypeOK'
  BY DEF ServiceTypeOK, CommandStates, Units, StepsInv
<1>2. StepsInv' /\ RunsInv'
  BY DEF StepsInv, RunsInv, InstallInv, InstallSteps, UninstallSteps
<1>3. InstallInv'
  BY DEF StepsInv, InstallInv, Units, InstallSteps, UninstallSteps
<1>4. UninstallInv'
  BY DEF StepsInv, UninstallInv, Beyond, InstallSteps, UninstallSteps
<1>5. QED BY <1>1, <1>2, <1>3, <1>4

LEMMA KillDaemonStep == ASSUME ServiceInv, KillDaemon PROVE ServiceInv'
<1> USE ServiceAssumption DEF ServiceInv, KillDaemon, Mishap
<1>1. ServiceTypeOK'
  BY DEF ServiceTypeOK, CommandStates, Units, StepsInv
<1>2. StepsInv' /\ RunsInv'
  BY DEF StepsInv, RunsInv, InstallInv, InstallSteps, UninstallSteps
<1>3. InstallInv'
  BY DEF StepsInv, InstallInv, Units, InstallSteps, UninstallSteps
<1>4. UninstallInv'
  BY DEF StepsInv, UninstallInv, Beyond, InstallSteps, UninstallSteps
<1>5. QED BY <1>1, <1>2, <1>3, <1>4

LEMMA StopDaemonStep == ASSUME ServiceInv, StopDaemon PROVE ServiceInv'
<1> USE ServiceAssumption DEF ServiceInv, StopDaemon
<1>1. ServiceTypeOK'
  BY DEF ServiceTypeOK, CommandStates, Units, StepsInv
<1>2. StepsInv' /\ RunsInv'
  BY DEF StepsInv, RunsInv, InstallInv, InstallSteps, UninstallSteps
<1>3. InstallInv'
  BY DEF StepsInv, InstallInv, Units, InstallSteps, UninstallSteps
<1>4. UninstallInv'
  BY DEF StepsInv, UninstallInv, Beyond, InstallSteps, UninstallSteps
<1>5. QED BY <1>1, <1>2, <1>3, <1>4

LEMMA StartBareStep == ASSUME ServiceInv, StartBare PROVE ServiceInv'
<1> USE ServiceAssumption DEF ServiceInv, StartBare, Mishap
<1>1. ServiceTypeOK'
  BY DEF ServiceTypeOK, CommandStates, Units, StepsInv
<1>2. StepsInv' /\ RunsInv'
  BY DEF StepsInv, RunsInv, InstallInv, InstallSteps, UninstallSteps
<1>3. InstallInv'
  BY DEF StepsInv, InstallInv, Units, InstallSteps, UninstallSteps
<1>4. UninstallInv'
  BY DEF StepsInv, UninstallInv, Beyond, InstallSteps, UninstallSteps
<1>5. QED BY <1>1, <1>2, <1>3, <1>4

LEMMA RebootStep == ASSUME ServiceInv, Reboot PROVE ServiceInv'
<1> USE ServiceAssumption DEF ServiceInv, Reboot, Mishap, NoCommand
<1>1. ServiceTypeOK'
  BY DEF ServiceTypeOK, CommandStates, Units, StepsInv
<1>2. StepsInv' /\ RunsInv'
  BY DEF StepsInv, RunsInv, InstallInv, InstallSteps, UninstallSteps
<1>3. InstallInv'
  BY DEF StepsInv, InstallInv, Units, InstallSteps, UninstallSteps
<1>4. UninstallInv'
  BY DEF StepsInv, UninstallInv, Beyond, InstallSteps, UninstallSteps
<1>5. QED BY <1>1, <1>2, <1>3, <1>4

LEMMA WriteUnitStep == ASSUME ServiceInv, WriteUnit PROVE ServiceInv'
<1> USE ServiceAssumption DEF ServiceInv, WriteUnit, At, EndCommand, managerVars
<1>1. unitFile' \in Units
  BY RenderedIsFine DEF StepsInv, ServiceTypeOK
<1>2. \/ manager = "systemd" /\ Step("reload")
      \/ manager = "launchd" /\ Step("bootstrap")
      \/ manager = "launchd" /\ EndCommand("installed")
  BY DEF StepsInv
<1>3. ServiceTypeOK'
  BY <1>1, <1>2, NoCommandIsFine, StepIsFine DEF ServiceTypeOK, InstallSteps
<1>4. StepsInv' /\ RunsInv'
  BY <1>2, StepIsFine
     DEF Step, StepsInv, RunsInv, ServiceTypeOK, InstallSteps, UninstallSteps, NoCommand
<1>5. InstallInv'
  BY <1>1, <1>2, StepIsFine
     DEF Step, StepsInv, InstallInv, ServiceTypeOK, InstallSteps, NoCommand
<1>6. UninstallInv'
  BY <1>2, StepIsFine
     DEF Step, StepsInv, UninstallInv, ServiceTypeOK, Beyond, InstallSteps, NoCommand
<1>7. QED BY <1>3, <1>4, <1>5, <1>6

LEMMA DaemonReloadStep == ASSUME ServiceInv, DaemonReload PROVE ServiceInv'
<1> USE ServiceAssumption DEF ServiceInv, DaemonReload, At, Step, NoCommand
<1>1. ServiceTypeOK'
  BY DEF ServiceTypeOK, CommandStates, Units, StepsInv
<1>2. StepsInv' /\ RunsInv'
  BY DEF StepsInv, RunsInv, InstallInv, InstallSteps, UninstallSteps
<1>3. InstallInv'
  BY DEF StepsInv, InstallInv, Units, InstallSteps, UninstallSteps
<1>4. UninstallInv'
  BY DEF StepsInv, UninstallInv, Beyond, InstallSteps, UninstallSteps
<1>5. QED BY <1>1, <1>2, <1>3, <1>4

LEMMA EnableStep == ASSUME ServiceInv, Enable PROVE ServiceInv'
<1> USE ServiceAssumption DEF ServiceInv, Enable, Launched, At, EndCommand, NoCommand
<1>1. ServiceTypeOK'
  BY DEF ServiceTypeOK, CommandStates, Units, StepsInv
<1>2. StepsInv' /\ RunsInv'
  BY DEF StepsInv, RunsInv, InstallInv, InstallSteps, UninstallSteps
<1>3. InstallInv'
  BY DEF StepsInv, InstallInv, Units, InstallSteps, UninstallSteps
<1>4. UninstallInv'
  BY DEF StepsInv, UninstallInv, Beyond, InstallSteps, UninstallSteps
<1>5. QED BY <1>1, <1>2, <1>3, <1>4

LEMMA BootstrapStep == ASSUME ServiceInv, Bootstrap PROVE ServiceInv'
<1> USE ServiceAssumption DEF ServiceInv, Bootstrap, Launched, At, Step, NoCommand
<1>1. ServiceTypeOK'
  BY DEF ServiceTypeOK, CommandStates, Units, StepsInv
<1>2. StepsInv' /\ RunsInv'
  BY DEF StepsInv, RunsInv, InstallInv, InstallSteps, UninstallSteps
<1>3. InstallInv'
  BY DEF StepsInv, InstallInv, Units, InstallSteps, UninstallSteps
<1>4. UninstallInv'
  BY DEF StepsInv, UninstallInv, Beyond, InstallSteps, UninstallSteps
<1>5. QED BY <1>1, <1>2, <1>3, <1>4

LEMMA KickstartStep == ASSUME ServiceInv, Kickstart PROVE ServiceInv'
<1> USE ServiceAssumption DEF ServiceInv, Kickstart, Launched, At, EndCommand, NoCommand
<1>1. ServiceTypeOK'
  BY DEF ServiceTypeOK, CommandStates, Units, StepsInv
<1>2. StepsInv' /\ RunsInv'
  BY DEF StepsInv, RunsInv, InstallInv, InstallSteps, UninstallSteps
<1>3. InstallInv'
  BY DEF StepsInv, InstallInv, Units, InstallSteps, UninstallSteps
<1>4. UninstallInv'
  BY DEF StepsInv, UninstallInv, Beyond, InstallSteps, UninstallSteps
<1>5. QED BY <1>1, <1>2, <1>3, <1>4

LEMMA KickstartFailsStep == ASSUME ServiceInv, KickstartFails PROVE ServiceInv'
<1> USE ServiceAssumption DEF ServiceInv, KickstartFails, At, EndCommand, NoCommand,
       managerVars
<1>1. ServiceTypeOK'
  BY DEF ServiceTypeOK, CommandStates, Units, StepsInv
<1>2. StepsInv' /\ RunsInv'
  BY DEF StepsInv, RunsInv, InstallInv, InstallSteps, UninstallSteps
<1>3. InstallInv'
  BY DEF StepsInv, InstallInv, Units, InstallSteps, UninstallSteps
<1>4. UninstallInv'
  BY DEF StepsInv, UninstallInv, Beyond, InstallSteps, UninstallSteps
<1>5. QED BY <1>1, <1>2, <1>3, <1>4

LEMMA InstallFailsStep == ASSUME ServiceInv, InstallFails PROVE ServiceInv'
<1> USE ServiceAssumption DEF ServiceInv, InstallFails, EndCommand, NoCommand, managerVars
<1>1. ServiceTypeOK'
  BY DEF ServiceTypeOK, CommandStates, Units, StepsInv
<1>2. StepsInv' /\ RunsInv'
  BY DEF StepsInv, RunsInv, InstallInv, InstallSteps, UninstallSteps
<1>3. InstallInv'
  BY DEF StepsInv, InstallInv, Units, InstallSteps, UninstallSteps
<1>4. UninstallInv'
  BY DEF StepsInv, UninstallInv, Beyond, InstallSteps, UninstallSteps
<1>5. QED BY <1>1, <1>2, <1>3, <1>4

LEMMA UninstallStep == ASSUME ServiceInv, Uninstall PROVE ServiceInv'
<1> USE ServiceAssumption DEF ServiceInv, Uninstall, NoCommand, managerVars
<1>1. ServiceTypeOK'
  BY DEF ServiceTypeOK, CommandStates, Units, StepsInv
<1>2. StepsInv' /\ RunsInv'
  BY DEF StepsInv, RunsInv, InstallInv, InstallSteps, UninstallSteps
<1>3. InstallInv'
  BY DEF StepsInv, InstallInv, Units, InstallSteps, UninstallSteps
<1>4. UninstallInv'
  BY DEF StepsInv, UninstallInv, Beyond, InstallSteps, UninstallSteps
<1>5. QED BY <1>1, <1>2, <1>3, <1>4

LEMMA StopServiceStep == ASSUME ServiceInv, StopService PROVE ServiceInv'
<1> USE ServiceAssumption DEF ServiceInv, StopService, Ended, At, Step, NoCommand
<1>1. ServiceTypeOK'
  BY DEF ServiceTypeOK, CommandStates, Units, StepsInv
<1>2. StepsInv' /\ RunsInv'
  BY DEF StepsInv, RunsInv, InstallInv, InstallSteps, UninstallSteps
<1>3. InstallInv'
  BY DEF StepsInv, InstallInv, Units, InstallSteps, UninstallSteps
<1>4. UninstallInv'
  BY DEF StepsInv, UninstallInv, Beyond, InstallSteps, UninstallSteps
<1>5. QED BY <1>1, <1>2, <1>3, <1>4

LEMMA DisableStep == ASSUME ServiceInv, Disable PROVE ServiceInv'
<1> USE ServiceAssumption DEF ServiceInv, Disable, At, Step, NoCommand
<1>1. ServiceTypeOK'
  BY DEF ServiceTypeOK, CommandStates, Units, StepsInv
<1>2. StepsInv' /\ RunsInv'
  BY DEF StepsInv, RunsInv, InstallInv, InstallSteps, UninstallSteps
<1>3. InstallInv'
  BY DEF StepsInv, InstallInv, Units, InstallSteps, UninstallSteps
<1>4. UninstallInv'
  BY DEF StepsInv, UninstallInv, Beyond, InstallSteps, UninstallSteps
<1>5. QED BY <1>1, <1>2, <1>3, <1>4

LEMMA BootoutStep == ASSUME ServiceInv, Bootout PROVE ServiceInv'
<1> USE ServiceAssumption DEF ServiceInv, Bootout, Ended, At, Step, NoCommand
<1>1. ServiceTypeOK'
  BY DEF ServiceTypeOK, CommandStates, Units, StepsInv
<1>2. StepsInv' /\ RunsInv'
  BY DEF StepsInv, RunsInv, InstallInv, InstallSteps, UninstallSteps
<1>3. InstallInv'
  BY DEF StepsInv, InstallInv, Units, InstallSteps, UninstallSteps
<1>4. UninstallInv'
  BY DEF StepsInv, UninstallInv, Beyond, InstallSteps, UninstallSteps
<1>5. QED BY <1>1, <1>2, <1>3, <1>4

LEMMA RemoveUnitStep == ASSUME ServiceInv, RemoveUnit PROVE ServiceInv'
<1> USE ServiceAssumption DEF ServiceInv, RemoveUnit, At, EndCommand, managerVars
<1>1. \/ manager = "systemd" /\ Step("forget") /\ unitFile' = NoUnit
      \/ manager = "launchd" /\ Step("pid") /\ unitFile' = NoUnit
      \/ EndCommand("error") /\ unitFile' = unitFile
  BY DEF StepsInv
<1>2. ServiceTypeOK'
  BY <1>1, NoCommandIsFine, StepIsFine DEF ServiceTypeOK, UninstallSteps
<1>3. StepsInv' /\ RunsInv'
  BY <1>1, StepIsFine
     DEF Step, StepsInv, RunsInv, ServiceTypeOK, InstallSteps, UninstallSteps, NoCommand
<1>4. InstallInv'
  BY <1>1, StepIsFine
     DEF Step, StepsInv, InstallInv, ServiceTypeOK, UninstallSteps, NoCommand
<1>5. UninstallInv'
  BY <1>1, StepIsFine
     DEF Step, StepsInv, UninstallInv, ServiceTypeOK, Beyond, UninstallSteps, NoCommand
<1>6. QED BY <1>2, <1>3, <1>4, <1>5

LEMMA ForgetUnitStep == ASSUME ServiceInv, ForgetUnit PROVE ServiceInv'
<1> USE ServiceAssumption DEF ServiceInv, ForgetUnit, At, Step, NoCommand
<1>1. ServiceTypeOK'
  BY DEF ServiceTypeOK, CommandStates, Units, StepsInv
<1>2. StepsInv' /\ RunsInv'
  BY DEF StepsInv, RunsInv, InstallInv, InstallSteps, UninstallSteps
<1>3. InstallInv'
  BY DEF StepsInv, InstallInv, Units, InstallSteps, UninstallSteps
<1>4. UninstallInv'
  BY DEF StepsInv, UninstallInv, Beyond, InstallSteps, UninstallSteps
<1>5. QED BY <1>1, <1>2, <1>3, <1>4

LEMMA UninstallWarnsStep == ASSUME ServiceInv, UninstallWarns PROVE ServiceInv'
<1> USE ServiceAssumption DEF ServiceInv, UninstallWarns, Step, NoCommand, managerVars
<1>1. ServiceTypeOK'
  BY DEF ServiceTypeOK, CommandStates, Units, StepsInv
<1>2. StepsInv' /\ RunsInv'
  BY DEF StepsInv, RunsInv, InstallInv, InstallSteps, UninstallSteps
<1>3. InstallInv'
  BY DEF StepsInv, InstallInv, Units, InstallSteps, UninstallSteps
<1>4. UninstallInv'
  BY DEF StepsInv, UninstallInv, Beyond, InstallSteps, UninstallSteps
<1>5. QED BY <1>1, <1>2, <1>3, <1>4

LEMMA RemovePidStep == ASSUME ServiceInv, RemovePid PROVE ServiceInv'
<1> USE ServiceAssumption DEF ServiceInv, RemovePid, At, EndCommand, NoCommand, managerVars
<1>1. ServiceTypeOK'
  BY DEF ServiceTypeOK, CommandStates, Units, StepsInv
<1>2. StepsInv' /\ RunsInv'
  BY DEF StepsInv, RunsInv, InstallInv, InstallSteps, UninstallSteps
<1>3. InstallInv'
  BY DEF StepsInv, InstallInv, Units, InstallSteps, UninstallSteps
<1>4. UninstallInv'
  BY DEF StepsInv, UninstallInv, Beyond, InstallSteps, UninstallSteps
<1>5. QED BY <1>1, <1>2, <1>3, <1>4
LEMMA ServiceStutterStep == ASSUME ServiceInv, UNCHANGED serviceVars PROVE ServiceInv'
BY DEF serviceVars, ServiceInv, ServiceTypeOK, StepsInv, RunsInv, InstallInv, UninstallInv,
     Beyond

\* The invariant is kept by every step.
LEMMA StepServiceInv == ServiceInv /\ [ServiceNext]_serviceVars => ServiceInv'
<1> SUFFICES ASSUME ServiceInv, [ServiceNext]_serviceVars PROVE ServiceInv'
  OBVIOUS
<1>1. CASE \E auto, force \in BOOLEAN, bin \in Binaries : Install(auto, force, bin)
  BY <1>1, InstallStep
<1>2. CASE WriteUnit \/ DaemonReload \/ Enable \/ Bootstrap \/ Kickstart \/ KickstartFails
           \/ InstallFails
  BY <1>2, WriteUnitStep, DaemonReloadStep, EnableStep, BootstrapStep, KickstartStep,
     KickstartFailsStep, InstallFailsStep
<1>3. CASE Uninstall \/ StopService \/ Disable \/ Bootout \/ RemoveUnit \/ ForgetUnit
           \/ UninstallWarns \/ RemovePid
  BY <1>3, UninstallStep, StopServiceStep, DisableStep, BootoutStep, RemoveUnitStep,
     ForgetUnitStep, UninstallWarnsStep, RemovePidStep
<1>4. CASE ManagerRestarts \/ KillDaemon \/ StopDaemon \/ StartBare \/ Reboot
  BY <1>4, ManagerRestartsStep, KillDaemonStep, StopDaemonStep, StartBareStep, RebootStep
<1>5. CASE UNCHANGED serviceVars
  BY <1>5, ServiceStutterStep
<1>6. QED BY <1>1, <1>2, <1>3, <1>4, <1>5 DEF ServiceNext

\* The inductive invariant holds always.
THEOREM ServiceInductive == ServiceSpec => []ServiceInv
BY InitServiceInv, StepServiceInv, PTL DEF ServiceSpec

\* Whatever binaries there are, however often the manager retries and however many
\* kills, starts by hand and reboots come between two steps of a command: after an
\* uninstall that reached the manager nothing is left that would start the service
\* again, and after an install the manager has the unit that was written.
THEOREM ServiceTold == ServiceSpec => []ServiceIsAsTold
<1>1. ServiceInv => ServiceIsAsTold
  BY DEF ServiceInv, RunsInv, InstallInv, UninstallInv, Beyond, ServiceIsAsTold
<1>2. QED BY <1>1, ServiceInductive, PTL

-----------------------------------------------------------------------------
(***************************************************************************)
(* The tables of the index, for all documents, what they may hold, every   *)
(* number of processes that open it and all limits: what is derived from   *)
(* the documents agrees with them.                                         *)
(***************************************************************************)

IndexSpec == IndexInit /\ [][IndexNext]_indexVars

\* A process that migrates goes on from a version that there is.  When one has failed, or will,
\* some other was ahead of it, and it has the file open, is still ahead or was killed.
Stale(p) == opener[p] = "failed" \/ (opener[p] = "migrating" /\ pending[p] <= schema)
Ahead(p) == opener[p] \in {"open", "killed"} \/ (opener[p] = "migrating" /\ pending[p] = schema + 1)
SchemaInv ==
  /\ schema \in 0 .. SchemaVersion
  /\ opener \in [Openers -> {"idle", "migrating", "open", "failed", "killed"}]
  /\ pending \in [Openers -> 0 .. SchemaVersion]
  /\ \A p \in Openers : /\ opener[p] = "open" => schema = SchemaVersion
                        /\ opener[p] = "migrating" => pending[p] <= schema + 1
  /\ (\E p \in Openers : Stale(p)) => \E p \in Openers : Ahead(p)

\* Each document has a rowid of its own, under which its words are found.
TablesInv ==
  /\ DOMAIN rows \subseteq DocIds /\ IsFiniteSet(DOMAIN rows) /\ DOMAIN held = DOMAIN rows
  /\ \A id \in DOMAIN rows : rows[id].rowid \in Nat /\ held[id] \in ContentsOf[id]
  /\ \A id, o \in DOMAIN rows : rows[id].rowid = rows[o].rowid => id = o
  /\ DOMAIN fts = RowIds
  /\ \A id \in DOMAIN rows : fts[rows[id].rowid] = held[id].words
  /\ IsFiniteSet(refs) /\ \A r \in refs : r.src \in DOMAIN rows

\* The counts are right for t, or t has lost a reference with a deleted document.  What has
\* no row has no reference, so this may be said of every t.
CountFits(t) ==
  /\ << "out", t >> \in adrift \/ CountOf(counts, t).out = Cardinality(OutEdges(refs, t))
  /\ << "in", t >> \in adrift \/ CountOf(counts, t).in = Cardinality(InEdges(refs, t))
CountsInv == schema = SchemaVersion => \A t : CountFits(t)

IndexInv == SchemaInv /\ TablesInv /\ CountsInv

-----------------------------------------------------------------------------
(* Finite sets: the greatest of some numbers, and the best of some nodes.  *)

\* A property of finite sets that fails has a least set for which it fails.
LEMMA LeastFailing ==
  ASSUME NEW U, IsFiniteSet(U), NEW F, F \subseteq SUBSET U, F # {}
  PROVE  \E S \in F : IsFiniteSet(S) /\ \A T \in F : ~(T \subseteq S /\ T # S)
<1>1. F \subseteq FiniteSubsetsOf(U)
  BY FS_FiniteSubsetsOfFinite
<1>2. PICK S \in F : \A T \in F : << T, S >> \notin StrictSubsetOrdering(U)
  BY <1>1, FS_StrictSubsetOrderingWellFounded, WFMin
<1>3. \A T \in F : ~(T \subseteq S /\ T # S)
  BY <1>2 DEF StrictSubsetOrdering
<1>4. IsFiniteSet(S)
  BY <1>1 DEF FiniteSubsetsOf
<1>5. QED BY <1>3, <1>4

LEMMA Greatest ==
  ASSUME NEW S, IsFiniteSet(S), S # {}, NEW d, \A x \in S : d[x] \in Nat
  PROVE  \E x \in S : \A y \in S : d[x] >= d[y]
<1> DEFINE F == {T \in SUBSET S : T # {} /\ ~\E x \in T : \A y \in T : d[x] >= d[y]}
<1> SUFFICES ASSUME F # {} PROVE FALSE
  OBVIOUS
<1>1. PICK T \in F : \A V \in F : ~(V \subseteq T /\ V # T)
  <2> HIDE DEF F
  <2>1. F \subseteq SUBSET S BY DEF F
  <2>2. QED BY <2>1, LeastFailing
<1>2. PICK z \in T : TRUE
  BY <1>1
<1>3. T \ {z} \notin F
  BY <1>1, <1>2
<1>4. CASE T \ {z} = {}
  BY <1>1, <1>2, <1>4
<1>5. CASE T \ {z} # {}
  <2>1. PICK x \in T \ {z} : \A y \in T \ {z} : d[x] >= d[y]
    BY <1>1, <1>3, <1>5
  <2>2. d[x] \in Nat /\ d[z] \in Nat /\ \A y \in T : d[y] \in Nat
    BY <1>1, <1>2, <2>1
  <2>3. CASE d[x] >= d[z]
    BY <1>1, <2>1, <2>2, <2>3
  <2>4. CASE d[z] > d[x]
    <3>1. \A y \in T : d[z] >= d[y]
      BY <2>1, <2>2, <2>4
    <3>2. QED BY <1>1, <1>2, <3>1
  <2>5. QED BY <2>2, <2>3, <2>4
<1>6. QED BY <1>4, <1>5

LEMMA NextRowId ==
  ASSUME NEW S \in SUBSET Nat, IsFiniteSet(S)
  PROVE  Max(S \cup {0}) + 1 \in Nat \ S
<1> DEFINE V == S \cup {0}
<1>1. IsFiniteSet(V)
  BY FS_AddElement
<1>2. \E x \in V : \A y \in V : x >= y
  <2> DEFINE d == [x \in V |-> x]
  <2>1. \A x \in V : d[x] \in Nat OBVIOUS
  <2>2. \E x \in V : \A y \in V : d[x] >= d[y]
    <3> HIDE DEF d, V
    <3>1. V # {} BY DEF V
    <3>2. QED BY <1>1, <2>1, <3>1, Greatest
  <2>3. QED BY <2>2
<1>3. Max(V) \in V /\ \A y \in V : Max(V) >= y
  BY <1>2 DEF Max
<1>4. \A m \in V : (\A y \in V : m >= y) => m + 1 \in Nat \ S
  OBVIOUS
<1>5. QED BY <1>3, <1>4

\* Of the nodes of a graph there are always as many as wanted that none has more edges than.
LEMMA BestExist ==
  ASSUME NEW U, IsFiniteSet(U), NEW d, \A n \in U : d[n] \in Nat,
         NEW k \in Nat, k <= Cardinality(U)
  PROVE  \E S \in SUBSET U : Cardinality(S) = k /\ \A n \in S, o \in U \ S : d[n] >= d[o]
<1> DEFINE Good(V) == \E S \in SUBSET V : /\ Cardinality(S) = k
                                          /\ \A n \in S, o \in V \ S : d[n] >= d[o]
           F == {V \in SUBSET U : k <= Cardinality(V) /\ ~Good(V)}
<1> SUFFICES ASSUME F # {} PROVE FALSE
  <2>1. U \in F \/ Good(U) OBVIOUS
  <2>2. QED BY <2>1
<1>1. PICK V \in F : IsFiniteSet(V) /\ \A W \in F : ~(W \subseteq V /\ W # V)
  <2> HIDE DEF F
  <2>1. F \subseteq SUBSET U BY DEF F
  <2>2. QED BY <2>1, LeastFailing
<1>2. Cardinality(V) \in Nat /\ k <= Cardinality(V) /\ ~Good(V)
  BY <1>1, FS_CardinalityType
<1>3. Cardinality(V) # k
  <2>1. ASSUME Cardinality(V) = k PROVE Good(V)
    <3>1. V \in SUBSET V /\ \A n \in V, o \in V \ V : d[n] >= d[o]
      OBVIOUS
    <3>2. QED BY <2>1, <3>1
  <2>2. QED BY <1>2, <2>1
<1>4. V # {}
  BY <1>2, <1>3, FS_EmptySet
<1>5. PICK w \in V : \A n \in V : d[n] >= d[w]
  <2>0. PICK m \in V : \A n \in V : d[m] >= d[n]
    <3>1. \A n \in V : d[n] \in Nat BY <1>1
    <3>2. QED BY <1>1, <1>4, <3>1, Greatest
  <2> DEFINE e == [n \in V |-> d[m] - d[n]]
  <2>1. \A n \in V : d[n] \in Nat BY <1>1
  <2>2. \A n \in V : e[n] \in Nat
    BY <2>0, <2>1
  <2>3. PICK w \in V : \A n \in V : e[w] >= e[n]
    <3> HIDE DEF e
    <3>1. QED BY <1>1, <1>4, <2>2, Greatest
  <2>4. QED BY <2>0, <2>1, <2>3
<1> DEFINE W == V \ {w}
<1>6. Cardinality(W) = Cardinality(V) - 1
  BY <1>1, <1>5, FS_RemoveElement
<1>7. Good(W)
  <2>1. W \notin F
    BY <1>1, <1>5
  <2>2. W \in SUBSET U /\ k <= Cardinality(W)
    BY <1>1, <1>2, <1>3, <1>6
  <2>3. QED BY <2>1, <2>2
<1>8. Good(V)
  <2>1. PICK S \in SUBSET W : Cardinality(S) = k /\ \A n \in S, o \in W \ S : d[n] >= d[o]
    BY <1>7
  <2>2. \A n \in S, o \in V \ S : d[n] >= d[o]
    BY <1>5, <2>1
  <2>3. S \in SUBSET V
    BY <2>1
  <2>4. QED BY <2>1, <2>2, <2>3
<1>9. QED BY <1>2, <1>8

-----------------------------------------------------------------------------
(* The schema.                                                             *)

LEMMA ReadSchemaVersionSchema ==
  ASSUME SchemaInv, NEW p \in Openers, ReadSchemaVersion(p)
  PROVE  SchemaInv'
<1> USE DEF SchemaInv, ReadSchemaVersion, SchemaVersion
<1>1. CASE schema = SchemaVersion
  <2>1. opener' = [opener EXCEPT ![p] = "open"] /\ pending' = pending /\ schema' = schema
    BY <1>1
  <2>2. Ahead(p)'
    BY <2>1 DEF Ahead
  <2>3. QED BY <1>1, <2>1, <2>2
<1>2. CASE schema # SchemaVersion
  <2>1. /\ opener' = [opener EXCEPT ![p] = "migrating"] /\ schema' = schema
        /\ pending' = [pending EXCEPT ![p] = schema + 1]
    BY <1>2
  <2>2. Ahead(p)'
    BY <2>1 DEF Ahead
  <2>3. QED BY <1>2, <2>1, <2>2
<1>3. QED BY <1>1, <1>2

LEMMA ApplySchema ==
  ASSUME SchemaInv, NEW p \in Openers, opener[p] = "migrating", pending[p] = schema + 1, Apply(p)
  PROVE  SchemaInv'
<1> USE DEF SchemaInv, Apply, SchemaVersion
<1>1. schema' = schema + 1 /\ schema' \in 0 .. SchemaVersion
  OBVIOUS
<1>2. CASE pending[p] = SchemaVersion
  <2>1. opener' = [opener EXCEPT ![p] = "open"] /\ pending' = [pending EXCEPT ![p] = 0]
    BY <1>2
  <2>2. Ahead(p)'
    BY <2>1 DEF Ahead
  <2>3. QED BY <1>1, <1>2, <2>1, <2>2
<1>3. CASE pending[p] # SchemaVersion
  <2>1. opener' = opener /\ pending' = [pending EXCEPT ![p] = @ + 1]
    BY <1>3
  <2>2. Ahead(p)'
    BY <1>1, <2>1 DEF Ahead
  <2>3. \A q \in Openers : opener'[q] # "open"
    BY <1>3, <2>1
  <2>4. QED BY <1>1, <1>3, <2>1, <2>2, <2>3
<1>4. QED BY <1>2, <1>3

LEMMA LeaveSchema ==
  ASSUME SchemaInv, NEW p \in Openers, opener[p] = "migrating", NEW to \in {"failed", "killed"},
         opener' = [opener EXCEPT ![p] = to], pending' = [pending EXCEPT ![p] = 0],
         to = "failed" => pending[p] # schema + 1, UNCHANGED schema
  PROVE  SchemaInv'
<1> USE DEF SchemaInv, SchemaVersion
<1>1. ASSUME \E q \in Openers : Stale(q)' PROVE \E q \in Openers : Ahead(q)'
  <2>1. CASE to = "killed"
    BY <2>1 DEF Ahead
  <2>2. CASE to = "failed"
    <3>1. Stale(p)
      BY <2>2 DEF Stale
    <3>2. PICK q \in Openers : Ahead(q)
      BY <3>1
    <3>3. q # p
      BY <2>2, <3>2 DEF Ahead
    <3>4. Ahead(q)'
      BY <3>2, <3>3 DEF Ahead
    <3>5. QED BY <3>4
  <2>3. QED BY <2>1, <2>2
<1>2. QED BY <1>1

LEMMA SchemaStep == SchemaInv /\ (IndexNext \/ UNCHANGED indexVars) => SchemaInv'
<1> SUFFICES ASSUME SchemaInv, IndexNext \/ UNCHANGED indexVars PROVE SchemaInv'
  OBVIOUS
<1>1. ASSUME NEW p \in Openers, ReadSchemaVersion(p) PROVE SchemaInv'
  BY <1>1, ReadSchemaVersionSchema
<1>2. ASSUME NEW p \in Openers, ApplyMigration(p) PROVE SchemaInv'
  BY <1>2, ApplySchema, LeaveSchema DEF ApplyMigration
<1>3. ASSUME NEW p \in Openers, KilledOpening(p) PROVE SchemaInv'
  BY <1>3, LeaveSchema DEF KilledOpening
<1>4. ASSUME UNCHANGED << schema, opener, pending >> PROVE SchemaInv'
  BY <1>4 DEF SchemaInv, Stale, Ahead
<1>5. ASSUME NEW id \in DocIds, SaveRefs(id) \/ DeleteRefs(id) \/ DeleteDoc(id) PROVE SchemaInv'
  BY <1>4, <1>5 DEF SaveRefs, DeleteRefs, DeleteDoc
<1>6. ASSUME NEW id \in DocIds, NEW c \in ContentsOf[id], UpsertDoc(id, c) \/ ReindexDoc(id, c)
      PROVE  SchemaInv'
  BY <1>4, <1>6 DEF UpsertDoc, ReindexDoc
<1>7. ASSUME Reindex \/ ReindexEnds \/ UNCHANGED indexVars PROVE SchemaInv'
  BY <1>4, <1>7 DEF Reindex, ReindexEnds, indexVars
<1>8. QED BY <1>1, <1>2, <1>3, <1>5, <1>6, <1>7 DEF IndexNext

\* Whoever has the index open has all of the schema, and someone has it open in the end.
LEMMA OpenersOf == SchemaInv => OpenersAgree
<1> SUFFICES ASSUME SchemaInv PROVE OpenersAgree
  OBVIOUS
<1> USE DEF SchemaInv
<1>1. Ready => schema = SchemaVersion
  BY DEF Ready
<1>2. ASSUME \A p \in Openers : opener[p] \in {"open", "failed"} PROVE Ready
  <2>1. PICK p \in Openers : TRUE
    BY OpenersAssumption
  <2>2. CASE opener[p] = "failed"
    <3>1. PICK q \in Openers : Ahead(q)
      BY <2>2 DEF Stale
    <3>2. opener[q] = "open"
      BY <1>2, <3>1 DEF Ahead
    <3>3. QED BY <3>2 DEF Ready
  <2>3. QED BY <1>2, <2>1, <2>2 DEF Ready
<1>3. QED BY <1>1, <1>2 DEF OpenersAgree

-----------------------------------------------------------------------------
(* The tables.                                                             *)

LEMMA ImageFinite ==
  ASSUME NEW S, IsFiniteSet(S), NEW f
  PROVE  IsFiniteSet({f[x] : x \in S})
<1> DEFINE g == [x \in S |-> f[x]]
<1>1. g \in Surjection(S, {f[x] : x \in S})
  BY DEF Surjection
<1>2. QED BY <1>1, FS_Surjection

LEMMA ExtractFacts ==
  ASSUME NEW id \in DocIds, NEW c \in ContentsOf[id], NEW o
  PROVE  /\ IsFiniteSet(Extract(o, c.links))
         /\ \A r \in Extract(o, c.links) : r.src = o
<1> DEFINE L == c.links
           md == [l \in L |-> [src |-> o, to |-> [path |-> Join(DirOf(o), l.to.path), md |-> TRUE],
                               kind |-> "md-link", line |-> l.line]]
           own == [l \in L |-> [src |-> o, to |-> l.to, kind |-> l.kind, line |-> l.line]]
           scheme == [l \in L |-> [src |-> o, to |-> l.to, kind |-> "vedox-scheme", line |-> l.line]]
           All == {md[l] : l \in L} \cup {own[l] : l \in L} \cup {scheme[l] : l \in L}
<1>1. IsFiniteSet(L)
  BY ContentsAssumption DEF Contents
<1>2. IsFiniteSet(All)
  <2> HIDE DEF md, own, scheme, L
  <2>1. /\ IsFiniteSet({md[l] : l \in L}) /\ IsFiniteSet({own[l] : l \in L})
        /\ IsFiniteSet({scheme[l] : l \in L})
    BY <1>1, ImageFinite
  <2>2. QED BY <2>1, FS_Union
<1>3. Extract(o, L) \subseteq All
  BY DEF Extract
<1>4. \A r \in All : r.src = o
  <2>1. \A l \in L : md[l].src = o /\ own[l].src = o /\ scheme[l].src = o
    OBVIOUS
  <2> HIDE DEF md, own, scheme, L
  <2>2. QED BY <2>1
<1> HIDE DEF All, L
<1>5. IsFiniteSet(Extract(o, L)) /\ \A r \in Extract(o, L) : r.src = o
  BY <1>2, <1>3, <1>4, FS_Subset
<1>6. QED BY <1>5 DEF L

LEMMA RowIdFacts ==
  ASSUME TablesInv, NEW id \in DocIds
  PROVE  /\ RowIdFor(id) \in Nat
         /\ \A o \in DOMAIN rows : o # id => rows[o].rowid # RowIdFor(id)
<1>1. RowIds \in SUBSET Nat /\ IsFiniteSet(RowIds)
  <2>1. RowIds \in SUBSET Nat
    BY DEF RowIds, TablesInv
  <2> DEFINE f == [o \in DOMAIN rows |-> rows[o].rowid]
  <2>2. RowIds = {f[o] : o \in DOMAIN rows}
    BY DEF RowIds
  <2> HIDE DEF f
  <2>3. QED BY <2>1, <2>2, ImageFinite DEF TablesInv
<1>2. CASE id \in DOMAIN rows
  BY <1>2 DEF RowIdFor, TablesInv
<1>3. CASE id \notin DOMAIN rows
  <2>1. RowIdFor(id) \in Nat \ RowIds
    BY <1>1, <1>3, NextRowId DEF RowIdFor
  <2>2. QED BY <2>1 DEF RowIds
<1>4. QED BY <1>2, <1>3

LEMMA UpsertedStep ==
  ASSUME TablesInv, NEW id \in DocIds, NEW c \in ContentsOf[id], Upserted(id, c), refs' = refs
  PROVE  TablesInv'
<1> DEFINE n == RowIdFor(id)
<1>1. n \in Nat /\ \A o \in DOMAIN rows : o # id => rows[o].rowid # n
  BY RowIdFacts
<1>2. /\ DOMAIN rows' = DOMAIN rows \cup {id} /\ DOMAIN held' = DOMAIN rows \cup {id}
      /\ rows'[id].rowid = n /\ held'[id] = c
      /\ \A o \in DOMAIN rows : o # id => rows'[o] = rows[o] /\ held'[o] = held[o]
  BY DEF Upserted, Put, TablesInv
<1>3. /\ DOMAIN fts' = RowIds \cup {n} /\ fts'[n] = c.words
      /\ \A m \in RowIds : m # n => fts'[m] = fts[m]
  BY DEF Upserted, Put, TablesInv
<1>4. id \in DOMAIN rows => rows[id].rowid = n
  BY DEF RowIdFor
<1> HIDE DEF n
<1>5. RowIds' = RowIds \cup {n}
  BY <1>2, <1>4 DEF RowIds
<1>6. IsFiniteSet(DOMAIN rows')
  BY <1>2, FS_AddElement, SMTT(30) DEF TablesInv
<1>7. \A o \in DOMAIN rows' : rows'[o].rowid \in Nat /\ held'[o] \in ContentsOf[o]
  BY <1>1, <1>2 DEF TablesInv
<1>8. \A o, q \in DOMAIN rows' : rows'[o].rowid = rows'[q].rowid => o = q
  BY <1>1, <1>2 DEF TablesInv
<1>9. \A o \in DOMAIN rows' : fts'[rows'[o].rowid] = held'[o].words
  BY <1>1, <1>2, <1>3 DEF TablesInv, RowIds
<1>10. IsFiniteSet(refs') /\ \A r \in refs' : r.src \in DOMAIN rows'
  BY <1>2 DEF TablesInv
<1>11. DOMAIN rows' \subseteq DocIds
  BY <1>2 DEF TablesInv
<1>12. QED BY <1>2, <1>3, <1>5, <1>6, <1>7, <1>8, <1>9, <1>10, <1>11 DEF TablesInv

LEMMA DeletedStep ==
  ASSUME TablesInv, NEW ids, Deleted(ids)
  PROVE  TablesInv'
<1> DEFINE kept == DOMAIN rows \ ids
<1>1. /\ DOMAIN rows' = kept /\ DOMAIN held' = kept
      /\ \A o \in kept : rows'[o] = rows[o] /\ held'[o] = held[o]
  BY DEF Deleted, Drop, TablesInv
<1>2. RowIds' = RowIds \ {rows[id].rowid : id \in ids \cap DOMAIN rows}
  BY <1>1 DEF RowIds, TablesInv
<1>3. DOMAIN fts' = RowIds' /\ \A m \in RowIds' : fts'[m] = fts[m]
  BY <1>2 DEF Deleted, Drop, TablesInv
<1>4. IsFiniteSet(kept) /\ IsFiniteSet(refs')
  BY FS_Subset DEF TablesInv, Deleted
<1>5. \A r \in refs' : r.src \in kept
  BY DEF TablesInv, Deleted
<1>6. \A o \in kept : fts'[rows'[o].rowid] = held'[o].words
  BY <1>1, <1>3 DEF TablesInv, RowIds
<1>7. QED BY <1>1, <1>3, <1>4, <1>5, <1>6 DEF TablesInv

LEMMA RefsStep ==
  ASSUME TablesInv, NEW id \in DocIds, SaveRefs(id) \/ DeleteRefs(id)
  PROVE  TablesInv'
<1>1. IsFiniteSet({r \in refs : r.src # id})
  BY FS_Subset DEF TablesInv
<1>2. IsFiniteSet(refs') /\ \A r \in refs' : r.src \in DOMAIN rows
  <2>1. CASE SaveRefs(id)
    <3>1. id \in DOMAIN rows /\ held[id] \in ContentsOf[id]
      BY <2>1 DEF SaveRefs, TablesInv
    <3>2. /\ IsFiniteSet(Extract(id, held[id].links))
          /\ \A r \in Extract(id, held[id].links) : r.src = id
      BY <3>1, ExtractFacts
    <3>3. refs' = {r \in refs : r.src # id} \cup Extract(id, held[id].links)
      BY <2>1 DEF SaveRefs
    <3>4. IsFiniteSet(refs')
      BY <1>1, <3>2, <3>3, FS_Union
    <3>5. QED BY <3>1, <3>2, <3>3, <3>4 DEF TablesInv
  <2>2. CASE DeleteRefs(id)
    BY <1>1, <2>2 DEF DeleteRefs, TablesInv
  <2>3. QED BY <2>1, <2>2
<1>3. UNCHANGED << rows, fts, held >>
  BY DEF SaveRefs, DeleteRefs
<1>4. QED BY <1>2, <1>3 DEF TablesInv, RowIds

LEMMA TablesStep == TablesInv /\ (IndexNext \/ UNCHANGED indexVars) => TablesInv'
<1> SUFFICES ASSUME TablesInv, IndexNext \/ UNCHANGED indexVars PROVE TablesInv'
  OBVIOUS
<1>1. ASSUME UNCHANGED << rows, fts, refs, held >> PROVE TablesInv'
  BY <1>1 DEF TablesInv, RowIds
<1>2. ASSUME NEW p \in Openers, ReadSchemaVersion(p) \/ ApplyMigration(p) \/ KilledOpening(p)
      PROVE  TablesInv'
  BY <1>1, <1>2 DEF ReadSchemaVersion, ApplyMigration, KilledOpening, indexTables
<1>3. ASSUME NEW id \in DocIds, SaveRefs(id) \/ DeleteRefs(id) PROVE TablesInv'
  BY <1>3, RefsStep
<1>4. ASSUME NEW id \in DocIds, DeleteDoc(id) PROVE TablesInv'
  BY <1>4, DeletedStep DEF DeleteDoc
<1>5. ASSUME NEW id \in DocIds, NEW c \in ContentsOf[id], UpsertDoc(id, c) PROVE TablesInv'
  BY <1>5, UpsertedStep DEF UpsertDoc
<1>6. ASSUME NEW id \in DocIds, NEW c \in ContentsOf[id], ReindexDoc(id, c) PROVE TablesInv'
  BY <1>1, <1>6, UpsertedStep DEF ReindexDoc
<1>7. CASE Reindex
  BY <1>7, DeletedStep DEF Reindex
<1>8. CASE ReindexEnds \/ UNCHANGED indexVars
  BY <1>1, <1>8 DEF ReindexEnds, indexTables, indexVars
<1>9. QED BY <1>2, <1>3, <1>4, <1>5, <1>6, <1>7, <1>8 DEF IndexNext

-----------------------------------------------------------------------------
(* The counts.                                                             *)

\* Counting anew the references of one document.
LEMMA RefreshedCounts ==
  ASSUME NEW id, NEW rs, \A r : r.src # id => (r \in rs <=> r \in refs),
         \A t : CountFits(t),
         refs' = rs, counts' = Refreshed(id, rs), adrift' = adrift \ SettledBy(id, rs)
  PROVE  \A t : CountFits(t)'
<1> DEFINE self == DocTarget(id)
           affected == TargetsOf({r \in refs \cup rs : r.src = id})
<1> SUFFICES ASSUME NEW t PROVE CountFits(t)'
  OBVIOUS
<1>1. /\ DOMAIN counts' = DOMAIN counts \cup {self} \cup affected
      /\ t \in DOMAIN counts' =>
           /\ counts'[t].out = IF t = self THEN Cardinality(OutEdges(rs, t))
                                           ELSE CountOf(counts, t).out
           /\ counts'[t].in = IF t \in affected THEN Cardinality(InEdges(rs, t))
                                                ELSE CountOf(counts, t).in
  BY DEF Refreshed
<1>2. adrift' = adrift \ ({<< "out", self >>} \cup ({"in"} \X affected))
  BY DEF SettledBy
<1> HIDE DEF affected
<1>3. << "out", t >> \in adrift' \/ CountOf(counts', t).out = Cardinality(OutEdges(rs, t))
  <2>1. CASE t = self
    BY <1>1, <2>1 DEF CountOf
  <2>2. CASE t # self
    <3>1. OutEdges(rs, t) = OutEdges(refs, t)
      BY <2>2 DEF OutEdges
    <3>2. CountOf(counts', t).out = CountOf(counts, t).out
      BY <1>1, <2>2 DEF CountOf
    <3>3. << "out", t >> \in adrift => << "out", t >> \in adrift'
      BY <1>2, <2>2
    <3>4. QED BY <3>1, <3>2, <3>3 DEF CountFits
  <2>3. QED BY <2>1, <2>2
<1>4. << "in", t >> \in adrift' \/ CountOf(counts', t).in = Cardinality(InEdges(rs, t))
  <2>1. CASE t \in affected
    BY <1>1, <2>1 DEF CountOf
  <2>2. CASE t \notin affected
    <3>1. InEdges(rs, t) = InEdges(refs, t)
      <4>1. \A r \in refs \cup rs : r.src = id /\ r.kind # "vedox-scheme" => r.to # t
        BY <2>2 DEF affected, TargetsOf
      <4>2. QED BY <4>1 DEF InEdges
    <3>2. CountOf(counts', t).in = CountOf(counts, t).in
      BY <1>1, <2>2 DEF CountOf
    <3>3. << "in", t >> \in adrift => << "in", t >> \in adrift'
      BY <1>2, <2>2
    <3>4. QED BY <3>1, <3>2, <3>3 DEF CountFits
  <2>3. QED BY <2>1, <2>2
<1>5. QED BY <1>3, <1>4 DEF CountFits

\* References that go with their documents leave their counts behind.
LEMMA DeletedCounts ==
  ASSUME NEW ids, Deleted(ids), counts' = counts, \A t : CountFits(t)
  PROVE  \A t : CountFits(t)'
<1> DEFINE gone == {r \in refs : r.src \in ids}
<1> SUFFICES ASSUME NEW t PROVE CountFits(t)'
  OBVIOUS
<1>1. /\ refs' = refs \ gone
      /\ adrift' = adrift \cup {<< "out", DocTarget(r.src) >> : r \in gone}
                          \cup ({"in"} \X TargetsOf(gone))
  BY DEF Deleted
<1> HIDE DEF gone
<1>2. << "out", t >> \in adrift' \/ CountOf(counts', t).out = Cardinality(OutEdges(refs', t))
  <2>1. CASE \E r \in gone : DocTarget(r.src) = t
    BY <1>1, <2>1
  <2>2. CASE ~\E r \in gone : DocTarget(r.src) = t
    <3>1. OutEdges(refs', t) = OutEdges(refs, t)
      BY <1>1, <2>2 DEF OutEdges
    <3>2. QED BY <1>1, <3>1 DEF CountFits
  <2>3. QED BY <2>1, <2>2
<1>3. << "in", t >> \in adrift' \/ CountOf(counts', t).in = Cardinality(InEdges(refs', t))
  <2>1. CASE t \in TargetsOf(gone)
    BY <1>1, <2>1
  <2>2. CASE t \notin TargetsOf(gone)
    <3>1. InEdges(refs', t) = InEdges(refs, t)
      BY <1>1, <2>2 DEF InEdges, TargetsOf
    <3>2. QED BY <1>1, <3>1 DEF CountFits
  <2>3. QED BY <2>1, <2>2
<1>4. QED BY <1>2, <1>3 DEF CountFits

\* The last migration counts all that there is.
LEMMA BackfilledCounts ==
  ASSUME counts' = Backfilled, UNCHANGED << refs, adrift >>
  PROVE  \A t : CountFits(t)'
<1> SUFFICES ASSUME NEW t PROVE CountFits(t)'
  OBVIOUS
<1> DEFINE dom == {DocTarget(r.src) : r \in refs} \cup TargetsOf(refs)
<1>1. /\ DOMAIN counts' = dom
      /\ t \in dom => counts'[t] = [out |-> Cardinality(OutEdges(refs, t)),
                                    in |-> Cardinality(InEdges(refs, t))]
  BY DEF Backfilled
<1>2. CASE t \in dom
  BY <1>1, <1>2 DEF CountFits, CountOf
<1>3. CASE t \notin dom
  <2>1. OutEdges(refs, t) = {} /\ InEdges(refs, t) = {}
    BY <1>3 DEF OutEdges, InEdges, TargetsOf
  <2>2. CountOf(counts', t) = [out |-> 0, in |-> 0]
    BY <1>1, <1>3 DEF CountOf
  <2>3. QED BY <2>1, <2>2, FS_EmptySet DEF CountFits
<1>4. QED BY <1>2, <1>3

LEMMA CountsStep ==
  SchemaInv /\ TablesInv /\ CountsInv /\ (IndexNext \/ UNCHANGED indexVars) => CountsInv'
<1> SUFFICES ASSUME SchemaInv, TablesInv, CountsInv, IndexNext \/ UNCHANGED indexVars
             PROVE  CountsInv'
  OBVIOUS
<1>1. ASSUME UNCHANGED << schema, refs, counts, adrift >> PROVE CountsInv'
  BY <1>1 DEF CountsInv, CountFits
<1>2. ASSUME NEW p \in Openers, ReadSchemaVersion(p) \/ KilledOpening(p) PROVE CountsInv'
  BY <1>1, <1>2 DEF ReadSchemaVersion, KilledOpening, indexTables
<1>3. ASSUME NEW p \in Openers, ApplyMigration(p) PROVE CountsInv'
  <2>1. CASE pending[p] # schema + 1
    BY <1>1, <1>3, <2>1 DEF ApplyMigration
  <2>2. CASE pending[p] = schema + 1 /\ pending[p] # SchemaVersion
    <3>1. schema' # SchemaVersion
      BY <1>3, <2>2 DEF ApplyMigration, Apply
    <3>2. QED BY <3>1 DEF CountsInv
  <2>3. CASE pending[p] = schema + 1 /\ pending[p] = SchemaVersion
    <3>1. counts' = Backfilled /\ UNCHANGED << refs, adrift >>
      BY <1>3, <2>3 DEF ApplyMigration, Apply
    <3>2. QED BY <3>1, BackfilledCounts DEF CountsInv
  <2>4. QED BY <2>1, <2>2, <2>3
<1>4. ASSUME Ready PROVE \A t : CountFits(t)
  BY <1>4 DEF Ready, SchemaInv, CountsInv
<1>5. ASSUME NEW id \in DocIds, SaveRefs(id) PROVE CountsInv'
  <2> DEFINE rs == {r \in refs : r.src # id} \cup Extract(id, held[id].links)
  <2>1. \A r \in Extract(id, held[id].links) : r.src = id
    BY <1>5, ExtractFacts DEF SaveRefs, TablesInv
  <2>2. \A r : r.src # id => (r \in rs <=> r \in refs)
    BY <2>1
  <2>3. refs' = rs /\ counts' = Refreshed(id, rs) /\ adrift' = adrift \ SettledBy(id, rs)
    BY <1>5 DEF SaveRefs
  <2> HIDE DEF rs
  <2>4. \A t : CountFits(t)
    BY <1>4, <1>5 DEF SaveRefs
  <2>5. QED BY <2>2, <2>3, <2>4, RefreshedCounts DEF CountsInv
<1>6. ASSUME NEW id \in DocIds, DeleteRefs(id) PROVE CountsInv'
  <2> DEFINE rs == {r \in refs : r.src # id}
  <2>1. \A r : r.src # id => (r \in rs <=> r \in refs)
    OBVIOUS
  <2>2. refs' = rs /\ counts' = Refreshed(id, rs) /\ adrift' = adrift \ SettledBy(id, rs)
    BY <1>6 DEF DeleteRefs
  <2> HIDE DEF rs
  <2>3. \A t : CountFits(t)
    BY <1>4, <1>6 DEF DeleteRefs
  <2>4. QED BY <2>1, <2>2, <2>3, RefreshedCounts DEF CountsInv
<1>7. ASSUME NEW id \in DocIds, DeleteDoc(id) PROVE CountsInv'
  BY <1>4, <1>7, DeletedCounts DEF DeleteDoc, CountsInv
<1>8. ASSUME NEW id \in DocIds, NEW c \in ContentsOf[id], UpsertDoc(id, c) \/ ReindexDoc(id, c)
      PROVE  CountsInv'
  BY <1>1, <1>8 DEF UpsertDoc, ReindexDoc
<1>9. CASE Reindex
  BY <1>4, <1>9, DeletedCounts DEF Reindex, CountsInv
<1>10. CASE ReindexEnds \/ UNCHANGED indexVars
  BY <1>1, <1>10 DEF ReindexEnds, indexTables, indexVars
<1>11. QED BY <1>2, <1>3, <1>5, <1>6, <1>7, <1>8, <1>9, <1>10 DEF IndexNext

-----------------------------------------------------------------------------
(* Init, and the specification.                                            *)

LEMMA IndexInitInv == IndexInit => IndexInv
<1> SUFFICES ASSUME IndexInit PROVE IndexInv
  OBVIOUS
<1>1. SchemaInv
  <2>1. schema = 0 \/ schema = SchemaVersion - 1
    BY DEF IndexInit
  <2>2. opener = [p \in Openers |-> "idle"] /\ pending = [p \in Openers |-> 0]
    BY DEF IndexInit
  <2>3. \A p \in Openers : ~Stale(p)
    BY <2>2 DEF Stale
  <2>4. QED BY <2>1, <2>2, <2>3 DEF SchemaInv, SchemaVersion
<1>2. CountsInv
  BY DEF IndexInit, CountsInv, SchemaVersion
<1>3. TablesInv
  <2>1. CASE rows = << >> /\ fts = << >> /\ refs = {} /\ held = << >>
    BY <2>1, FS_EmptySet DEF TablesInv, RowIds
  <2>2. ASSUME NEW id \in DocIds, NEW c \in ContentsOf[id],
               rows = [d \in {id} |-> [rowid |-> 1, slug |-> c.slug, tag |-> c.tag]],
               fts = [n \in {1} |-> c.words],
               refs = Extract(id, c.links),
               held = [d \in {id} |-> c]
        PROVE  TablesInv
    <3>1. IsFiniteSet(refs) /\ \A r \in refs : r.src = id
      BY <2>2, ExtractFacts
    <3>2. DOMAIN rows = {id} /\ rows[id].rowid = 1 /\ held[id] = c /\ DOMAIN held = {id}
      BY <2>2
    <3>3. DOMAIN fts = {1} /\ fts[1] = c.words
      BY <2>2
    <3>4. RowIds = {1}
      BY <3>2 DEF RowIds
    <3>5. IsFiniteSet(DOMAIN rows)
      BY <3>2, FS_Singleton
    <3>6. QED BY <3>1, <3>2, <3>3, <3>4, <3>5 DEF TablesInv
  <2>3. QED BY <2>1, <2>2 DEF IndexInit
<1>4. QED BY <1>1, <1>2, <1>3 DEF IndexInv

LEMMA IndexNextInv == IndexInv /\ [IndexNext]_indexVars => IndexInv'
BY SchemaStep, TablesStep, CountsStep DEF IndexInv

\* The inductive invariant of the index.
THEOREM IndexInductive == IndexSpec => []IndexInv
BY IndexInitInv, IndexNextInv, PTL DEF IndexSpec

-----------------------------------------------------------------------------
(* What is read.                                                           *)

LEMMA LesserOf ==
  ASSUME NEW a \in Nat, NEW b \in Nat
  PROVE  /\ Min({a, b}) \in {a, b} /\ Min({a, b}) <= a /\ Min({a, b}) <= b
<1>1. \E x \in {a, b} : \A y \in {a, b} : x <= y
  OBVIOUS
<1>2. Min({a, b}) \in {a, b} /\ \A y \in {a, b} : Min({a, b}) <= y
  BY <1>1 DEF Min
<1>3. QED BY <1>2

LEMMA CurrentSearch == TablesInv => SearchIsCurrent
<1> SUFFICES ASSUME TablesInv PROVE SearchIsCurrent
  OBVIOUS
<1>1. Cardinality(RowIds) = Cardinality(DOMAIN rows)
  <2> DEFINE f == [id \in DOMAIN rows |-> rows[id].rowid]
  <2>1. f \in [DOMAIN rows -> RowIds] /\ \A n \in RowIds : \E id \in DOMAIN rows : f[id] = n
    BY DEF RowIds
  <2>2. \A id, o \in DOMAIN rows : f[id] = f[o] => id = o
    BY DEF TablesInv
  <2>3. f \in Surjection(DOMAIN rows, RowIds) /\ f \in Injection(DOMAIN rows, RowIds)
    <3> HIDE DEF f
    <3>1. QED BY <2>1, <2>2 DEF Surjection, Injection, IsInjective
  <2> HIDE DEF f
  <2>4. QED BY <2>3, FS_Surjection DEF TablesInv
<1>2. ASSUME NEW w \in Words, NEW p \in ProjectNames, NEW found \in Found({w}, p, "")
      PROVE  /\ \A id \in found : w \in held[id].words /\ Head(id) = p
             /\ Cardinality(found) = SearchLimit
                \/ found = {id \in DOMAIN held : w \in held[id].words /\ Head(id) = p}
  <2> DEFINE all == {id \in DOMAIN held : w \in held[id].words /\ Head(id) = p}
             n == Min({SearchLimit, Cardinality(all)})
  <2>1. Hits({w}, p, "") = all
    BY DEF Hits, TablesInv, RowIds
  <2>2. found \in SUBSET all /\ Cardinality(found) = n
    BY <1>2, <2>1 DEF Found, Results
  <2>3. IsFiniteSet(all) /\ Cardinality(all) \in Nat
    BY FS_Subset, FS_CardinalityType DEF TablesInv
  <2>4. n \in {SearchLimit, Cardinality(all)}
    BY <2>3, LesserOf, LimitsAssumption
  <2>5. Cardinality(found) = SearchLimit \/ found = all
    <3> HIDE DEF all
    <3>1. QED BY <2>2, <2>3, <2>4, FS_Subset
  <2>6. QED BY <2>2, <2>5
<1>3. QED BY <1>1, <1>2 DEF SearchIsCurrent, TablesInv

LEMMA ResolvedFacts ==
  ASSUME NEW r, NEW p
  PROVE  LET x == Resolved(r, p) IN
         IF x.broken THEN x.to \notin {DocTarget(id) : id \in ProjectDocs(p)}
                     ELSE x.to \in {DocTarget(id) : id \in ProjectDocs(p)}
<1> DEFINE path == Join(DirOf(r.src), r.to.path)
           Named(n) == IF LooksLikePath(r.to) THEN {} ELSE BySlug(p, n)
           names == IF Named(r.to.path[1]) # {} THEN Named(r.to.path[1])
                    ELSE Named(Slugify[r.to.path[1]])
           x == Resolved(r, p)
           docs == {DocTarget(id) : id \in ProjectDocs(p)}
<1>1. CASE LooksLikePath(r.to) /\ path \in ProjectDocs(p)
  <2>1. x = [to |-> DocTarget(path), broken |-> FALSE]
    BY <1>1 DEF Resolved
  <2>2. QED BY <1>1, <2>1
<1>2. CASE ~(LooksLikePath(r.to) /\ path \in ProjectDocs(p)) /\ names # {}
  <2> DEFINE named == CHOOSE id \in names : TRUE
  <2>1. x = [to |-> DocTarget(named), broken |-> FALSE]
    BY <1>2 DEF Resolved
  <2>2. names \subseteq ProjectDocs(p)
    BY DEF BySlug
  <2> HIDE DEF names
  <2>3. named \in ProjectDocs(p)
    BY <1>2, <2>2
  <2> HIDE DEF named, x
  <2>4. x.to \in docs /\ x.broken = FALSE
    BY <2>1, <2>3
  <2>5. QED BY <2>4 DEF x
<1>3. CASE ~(LooksLikePath(r.to) /\ path \in ProjectDocs(p)) /\ names = {}
  <2>1. x = [to |-> IF LooksLikePath(r.to) THEN [path |-> path, md |-> r.to.md] ELSE r.to,
             broken |-> TRUE]
    BY <1>3 DEF Resolved
  <2>2. x.to \notin docs
    <3>1. CASE LooksLikePath(r.to)
      <4>1. x.to.path = path
        BY <2>1, <3>1
      <4>2. path \notin ProjectDocs(p)
        BY <1>3, <3>1
      <4> HIDE DEF path, x
      <4>3. QED BY <4>1, <4>2 DEF DocTarget
    <3>2. CASE ~LooksLikePath(r.to)
      BY <2>1, <3>2 DEF DocTarget, LooksLikePath
    <3>3. QED BY <3>1, <3>2
  <2>3. QED BY <2>1, <2>2
<1>4. QED BY <1>1, <1>2, <1>3

LEMMA GraphFits == TablesInv => GraphWellFormed
<1> SUFFICES ASSUME TablesInv, NEW p \in ProjectNames
             PROVE  LET g == Graph(p) IN
                    /\ g.docs \cap g.missing = {}
                    /\ \A e \in g.edges : {DocTarget(e.ref.src), e.to} \subseteq g.nodes
                    /\ Cardinality(g.nodes) < GraphNodeCap => g.edges = g.all
  BY DEF GraphWellFormed
<1> DEFINE own == {q \in refs : Head(q.src) = p /\ q.kind # "vedox-scheme"}
           edge == [r \in own |-> [ref |-> r, to |-> Resolved(r, p).to,
                                   broken |-> Resolved(r, p).broken]]
           edges == {[ref |-> r, to |-> Resolved(r, p).to, broken |-> Resolved(r, p).broken] :
                       r \in own}
           docs == {DocTarget(id) : id \in ProjectDocs(p)}
           missing == {e.to : e \in {f \in edges : f.broken}}
           all == docs \cup missing
           Degree(n) == Cardinality({e \in edges : DocTarget(e.ref.src) = n /\ n \in docs})
                        + Cardinality({e \in edges : e.to = n /\ n \in docs})
           Rank(S) == \A n \in S, o \in all \ S : Degree(n) >= Degree(o)
           size == Min({GraphNodeCap, Cardinality(all)})
           nodes == CHOOSE S \in SUBSET all : Cardinality(S) = size /\ Rank(S)
           drawn == {e \in edges : DocTarget(e.ref.src) \in nodes /\ e.to \in nodes}
<1>1. Graph(p) = [docs |-> docs, missing |-> missing, nodes |-> nodes, all |-> edges,
                  edges |-> drawn]
  BY DEF Graph
<1>2. \A e \in edges : /\ DocTarget(e.ref.src) \in docs
                       /\ e.broken => e.to \notin docs
                       /\ ~e.broken => e.to \in docs
  <2> SUFFICES ASSUME NEW r \in own
               PROVE  /\ DocTarget(r.src) \in docs
                      /\ Resolved(r, p).broken => Resolved(r, p).to \notin docs
                      /\ ~Resolved(r, p).broken => Resolved(r, p).to \in docs
    OBVIOUS
  <2>1. DocTarget(r.src) \in docs
    BY DEF ProjectDocs, TablesInv
  <2>2. QED BY <2>1, ResolvedFacts
<1>3. IsFiniteSet(edges)
  <2>1. IsFiniteSet(own)
    BY FS_Subset DEF TablesInv
  <2>2. edges = {edge[r] : r \in own}
    OBVIOUS
  <2> HIDE DEF edges, edge, own
  <2>3. QED BY <2>1, <2>2, ImageFinite
<1> HIDE DEF edges
<1>4. IsFiniteSet(all)
  <2>1. IsFiniteSet(docs)
    <3> DEFINE f == [id \in ProjectDocs(p) |-> DocTarget(id)]
    <3>1. IsFiniteSet(ProjectDocs(p))
      BY FS_Subset DEF ProjectDocs, TablesInv
    <3>2. docs = {f[id] : id \in ProjectDocs(p)}
      OBVIOUS
    <3> HIDE DEF f, docs
    <3>3. QED BY <3>1, <3>2, ImageFinite
  <2>2. IsFiniteSet(missing)
    <3> DEFINE gone == {e \in edges : e.broken}
               f == [e \in gone |-> e.to]
    <3>1. IsFiniteSet(gone)
      BY <1>3, FS_Subset
    <3>2. missing = {f[e] : e \in gone}
      OBVIOUS
    <3> HIDE DEF f, gone, missing
    <3>3. QED BY <3>1, <3>2, ImageFinite
  <2> HIDE DEF docs, missing
  <2>3. QED BY <2>1, <2>2, FS_Union
<1>5. docs \cap missing = {}
  BY <1>2
<1> HIDE DEF docs, missing
<1>6. Cardinality(all) \in Nat /\ size \in Nat /\ size <= Cardinality(all)
      /\ size \in {GraphNodeCap, Cardinality(all)}
  <2> HIDE DEF all
  <2>1. Cardinality(all) \in Nat
    BY <1>4, FS_CardinalityType
  <2>2. QED BY <2>1, LesserOf, LimitsAssumption
<1>7. \E S \in SUBSET all : Cardinality(S) = size /\ Rank(S)
  <2> DEFINE d == [n \in all |-> Degree(n)]
  <2>1. \A n \in all : d[n] \in Nat
    <3> SUFFICES ASSUME NEW n \in all PROVE Degree(n) \in Nat
      OBVIOUS
    <3>1. /\ IsFiniteSet({e \in edges : DocTarget(e.ref.src) = n /\ n \in docs})
          /\ IsFiniteSet({e \in edges : e.to = n /\ n \in docs})
      BY <1>3, FS_Subset
    <3>2. QED BY <3>1, FS_CardinalityType
  <2>2. \E S \in SUBSET all : Cardinality(S) = size /\ \A n \in S, o \in all \ S : d[n] >= d[o]
    <3> HIDE DEF d, all, size
    <3>1. QED BY <1>4, <1>6, <2>1, BestExist
  <2>3. PICK S \in SUBSET all :
          Cardinality(S) = size /\ \A n \in S, o \in all \ S : d[n] >= d[o]
    BY <2>2
  <2>4. Rank(S)
    BY <2>3
  <2>5. QED BY <2>3, <2>4
<1> HIDE DEF Rank, size, all
<1>8. nodes \in SUBSET all /\ Cardinality(nodes) = size
  BY <1>7
<1> HIDE DEF nodes
<1>9. ASSUME Cardinality(nodes) < GraphNodeCap PROVE drawn = edges
  <2>1. nodes = all
    BY <1>4, <1>6, <1>8, <1>9, FS_Subset, LimitsAssumption
  <2>2. \A e \in edges : DocTarget(e.ref.src) \in all /\ e.to \in all
    BY <1>2 DEF all, missing
  <2>3. QED BY <2>1, <2>2
<1>10. QED BY <1>1, <1>5, <1>9

LEMMA SoundOf == IndexInv => IndexIsSound
<1> SUFFICES ASSUME IndexInv PROVE IndexIsSound
  OBVIOUS
<1>1. CountsMatchEdges
  BY DEF IndexInv, CountsInv, CountFits, CountsMatchEdges
<1>2. QED BY <1>1, OpenersOf, CurrentSearch, GraphFits DEF IndexInv, IndexIsSound

\* What is derived from the documents agrees with them.
THEOREM IndexSound == IndexSpec => []IndexIsSound
BY IndexInductive, SoundOf, PTL

-----------------------------------------------------------------------------
(***************************************************************************)
(* The history of a document, for every set of lines, length of document   *)
(* and limit: the script that is found is a shortest one, and what is told *)
(* of it is all of it.  First what is used of numbers.                     *)
(***************************************************************************)

LEMMA Least ==
  ASSUME NEW S \in SUBSET Nat, S # {}
  PROVE  \E m \in S : \A n \in S : m <= n
<1>1. IsWellFoundedOn(OpToRel(<, Nat), Nat)
  BY NatLessThanWellFounded
<1>2. PICK m \in S : \A n \in S : << n, m >> \notin OpToRel(<, Nat)
  BY <1>1, WFMin
<1>3. \A n \in S : ~(n < m)
  BY <1>2 DEF OpToRel
<1>4. QED BY <1>3

-----------------------------------------------------------------------------
(* The distance of two sequences of blocks, by its recurrence.             *)

Same(a, b, x, y) == a[x + 1].raw = b[y + 1].raw
Points(a, b) == (0..Len(a)) \X (0..Len(b))
DistStep(a, b, h, p) ==
  IF p[1] = 0 THEN p[2] ELSE IF p[2] = 0 THEN p[1]
  ELSE IF Same(a, b, p[1] - 1, p[2] - 1) THEN h[<< p[1] - 1, p[2] - 1 >>]
  ELSE 1 + (IF h[<< p[1] - 1, p[2] >>] < h[<< p[1], p[2] - 1 >>]
            THEN h[<< p[1] - 1, p[2] >>] ELSE h[<< p[1], p[2] - 1 >>])
IsDist(a, b, h) == h = [p \in Points(a, b) |-> DistStep(a, b, h, p)]
Dist(a, b) == CHOOSE h : IsDist(a, b, h)

\* The recurrence defines a function: it does up to every sum of the coordinates.
LEMMA DistExists ==
  ASSUME NEW a, NEW b, Len(a) \in Nat, Len(b) \in Nat
  PROVE  IsDist(a, b, Dist(a, b))
<1> DEFINE P == Points(a, b)
           Upto(m, h) == /\ h = [p \in P |-> h[p]]
                         /\ \A p \in P : p[1] + p[2] < m => h[p] = DistStep(a, b, h, p)
           Not == {m \in Nat : ~\E h : Upto(m, h)}
<1>1. \A p \in P : p[1] \in 0..Len(a) /\ p[2] \in 0..Len(b)
  BY DEF Points
<1>2. Not = {}
  <2> SUFFICES ASSUME Not # {} PROVE FALSE
    OBVIOUS
  <2>1. PICK m \in Not : \A n \in Not : m <= n
    <3> HIDE DEF Upto
    <3>1. QED BY Least
  <2>2. Upto(0, [p \in P |-> 0])
    BY <1>1
  <2>3. m \in Nat /\ m # 0 /\ m - 1 \in Nat /\ m - 1 \notin Not
    <3> HIDE DEF Upto
    <3>1. QED BY <2>1, <2>2
  <2>4. PICK h : Upto(m - 1, h)
    <3> HIDE DEF Upto
    <3>1. QED BY <2>3
  <2> DEFINE g == [p \in P |-> IF p[1] + p[2] = m - 1 THEN DistStep(a, b, h, p) ELSE h[p]]
  <2>5. \A p \in P : p[1] + p[2] < m => g[p] = DistStep(a, b, g, p)
    <3> SUFFICES ASSUME NEW p \in P, p[1] + p[2] < m PROVE g[p] = DistStep(a, b, g, p)
      OBVIOUS
    <3>1. g[p] = DistStep(a, b, h, p)
      <4>1. CASE p[1] + p[2] = m - 1
        BY <4>1
      <4>2. CASE p[1] + p[2] # m - 1
        <5>1. p[1] + p[2] < m - 1
          BY <1>1, <2>3, <4>2
        <5>2. QED BY <2>4, <4>2, <5>1
      <4>3. QED BY <4>1, <4>2
    <3>2. p[1] \in 0..Len(a) /\ p[2] \in 0..Len(b)
      BY <1>1
    <3>3. CASE p[1] = 0 \/ p[2] = 0
      BY <3>1, <3>3 DEF DistStep
    <3>4. CASE p[1] # 0 /\ p[2] # 0
      <4> DEFINE u == << p[1] - 1, p[2] - 1 >>  v == << p[1] - 1, p[2] >>  w == << p[1], p[2] - 1 >>
      <4>1. u \in P /\ v \in P /\ w \in P
        BY <3>2, <3>4 DEF Points
      <4>2. /\ u[1] + u[2] # m - 1 /\ v[1] + v[2] # m - 1 /\ w[1] + w[2] # m - 1
        BY <3>2, <3>4, <2>3, SMTT(30)
      <4>3. g[u] = h[u] /\ g[v] = h[v] /\ g[w] = h[w]
        BY <4>1, <4>2
      <4>4. QED BY <3>1, <4>3 DEF DistStep
    <3>5. QED BY <3>3, <3>4
  <2>6. Upto(m, g)
    BY <2>5
  <2>7. QED
    <3> HIDE DEF Upto
    <3>1. QED BY <2>1, <2>6
<1>3. PICK h : Upto(Len(a) + Len(b) + 1, h)
  <2>1. Len(a) + Len(b) + 1 \in Nat
    OBVIOUS
  <2> HIDE DEF Upto
  <2>2. QED BY <1>2, <2>1
<1>4. \A p \in P : h[p] = DistStep(a, b, h, p)
  BY <1>1, <1>3
<1>5. h = [p \in P |-> h[p]]
  BY <1>3
<1>6. IsDist(a, b, h)
  BY <1>4, <1>5 DEF IsDist
<1>7. QED BY <1>6 DEF Dist

Val(h, x, y) == h[<< x, y >>]
D(a, b, x, y) == Val(Dist(a, b), x, y)

LEMMA DistRules ==
  ASSUME NEW a, NEW b, Len(a) \in Nat, Len(b) \in Nat
  PROVE  /\ \A y \in 0..Len(b) : D(a, b, 0, y) = y
         /\ \A x \in 0..Len(a) : D(a, b, x, 0) = x
         /\ \A x \in 1..Len(a), y \in 1..Len(b) :
              D(a, b, x, y) =
                IF Same(a, b, x - 1, y - 1) THEN D(a, b, x - 1, y - 1)
                ELSE 1 + (IF D(a, b, x - 1, y) < D(a, b, x, y - 1)
                          THEN D(a, b, x - 1, y) ELSE D(a, b, x, y - 1))
<1> DEFINE h == Dist(a, b)
<1>1. \A p \in Points(a, b) : h[p] = DistStep(a, b, h, p)
  <2>1. IsDist(a, b, h)
    BY DistExists
  <2> HIDE DEF h
  <2>2. QED BY <2>1 DEF IsDist
<1>2. \A x \in 0..Len(a), y \in 0..Len(b) : h[<< x, y >>] = DistStep(a, b, h, << x, y >>)
  <2> HIDE DEF h
  <2>1. QED BY <1>1 DEF Points
<1> HIDE DEF h
<1>3. \A y \in 0..Len(b) : h[<< 0, y >>] = y
  <2> TAKE y \in 0..Len(b)
  <2>1. h[<< 0, y >>] = DistStep(a, b, h, << 0, y >>)
    BY <1>2
  <2>2. QED BY <2>1, Zenon DEF DistStep
<1>4. \A x \in 0..Len(a) : h[<< x, 0 >>] = x
  <2> TAKE x \in 0..Len(a)
  <2>1. h[<< x, 0 >>] = DistStep(a, b, h, << x, 0 >>)
    BY <1>2
  <2>2. QED BY <2>1, Zenon DEF DistStep
<1>5. \A x \in 1..Len(a), y \in 1..Len(b) :
         h[<< x, y >>] = IF Same(a, b, x - 1, y - 1) THEN h[<< x - 1, y - 1 >>]
                         ELSE 1 + (IF h[<< x - 1, y >>] < h[<< x, y - 1 >>]
                                   THEN h[<< x - 1, y >>] ELSE h[<< x, y - 1 >>])
  <2> TAKE x \in 1..Len(a), y \in 1..Len(b)
  <2>1. x # 0 /\ y # 0 /\ x \in 0..Len(a) /\ y \in 0..Len(b)
    OBVIOUS
  <2>2. QED BY <1>2, <2>1, Zenon DEF DistStep
<1>6. QED BY <1>3, <1>4, <1>5 DEF D, Val, h

\* It is at least how far the diagonal is from the main one and of its parity, and it
\* changes by at most one from a point to the next.
Neat(e, x, y) ==
  /\ Val(e, x, y) \in Nat /\ x - y <= Val(e, x, y) /\ y - x <= Val(e, x, y)
  /\ (Val(e, x, y) - (x - y)) % 2 = 0
  /\ x > 0 => /\ Val(e, x, y) <= Val(e, x - 1, y) + 1
              /\ Val(e, x - 1, y) <= Val(e, x, y) + 1
  /\ y > 0 => /\ Val(e, x, y) <= Val(e, x, y - 1) + 1
              /\ Val(e, x, y - 1) <= Val(e, x, y) + 1

LEMMA DistNeat ==
  ASSUME NEW a, NEW b, Len(a) \in Nat, Len(b) \in Nat
  PROVE  \A x \in 0..Len(a), y \in 0..Len(b) : Neat(Dist(a, b), x, y)
<1> DEFINE e == Dist(a, b)
           Bad == {n \in Nat : \E x \in 0..Len(a), y \in 0..Len(b) : x + y = n /\ ~Neat(e, x, y)}
<1>1. /\ \A y \in 0..Len(b) : Val(e, 0, y) = y
      /\ \A x \in 0..Len(a) : Val(e, x, 0) = x
      /\ \A x \in 1..Len(a), y \in 1..Len(b) :
              Val(e, x, y) =
                IF Same(a, b, x - 1, y - 1) THEN Val(e, x - 1, y - 1)
                ELSE 1 + (IF Val(e, x - 1, y) < Val(e, x, y - 1)
                          THEN Val(e, x - 1, y) ELSE Val(e, x, y - 1))
  BY DistRules DEF D
<1> HIDE DEF e
<1>2. SUFFICES ASSUME Bad # {} PROVE FALSE
  <2>1. \A x \in 0..Len(a), y \in 0..Len(b) : x + y \in Nat
    OBVIOUS
  <2>2. QED BY <2>1 DEF e
<1>3. PICK m \in Bad : \A n \in Bad : m <= n
  <2>1. Bad \in SUBSET Nat
    OBVIOUS
  <2> HIDE DEF Bad
  <2>2. QED BY <1>2, <2>1, Least
<1>4. PICK x \in 0..Len(a), y \in 0..Len(b) : x + y = m /\ ~Neat(e, x, y)
  BY <1>3
<1>5. \A u \in 0..Len(a), v \in 0..Len(b) : u + v < m => Neat(e, u, v)
  <2> SUFFICES ASSUME NEW u \in 0..Len(a), NEW v \in 0..Len(b), u + v < m, ~Neat(e, u, v)
               PROVE FALSE
    OBVIOUS
  <2>1. u + v \in Bad /\ u + v \in Nat /\ m \in Nat
    BY <1>3
  <2>2. m <= u + v
    <3> HIDE DEF Bad
    <3>1. QED BY <1>3, <2>1
  <2>3. QED BY <2>1, <2>2
<1>6. CASE x = 0
  <2>1. Val(e, 0, y) = y
    BY <1>1
  <2>2. y > 0 => Val(e, 0, y - 1) = y - 1
    BY <1>1
  <2>3. QED BY <1>4, <1>6, <2>1, <2>2 DEF Neat
<1>7. CASE y = 0
  <2>1. /\ Val(e, x, 0) = x
        /\ x > 0 => Val(e, x - 1, 0) = x - 1
    BY <1>1
  <2>2. QED BY <1>4, <1>7, <2>1 DEF Neat
<1>8. CASE x # 0 /\ y # 0
  <2> DEFINE c == Val(e, x, y)  l == Val(e, x - 1, y)  u == Val(e, x, y - 1)
             w == Val(e, x - 1, y - 1)
  <2>1. Neat(e, x - 1, y) /\ Neat(e, x, y - 1) /\ Neat(e, x - 1, y - 1)
    BY <1>4, <1>5, <1>8
  <2>2. /\ l \in Nat /\ u \in Nat /\ w \in Nat
        /\ l <= w + 1 /\ w <= l + 1 /\ u <= w + 1 /\ w <= u + 1
        /\ x - y <= w /\ y - x <= w /\ (w - (x - y)) % 2 = 0
        /\ x - y <= l + 1 /\ y - x + 1 <= l /\ (l + 1 - (x - y)) % 2 = 0
        /\ x - y + 1 <= u /\ y - x <= u + 1 /\ (u + 1 - (x - y)) % 2 = 0
    <3>1. x \in Nat /\ y \in Nat /\ x > 0 /\ y > 0
      BY <1>4, <1>8
    <3>2. /\ l \in Nat /\ l <= w + 1 /\ w <= l + 1
          /\ x - y <= l + 1 /\ y - x + 1 <= l /\ (l + 1 - (x - y)) % 2 = 0
      <4>1. /\ l \in Nat /\ (x - 1) - y <= l /\ y - (x - 1) <= l /\ (l - ((x - 1) - y)) % 2 = 0
            /\ l <= w + 1 /\ w <= l + 1
        BY <2>1, <3>1 DEF Neat
      <4>2. l - ((x - 1) - y) = l + 1 - (x - y)
        BY <3>1, <4>1
      <4> HIDE DEF l, w
      <4>3. QED BY <3>1, <4>1, <4>2
    <3>3. /\ u \in Nat /\ u <= w + 1 /\ w <= u + 1
          /\ x - y + 1 <= u /\ y - x <= u + 1 /\ (u + 1 - (x - y)) % 2 = 0
      <4>1. /\ u \in Nat /\ x - (y - 1) <= u /\ (y - 1) - x <= u /\ (u - (x - (y - 1))) % 2 = 0
            /\ u <= w + 1 /\ w <= u + 1
        BY <2>1, <3>1 DEF Neat
      <4>2. (u - (x - (y - 1))) + 2 = u + 1 - (x - y)
        BY <3>1, <4>1
      <4> HIDE DEF u, w
      <4>3. (u + 1 - (x - y)) % 2 = 0
        BY <3>1, <4>1, <4>2
      <4>4. QED BY <3>1, <4>1, <4>3
    <3>4. w \in Nat /\ x - y <= w /\ y - x <= w /\ (w - (x - y)) % 2 = 0
      BY <1>4, <1>8, <2>1 DEF Neat
    <3>5. QED BY <3>2, <3>3, <3>4
  <2>3. c = w \/ (c = 1 + l /\ l <= u) \/ (c = 1 + u /\ u <= l)
    <3>1. x \in 1..Len(a) /\ y \in 1..Len(b)
      BY <1>4, <1>8
    <3>2. c = IF Same(a, b, x - 1, y - 1) THEN w ELSE 1 + (IF l < u THEN l ELSE u)
      BY <1>1, <3>1
    <3> HIDE DEF c, l, u, w
    <3>3. QED BY <2>2, <3>2
  <2> HIDE DEF c, l, u, w
  <2>4. /\ c \in Nat /\ x - y <= c /\ y - x <= c /\ (c - (x - y)) % 2 = 0
        /\ c <= l + 1 /\ l <= c + 1 /\ c <= u + 1 /\ u <= c + 1
    <3>1. CASE c = w
      BY <2>2, <3>1
    <3>2. CASE c = 1 + l /\ l <= u
      <4>1. c - (x - y) = l + 1 - (x - y)
        BY <2>2, <3>2
      <4>2. (c - (x - y)) % 2 = 0
        BY <2>2, <4>1
      <4>3. /\ l \in Nat /\ u \in Nat /\ w \in Nat /\ l <= w + 1 /\ w <= l + 1 /\ u <= w + 1
            /\ x - y <= l + 1 /\ y - x + 1 <= l /\ x \in Nat /\ y \in Nat
        BY <1>4, <2>2
      <4>4. QED BY <3>2, <4>2, <4>3
    <3>3. CASE c = 1 + u /\ u <= l
      <4>1. c - (x - y) = u + 1 - (x - y)
        BY <2>2, <3>3
      <4>2. (c - (x - y)) % 2 = 0
        BY <2>2, <4>1
      <4>3. /\ l \in Nat /\ u \in Nat /\ w \in Nat /\ u <= w + 1 /\ w <= u + 1 /\ l <= w + 1
            /\ x - y + 1 <= u /\ y - x <= u + 1 /\ x \in Nat /\ y \in Nat
        BY <1>4, <2>2
      <4>4. QED BY <3>3, <4>2, <4>3
    <3>4. QED BY <2>3, <3>1, <3>2, <3>3
  <2>5. Neat(e, x, y)
    BY <1>4, <1>8, <2>4 DEF Neat, c, l, u
  <2>6. QED BY <1>4, <2>5
<1>9. QED BY <1>6, <1>7, <1>8

-----------------------------------------------------------------------------
(* One round of the way forth, from what the one before has reached.       *)

Follow(a, b, x, k) ==
  LET room == {n \in 0..Len(a) : /\ x + n <= Len(a) /\ x + n - k <= Len(b)
                                 /\ \A j \in 0..n - 1 : Same(a, b, x + j, x + j - k)}
  IN  IF room = {} THEN x ELSE x + CHOOSE n \in room : \A o \in room : o <= n

\* The end of the equal blocks is in range if their beginning is, and no block follows
\* that is equal as well.
LEMMA FollowFacts ==
  ASSUME NEW a, NEW b, Len(a) \in Nat, Len(b) \in Nat, NEW x \in Nat, NEW k \in Int,
         x - k \in Nat
  PROVE  LET s == Follow(a, b, x, k) IN
         /\ s \in Nat /\ x <= s
         /\ ~(x <= Len(a) /\ x - k <= Len(b)) => s = x
         /\ x <= Len(a) /\ x - k <= Len(b) => s <= Len(a) /\ s - k <= Len(b)
         /\ \A j \in x..s - 1 : Same(a, b, j, j - k)
         /\ s < Len(a) /\ s - k < Len(b) => ~Same(a, b, s, s - k)
<1> DEFINE room == {n \in 0..Len(a) : /\ x + n <= Len(a) /\ x + n - k <= Len(b)
                                      /\ \A j \in 0..n - 1 : Same(a, b, x + j, x + j - k)}
           most == CHOOSE n \in room : \A o \in room : o <= n
           s == Follow(a, b, x, k)
<1>1. s = IF room = {} THEN x ELSE x + most
  BY DEF Follow
<1>2. CASE x <= Len(a) /\ x - k <= Len(b)
  <2>1. 0 \in room
    BY <1>2
  <2>2. \E n \in room : \A o \in room : o <= n
    <3> DEFINE left == {Len(a) - n : n \in room}
    <3>1. left \in SUBSET Nat /\ left # {}
      BY <2>1, SMTT(30)
    <3>2. PICK m \in left : \A n \in left : m <= n
      <4> HIDE DEF left
      <4>1. QED BY <3>1, Least
    <3>3. PICK n \in room : m = Len(a) - n
      BY <3>2
    <3>4. \A o \in room : o <= n
      <4> TAKE o \in room
      <4>1. Len(a) - n <= Len(a) - o
        BY <3>2, <3>3
      <4>2. QED BY <4>1
    <3>5. QED BY <3>4
  <2>3. most \in room /\ \A o \in room : o <= most
    <3> HIDE DEF room
    <3>1. QED BY <2>2
  <2> HIDE DEF most
  <2>4. s = x + most
    <3> HIDE DEF room, s
    <3>1. QED BY <1>1, <2>1
  <2> HIDE DEF s
  <2>5. s \in Nat /\ x <= s /\ s <= Len(a) /\ s - k <= Len(b)
    BY <2>3, <2>4
  <2>6. \A j \in x..s - 1 : Same(a, b, j, j - k)
    <3> TAKE j \in x..s - 1
    <3>1. j - x \in 0..most - 1 /\ x + (j - x) = j
      BY <2>3, <2>4
    <3>2. Same(a, b, x + (j - x), x + (j - x) - k)
      BY <2>3, <3>1
    <3>3. QED BY <3>1, <3>2
  <2>7. s < Len(a) /\ s - k < Len(b) => ~Same(a, b, s, s - k)
    <3> SUFFICES ASSUME s < Len(a), s - k < Len(b), Same(a, b, s, s - k) PROVE FALSE
      OBVIOUS
    <3>1. most + 1 \in 0..Len(a) /\ x + (most + 1) <= Len(a) /\ x + (most + 1) - k <= Len(b)
      BY <2>3, <2>4
    <3>2. \A j \in 0..(most + 1) - 1 : Same(a, b, x + j, x + j - k)
      <4> TAKE j \in 0..(most + 1) - 1
      <4>1. CASE j = most
        BY <2>4, <4>1
      <4>2. CASE j # most
        <5>1. j \in 0..most - 1
          BY <2>3, <4>2
        <5>2. QED BY <2>3, <5>1
      <4>3. QED BY <4>1, <4>2
    <3>3. most + 1 \in room
      BY <3>1, <3>2
    <3>4. most \in Nat /\ most + 1 <= most
      <4> HIDE DEF room
      <4>1. most + 1 <= most
        BY <2>3, <3>3
      <4>2. QED BY <2>3, <4>1 DEF room
    <3>5. QED BY <3>4
  <2>8. QED BY <1>2, <2>5, <2>6, <2>7 DEF s
<1>3. CASE ~(x <= Len(a) /\ x - k <= Len(b))
  <2>1. room = {}
    <3> SUFFICES ASSUME NEW n \in room PROVE FALSE
      OBVIOUS
    <3>1. n \in Nat /\ x + n <= Len(a) /\ x + n - k <= Len(b)
      OBVIOUS
    <3>2. QED BY <1>3, <3>1
  <2>2. s = x
    <3> HIDE DEF room, s
    <3>1. QED BY <1>1, <2>1
  <2> HIDE DEF s
  <2>3. /\ s \in Nat /\ x <= s
        /\ ~(s < Len(a) /\ s - k < Len(b))
        /\ \A j \in x..s - 1 : Same(a, b, j, j - k)
    BY <1>3, <2>2
  <2>4. QED BY <1>3, <2>2, <2>3 DEF s
<1>4. QED BY <1>2, <1>3

Steps(d) == {k \in -d..d : (d - k) % 2 = 0}
Start(p, d, k) == IF Inserts(p, d, k) THEN p[k + 1] ELSE p[k - 1] + 1

\* What round d knows of diagonal k: p is what the round before has reached, r what it
\* reaches itself.  It goes on from the further of two points; beyond an end it is only if
\* one of the two was; and it has got as far as d edits can get.
Reached(a, b, p, d, r) ==
  \A k \in Steps(d) :
    /\ r[k] = Follow(a, b, Start(p, d, k), k)
    /\ Start(p, d, k) \in Nat /\ Start(p, d, k) - k \in Nat
    /\ k # -d => p[k - 1] \in Nat /\ p[k - 1] + 1 <= Start(p, d, k)
    /\ k # d => p[k + 1] \in Nat /\ p[k + 1] <= Start(p, d, k)
    /\ r[k] \in Nat /\ r[k] - k \in Nat /\ d <= 2 * r[k] - k
    /\ r[k] > Len(a) => k # -d /\ r[k] - 1 <= p[k - 1]
    /\ r[k] - k > Len(b) => k # d /\ r[k] <= p[k + 1]
    /\ r[k] <= Len(a) /\ r[k] - k <= Len(b) => D(a, b, r[k], r[k] - k) <= d
    /\ \A x \in 0..Len(a), y \in 0..Len(b) : x - y = k /\ D(a, b, x, y) <= d => x <= r[k]

Unfound(a, b, d, r) == \A k \in Steps(d) : ~(r[k] >= Len(a) /\ r[k] - k >= Len(b))

LEMMA StepsFacts ==
  ASSUME NEW d \in Nat, NEW k \in Steps(d)
  PROVE  /\ k \in Int /\ -d <= k /\ k <= d
         /\ k # -d => d > 0 /\ k - 1 \in Steps(d - 1)
         /\ k # d => d > 0 /\ k + 1 \in Steps(d - 1)
<1>1. k \in Int /\ -d <= k /\ k <= d /\ (d - k) % 2 = 0
  BY DEF Steps
<1>2. k # -d => d > 0 /\ k - 1 \in -(d - 1)..d - 1 /\ ((d - 1) - (k - 1)) % 2 = 0
  <2> SUFFICES ASSUME k # -d PROVE d > 0 /\ k - 1 \in -(d - 1)..d - 1 /\ ((d - 1) - (k - 1)) % 2 = 0
    OBVIOUS
  <2>1. d - k # 2 * d - 1
    BY <1>1
  <2>2. (d - 1) - (k - 1) = d - k
    BY <1>1
  <2>3. QED BY <1>1, <2>1, <2>2
<1>3. k # d => d > 0 /\ k + 1 \in -(d - 1)..d - 1 /\ ((d - 1) - (k + 1)) % 2 = 0
  <2> SUFFICES ASSUME k # d PROVE d > 0 /\ k + 1 \in -(d - 1)..d - 1 /\ ((d - 1) - (k + 1)) % 2 = 0
    OBVIOUS
  <2>1. d - k # 1
    BY <1>1
  <2>2. (d - 1) - (k + 1) = d - k - 2
    BY <1>1
  <2>3. (d - k - 2) % 2 = 0
    BY <1>1
  <2>4. QED BY <1>1, <2>1, <2>2, <2>3
<1>4. QED BY <1>1, <1>2, <1>3 DEF Steps

\* Where a round goes on: not behind one of the two points, and with its d edits.
LEMMA StartFacts ==
  ASSUME NEW a, NEW b, NEW q, NEW p, NEW d \in Nat \ {0}, Reached(a, b, q, d - 1, p),
         NEW k \in Steps(d)
  PROVE  LET f == Start(p, d, k) IN
         /\ f \in Nat /\ f - k \in Nat /\ d <= 2 * f - k
         /\ k # -d => p[k - 1] \in Nat /\ p[k - 1] - (k - 1) \in Nat /\ p[k - 1] + 1 <= f
         /\ k # d => p[k + 1] \in Nat /\ p[k + 1] - (k + 1) \in Nat /\ p[k + 1] <= f
         /\ \/ k # -d /\ f = p[k - 1] + 1 /\ ~Inserts(p, d, k)
            \/ k # d /\ f = p[k + 1] /\ Inserts(p, d, k)
<1>1. /\ k \in Int /\ -d <= k /\ k <= d
      /\ k # -d => k - 1 \in Steps(d - 1)
      /\ k # d => k + 1 \in Steps(d - 1)
  BY StepsFacts
<1>2. k # -d => p[k - 1] \in Nat /\ p[k - 1] - (k - 1) \in Nat /\ d - 1 <= 2 * p[k - 1] - (k - 1)
  BY <1>1 DEF Reached
<1>3. k # d => p[k + 1] \in Nat /\ p[k + 1] - (k + 1) \in Nat /\ d - 1 <= 2 * p[k + 1] - (k + 1)
  BY <1>1 DEF Reached
<1>4. CASE Inserts(p, d, k)
  <2>1. k # d /\ Start(p, d, k) = p[k + 1]
    BY <1>1, <1>4 DEF Start, Inserts
  <2>2. k # -d => p[k - 1] < p[k + 1]
    BY <1>4 DEF Inserts
  <2> DEFINE f == p[k + 1]  g == p[k - 1]
  <2>3. f \in Nat /\ f - (k + 1) \in Nat /\ d - 1 <= 2 * f - (k + 1)
    BY <1>3, <2>1
  <2>4. k # -d => g \in Nat /\ g - (k - 1) \in Nat /\ g < f
    BY <1>2, <2>2
  <2> HIDE DEF f, g
  <2>5. f - k \in Nat /\ d <= 2 * f - k /\ (k # -d => g + 1 <= f) /\ f <= f
    BY <1>1, <2>3, <2>4
  <2>6. QED BY <1>4, <2>1, <2>3, <2>4, <2>5 DEF f, g
<1>5. CASE ~Inserts(p, d, k)
  <2>1. k # -d /\ Start(p, d, k) = p[k - 1] + 1 /\ (k # d => ~(p[k - 1] < p[k + 1]))
    BY <1>5 DEF Start, Inserts
  <2> DEFINE f == p[k + 1]  g == p[k - 1]
  <2>2. g \in Nat /\ g - (k - 1) \in Nat /\ d - 1 <= 2 * g - (k - 1)
    BY <1>2, <2>1
  <2>3. k # d => f \in Nat /\ f - (k + 1) \in Nat /\ ~(g < f)
    BY <1>3, <2>1
  <2> HIDE DEF f, g
  <2> DEFINE s == Start(p, d, k)
  <2>4. s = g + 1
    BY <2>1 DEF g
  <2> HIDE DEF s
  <2>5. s \in Nat /\ s - k \in Nat /\ d <= 2 * s - k /\ g + 1 <= s /\ (k # d => f <= s)
    BY <1>1, <2>2, <2>3, <2>4
  <2>6. QED BY <1>5, <2>1, <2>2, <2>3, <2>4, <2>5 DEF f, g, s
<1>6. QED BY <1>4, <1>5

\* A point that is reached in range takes no more edits than were made.
LEMMA ReachedIsNear ==
  ASSUME NEW a, NEW b, Len(a) \in Nat, Len(b) \in Nat, NEW k \in Int, NEW f \in Nat, NEW d \in Nat,
         f - k \in Nat, NEW s, s = Follow(a, b, f, k), s <= Len(a), s - k <= Len(b),
         D(a, b, f, f - k) <= d
  PROVE  D(a, b, s, s - k) <= d
<1>1. /\ s \in Nat /\ f <= s
      /\ \A j \in f..s - 1 : Same(a, b, j, j - k)
  BY FollowFacts
<1> DEFINE Far == {j \in f..s : ~(D(a, b, j, j - k) <= d)}
<1>2. SUFFICES ASSUME Far # {} PROVE FALSE
  BY <1>1
<1>3. PICK j \in Far : \A n \in Far : j <= n
  <2>1. Far \in SUBSET Nat
    BY <1>1
  <2> HIDE DEF Far
  <2>2. QED BY <1>2, <2>1, Least
<1>4. j # f /\ j \in f..s /\ j \in Nat
  BY <1>1, <1>3
<1>5. j - 1 \in f..s /\ j - 1 \notin Far
  <2>1. j - 1 \in f..s /\ ~(j <= j - 1)
    BY <1>1, <1>4
  <2>2. j - 1 \notin Far
    <3> HIDE DEF Far
    <3>1. QED BY <1>3, <2>1
  <2>3. QED BY <2>1, <2>2
<1>6. D(a, b, j - 1, j - 1 - k) <= d /\ Same(a, b, j - 1, j - 1 - k)
  BY <1>1, <1>4, <1>5
<1>7. j \in 1..Len(a) /\ j - k \in 1..Len(b) /\ (j - k) - 1 = j - 1 - k
  BY <1>1, <1>4
<1>8. D(a, b, j, j - k) = D(a, b, j - 1, (j - k) - 1)
  BY <1>6, <1>7, DistRules
<1>9. QED BY <1>3, <1>6, <1>7, <1>8

\* And what takes no more is reached.
LEMMA NearIsReached ==
  ASSUME NEW a, NEW b, Len(a) \in Nat, Len(b) \in Nat, NEW k \in Int, NEW f \in Nat, NEW d \in Nat,
         f - k \in Nat,
         \* What is one edit away from a point of the round before.
         \A x \in 1..Len(a), y \in 1..Len(b) :
            x - y = k /\ D(a, b, x, y) <= d /\ ~Same(a, b, x - 1, y - 1) => x <= f,
         NEW s, s = Follow(a, b, f, k)
  PROVE  \A x \in 0..Len(a), y \in 0..Len(b) : x - y = k /\ D(a, b, x, y) <= d => x <= s
<1>1. /\ s \in Nat /\ f <= s /\ s - k \in Nat
      /\ s < Len(a) /\ s - k < Len(b) => ~Same(a, b, s, s - k)
  <2>1. /\ s \in Nat /\ f <= s
        /\ s < Len(a) /\ s - k < Len(b) => ~Same(a, b, s, s - k)
    BY FollowFacts
  <2>2. s - k \in Nat
    BY <2>1
  <2>3. QED BY <2>1, <2>2
<1> DEFINE Missed == {x \in 0..Len(a) : /\ x - k \in 0..Len(b) /\ D(a, b, x, x - k) <= d
                                        /\ s < x}
<1>2. SUFFICES ASSUME Missed # {} PROVE FALSE
  <2> SUFFICES ASSUME NEW x \in 0..Len(a), NEW y \in 0..Len(b), x - y = k, D(a, b, x, y) <= d
               PROVE  x <= s
    OBVIOUS
  <2>1. y = x - k
    OBVIOUS
  <2>2. x \notin Missed
    BY <1>2
  <2>3. QED BY <1>1, <2>1, <2>2
<1>3. PICK x \in Missed : \A n \in Missed : x <= n
  <2>1. Missed \in SUBSET Nat
    OBVIOUS
  <2> HIDE DEF Missed
  <2>2. QED BY <1>2, <2>1, Least
<1>4. x \in 0..Len(a) /\ x - k \in 0..Len(b) /\ D(a, b, x, x - k) <= d /\ s < x
  BY <1>3
<1>5. x \in 1..Len(a) /\ x - k \in 1..Len(b) /\ x - (x - k) = k
  BY <1>1, <1>4
<1>6. Same(a, b, x - 1, (x - k) - 1)
  <2>1. x <= f <=> FALSE
    BY <1>1, <1>4
  <2>2. QED BY <1>4, <1>5, <2>1
<1>7. D(a, b, x - 1, (x - 1) - k) <= d
  <2>1. D(a, b, x, x - k) = D(a, b, x - 1, (x - k) - 1)
    BY <1>5, <1>6, DistRules
  <2>2. (x - k) - 1 = (x - 1) - k
    BY <1>5
  <2>3. QED BY <1>4, <2>1, <2>2
<1>8. x - 1 \notin Missed
  <2>1. ~(x <= x - 1)
    BY <1>4
  <2> HIDE DEF Missed
  <2>2. QED BY <1>3, <2>1
<1>9. x - 1 = s
  <2>1. x - 1 \in 0..Len(a) /\ (x - 1) - k \in 0..Len(b)
    BY <1>5
  <2>2. ~(s < x - 1)
    BY <1>7, <1>8, <2>1
  <2>3. x \in Nat
    BY <1>4
  <2>4. \A u, v \in Nat : u < v /\ ~(u < v - 1) => v - 1 = u
    OBVIOUS
  <2> HIDE DEF Missed
  <2>5. s \in Nat /\ s < x
    BY <1>1, <1>4
  <2>6. QED BY <2>2, <2>3, <2>4, <2>5
<1>10. s < Len(a) /\ s - k < Len(b) /\ Same(a, b, s, s - k)
  <2>1. s < Len(a) /\ s - k < Len(b)
    BY <1>1, <1>5, <1>9
  <2>2. (x - k) - 1 = s - k
    BY <1>1, <1>5, <1>9
  <2>3. QED BY <1>6, <1>9, <2>1, <2>2
<1>11. QED BY <1>1, <1>10

LEMMA FirstRound ==
  ASSUME NEW a, NEW b, Len(a) \in Nat, Len(b) \in Nat, NEW p, p[1] = 0,
         NEW r, \A k \in Steps(0) : r[k] = Follow(a, b, Start(p, 0, k), k)
  PROVE  Reached(a, b, p, 0, r)
<1> DEFINE s == r[0]
<1>1. Steps(0) = {0}
  BY DEF Steps
<1>2. Start(p, 0, 0) = 0 /\ s = Follow(a, b, 0, 0)
  <2>1. PICK z \in Nat : z = 0
    OBVIOUS
  <2>2. z = -z
    <3>1. z \in Steps(z)
      BY <1>1, <2>1
    <3>2. z # -z => z > 0
      BY <3>1, StepsFacts
    <3>3. QED BY <2>1, <3>2
  <2>3. Inserts(p, z, z)
    BY <2>2, Zenon DEF Inserts
  <2>4. 0 + 1 = 1
    OBVIOUS
  <2>5. QED BY <1>1, <2>1, <2>3, <2>4 DEF Start
<1> HIDE DEF s
<1>3. s \in Nat /\ s <= Len(a) /\ s - 0 <= Len(b)
  BY <1>2, FollowFacts
<1>4. D(a, b, s, s - 0) <= 0
  <2>1. D(a, b, 0, 0 - 0) <= 0
    BY DistRules
  <2>2. QED BY <1>2, <1>3, <2>1, ReachedIsNear
<1>5. \A x \in 0..Len(a), y \in 0..Len(b) : x - y = 0 /\ D(a, b, x, y) <= 0 => x <= s
  <2>1. \A x \in 1..Len(a), y \in 1..Len(b) :
          x - y = 0 /\ D(a, b, x, y) <= 0 /\ ~Same(a, b, x - 1, y - 1) => x <= 0
    <3> SUFFICES ASSUME NEW x \in 1..Len(a), NEW y \in 1..Len(b),
                        D(a, b, x, y) <= 0, ~Same(a, b, x - 1, y - 1)
                 PROVE  FALSE
      OBVIOUS
    <3>1. D(a, b, x - 1, y) \in Nat /\ D(a, b, x, y - 1) \in Nat
      <4>1. x - 1 \in 0..Len(a) /\ y \in 0..Len(b) /\ x \in 0..Len(a) /\ y - 1 \in 0..Len(b)
        OBVIOUS
      <4>2. QED BY <4>1, DistNeat DEF Neat, D
    <3>2. D(a, b, x, y) = 1 + D(a, b, x - 1, y) \/ D(a, b, x, y) = 1 + D(a, b, x, y - 1)
      BY DistRules
    <3>3. QED BY <3>1, <3>2
  <2>2. QED BY <1>2, <2>1, NearIsReached
<1>6. QED BY <1>1, <1>2, <1>3, <1>4, <1>5, SMTT(30) DEF Reached, s

\* A point that is not reached with the block before it equal is one edit away from one
\* that the round before has reached.
LEMMA OneEditAway ==
  ASSUME NEW a, NEW b, Len(a) \in Nat, Len(b) \in Nat, NEW q, NEW p, NEW d \in Nat \ {0},
         Reached(a, b, q, d - 1, p), NEW k \in Steps(d),
         NEW x \in 1..Len(a), NEW y \in 1..Len(b), x - y = k, D(a, b, x, y) <= d,
         ~Same(a, b, x - 1, y - 1)
  PROVE  x <= Start(p, d, k)
<1>1. x - 1 \in 0..Len(a) /\ y \in 0..Len(b) /\ x \in 0..Len(a) /\ y - 1 \in 0..Len(b)
  OBVIOUS
<1>2. /\ k \in Int /\ -d <= k /\ k <= d
      /\ k # -d => k - 1 \in Steps(d - 1)
      /\ k # d => k + 1 \in Steps(d - 1)
  BY StepsFacts
<1>3. /\ Start(p, d, k) \in Nat
      /\ k # -d => p[k - 1] \in Nat /\ p[k - 1] + 1 <= Start(p, d, k)
      /\ k # d => p[k + 1] \in Nat /\ p[k + 1] <= Start(p, d, k)
  BY StartFacts
<1>4. /\ D(a, b, x - 1, y) \in Nat /\ y - (x - 1) <= D(a, b, x - 1, y)
      /\ D(a, b, x, y - 1) \in Nat /\ x - (y - 1) <= D(a, b, x, y - 1)
  BY <1>1, DistNeat DEF Neat, D
<1>5. D(a, b, x, y) = 1 + D(a, b, x - 1, y) \/ D(a, b, x, y) = 1 + D(a, b, x, y - 1)
  BY DistRules
<1>6. CASE D(a, b, x, y) = 1 + D(a, b, x - 1, y)
  <2>1. k # -d /\ D(a, b, x - 1, y) <= d - 1 /\ (x - 1) - y = k - 1
    BY <1>2, <1>4, <1>6
  <2>2. x - 1 <= p[k - 1]
    BY <1>1, <1>2, <2>1 DEF Reached
  <2>3. QED BY <1>3, <2>1, <2>2
<1>7. CASE D(a, b, x, y) = 1 + D(a, b, x, y - 1)
  <2>1. k # d /\ D(a, b, x, y - 1) <= d - 1 /\ x - (y - 1) = k + 1
    BY <1>2, <1>4, <1>7
  <2>2. x <= p[k + 1]
    BY <1>1, <1>2, <2>1 DEF Reached
  <2>3. QED BY <1>3, <2>1, <2>2
<1>8. QED BY <1>5, <1>6, <1>7

\* A way beyond an end does not come from far within: it was taken round by round, beside
\* one that stays in range.
LEMMA BeyondIsBeside ==
  ASSUME NEW a, NEW b, Len(a) \in Nat, Len(b) \in Nat, NEW q, NEW p, NEW d \in Nat \ {0},
         Reached(a, b, q, d - 1, p), NEW k \in Steps(d),
         NEW s, s = Follow(a, b, Start(p, d, k), k)
  PROVE  /\ s > Len(a) => k # -d /\ s - 1 <= p[k - 1]
         /\ s - k > Len(b) => k # d /\ s <= p[k + 1]
<1> DEFINE f == Start(p, d, k)
<1>1. /\ k \in Int /\ -d <= k /\ k <= d
      /\ k # -d => k - 1 \in Steps(d - 1)
      /\ k # d => k + 1 \in Steps(d - 1)
  BY StepsFacts
<1>2. /\ f \in Nat /\ f - k \in Nat
      /\ k # -d => p[k - 1] \in Nat
      /\ k # d => p[k + 1] \in Nat
      /\ \/ k # -d /\ f = p[k - 1] + 1
         \/ k # d /\ f = p[k + 1]
  BY StartFacts
<1>3. s \in Nat /\ (s > Len(a) \/ s - k > Len(b) => s = f)
  <2>1. /\ s \in Nat
        /\ f <= Len(a) /\ f - k <= Len(b) => s <= Len(a) /\ s - k <= Len(b)
        /\ ~(f <= Len(a) /\ f - k <= Len(b)) => s = f
    BY <1>1, <1>2, FollowFacts
  <2> HIDE DEF f
  <2>2. QED BY <1>1, <1>2, <2>1
<1> HIDE DEF f
<1>4. CASE k # -d /\ f = p[k - 1] + 1
  <2>1. s > Len(a) => k # -d /\ s - 1 <= p[k - 1]
    BY <1>2, <1>3, <1>4
  <2>2. s - k > Len(b) => k # d /\ s <= p[k + 1]
    <3> SUFFICES ASSUME s - k > Len(b) PROVE k # d /\ s <= p[k + 1]
      OBVIOUS
    <3>1. s = p[k - 1] + 1 /\ p[k - 1] - (k - 1) > Len(b)
      BY <1>1, <1>2, <1>3, <1>4
    <3>2. k - 1 # d - 1 /\ p[k - 1] <= q[(k - 1) + 1]
      BY <1>1, <1>4, <3>1 DEF Reached
    <3>3. k # d /\ (k - 1) + 1 = (k + 1) - 1 /\ k + 1 # -(d - 1)
      BY <1>1, <1>4, <3>2
    <3>4. q[(k + 1) - 1] \in Nat /\ q[(k + 1) - 1] + 1 <= p[k + 1]
      <4>1. /\ q[(k + 1) - 1] \in Nat /\ q[(k + 1) - 1] + 1 <= Start(q, d - 1, k + 1)
            /\ Start(q, d - 1, k + 1) \in Nat /\ Start(q, d - 1, k + 1) - (k + 1) \in Nat
            /\ p[k + 1] = Follow(a, b, Start(q, d - 1, k + 1), k + 1)
        BY <1>1, <3>3 DEF Reached
      <4>2. Start(q, d - 1, k + 1) <= p[k + 1] /\ p[k + 1] \in Nat
        <5>1. k + 1 \in Int
          BY <1>1
        <5>2. QED BY <4>1, <5>1, FollowFacts
      <4>3. QED BY <4>1, <4>2
    <3>5. QED BY <1>2, <1>4, <3>1, <3>2, <3>3, <3>4
  <2>3. QED BY <2>1, <2>2
<1>5. CASE k # d /\ f = p[k + 1]
  <2>1. s - k > Len(b) => k # d /\ s <= p[k + 1]
    BY <1>2, <1>3, <1>5
  <2>2. s > Len(a) => k # -d /\ s - 1 <= p[k - 1]
    <3> SUFFICES ASSUME s > Len(a) PROVE k # -d /\ s - 1 <= p[k - 1]
      OBVIOUS
    <3>1. s = p[k + 1] /\ p[k + 1] > Len(a)
      BY <1>1, <1>2, <1>3, <1>5
    <3>2. k + 1 # -(d - 1) /\ p[k + 1] - 1 <= q[(k + 1) - 1]
      BY <1>1, <1>5, <3>1 DEF Reached
    <3>3. k # -d /\ (k - 1) + 1 = (k + 1) - 1 /\ k - 1 # d - 1
      BY <1>1, <1>5, <3>2
    <3>4. q[(k - 1) + 1] \in Nat /\ q[(k - 1) + 1] <= p[k - 1]
      <4>1. /\ q[(k - 1) + 1] \in Nat /\ q[(k - 1) + 1] <= Start(q, d - 1, k - 1)
            /\ Start(q, d - 1, k - 1) \in Nat /\ Start(q, d - 1, k - 1) - (k - 1) \in Nat
            /\ p[k - 1] = Follow(a, b, Start(q, d - 1, k - 1), k - 1)
        BY <1>1, <3>3 DEF Reached
      <4>2. Start(q, d - 1, k - 1) <= p[k - 1] /\ p[k - 1] \in Nat
        <5>1. k - 1 \in Int
          BY <1>1
        <5>2. QED BY <4>1, <5>1, FollowFacts
      <4>3. QED BY <4>1, <4>2
    <3>5. QED BY <1>2, <1>5, <3>1, <3>2, <3>3, <3>4
  <2>3. QED BY <2>1, <2>2
<1>6. QED BY <1>2, <1>4, <1>5

LEMMA NextRound ==
  ASSUME NEW a, NEW b, Len(a) \in Nat, Len(b) \in Nat, NEW q, NEW p, NEW d \in Nat \ {0},
         Reached(a, b, q, d - 1, p),
         NEW r, \A k \in Steps(d) : r[k] = Follow(a, b, Start(p, d, k), k)
  PROVE  Reached(a, b, p, d, r)
<1> SUFFICES ASSUME NEW k \in Steps(d)
             PROVE  /\ r[k] = Follow(a, b, Start(p, d, k), k)
                    /\ Start(p, d, k) \in Nat /\ Start(p, d, k) - k \in Nat
                    /\ k # -d => p[k - 1] \in Nat /\ p[k - 1] + 1 <= Start(p, d, k)
                    /\ k # d => p[k + 1] \in Nat /\ p[k + 1] <= Start(p, d, k)
                    /\ r[k] \in Nat /\ r[k] - k \in Nat /\ d <= 2 * r[k] - k
                    /\ r[k] > Len(a) => k # -d /\ r[k] - 1 <= p[k - 1]
                    /\ r[k] - k > Len(b) => k # d /\ r[k] <= p[k + 1]
                    /\ r[k] <= Len(a) /\ r[k] - k <= Len(b) => D(a, b, r[k], r[k] - k) <= d
                    /\ \A x \in 0..Len(a), y \in 0..Len(b) :
                         x - y = k /\ D(a, b, x, y) <= d => x <= r[k]
  BY DEF Reached
<1> DEFINE f == Start(p, d, k)
           s == r[k]
<1>1. /\ k \in Int /\ -d <= k /\ k <= d
      /\ k # -d => k - 1 \in Steps(d - 1)
      /\ k # d => k + 1 \in Steps(d - 1)
  BY StepsFacts
<1>2. /\ f \in Nat /\ f - k \in Nat /\ d <= 2 * f - k
      /\ k # -d => p[k - 1] \in Nat /\ p[k - 1] - (k - 1) \in Nat /\ p[k - 1] + 1 <= f
      /\ k # d => p[k + 1] \in Nat /\ p[k + 1] - (k + 1) \in Nat /\ p[k + 1] <= f
      /\ \/ k # -d /\ f = p[k - 1] + 1
         \/ k # d /\ f = p[k + 1]
  BY StartFacts
<1>3. s = Follow(a, b, f, k)
  OBVIOUS
<1>4. /\ s > Len(a) => k # -d /\ s - 1 <= p[k - 1]
      /\ s - k > Len(b) => k # d /\ s <= p[k + 1]
  BY <1>3, BeyondIsBeside
<1>5. \A x \in 0..Len(a), y \in 0..Len(b) : x - y = k /\ D(a, b, x, y) <= d => x <= s
  <2>1. \A x \in 1..Len(a), y \in 1..Len(b) :
          x - y = k /\ D(a, b, x, y) <= d /\ ~Same(a, b, x - 1, y - 1) => x <= f
    BY OneEditAway
  <2> HIDE DEF f, s
  <2>2. QED BY <1>1, <1>2, <1>3, <2>1, NearIsReached
<1>6. s <= Len(a) /\ s - k <= Len(b) => D(a, b, s, s - k) <= d
  <2> SUFFICES ASSUME s <= Len(a), s - k <= Len(b) PROVE D(a, b, s, s - k) <= d
    OBVIOUS
  <2> HIDE DEF f, s
  <2>1. s \in Nat /\ f <= s
    BY <1>1, <1>2, <1>3, FollowFacts
  <2>2. f \in 0..Len(a) /\ f - k \in 0..Len(b)
    BY <1>1, <1>2, <2>1
  <2>3. D(a, b, f, f - k) <= d
    <3>1. CASE k # -d /\ f = p[k - 1] + 1
      <4> DEFINE g == p[k - 1]
      <4>1. g \in 0..Len(a) /\ g - (k - 1) \in 0..Len(b) /\ f = g + 1 /\ g - (k - 1) = f - k
        <5>1. g \in Nat /\ g - (k - 1) \in Nat /\ f = g + 1
          BY <1>2, <3>1
        <5> HIDE DEF g
        <5>2. QED BY <1>1, <2>2, <5>1
      <4>2. D(a, b, g, g - (k - 1)) <= d - 1
        BY <1>1, <3>1, <4>1 DEF Reached
      <4> HIDE DEF g
      <4>3. /\ D(a, b, f - 1, f - k) \in Nat /\ D(a, b, f, f - k) \in Nat
            /\ D(a, b, f, f - k) <= D(a, b, f - 1, f - k) + 1
        <5>1. f - 1 \in 0..Len(a) /\ f > 0 /\ f - 1 = g
          BY <1>2, <4>1, <2>2
        <5>2. QED BY <2>2, <5>1, DistNeat DEF Neat, D
      <4>4. f - 1 = g
        BY <4>1
      <4>5. QED BY <4>1, <4>2, <4>3, <4>4
    <3>2. CASE k # d /\ f = p[k + 1]
      <4> DEFINE g == p[k + 1]
      <4>1. g \in 0..Len(a) /\ g - (k + 1) \in 0..Len(b) /\ f = g
        BY <1>1, <1>2, <2>2, <3>2
      <4>2. D(a, b, g, g - (k + 1)) <= d - 1
        BY <1>1, <3>2, <4>1 DEF Reached
      <4> HIDE DEF g
      <4>3. f - (k + 1) = (f - k) - 1 /\ f - k > 0
        BY <1>1, <1>2, <4>1
      <4>4. /\ D(a, b, f, (f - k) - 1) \in Nat /\ D(a, b, f, f - k) \in Nat
            /\ D(a, b, f, f - k) <= D(a, b, f, (f - k) - 1) + 1
        <5>1. (f - k) - 1 \in 0..Len(b)
          BY <1>2, <4>1, <4>3, <2>2
        <5>2. QED BY <2>2, <4>3, <5>1, DistNeat DEF Neat, D
      <4>5. QED BY <4>1, <4>2, <4>3, <4>4
    <3>3. QED BY <1>2, <3>1, <3>2
  <2>4. QED BY <1>1, <1>2, <1>3, <2>3, ReachedIsNear
<1>7. s \in Nat /\ s - k \in Nat /\ d <= 2 * s - k
  <2> HIDE DEF f, s
  <2>1. s \in Nat /\ f <= s
    BY <1>1, <1>2, <1>3, FollowFacts
  <2>2. QED BY <1>1, <1>2, <2>1
<1> HIDE DEF f, s
<1>8. s = r[k] /\ f = Start(p, d, k)
  BY DEF s, f
<1>9. QED BY <1>2, <1>3, <1>4, <1>5, <1>6, <1>7, <1>8

-----------------------------------------------------------------------------
(* The end of the way forth, and its length.                               *)

\* The search ends within as many rounds as there are blocks.
LEMMA EndsInTime ==
  ASSUME NEW a, NEW b, Len(a) \in Nat, Len(b) \in Nat, NEW p, NEW r,
         Reached(a, b, p, Len(a) + Len(b), r)
  PROVE  ~Unfound(a, b, Len(a) + Len(b), r)
<1> DEFINE k == Len(a) - Len(b)
           s == r[k]
<1>1. k \in Steps(Len(a) + Len(b))
  <2>1. (Len(a) + Len(b)) - (Len(a) - Len(b)) = 2 * Len(b)
    OBVIOUS
  <2>2. QED BY <2>1 DEF Steps
<1>2. s \in Nat /\ Len(a) + Len(b) <= 2 * s - k
  BY <1>1 DEF Reached
<1> HIDE DEF s
<1>3. s >= Len(a) /\ s - k >= Len(b)
  BY <1>2
<1>4. QED BY <1>1, <1>3 DEF Unfound, s

\* It ends at the end of both, if it has not ended before.
LEMMA EndsAtTheEnd ==
  ASSUME NEW a, NEW b, Len(a) \in Nat, Len(b) \in Nat, NEW p, NEW r, NEW d \in Nat,
         Reached(a, b, p, d, r),
         d > 0 => /\ \E q : Reached(a, b, q, d - 1, p)
                  /\ Unfound(a, b, d - 1, p),
         NEW k \in Steps(d), r[k] >= Len(a), r[k] - k >= Len(b)
  PROVE  r[k] = Len(a) /\ k = Len(a) - Len(b)
<1> DEFINE s == r[k]
<1>1. /\ k \in Int /\ -d <= k /\ k <= d
      /\ k # -d => d > 0 /\ k - 1 \in Steps(d - 1)
      /\ k # d => d > 0 /\ k + 1 \in Steps(d - 1)
  BY StepsFacts
<1>2. /\ s \in Nat /\ s >= Len(a) /\ s - k >= Len(b)
      /\ s > Len(a) => k # -d /\ s - 1 <= p[k - 1]
      /\ s - k > Len(b) => k # d /\ s <= p[k + 1]
  BY DEF Reached
<1> HIDE DEF s
<1>3. CASE s > Len(a)
  <2>1. k # -d /\ k - 1 \in Steps(d - 1) /\ d > 0 /\ s - 1 <= p[k - 1]
    BY <1>1, <1>2, <1>3
  <2>2. p[k - 1] \in Nat
    BY <2>1 DEF Reached
  <2>3. p[k - 1] >= Len(a) /\ p[k - 1] - (k - 1) >= Len(b)
    BY <1>1, <1>2, <1>3, <2>1, <2>2
  <2>4. QED BY <2>1, <2>3 DEF Unfound
<1>4. CASE s - k > Len(b)
  <2>1. k # d /\ k + 1 \in Steps(d - 1) /\ d > 0 /\ s <= p[k + 1]
    BY <1>1, <1>2, <1>4
  <2>2. p[k + 1] \in Nat
    BY <2>1 DEF Reached
  <2>3. p[k + 1] >= Len(a) /\ p[k + 1] - (k + 1) >= Len(b)
    BY <1>1, <1>2, <1>4, <2>1, <2>2
  <2>4. QED BY <2>1, <2>3 DEF Unfound
<1>5. CASE s = Len(a) /\ s - k = Len(b)
  BY <1>1, <1>5 DEF s
<1>6. QED BY <1>1, <1>2, <1>3, <1>4, <1>5

\* A round that does not end the search has not enough edits.
LEMMA NotEnough ==
  ASSUME NEW a, NEW b, Len(a) \in Nat, Len(b) \in Nat, NEW p, NEW r, NEW d \in Nat,
         Reached(a, b, p, d, r), Unfound(a, b, d, r)
  PROVE  D(a, b, Len(a), Len(b)) # d
<1> SUFFICES ASSUME D(a, b, Len(a), Len(b)) = d PROVE FALSE
  OBVIOUS
<1> DEFINE k == Len(a) - Len(b)
<1>1. k \in Steps(d)
  <2>1. k <= d /\ -k <= d /\ (d - k) % 2 = 0
    <3>1. Len(a) \in 0..Len(a) /\ Len(b) \in 0..Len(b)
      OBVIOUS
    <3>2. /\ Len(a) - Len(b) <= D(a, b, Len(a), Len(b)) /\ Len(b) - Len(a) <= D(a, b, Len(a), Len(b))
          /\ (D(a, b, Len(a), Len(b)) - (Len(a) - Len(b))) % 2 = 0
      BY <3>1, DistNeat DEF Neat, D
    <3>3. QED BY <3>2
  <2>2. QED BY <2>1 DEF Steps
<1>2. r[k] \in Nat /\ Len(a) <= r[k]
  <2>1. Len(a) \in 0..Len(a) /\ Len(b) \in 0..Len(b) /\ D(a, b, Len(a), Len(b)) <= d
    OBVIOUS
  <2>2. QED BY <1>1, <2>1 DEF Reached
<1>3. r[k] >= Len(a) /\ r[k] - k >= Len(b)
  BY <1>2
<1>4. QED BY <1>1, <1>3 DEF Unfound

\* The function that is 0 on every diagonal, then what the rounds have reached.
Before(a, b, t, d) ==
  IF d = 0 THEN [k \in -(Len(a) + Len(b)) .. Len(a) + Len(b) + 1 |-> 0] ELSE t[d]
Rounds(a, b, t) == \A d \in 0..Len(t) - 1 : Reached(a, b, Before(a, b, t, d), d, t[d + 1])
Searched(a, b, t, n) == \A d \in 0..n - 1 : Unfound(a, b, d, t[d + 1])

LEMMA LengthIsDistance ==
  ASSUME NEW a, NEW b, Len(a) \in Nat, Len(b) \in Nat, NEW t, NEW n \in Nat, Len(t) = n + 1,
         Rounds(a, b, t), Searched(a, b, t, n),
         NEW k \in Steps(n), t[n + 1][k] >= Len(a), t[n + 1][k] - k >= Len(b)
  PROVE  /\ t[n + 1][k] = Len(a) /\ k = Len(a) - Len(b)
         /\ n = D(a, b, Len(a), Len(b))
<1>1. \A d \in 0..n : Reached(a, b, Before(a, b, t, d), d, t[d + 1])
  BY DEF Rounds
<1>2. t[n + 1][k] = Len(a) /\ k = Len(a) - Len(b)
  <2>1. Reached(a, b, Before(a, b, t, n), n, t[n + 1])
    BY <1>1
  <2>2. n > 0 => /\ \E q : Reached(a, b, q, n - 1, Before(a, b, t, n))
                 /\ Unfound(a, b, n - 1, Before(a, b, t, n))
    <3> SUFFICES ASSUME n > 0
                 PROVE  /\ \E q : Reached(a, b, q, n - 1, Before(a, b, t, n))
                        /\ Unfound(a, b, n - 1, Before(a, b, t, n))
      OBVIOUS
    <3>1. Before(a, b, t, n) = t[n] /\ (n - 1) + 1 = n /\ n - 1 \in 0..n - 1
      BY DEF Before
    <3>2. Reached(a, b, Before(a, b, t, n - 1), n - 1, t[n])
      BY <1>1, <3>1
    <3>3. Unfound(a, b, n - 1, t[n])
      BY <3>1 DEF Searched
    <3>4. QED BY <3>1, <3>2, <3>3
  <2>3. QED BY <2>1, <2>2, EndsAtTheEnd
<1>3. D(a, b, Len(a), Len(b)) \in Nat
  BY DistNeat, SMTT(30) DEF Neat, D
<1>4. D(a, b, Len(a), Len(b)) <= n
  <2>1. Reached(a, b, Before(a, b, t, n), n, t[n + 1])
    BY <1>1
  <2>2. Len(a) - k = Len(b)
    BY <1>2
  <2>3. D(a, b, t[n + 1][k], t[n + 1][k] - k) <= n
    BY <1>2, <2>1, <2>2 DEF Reached
  <2>4. QED BY <1>2, <2>2, <2>3
<1>5. \A d \in 0..n - 1 : D(a, b, Len(a), Len(b)) # d
  <2> TAKE d \in 0..n - 1
  <2>1. Reached(a, b, Before(a, b, t, d), d, t[d + 1]) /\ Unfound(a, b, d, t[d + 1]) /\ d \in Nat
    BY <1>1 DEF Searched
  <2>2. QED BY <2>1, NotEnough
<1>6. QED BY <1>2, <1>3, <1>4, <1>5

-----------------------------------------------------------------------------
(* The way back.                                                           *)

Edits(a, b) == [del : BOOLEAN, i : Nat]
Left(o, del, x, n) == {i \in x + 1..n : \A j \in DOMAIN o : o[j].del = del => o[j].i # i}

\* What the script o leaves of the two sides after (x, y) are the same blocks.
Pairs(a, b, x, y, o, f) ==
  /\ f \in [Left(o, TRUE, x, Len(a)) -> Left(o, FALSE, y, Len(b))]
  /\ \A j \in Left(o, FALSE, y, Len(b)) : \E i \in Left(o, TRUE, x, Len(a)) : f[i] = j
  /\ \A i, j \in Left(o, TRUE, x, Len(a)) : i < j => f[i] < f[j]
  /\ \A i \in Left(o, TRUE, x, Len(a)) : a[i].raw = b[f[i]].raw
After(a, b, x, y, o) ==
  \A j \in DOMAIN o : IF o[j].del THEN o[j].i \in x + 1..Len(a) ELSE o[j].i \in y + 1..Len(b)
Aligned(a, b, x, y, o) == After(a, b, x, y, o) /\ \E f : Pairs(a, b, x, y, o, f)

LEMMA NothingLeft ==
  ASSUME NEW a, NEW b, Len(a) \in Nat, Len(b) \in Nat
  PROVE  Aligned(a, b, Len(a), Len(b), << >>)
<1>1. Left(<< >>, TRUE, Len(a), Len(a)) = {} /\ Left(<< >>, FALSE, Len(b), Len(b)) = {}
  BY DEF Left
<1>2. Pairs(a, b, Len(a), Len(b), << >>, [i \in {} |-> 0])
  BY <1>1 DEF Pairs
<1>3. QED BY <1>2 DEF Aligned, After

\* Equal blocks before what is aligned are aligned as well.
LEMMA EqualBefore ==
  ASSUME NEW a, NEW b, Len(a) \in Nat, Len(b) \in Nat, NEW o \in Seq(Edits(a, b)),
         NEW k \in Int, NEW x \in Nat, NEW s \in 0..Len(a), x - k \in Nat, s - k \in 0..Len(b),
         x <= s, \A j \in x..s - 1 : Same(a, b, j, j - k), Aligned(a, b, s, s - k, o)
  PROVE  Aligned(a, b, x, x - k, o)
<1>1. PICK f : Pairs(a, b, s, s - k, o, f)
  BY DEF Aligned
<1> DEFINE old == Left(o, TRUE, s, Len(a))
           new == Left(o, FALSE, s - k, Len(b))
           wide == Left(o, TRUE, x, Len(a))
           wider == Left(o, FALSE, x - k, Len(b))
           g == [i \in wide |-> IF i <= s THEN i - k ELSE f[i]]
<1>2. After(a, b, s, s - k, o)
  BY DEF Aligned
<1>3. \A i \in wide : i \in x + 1..Len(a) /\ (i <= s \/ i \in old)
  BY DEF Left
<1>4. \A i \in x + 1..s : i \in wide
  BY <1>2 DEF Left, After
<1>5. \A i \in old : i \in wide /\ i > s /\ i \in Nat
  BY DEF Left
<1>6. \A i \in wider : i \in x - k + 1..Len(b) /\ (i <= s - k \/ i \in new)
  BY DEF Left
<1>7. \A i \in x - k + 1..s - k : i \in wider
  BY <1>2 DEF Left, After
<1>8. \A i \in new : i \in wider /\ i > s - k /\ i \in Nat
  BY DEF Left
<1>9. /\ f \in [old -> new]
      /\ \A j \in new : \E i \in old : f[i] = j
      /\ \A i, j \in old : i < j => f[i] < f[j]
      /\ \A i \in old : a[i].raw = b[f[i]].raw
  BY <1>1 DEF Pairs
<1> HIDE DEF old, new, wide, wider
<1>10. \A i \in wide : g[i] = IF i <= s THEN i - k ELSE f[i]
  OBVIOUS
<1>11. \A i \in wide : g[i] \in wider
  <2> TAKE i \in wide
  <2>1. CASE i <= s
    BY <1>3, <1>7, <2>1
  <2>2. CASE ~(i <= s)
    BY <1>3, <1>8, <1>9, <2>2
  <2>3. QED BY <2>1, <2>2
<1>12. g \in [wide -> wider]
  BY <1>11
<1> HIDE DEF g
<1>13. \A j \in wider : \E i \in wide : g[i] = j
  <2> TAKE j \in wider
  <2>1. CASE j <= s - k
    <3>1. j + k \in x + 1..s /\ (j + k) - k = j
      BY <1>6, <2>1
    <3>2. j + k \in wide /\ j + k <= s
      BY <1>4, <3>1
    <3>3. g[j + k] = j
      BY <1>10, <3>1, <3>2
    <3>4. QED BY <3>2, <3>3
  <2>2. CASE ~(j <= s - k)
    <3>1. PICK i \in old : f[i] = j
      BY <1>6, <1>9, <2>2
    <3>2. i \in wide /\ ~(i <= s)
      BY <1>5, <3>1
    <3>3. QED BY <1>10, <3>1, <3>2
  <2>3. QED BY <2>1, <2>2
<1>14. \A i, j \in wide : i < j => g[i] < g[j]
  <2> TAKE i, j \in wide
  <2> HAVE i < j
  <2>1. i \in Nat /\ j \in Nat
    BY <1>3
  <2>2. CASE j <= s
    BY <1>10, <2>1, <2>2
  <2>3. CASE i <= s /\ ~(j <= s)
    <3>1. j \in old /\ f[j] \in new
      BY <1>3, <1>9, <2>3
    <3>2. f[j] > s - k /\ f[j] \in Nat
      BY <1>8, <3>1
    <3>3. g[i] = i - k /\ g[j] = f[j]
      BY <1>10, <2>3
    <3>4. QED BY <2>1, <2>3, <3>2, <3>3
  <2>4. CASE ~(i <= s)
    <3>1. ~(j <= s) /\ i \in old /\ j \in old
      BY <1>3, <2>1, <2>4
    <3>2. QED BY <1>9, <1>10, <2>4, <3>1
  <2>5. QED BY <2>1, <2>2, <2>3, <2>4
<1>15. \A i \in wide : a[i].raw = b[g[i]].raw
  <2> TAKE i \in wide
  <2>1. CASE i <= s
    <3>1. i - 1 \in x..s - 1 /\ (i - 1) + 1 = i /\ (i - 1) - k + 1 = i - k
      BY <1>3, <2>1
    <3>2. Same(a, b, i - 1, (i - 1) - k)
      BY <3>1
    <3>3. QED BY <1>10, <2>1, <3>1, <3>2 DEF Same
  <2>2. CASE ~(i <= s)
    BY <1>3, <1>9, <1>10, <2>2
  <2>3. QED BY <2>1, <2>2
<1>16. Pairs(a, b, x, x - k, o, g)
  BY <1>12, <1>13, <1>14, <1>15 DEF Pairs, wide, wider
<1>17. After(a, b, x, x - k, o)
  BY <1>2 DEF After
<1>18. QED BY <1>16, <1>17 DEF Aligned

\* A deletion or insertion in front of what is aligned.
LEMMA EditBefore ==
  ASSUME NEW a, NEW b, Len(a) \in Nat, Len(b) \in Nat, NEW o \in Seq(Edits(a, b)),
         NEW x \in 0..Len(a), NEW y \in 0..Len(b), Aligned(a, b, x, y, o),
         NEW e \in Edits(a, b), NEW u, NEW v,
         \/ e = [del |-> TRUE, i |-> x] /\ x > 0 /\ u = x - 1 /\ v = y
         \/ e = [del |-> FALSE, i |-> y] /\ y > 0 /\ u = x /\ v = y - 1
  PROVE  Aligned(a, b, u, v, << e >> \o o)
<1> DEFINE w == << e >> \o o
<1>1. /\ DOMAIN w = 1..Len(o) + 1 /\ w[1] = e
      /\ \A j \in DOMAIN o : j + 1 \in DOMAIN w /\ w[j + 1] = o[j]
      /\ \A j \in DOMAIN w : j = 1 \/ (j - 1 \in DOMAIN o /\ w[j] = o[j - 1])
  OBVIOUS
<1> HIDE DEF w
<1>2. Left(w, TRUE, u, Len(a)) = Left(o, TRUE, x, Len(a))
  <2>1. CASE e = [del |-> TRUE, i |-> x] /\ x > 0 /\ u = x - 1 /\ v = y
    <3>1. e.del = TRUE /\ e.i = x
      BY <2>1
    <3>2. \A i : i \in u + 1..Len(a) /\ i # x <=> i \in x + 1..Len(a)
      BY <2>1
    <3>3. \A i : (\A j \in DOMAIN w : w[j].del = TRUE => w[j].i # i)
                 <=> i # x /\ \A j \in DOMAIN o : o[j].del = TRUE => o[j].i # i
      <4> TAKE i
      <4>1. ASSUME \A j \in DOMAIN w : w[j].del = TRUE => w[j].i # i
            PROVE  i # x /\ \A j \in DOMAIN o : o[j].del = TRUE => o[j].i # i
        <5>1. 1 \in DOMAIN w
          BY <1>1
        <5>2. i # x
          BY <1>1, <3>1, <4>1, <5>1
        <5>3. \A j \in DOMAIN o : o[j].del = TRUE => o[j].i # i
          BY <1>1, <4>1
        <5>4. QED BY <5>2, <5>3
      <4>2. ASSUME i # x, \A j \in DOMAIN o : o[j].del = TRUE => o[j].i # i
            PROVE  \A j \in DOMAIN w : w[j].del = TRUE => w[j].i # i
        BY <1>1, <3>1, <4>2
      <4>3. QED BY <4>1, <4>2
    <3>4. QED BY <3>2, <3>3 DEF Left
  <2>2. CASE e = [del |-> FALSE, i |-> y] /\ y > 0 /\ u = x /\ v = y - 1
    <3>1. e.del = FALSE
      BY <2>2
    <3>2. \A i : (\A j \in DOMAIN w : w[j].del = TRUE => w[j].i # i)
                 <=> \A j \in DOMAIN o : o[j].del = TRUE => o[j].i # i
      BY <1>1, <3>1, SMTT(30)
    <3>3. QED BY <2>2, <3>2 DEF Left
  <2>3. QED BY <2>1, <2>2
<1>3. Left(w, FALSE, v, Len(b)) = Left(o, FALSE, y, Len(b))
  <2>1. CASE e = [del |-> FALSE, i |-> y] /\ y > 0 /\ u = x /\ v = y - 1
    <3>1. e.del = FALSE /\ e.i = y
      BY <2>1
    <3>2. \A i : i \in v + 1..Len(b) /\ i # y <=> i \in y + 1..Len(b)
      BY <2>1
    <3>3. \A i : (\A j \in DOMAIN w : w[j].del = FALSE => w[j].i # i)
                 <=> i # y /\ \A j \in DOMAIN o : o[j].del = FALSE => o[j].i # i
      <4> TAKE i
      <4>1. ASSUME \A j \in DOMAIN w : w[j].del = FALSE => w[j].i # i
            PROVE  i # y /\ \A j \in DOMAIN o : o[j].del = FALSE => o[j].i # i
        <5>1. 1 \in DOMAIN w
          BY <1>1
        <5>2. i # y
          BY <1>1, <3>1, <4>1, <5>1
        <5>3. \A j \in DOMAIN o : o[j].del = FALSE => o[j].i # i
          BY <1>1, <4>1
        <5>4. QED BY <5>2, <5>3
      <4>2. ASSUME i # y, \A j \in DOMAIN o : o[j].del = FALSE => o[j].i # i
            PROVE  \A j \in DOMAIN w : w[j].del = FALSE => w[j].i # i
        BY <1>1, <3>1, <4>2
      <4>3. QED BY <4>1, <4>2
    <3>4. QED BY <3>2, <3>3 DEF Left
  <2>2. CASE e = [del |-> TRUE, i |-> x] /\ x > 0 /\ u = x - 1 /\ v = y
    <3>1. e.del = TRUE
      BY <2>2
    <3>2. \A i : (\A j \in DOMAIN w : w[j].del = FALSE => w[j].i # i)
                 <=> \A j \in DOMAIN o : o[j].del = FALSE => o[j].i # i
      BY <1>1, <3>1
    <3>3. QED BY <2>2, <3>2 DEF Left
  <2>3. QED BY <2>1, <2>2
<1>4. \A f : Pairs(a, b, x, y, o, f) => Pairs(a, b, u, v, w, f)
  BY <1>2, <1>3 DEF Pairs
<1>5. After(a, b, u, v, w)
  <2>1. /\ e.del => e.i \in u + 1..Len(a)
        /\ ~e.del => e.i \in v + 1..Len(b)
    <3>1. CASE e = [del |-> TRUE, i |-> x] /\ x > 0 /\ u = x - 1 /\ v = y
      BY <3>1
    <3>2. CASE e = [del |-> FALSE, i |-> y] /\ y > 0 /\ u = x /\ v = y - 1
      BY <3>2
    <3>3. QED BY <3>1, <3>2
  <2>2. u \in Int /\ v \in Int /\ u <= x /\ v <= y
    OBVIOUS
  <2>3. \A j \in DOMAIN o : IF o[j].del THEN o[j].i \in u + 1..Len(a) ELSE o[j].i \in v + 1..Len(b)
    BY <2>2 DEF Aligned, After
  <2>4. QED BY <1>1, <2>1, <2>3 DEF After
<1>6. QED BY <1>4, <1>5 DEF Aligned, w

-----------------------------------------------------------------------------
(* The blocks of a document.                                                *)

\* The lines a block may hold: those of the document, and the first one trimmed.
BlockLines == [is : LineKinds, indented : BOOLEAN, text : STRING]
Kinds == {"heading", "code_fence", "list_item", "paragraph", "frontmatter"}
Blocks == [kind : Kinds, section : {NoSection} \cup STRING, raw : Seq(BlockLines)]

LEMMA LinesAre == Lines \subseteq BlockLines
BY LinesAssumption DEF BlockLines

LEMMA DocsAre ==
  ASSUME NEW ls \in Docs
  PROVE  ls \in Seq(BlockLines) /\ Len(ls) \in Nat /\ DOMAIN ls = 1..Len(ls)
         /\ \A i \in 1..Len(ls) : ls[i] \in Lines /\ ls[i] \in BlockLines
<1>1. PICK n \in Nat : ls \in [1..n -> Lines]
  BY DEF Docs
<1>2. ls \in Seq(BlockLines)
  BY <1>1, LinesAre
<1>3. QED BY <1>1, <1>2, LinesAre

LEMMA BlockEndIsAfter ==
  ASSUME NEW ls \in Docs, NEW i \in 1..Len(ls)
  PROVE  BlockEnd(ls, i) \in i + 1..Len(ls) + 1
<1> DEFINE EndsBlock(j) == CASE ls[i].is = "heading" -> TRUE
                         [] ls[i].is = "item" ->
                              \/ ls[j].is = "blank"
                              \/ ls[j].is # "item" /\ ~ls[j].indented
                         [] OTHER -> ls[j].is \in {"blank", "heading", "item"} \cup Fences
           Closing(j) == ls[j].is = ls[i].is
           later == i + 1 .. Len(ls)
           ends == {j \in later : IF ls[i].is \in Fences THEN Closing(j) ELSE EndsBlock(j)}
           first == CHOOSE j \in ends : \A k \in ends : j <= k
           next == IF ends = {} THEN Len(ls) + 1 ELSE first
<1>1. BlockEnd(ls, i) = IF ls[i].is \in Fences /\ ends # {} THEN next + 1 ELSE next
  BY DEF BlockEnd
<1>2. Len(ls) \in Nat
  BY DocsAre
<1>3. ends \subseteq i + 1 .. Len(ls)
  OBVIOUS
<1> HIDE DEF ends
<1>4. ends # {} => first \in ends
  <2> SUFFICES ASSUME ends # {} PROVE first \in ends
    OBVIOUS
  <2>1. ends \in SUBSET Nat
    BY <1>2, <1>3
  <2>2. \E m \in ends : \A n \in ends : m <= n
    BY <2>1, Least
  <2>3. QED BY <2>2
<1> HIDE DEF first
<1>5. ends # {} => first \in i + 1 .. Len(ls)
  BY <1>3, <1>4
<1>6. QED BY <1>1, <1>2, <1>5

LEMMA SubLines ==
  ASSUME NEW ls \in Docs, NEW m \in 1..Len(ls), NEW n \in m..Len(ls)
  PROVE  /\ SubSeq(ls, m, n) \in Seq(BlockLines) /\ SubSeq(ls, m, n) # << >>
         /\ 1 \in DOMAIN SubSeq(ls, m, n)
<1>1. ls \in Seq(BlockLines) /\ Len(ls) \in Nat
  BY DocsAre
<1>2. m \in 1..Len(ls) /\ n \in 1..Len(ls)
  BY <1>1
<1>3. SubSeq(ls, m, n) \in Seq(BlockLines) /\ Len(SubSeq(ls, m, n)) = n - m + 1
  BY <1>1, <1>2, SubSeqProperties
<1>4. QED BY <1>1, <1>2, <1>3

LEMMA RawIsLines ==
  ASSUME NEW kind, NEW ls \in Seq(BlockLines), ls # << >>
  PROVE  Raw(kind, ls) \in Seq(BlockLines)
<1>1. ls[1] \in BlockLines /\ 1 \in DOMAIN ls
  OBVIOUS
<1>2. [ls[1] EXCEPT !.indented = FALSE] \in BlockLines
  BY <1>1 DEF BlockLines
<1>3. [ls EXCEPT ![1].indented = FALSE] = [ls EXCEPT ![1] = [ls[1] EXCEPT !.indented = FALSE]]
  BY <1>1
<1>4. [ls EXCEPT ![1] = [ls[1] EXCEPT !.indented = FALSE]] \in Seq(BlockLines)
  BY <1>1, <1>2, ExceptSeq
<1>5. QED BY <1>3, <1>4 DEF Raw

SectionsOf(ls) == {NoSection} \cup {ls[i].text : i \in 1..Len(ls)}

LEMMA BlockIsBlock ==
  ASSUME NEW ls \in Docs, NEW i \in 1..Len(ls), NEW s \in SectionsOf(ls)
  PROVE  /\ BlockAt(ls, i, s) \in Blocks
         /\ SectionAt(ls, i, s) \in SectionsOf(ls)
<1>1. Len(ls) \in Nat /\ \A j \in 1..Len(ls) : ls[j].text \in STRING
  BY DocsAre DEF BlockLines
<1>2. SectionAt(ls, i, s) \in SectionsOf(ls)
  BY DEF SectionAt, SectionsOf
<1>3. SectionAt(ls, i, s) \in {NoSection} \cup STRING
  BY <1>1, <1>2 DEF SectionsOf
<1>4. KindOf(ls[i]) \in Kinds
  BY DEF KindOf, Kinds
<1>5. BlockEnd(ls, i) - 1 \in i..Len(ls)
  BY <1>1, BlockEndIsAfter
<1>6. Raw(KindOf(ls[i]), SubSeq(ls, i, BlockEnd(ls, i) - 1)) \in Seq(BlockLines)
  BY <1>5, SubLines, RawIsLines
<1>7. QED BY <1>2, <1>3, <1>4, <1>6 DEF BlockAt, Blocks

\* Where a split may go on.
SplitPlaces(ls) == (1..Len(ls) + 1) \X SectionsOf(ls)
SplitStep(ls, h, p) ==
  IF p[1] > Len(ls) THEN << >>
  ELSE IF ls[p[1]].is = "blank" THEN h[<< p[1] + 1, p[2] >>]
  ELSE << BlockAt(ls, p[1], p[2]) >> \o h[<< BlockEnd(ls, p[1]), SectionAt(ls, p[1], p[2]) >>]
IsSplit(ls, h) == h = [p \in SplitPlaces(ls) |-> SplitStep(ls, h, p)]
Split(ls) == CHOOSE h : IsSplit(ls, h)

LEMMA SplitBlocksIs ==
  ASSUME NEW ls
  PROVE  SplitBlocks(ls) =
           LET f == FrontmatterEnd(ls) IN
           IF f = 0 THEN Split(ls)[<< 1, NoSection >>]
           ELSE << [kind |-> "frontmatter", raw |-> SubSeq(ls, 1, f), section |-> NoSection] >>
                \o Split(ls)[<< f + 1, NoSection >>]
BY DEF SplitBlocks, Split, IsSplit, SplitStep, SplitPlaces, SectionsOf

LEMMA SplitExists ==
  ASSUME NEW ls \in Docs
  PROVE  IsSplit(ls, Split(ls))
<1> DEFINE P == SplitPlaces(ls)
           From(m, h) == /\ h = [p \in P |-> h[p]]
                         /\ \A p \in P : p[1] + m > Len(ls) + 1 => h[p] = SplitStep(ls, h, p)
           Not == {m \in Nat : ~\E h : From(m, h)}
<1>1. Len(ls) \in Nat /\ \A p \in P : p[1] \in 1..Len(ls) + 1 /\ p[2] \in SectionsOf(ls)
  BY DocsAre DEF SplitPlaces
<1>2. Not = {}
  <2> SUFFICES ASSUME Not # {} PROVE FALSE
    OBVIOUS
  <2>1. PICK m \in Not : \A n \in Not : m <= n
    <3> HIDE DEF From
    <3>1. QED BY Least
  <2>2. From(0, [p \in P |-> 0])
    BY <1>1
  <2>3. m \in Nat /\ m # 0 /\ m - 1 \in Nat /\ m - 1 \notin Not
    <3> HIDE DEF From
    <3>1. QED BY <2>1, <2>2
  <2>4. PICK h : From(m - 1, h)
    <3> HIDE DEF From
    <3>1. QED BY <2>3
  <2> DEFINE Now(p) == p[1] + m = Len(ls) + 2
             g == [p \in P |-> IF Now(p) THEN SplitStep(ls, h, p) ELSE h[p]]
  <2>5. \A p \in P : p[1] + m > Len(ls) + 1 => g[p] = SplitStep(ls, g, p)
    <3> SUFFICES ASSUME NEW p \in P, p[1] + m > Len(ls) + 1
                 PROVE  g[p] = SplitStep(ls, g, p)
      OBVIOUS
    <3>1. p[1] \in 1..Len(ls) + 1 /\ p[2] \in SectionsOf(ls)
      BY <1>1
    <3>2. g[p] = SplitStep(ls, h, p)
      <4>1. CASE Now(p)
        BY <4>1
      <4>2. CASE ~Now(p)
        <5>1. p[1] + (m - 1) > Len(ls) + 1
          BY <1>1, <2>3, <3>1, <4>2
        <5>2. QED BY <2>4, <4>2, <5>1
      <4>3. QED BY <4>1, <4>2
    <3>3. CASE p[1] > Len(ls)
      BY <3>2, <3>3 DEF SplitStep
    <3>4. CASE ~(p[1] > Len(ls)) /\ ls[p[1]].is = "blank"
      <4> DEFINE u == << p[1] + 1, p[2] >>
      <4>1. u \in P /\ u[1] = p[1] + 1
        BY <1>1, <3>1, <3>4 DEF SplitPlaces
      <4>2. u[1] + m # Len(ls) + 2
        BY <1>1, <2>3, <3>1, <4>1
      <4>3. g[u] = h[u]
        BY <4>1, <4>2
      <4>4. QED BY <3>2, <3>4, <4>3 DEF SplitStep
    <3>5. CASE ~(p[1] > Len(ls)) /\ ls[p[1]].is # "blank"
      <4> DEFINE u == << BlockEnd(ls, p[1]), SectionAt(ls, p[1], p[2]) >>
      <4>1. p[1] \in 1..Len(ls)
        BY <1>1, <3>1, <3>5
      <4>2. u \in P /\ u[1] \in p[1] + 1..Len(ls) + 1
        BY <1>1, <3>1, <4>1, BlockEndIsAfter, BlockIsBlock DEF SplitPlaces
      <4>3. u[1] + m # Len(ls) + 2
        BY <1>1, <2>3, <3>1, <4>2
      <4>4. g[u] = h[u]
        BY <4>2, <4>3
      <4>5. QED BY <3>2, <3>5, <4>4 DEF SplitStep
    <3>6. QED BY <3>3, <3>4, <3>5
  <2>6. From(m, g)
    BY <2>5
  <2>7. QED
    <3> HIDE DEF From
    <3>1. QED BY <2>1, <2>6
<1>3. PICK h : From(Len(ls) + 1, h)
  <2>1. Len(ls) + 1 \in Nat
    BY <1>1
  <2> HIDE DEF From
  <2>2. QED BY <1>2, <2>1
<1>4. \A p \in P : h[p] = SplitStep(ls, h, p)
  BY <1>1, <1>3
<1>5. h = [p \in P |-> h[p]]
  BY <1>3
<1>6. IsSplit(ls, h)
  BY <1>4, <1>5 DEF IsSplit
<1>7. QED BY <1>6 DEF Split

LEMMA SplitIsBlocks ==
  ASSUME NEW ls \in Docs
  PROVE  \A p \in SplitPlaces(ls) : Split(ls)[p] \in Seq(Blocks)
<1> DEFINE h == Split(ls)
           Bad == {m \in Nat : \E p \in SplitPlaces(ls) : p[1] + m = Len(ls) + 1 /\ h[p] \notin Seq(Blocks)}
<1>1. Len(ls) \in Nat /\ \A p \in SplitPlaces(ls) : p[1] \in 1..Len(ls) + 1 /\ p[2] \in SectionsOf(ls)
  BY DocsAre DEF SplitPlaces
<1>2. \A p \in SplitPlaces(ls) : h[p] = SplitStep(ls, h, p)
  <2>1. IsSplit(ls, h)
    BY SplitExists
  <2> HIDE DEF h
  <2>2. QED BY <2>1 DEF IsSplit
<1> HIDE DEF h
<1>3. SUFFICES ASSUME Bad # {} PROVE FALSE
  <2> SUFFICES ASSUME NEW p \in SplitPlaces(ls), h[p] \notin Seq(Blocks) PROVE FALSE
    BY DEF h
  <2> DEFINE m == Len(ls) + 1 - p[1]
  <2>1. m \in Nat /\ p[1] + m = Len(ls) + 1
    BY <1>1
  <2> HIDE DEF m
  <2>2. m \in Bad
    BY <2>1
  <2>3. QED BY <1>3, <2>2
<1>4. PICK m \in Bad : \A n \in Bad : m <= n
  <2>1. Bad \in SUBSET Nat
    OBVIOUS
  <2> HIDE DEF Bad
  <2>2. QED BY <1>3, <2>1, Least
<1>5. PICK p \in SplitPlaces(ls) : p[1] + m = Len(ls) + 1 /\ h[p] \notin Seq(Blocks)
  BY <1>4
<1>6. \A u \in SplitPlaces(ls) : u[1] > p[1] => h[u] \in Seq(Blocks)
  <2> SUFFICES ASSUME NEW u \in SplitPlaces(ls), u[1] > p[1], h[u] \notin Seq(Blocks) PROVE FALSE
    OBVIOUS
  <2> DEFINE n == Len(ls) + 1 - u[1]
  <2>1. n \in Nat /\ u[1] + n = Len(ls) + 1 /\ ~(m <= n)
    <3>1. m \in Nat
      BY <1>4
    <3>2. u[1] \in Nat /\ u[1] <= Len(ls) + 1 /\ p[1] \in Nat
      BY <1>1
    <3>3. QED BY <1>1, <1>5, <3>1, <3>2
  <2> HIDE DEF n
  <2>2. n \in Bad
    BY <2>1
  <2>3. QED BY <1>4, <2>1, <2>2
<1>7. p[1] \in 1..Len(ls) + 1 /\ p[2] \in SectionsOf(ls) /\ h[p] = SplitStep(ls, h, p)
  BY <1>1, <1>2, <1>5
<1>8. CASE p[1] > Len(ls)
  BY <1>5, <1>7, <1>8 DEF SplitStep
<1>9. CASE ~(p[1] > Len(ls)) /\ ls[p[1]].is = "blank"
  <2> DEFINE u == << p[1] + 1, p[2] >>
  <2>1. u \in SplitPlaces(ls) /\ u[1] > p[1]
    BY <1>1, <1>7, <1>9 DEF SplitPlaces
  <2>2. h[u] \in Seq(Blocks)
    BY <1>6, <2>1
  <2>3. h[p] = h[u]
    BY <1>7, <1>9, Zenon DEF SplitStep
  <2>4. QED BY <1>5, <2>2, <2>3
<1>10. CASE ~(p[1] > Len(ls)) /\ ls[p[1]].is # "blank"
  <2> DEFINE u == << BlockEnd(ls, p[1]), SectionAt(ls, p[1], p[2]) >>
             c == BlockAt(ls, p[1], p[2])
  <2>1. p[1] \in 1..Len(ls)
    BY <1>1, <1>7, <1>10
  <2>2. BlockEnd(ls, p[1]) \in p[1] + 1..Len(ls) + 1 /\ c \in Blocks
        /\ SectionAt(ls, p[1], p[2]) \in SectionsOf(ls)
    BY <1>7, <2>1, BlockEndIsAfter, BlockIsBlock
  <2>3. u \in SplitPlaces(ls) /\ u[1] > p[1]
    BY <1>1, <2>1, <2>2 DEF SplitPlaces
  <2>4. h[u] \in Seq(Blocks)
    BY <1>6, <2>3
  <2>5. h[p] = << c >> \o h[u]
    BY <1>7, <1>10, Zenon DEF SplitStep
  <2> HIDE DEF c, u
  <2>6. << c >> \o h[u] \in Seq(Blocks)
    BY <2>2, <2>4
  <2>7. QED BY <1>5, <2>5, <2>6
<1>11. QED BY <1>8, <1>9, <1>10

\* A document is split into a sequence of blocks.
LEMMA SplitBlocksAre ==
  ASSUME NEW ls \in Docs
  PROVE  SplitBlocks(ls) \in Seq(Blocks)
<1> DEFINE f == FrontmatterEnd(ls)
<1>1. ls \in Seq(BlockLines) /\ Len(ls) \in Nat
  BY DocsAre
<1>2. f = 0 \/ f \in 2..Len(ls)
  <2> DEFINE ends == {j \in 2..Len(ls) : ls[j].is = "dashes"}
             first == CHOOSE j \in ends : \A k \in ends : j <= k
  <2>1. f = IF ls # << >> /\ ls[1].is = "dashes" /\ ends # {} THEN first ELSE 0
    BY DEF FrontmatterEnd
  <2>2. ends \in SUBSET Nat /\ ends \subseteq 2..Len(ls)
    BY <1>1
  <2> HIDE DEF ends
  <2>3. ends # {} => \E m \in ends : \A n \in ends : m <= n
    BY <2>2, Least
  <2>4. ends # {} => first \in ends
    BY <2>3
  <2>5. QED BY <2>1, <2>2, <2>4
<1>3. SplitBlocks(ls) =
        IF f = 0 THEN Split(ls)[<< 1, NoSection >>]
        ELSE << [kind |-> "frontmatter", raw |-> SubSeq(ls, 1, f), section |-> NoSection] >>
             \o Split(ls)[<< f + 1, NoSection >>]
  BY SplitBlocksIs
<1> HIDE DEF f
<1>4. << 1, NoSection >> \in SplitPlaces(ls)
  BY <1>1 DEF SplitPlaces, SectionsOf
<1>5. CASE f = 0
  BY <1>3, <1>4, <1>5, SplitIsBlocks
<1>6. CASE f \in 2..Len(ls)
  <2> DEFINE c == [kind |-> "frontmatter", raw |-> SubSeq(ls, 1, f), section |-> NoSection]
             rest == Split(ls)[<< f + 1, NoSection >>]
  <2>1. SubSeq(ls, 1, f) \in Seq(BlockLines)
    <3>1. 1 \in 1..Len(ls) /\ f \in 1..Len(ls)
      BY <1>1, <1>6
    <3>2. QED BY <3>1, SubLines
  <2>2. c \in Blocks
    BY <2>1 DEF Blocks, Kinds
  <2>3. << f + 1, NoSection >> \in SplitPlaces(ls)
    BY <1>1, <1>6 DEF SplitPlaces, SectionsOf
  <2>4. rest \in Seq(Blocks)
    BY <2>3, SplitIsBlocks
  <2>5. SplitBlocks(ls) = << c >> \o rest
    BY <1>1, <1>3, <1>6
  <2> HIDE DEF c, rest
  <2>6. QED BY <2>2, <2>4, <2>5
<1>7. QED BY <1>2, <1>5, <1>6

-----------------------------------------------------------------------------
(* The rounds of the search, as the steps of a computation.                 *)

DiffSpec == DiffInit /\ [][DiffNext]_diffVars

Diags(a, b) == -(Len(a) + Len(b)) .. Len(a) + Len(b) + 1
Traces(a, b) == Seq([Diags(a, b) -> Nat])

Known(a, b, t) == t \in Traces(a, b) /\ Rounds(a, b, t)

\* On the way forth, on the way back from the end to (x, y), and at the end.
Forth(a, b, d, r, t, xy, o) ==
  /\ a # << >> /\ b # << >> /\ Known(a, b, t) /\ d = Len(t) /\ d <= Len(a) + Len(b) /\ Searched(a, b, t, d)
  /\ r = Before(a, b, t, d) /\ r \in [Diags(a, b) -> Nat] /\ xy = << Len(a), Len(b) >> /\ o = << >>
Retraced(a, b, d, t, x, y, o) ==
  /\ a # << >> /\ b # << >> /\ Known(a, b, t) /\ d \in 0..Len(t) - 1 /\ Len(t) - 1 = D(a, b, Len(a), Len(b))
  /\ Len(t) - 1 <= Len(a) + Len(b)
  /\ x \in 0..Len(a) /\ y \in 0..Len(b) /\ x - y \in Steps(d) /\ x = t[d + 1][x - y]
  /\ o \in Seq(Edits(a, b)) /\ Len(o) + d = Len(t) - 1 /\ Aligned(a, b, x, y, o)
Told(a, b, x, y, o) ==
  /\ x \in 0..Len(a) /\ y \in 0..Len(b) /\ o \in Seq(Edits(a, b))
  /\ IF a = << >> \/ b = << >> THEN o = << >>
     ELSE Len(o) = D(a, b, Len(a), Len(b)) /\ Aligned(a, b, 0, 0, o)

DiffInv ==
  /\ versions \in Docs \X Docs /\ oldBlocks \in Seq(Blocks) /\ newBlocks \in Seq(Blocks)
  /\ diffPhase \in {"forward", "back", "done"}
  /\ diffPhase = "forward" => Forth(oldBlocks, newBlocks, step, reach, trace, at, ops)
  /\ diffPhase = "back" => Retraced(oldBlocks, newBlocks, step, trace, at[1], at[2], ops)
  /\ diffPhase = "done" => step = 0 /\ Told(oldBlocks, newBlocks, at[1], at[2], ops)

LEMMA InitDiffInv == DiffInit => DiffInv
<1> SUFFICES ASSUME DiffInit PROVE DiffInv
  OBVIOUS
<1>1. versions \in Docs \X Docs
  BY DEF DiffInit
<1>2. PICK asked \in Limits : LET limit == AskedFor(asked) IN
       \E i \in 1..Len(Entries(versions, limit)) :
         /\ newBlocks = SplitBlocks(versions[i])
         /\ oldBlocks \in {SplitBlocks(Previous(versions, limit, i)), << >>}
  BY DEF DiffInit
<1> DEFINE limit == AskedFor(asked)
<1>3. limit \in Nat \ {0}
  BY HistoryAssumption DEF AskedFor
<1> HIDE DEF limit
<1>4. PICK i \in 1..Len(Entries(versions, limit)) :
         /\ newBlocks = SplitBlocks(versions[i])
         /\ oldBlocks \in {SplitBlocks(Previous(versions, limit, i)), << >>}
  BY <1>2 DEF limit
<1>5. Len(versions) = 2 /\ versions[1] \in Docs /\ versions[2] \in Docs /\ versions \in Seq(Docs)
  <2>1. PICK v \in Docs, w \in Docs : versions = << v, w >>
    BY <1>1
  <2>2. << v, w >> \in Seq(Docs) /\ Len(<< v, w >>) = 2 /\ << v, w >>[1] = v /\ << v, w >>[2] = w
    OBVIOUS
  <2>3. QED BY <2>1, <2>2
<1>6. Entries(versions, limit) \in Seq(Docs) /\ Len(Entries(versions, limit)) \in 1..2
  <2>1. CASE 2 <= limit
    BY <1>3, <1>5, <2>1 DEF Entries
  <2>2. CASE ~(2 <= limit)
    <3>1. limit = 1
      BY <1>3, <2>2
    <3>2. SubSeq(versions, 1, 1) \in Seq(Docs) /\ Len(SubSeq(versions, 1, 1)) = 1
      BY <1>5
    <3>3. QED BY <1>5, <3>1, <3>2 DEF Entries
  <2>3. QED BY <2>1, <2>2
<1>7. versions[i] \in Docs
  <2>1. i \in 1..2
    <3>1. i \in 1..Len(Entries(versions, limit))
      BY <1>4
    <3>2. PICK n \in 1..2 : n = Len(Entries(versions, limit))
      BY <1>6
    <3>3. i \in 1..n
      BY <3>1, <3>2
    <3>4. QED BY <3>2, <3>3
  <2>2. i = 1 \/ i = 2
    BY <2>1
  <2>3. QED BY <1>5, <2>2
<1>8. << >> \in Docs
  <2>1. 0 \in 0..MaxLines
    BY HistoryAssumption
  <2>2. << >> \in [1..0 -> Lines]
    <3>1. << >> \in Seq(Lines) /\ Len(<< >>) = 0
      OBVIOUS
    <3>2. << >> \in [1..Len(<< >>) -> Lines]
      BY <3>1, LenProperties
    <3>3. QED BY <3>1, <3>2, Zenon
  <2>3. QED BY <2>1, <2>2 DEF Docs
<1>9. Previous(versions, limit, i) \in Docs
  BY <1>4, <1>6, <1>8 DEF Previous
<1>10. oldBlocks \in Seq(Blocks) /\ newBlocks \in Seq(Blocks)
  <2>1. SplitBlocks(Previous(versions, limit, i)) \in Seq(Blocks)
    BY <1>9, SplitBlocksAre
  <2>2. SplitBlocks(versions[i]) \in Seq(Blocks) /\ << >> \in Seq(Blocks)
    BY <1>7, SplitBlocksAre
  <2>3. QED BY <1>4, <2>1, <2>2
<1>11. /\ step = 0 /\ trace = << >> /\ ops = << >>
       /\ reach = [k \in Diagonals(oldBlocks, newBlocks) |-> 0]
       /\ at = << Len(oldBlocks), Len(newBlocks) >>
       /\ diffPhase = IF oldBlocks = << >> \/ newBlocks = << >> THEN "done" ELSE "forward"
  BY DEF DiffInit
<1>12. reach = Before(oldBlocks, newBlocks, trace, 0)
  BY <1>11, Zenon DEF Before, Diagonals
<1>13. diffPhase = "forward" => Forth(oldBlocks, newBlocks, step, reach, trace, at, ops)
  <2>1. diffPhase = "forward" => oldBlocks # << >> /\ newBlocks # << >>
    BY <1>11
  <2>2. Known(oldBlocks, newBlocks, << >>)
    BY DEF Known, Traces, Rounds
  <2>3. Searched(oldBlocks, newBlocks, << >>, 0)
    BY DEF Searched
  <2>4. Len(oldBlocks) \in Nat /\ Len(newBlocks) \in Nat
    BY <1>10
  <2>5. reach \in [Diags(oldBlocks, newBlocks) -> Nat]
    BY <1>11 DEF Diags, Diagonals
  <2>6. QED BY <1>11, <1>12, <2>1, <2>2, <2>3, <2>4, <2>5 DEF Forth
<1>14. diffPhase = "done" => step = 0 /\ Told(oldBlocks, newBlocks, at[1], at[2], ops)
  BY <1>10, <1>11 DEF Told
<1>15. QED BY <1>1, <1>10, <1>11, <1>13, <1>14 DEF DiffInv

LEMMA SnakeIs == \A x, k : Snake(x, k) = Follow(oldBlocks, newBlocks, x, k)
BY DEF Snake, Follow, SameBlock, Same

LEMMA DistanceIs == Distance = D(oldBlocks, newBlocks, Len(oldBlocks), Len(newBlocks))
BY DEF Distance, D, Val, Dist, IsDist, DistStep, Points, SameBlock, Same

\* What one more round leads to.
LEMMA RoundMore ==
  ASSUME NEW a \in Seq(Blocks), NEW b \in Seq(Blocks), NEW d, NEW r, NEW t, NEW xy, NEW o,
         Forth(a, b, d, r, t, xy, o),
         NEW next, next = [k \in Diagonals(a, b) |-> IF k \in Steps(d) THEN Follow(a, b, Start(r, d, k), k)
                                                     ELSE r[k]],
         NEW found, found = \E k \in Steps(d) : next[k] >= Len(a) /\ next[k] - k >= Len(b)
  PROVE  /\ found => Retraced(a, b, d, Append(t, next), Len(a), Len(b), o)
         /\ ~found => Forth(a, b, d + 1, next, Append(t, next), xy, o)
<1> DEFINE u == Append(t, next)
<1>1. Len(a) \in Nat /\ Len(b) \in Nat /\ d \in Nat
  BY DEF Forth, Known, Traces
<1>2. /\ t \in Seq([Diags(a, b) -> Nat]) /\ Rounds(a, b, t) /\ d = Len(t) /\ d <= Len(a) + Len(b)
      /\ Searched(a, b, t, d) /\ r = Before(a, b, t, d) /\ xy = << Len(a), Len(b) >> /\ o = << >>
  BY DEF Forth, Known, Traces
<1>3. Steps(d) \subseteq Diags(a, b)
  BY <1>1, <1>2, StepsFacts DEF Diags
<1>4. \A k \in Steps(d) : next[k] = Follow(a, b, Start(r, d, k), k)
  BY <1>3 DEF Diags, Diagonals
<1>5. r \in [Diags(a, b) -> Nat]
  BY DEF Forth
<1>6. Reached(a, b, r, d, next)
  <2>1. CASE d = 0
    <3>1. r[1] = 0
      BY <1>1, <1>2, <2>1 DEF Before
    <3>2. QED BY <1>1, <1>4, <2>1, <3>1, FirstRound
  <2>2. CASE d # 0
    <3>1. d \in Nat \ {0} /\ d - 1 \in 0..Len(t) - 1 /\ (d - 1) + 1 = d
      BY <1>1, <1>2, <2>2
    <3>2. Reached(a, b, Before(a, b, t, d - 1), d - 1, t[d])
      BY <1>2, <3>1 DEF Rounds
    <3>3. r = t[d]
      BY <1>2, <2>2 DEF Before
    <3>4. Reached(a, b, Before(a, b, t, d - 1), d - 1, r)
      BY <3>2, <3>3
    <3>5. QED BY <1>1, <1>4, <3>1, <3>4, NextRound
  <2>3. QED BY <2>1, <2>2
<1>7. next \in [Diags(a, b) -> Nat]
  <2>1. \A k \in Diags(a, b) : next[k] \in Nat
    <3> TAKE k \in Diags(a, b)
    <3>1. CASE k \in Steps(d)
      BY <1>6, <3>1 DEF Reached
    <3>2. CASE k \notin Steps(d)
      BY <1>5, <3>2 DEF Diags, Diagonals
    <3>3. QED BY <3>1, <3>2
  <2>2. next = [k \in Diags(a, b) |-> next[k]]
    BY DEF Diags, Diagonals
  <2>3. QED BY <2>1, <2>2
<1>8. /\ u \in Seq([Diags(a, b) -> Nat]) /\ Len(u) = d + 1 /\ u[d + 1] = next
      /\ \A i \in 1..d : u[i] = t[i]
  BY <1>2, <1>7
<1> HIDE DEF u
<1>9. \A i \in 0..d : Before(a, b, u, i) = Before(a, b, t, i)
  BY <1>8 DEF Before
<1>10. Rounds(a, b, u)
  <2> SUFFICES ASSUME NEW i \in 0..Len(u) - 1
               PROVE  Reached(a, b, Before(a, b, u, i), i, u[i + 1])
    BY DEF Rounds
  <2>1. CASE i = d
    BY <1>2, <1>6, <1>8, <1>9, <2>1
  <2>2. CASE i # d
    <3>1. i \in 0..Len(t) - 1 /\ i + 1 \in 1..d /\ i \in 0..d
      BY <1>1, <1>2, <1>8, <2>2
    <3>2. Reached(a, b, Before(a, b, t, i), i, t[i + 1])
      BY <1>2, <3>1 DEF Rounds
    <3>3. QED BY <1>8, <1>9, <3>1, <3>2
  <2>3. QED BY <2>1, <2>2
<1>11. Searched(a, b, u, d)
  <2> SUFFICES ASSUME NEW i \in 0..d - 1 PROVE Unfound(a, b, i, u[i + 1])
    BY DEF Searched
  <2>1. i + 1 \in 1..d
    BY <1>1
  <2>2. QED BY <1>2, <1>8, <2>1 DEF Searched
<1>12. Known(a, b, u)
  BY <1>8, <1>10 DEF Known, Traces
<1>13. ASSUME found PROVE Retraced(a, b, d, u, Len(a), Len(b), o)
  <2>1. PICK k \in Steps(d) : u[d + 1][k] >= Len(a) /\ u[d + 1][k] - k >= Len(b)
    BY <1>8, <1>13
  <2>2. u[d + 1][k] = Len(a) /\ k = Len(a) - Len(b) /\ d = D(a, b, Len(a), Len(b))
    <3>1. Len(u) = d + 1 /\ Rounds(a, b, u) /\ Searched(a, b, u, d)
      BY <1>8, <1>10, <1>11
    <3>2. QED BY <1>1, <2>1, <3>1, LengthIsDistance
  <2>3. Len(u) - 1 = d /\ d \in 0..Len(u) - 1 /\ Len(a) \in 0..Len(a) /\ Len(b) \in 0..Len(b)
    BY <1>1, <1>8
  <2>4. o \in Seq(Edits(a, b)) /\ Len(o) + d = Len(u) - 1
    BY <1>1, <1>2, <1>8
  <2>5. Aligned(a, b, Len(a), Len(b), o)
    BY <1>1, <1>2, NothingLeft
  <2>6. a # << >> /\ b # << >>
    BY DEF Forth
  <2>7. QED BY <1>2, <1>12, <2>1, <2>2, <2>3, <2>4, <2>5, <2>6 DEF Retraced
<1>14. ASSUME ~found PROVE Forth(a, b, d + 1, next, u, xy, o)
  <2>1. Unfound(a, b, d, next)
    BY <1>14 DEF Unfound
  <2>2. Searched(a, b, u, d + 1)
    <3> SUFFICES ASSUME NEW i \in 0..(d + 1) - 1 PROVE Unfound(a, b, i, u[i + 1])
      BY DEF Searched
    <3>1. CASE i = d
      BY <1>8, <2>1, <3>1
    <3>2. CASE i # d
      <4>1. i \in 0..d - 1
        BY <1>1, <3>2
      <4>2. QED BY <1>11, <4>1 DEF Searched
    <3>3. QED BY <3>1, <3>2
  <2>3. d # Len(a) + Len(b)
    BY <1>1, <1>6, <2>1, EndsInTime
  <2>4. d + 1 <= Len(a) + Len(b)
    BY <1>1, <1>2, <2>3
  <2>5. next = Before(a, b, u, d + 1)
    BY <1>1, <1>8 DEF Before
  <2>6. a # << >> /\ b # << >>
    BY DEF Forth
  <2>7. QED BY <1>2, <1>7, <1>8, <1>12, <2>2, <2>4, <2>5, <2>6 DEF Forth
<1>15. QED BY <1>13, <1>14 DEF u

Begun(p, d, k, f) ==
  /\ f \in Nat /\ f - k \in Nat
  /\ k # -d => p[k - 1] \in Nat /\ p[k - 1] - (k - 1) \in Nat
  /\ k # d => p[k + 1] \in Nat /\ p[k + 1] - (k + 1) \in Nat
  /\ \/ k # -d /\ f = p[k - 1] + 1 /\ ~Inserts(p, d, k)
     \/ k # d /\ f = p[k + 1] /\ Inserts(p, d, k)
LEMMA RoundBefore ==
  ASSUME NEW a, NEW b, NEW q, NEW p, NEW d \in Nat \ {0}, Reached(a, b, q, d - 1, p),
         NEW k \in Steps(d)
  PROVE  Begun(p, d, k, Start(p, d, k))
BY StartFacts DEF Begun

\* One step of the way back, from (x, y) on diagonal k along edit op to (u, u - from).
Turn(x, y, p, d, k, from, u, op) ==
  /\ k = x - y /\ from = (IF Inserts(p, d, k) THEN k + 1 ELSE k - 1) /\ u = p[from]
  /\ op = IF from = k + 1 THEN [del |-> FALSE, i |-> u - from + 1]
          ELSE [del |-> TRUE, i |-> u + 1]

\* What it leads to.
LEMMA RetraceMore ==
  ASSUME NEW a \in Seq(Blocks), NEW b \in Seq(Blocks), NEW d \in Nat \ {0}, NEW t, NEW o,
         NEW x \in Nat, NEW y \in Nat, Retraced(a, b, d, t, x, y, o),
         NEW k \in Int, NEW from, NEW u, NEW op, Turn(x, y, t[d], d, k, from, u, op)
  PROVE  Retraced(a, b, d - 1, t, u, u - from, << op >> \o o)
<1>1. Len(a) \in Nat /\ Len(b) \in Nat
  OBVIOUS
<1>2. /\ k = x - y /\ from = (IF Inserts(t[d], d, k) THEN k + 1 ELSE k - 1) /\ u = t[d][from]
      /\ op = IF from = k + 1 THEN [del |-> FALSE, i |-> u - from + 1]
              ELSE [del |-> TRUE, i |-> u + 1]
  BY DEF Turn
<1>3. /\ a # << >> /\ b # << >> /\ Known(a, b, t) /\ d \in 0..Len(t) - 1
      /\ Len(t) - 1 = D(a, b, Len(a), Len(b)) /\ Len(t) - 1 <= Len(a) + Len(b)
      /\ x \in 0..Len(a) /\ y \in 0..Len(b) /\ k \in Steps(d) /\ x = t[d + 1][k]
      /\ o \in Seq(Edits(a, b)) /\ Len(o) + d = Len(t) - 1 /\ Aligned(a, b, x, y, o)
  BY <1>2 DEF Retraced
<1>4. Len(t) \in Nat /\ Rounds(a, b, t)
  BY <1>3 DEF Known, Traces
<1>5. d \in Nat \ {0} /\ d - 1 \in Nat /\ d - 1 \in 0..Len(t) - 1 /\ (d - 1) + 1 = d
  BY <1>3, <1>4
<1> DEFINE f == Start(t[d], d, k)
<1>6. x = Follow(a, b, f, k)
  <2>1. Reached(a, b, Before(a, b, t, d), d, t[d + 1])
    BY <1>3, <1>4 DEF Rounds
  <2>2. Before(a, b, t, d) = t[d]
    BY <1>5 DEF Before
  <2>3. Reached(a, b, t[d], d, t[d + 1])
    BY <2>1, <2>2
  <2>4. QED BY <1>3, <2>3 DEF Reached
<1>7. Reached(a, b, Before(a, b, t, d - 1), d - 1, t[d])
  BY <1>4, <1>5 DEF Rounds
<1>8. /\ f \in Nat /\ f - k \in Nat
      /\ k # -d => t[d][k - 1] \in Nat /\ t[d][k - 1] - (k - 1) \in Nat
      /\ k # d => t[d][k + 1] \in Nat /\ t[d][k + 1] - (k + 1) \in Nat
      /\ \/ k # -d /\ f = t[d][k - 1] + 1 /\ ~Inserts(t[d], d, k)
         \/ k # d /\ f = t[d][k + 1] /\ Inserts(t[d], d, k)
  <2>1. k \in Steps(d)
    BY <1>3
  <2>2. Begun(t[d], d, k, f)
    BY <1>7, <2>1, RoundBefore, Zenon
  <2>3. QED BY <2>2 DEF Begun
<1>9. k \in Int /\ (k # -d => k - 1 \in Steps(d - 1)) /\ (k # d => k + 1 \in Steps(d - 1))
  BY <1>3, <1>5, StepsFacts
<1> HIDE DEF f
<1>10. f <= x /\ \A j \in f..x - 1 : Same(a, b, j, j - k)
  BY <1>1, <1>6, <1>8, <1>9, FollowFacts
<1>11. x - k = y
  BY <1>2
<1>12. Aligned(a, b, f, f - k, o)
  BY <1>1, <1>3, <1>8, <1>9, <1>10, <1>11, EqualBefore
<1>13. f \in 0..Len(a) /\ f - k \in 0..Len(b)
  <2>1. f \in Nat /\ f - k \in Nat /\ k \in Int
    BY <1>8, <1>9
  <2>2. x \in 0..Len(a) /\ y \in 0..Len(b)
    BY <1>3
  <2>3. QED BY <1>1, <1>10, <1>11, <2>1, <2>2
<1>14. /\ op \in Edits(a, b) /\ u \in 0..Len(a) /\ u - from \in 0..Len(b)
       /\ from \in Steps(d - 1)
       /\ \/ op = [del |-> TRUE, i |-> f] /\ f > 0 /\ u = f - 1 /\ u - from = f - k
          \/ op = [del |-> FALSE, i |-> f - k] /\ f - k > 0 /\ u = f /\ u - from = (f - k) - 1
  <2>1. CASE Inserts(t[d], d, k)
    <3>1. from = k + 1 /\ u = t[d][k + 1]
      BY <1>2, <2>1
    <3>2. k # d /\ f = u /\ u - from \in Nat
      BY <1>8, <2>1, <3>1
    <3>3. op = [del |-> FALSE, i |-> u - from + 1]
      BY <1>2, <3>1
    <3>4. u - from + 1 = f - k /\ f - k > 0 /\ u - from = (f - k) - 1
      <4>1. PICK n \in Nat : n = u
        BY <1>8, <3>2
      <4>2. f = n /\ from = k + 1 /\ n - (k + 1) \in Nat
        BY <3>1, <3>2, <4>1
      <4>3. n - (k + 1) \in Nat => n - (k + 1) + 1 = n - k /\ n - k > 0 /\ n - (k + 1) = (n - k) - 1
        OBVIOUS
      <4>4. QED BY <4>1, <4>2, <4>3
    <3>5. op = [del |-> FALSE, i |-> f - k]
      BY <3>3, <3>4
    <3>6. u \in 0..Len(a) /\ u - from \in 0..Len(b)
      BY <1>1, <1>13, <3>2, <3>4
    <3>7. from \in Steps(d - 1)
      BY <1>9, <3>1, <3>2
    <3>8. op \in Edits(a, b)
      BY <1>8, <3>5 DEF Edits
    <3>9. QED BY <3>2, <3>4, <3>5, <3>6, <3>7, <3>8
  <2>2. CASE ~Inserts(t[d], d, k)
    <3>1. from = k - 1 /\ from # k + 1 /\ u = t[d][k - 1]
      BY <1>2, <1>9, <2>2
    <3>2. k # -d /\ f = u + 1 /\ u \in Nat
      BY <1>8, <2>2, <3>1
    <3>3. op = [del |-> TRUE, i |-> u + 1]
      BY <1>2, <3>1
    <3>4. f > 0 /\ u = f - 1 /\ u - from = f - k
      <4>1. PICK n \in Nat : n = u
        BY <3>2
      <4>2. PICK m \in Int : m = k
        BY <1>9
      <4>3. f = n + 1 /\ from = m - 1
        BY <3>1, <3>2, <4>1, <4>2
      <4>4. n + 1 > 0 /\ n = (n + 1) - 1 /\ n - (m - 1) = (n + 1) - m
        OBVIOUS
      <4>5. QED BY <4>1, <4>2, <4>3, <4>4
    <3>5. op = [del |-> TRUE, i |-> f]
      BY <3>2, <3>3
    <3>6. u \in 0..Len(a) /\ u - from \in 0..Len(b)
      BY <1>1, <1>13, <3>2, <3>4
    <3>7. from \in Steps(d - 1)
      BY <1>9, <3>1, <3>2
    <3>8. op \in Edits(a, b)
      BY <1>8, <3>5 DEF Edits
    <3>9. QED BY <3>2, <3>4, <3>5, <3>6, <3>7, <3>8
  <2>3. QED BY <2>1, <2>2
<1>15. Aligned(a, b, u, u - from, << op >> \o o)
  <2>1. CASE op = [del |-> TRUE, i |-> f] /\ f > 0 /\ u = f - 1 /\ u - from = f - k
    BY <1>1, <1>3, <1>12, <1>13, <1>14, <2>1, EditBefore
  <2>2. CASE op = [del |-> FALSE, i |-> f - k] /\ f - k > 0 /\ u = f /\ u - from = (f - k) - 1
    BY <1>1, <1>3, <1>12, <1>13, <1>14, <2>2, EditBefore
  <2>3. QED BY <1>14, <2>1, <2>2
<1>16. << op >> \o o \in Seq(Edits(a, b)) /\ Len(<< op >> \o o) + (d - 1) = Len(t) - 1
  <2>1. << op >> \o o \in Seq(Edits(a, b)) /\ Len(<< op >> \o o) = 1 + Len(o) /\ Len(o) \in Nat
    BY <1>3, <1>14
  <2>2. QED BY <1>3, <1>4, <1>5, <2>1
<1>17. u - (u - from) = from /\ u = t[(d - 1) + 1][from]
  <2>1. from \in Int /\ u \in Int
    BY <1>5, <1>14, StepsFacts
  <2>2. u = t[d][from]
    BY <1>2
  <2>3. QED BY <1>5, <2>1, <2>2
<1>18. QED BY <1>3, <1>5, <1>14, <1>15, <1>16, <1>17 DEF Retraced

\* The end of the way back: before the first edit the blocks are equal.
LEMMA RetraceEnds ==
  ASSUME NEW a \in Seq(Blocks), NEW b \in Seq(Blocks), NEW t, NEW x, NEW y, NEW o,
         Retraced(a, b, 0, t, x, y, o)
  PROVE  Told(a, b, x, y, o)
<1>1. Len(a) \in Nat /\ Len(b) \in Nat
  OBVIOUS
<1>2. /\ a # << >> /\ b # << >> /\ Known(a, b, t) /\ 0 \in 0..Len(t) - 1
      /\ Len(t) - 1 = D(a, b, Len(a), Len(b))
      /\ x \in 0..Len(a) /\ y \in 0..Len(b) /\ x - y \in Steps(0) /\ x = t[0 + 1][x - y]
      /\ o \in Seq(Edits(a, b)) /\ Len(o) + 0 = Len(t) - 1 /\ Aligned(a, b, x, y, o)
  BY DEF Retraced
<1>3. x - y = 0 /\ x = y
  <2>1. x - y \in 0..0
    <3>1. PICK z \in Nat : z = 0
      OBVIOUS
    <3>2. x - y \in Steps(z)
      BY <1>2, <3>1
    <3>3. x - y \in Int /\ x - y <= z /\ (x - y # -z => z > 0)
      BY <3>1, <3>2, StepsFacts
    <3>4. QED BY <3>1, <3>3
  <2>2. QED BY <1>1, <1>2, <2>1
<1>4. PICK z \in Nat : z = 0
  OBVIOUS
<1>5. PICK m \in Int : m = 0
  OBVIOUS
<1>6. Reached(a, b, Before(a, b, t, 0), 0, t[1])
  <2>1. Rounds(a, b, t) /\ 0 \in 0..Len(t) - 1
    BY <1>2 DEF Known
  <2>2. Reached(a, b, Before(a, b, t, 0), 0, t[0 + 1])
    BY <2>1 DEF Rounds
  <2>3. QED BY <2>2
<1>7. 0 \in Steps(0) /\ x = t[1][0]
  BY <1>2, <1>3
<1>8. t[1][0] = Follow(a, b, Start(Before(a, b, t, 0), 0, 0), 0)
  BY <1>6, <1>7 DEF Reached
<1>9. Start(Before(a, b, t, 0), 0, 0) = 0
  <2>1. 0 = -0
    <3>1. z = -z
      <4>1. z \in Steps(z)
        BY <1>4, <1>7
      <4>2. z # -z => z > 0
        BY <4>1, StepsFacts
      <4>3. QED BY <1>4, <4>2
    <3>2. QED BY <1>4, <3>1
  <2>2. Inserts(Before(a, b, t, 0), 0, 0)
    BY <2>1, Zenon DEF Inserts
  <2>3. Start(Before(a, b, t, 0), 0, 0) = Before(a, b, t, 0)[1]
    BY <2>2 DEF Start
  <2>4. 1 \in -(Len(a) + Len(b)) .. Len(a) + Len(b) + 1
    BY <1>1
  <2>5. QED BY <2>3, <2>4 DEF Before
<1>10. x = Follow(a, b, 0, 0)
  BY <1>7, <1>8, <1>9
<1>11. \A j \in 0..x - 1 : Same(a, b, j, j - 0)
  BY <1>1, <1>10, FollowFacts
<1>12. Aligned(a, b, 0, 0, o)
  <2>1. o \in Seq(Edits(a, b)) /\ x \in 0..Len(a) /\ x - 0 \in 0..Len(b) /\ Aligned(a, b, x, x - 0, o)
    BY <1>1, <1>2, <1>3
  <2>2. /\ x - m \in 0..Len(b) /\ Aligned(a, b, x, x - m, o) /\ z - m \in Nat /\ z <= x
        /\ \A j \in z..x - 1 : Same(a, b, j, j - m)
    BY <1>1, <1>4, <1>11, <1>5, <2>1
  <2>3. Aligned(a, b, z, z - m, o)
    BY <1>1, <2>1, <2>2, EqualBefore
  <2>4. z = 0 /\ z - m = 0
    BY <1>4, <1>5
  <2>5. QED BY <2>3, <2>4
<1>13. Len(o) = D(a, b, Len(a), Len(b))
  BY <1>2
<1>14. QED BY <1>2, <1>12, <1>13 DEF Told

-----------------------------------------------------------------------------
(* The inductive invariant of the computation.                              *)

LEMMA ForwardDiffInv == DiffInv /\ Forward => DiffInv'
<1> SUFFICES ASSUME DiffInv, Forward PROVE DiffInv'
  OBVIOUS
<1> DEFINE a == oldBlocks
           b == newBlocks
           d == step
           r == reach
           t == trace
           next == [k \in Diagonals(a, b) |-> IF k \in Steps(d) THEN Follow(a, b, Start(r, d, k), k)
                                              ELSE r[k]]
           found == \E k \in Steps(d) : next[k] >= Len(a) /\ next[k] - k >= Len(b)
<1>1. /\ diffPhase = "forward" /\ Forth(a, b, d, r, t, at, ops)
      /\ a \in Seq(Blocks) /\ b \in Seq(Blocks) /\ versions \in Docs \X Docs
  BY DEF DiffInv, Forward
<1>2. DOMAIN r = Diagonals(a, b)
  BY <1>1 DEF Forth, Diags, Diagonals
<1>3. \A k : Snake(IF Inserts(reach, step, k) THEN reach[k + 1] ELSE reach[k - 1] + 1, k)
             = Follow(a, b, Start(r, d, k), k)
  BY SnakeIs DEF Start
<1>4. /\ reach' = next /\ trace' = Append(t, next)
      /\ diffPhase' = (IF found THEN "back" ELSE "forward")
      /\ step' = (IF found THEN d ELSE d + 1)
      /\ UNCHANGED << versions, oldBlocks, newBlocks, at, ops >>
  <2> DEFINE ks == {k \in -d .. d : (d - k) % 2 = 0}
             nx == [k \in DOMAIN r |-> IF k \in ks
                       THEN Snake(IF Inserts(r, d, k) THEN r[k + 1] ELSE r[k - 1] + 1, k)
                       ELSE r[k]]
             done == \E k \in ks : nx[k] >= Len(a) /\ nx[k] - k >= Len(b)
  <2>1. /\ reach' = nx /\ trace' = Append(t, nx)
        /\ diffPhase' = (IF done THEN "back" ELSE "forward")
        /\ step' = (IF done THEN d ELSE d + 1)
        /\ UNCHANGED << versions, oldBlocks, newBlocks, at, ops >>
    BY DEF Forward
  <2>2. ks = Steps(d)
    BY DEF Steps
  <2> HIDE DEF ks
  <2>3. nx = next
    BY <1>2, <1>3, <2>2
  <2> HIDE DEF nx, next
  <2>4. done <=> found
    BY <2>2, <2>3
  <2> HIDE DEF done, found
  <2>5. QED BY <2>1, <2>3, <2>4
<1>5. /\ found => Retraced(a, b, d, Append(t, next), Len(a), Len(b), ops)
      /\ ~found => Forth(a, b, d + 1, next, Append(t, next), at, ops)
  <2>1. PICK n : n = next
    OBVIOUS
  <2>2. PICK w : w = found
    OBVIOUS
  <2> HIDE DEF next
  <2>3. n = [k \in Diagonals(a, b) |-> IF k \in Steps(d) THEN Follow(a, b, Start(r, d, k), k)
                                        ELSE r[k]]
    BY <2>1 DEF next
  <2>4. w = \E k \in Steps(d) : n[k] >= Len(a) /\ n[k] - k >= Len(b)
    BY <2>1, <2>2, Zenon
  <2> HIDE DEF a, b, d, r, t, found
  <2>5. /\ w => Retraced(a, b, d, Append(t, n), Len(a), Len(b), ops)
        /\ ~w => Forth(a, b, d + 1, n, Append(t, n), at, ops)
    BY <1>1, <2>3, <2>4, RoundMore, Zenon
  <2>6. QED BY <2>1, <2>2, <2>5, Zenon
<1>6. at = << Len(a), Len(b) >> /\ at[1] = Len(a) /\ at[2] = Len(b)
  BY <1>1 DEF Forth
<1> HIDE DEF next, found
<1>7. CASE found
  <2>1. diffPhase' = "back" /\ step' = d /\ trace' = Append(t, next)
        /\ oldBlocks' = a /\ newBlocks' = b /\ at' = at /\ ops' = ops /\ versions' = versions
    BY <1>4, <1>7
  <2>2. Retraced(a, b, d, Append(t, next), at[1], at[2], ops)
    BY <1>5, <1>6, <1>7
  <2>3. QED BY <1>1, <2>1, <2>2 DEF DiffInv
<1>8. CASE ~found
  <2>1. diffPhase' = "forward" /\ step' = d + 1 /\ trace' = Append(t, next) /\ reach' = next
        /\ oldBlocks' = a /\ newBlocks' = b /\ at' = at /\ ops' = ops /\ versions' = versions
    BY <1>4, <1>8
  <2>2. Forth(a, b, d + 1, next, Append(t, next), at, ops)
    BY <1>5, <1>8
  <2>3. QED BY <1>1, <2>1, <2>2 DEF DiffInv
<1>9. QED BY <1>7, <1>8

LEMMA RetracedTypes ==
  ASSUME NEW a, NEW b, NEW d, NEW t, NEW x, NEW y, NEW os, Retraced(a, b, d, t, x, y, os)
  PROVE  d \in Nat /\ x \in Nat /\ y \in Nat /\ x - y \in Int
BY DEF Retraced

LEMMA BackwardDiffInv == DiffInv /\ Backward => DiffInv'
<1> SUFFICES ASSUME DiffInv, Backward PROVE DiffInv'
  OBVIOUS
<1> DEFINE a == oldBlocks
           b == newBlocks
           d == step
           k == at[1] - at[2]
           from == IF Inserts(trace[d], d, k) THEN k + 1 ELSE k - 1
           x == trace[d][from]
           op == IF from = k + 1 THEN [del |-> FALSE, i |-> x - from + 1]
                 ELSE [del |-> TRUE, i |-> x + 1]
<1>1. /\ diffPhase = "back" /\ Retraced(a, b, d, trace, at[1], at[2], ops)
      /\ a \in Seq(Blocks) /\ b \in Seq(Blocks) /\ versions \in Docs \X Docs
  BY DEF DiffInv, Backward
<1>2. d > 0 /\ ops' = << op >> \o ops /\ at' = << x, x - from >> /\ step' = d - 1
      /\ UNCHANGED << versions, oldBlocks, newBlocks, reach, trace, diffPhase >>
  BY DEF Backward
<1>3. d \in Nat \ {0} /\ at[1] \in Nat /\ at[2] \in Nat /\ k \in Int
  <2>1. d \in Nat /\ at[1] \in Nat /\ at[2] \in Nat /\ k \in Int
    BY <1>1, RetracedTypes
  <2>2. QED BY <1>2, <2>1
<1>4. Turn(at[1], at[2], trace[d], d, k, from, x, op)
  BY DEF Turn
<1> HIDE DEF a, b, d, k, from, x, op
<1>5. Retraced(a, b, d - 1, trace, x, x - from, << op >> \o ops)
  BY <1>1, <1>3, <1>4, RetraceMore
<1>6. at'[1] = x /\ at'[2] = x - from
  BY <1>2
<1>7. /\ diffPhase' = "back" /\ versions' \in Docs \X Docs /\ oldBlocks' = a /\ newBlocks' = b
      /\ step' = d - 1 /\ trace' = trace /\ ops' = << op >> \o ops
  BY <1>1, <1>2 DEF a, b
<1>8. QED BY <1>1, <1>5, <1>6, <1>7 DEF DiffInv

LEMMA ReconstructedDiffInv == DiffInv /\ Reconstructed => DiffInv'
<1> SUFFICES ASSUME DiffInv, Reconstructed PROVE DiffInv'
  OBVIOUS
<1>1. Retraced(oldBlocks, newBlocks, 0, trace, at[1], at[2], ops)
  BY DEF DiffInv, Reconstructed
<1>2. Told(oldBlocks, newBlocks, at[1], at[2], ops)
  BY <1>1, RetraceEnds DEF DiffInv
<1>3. /\ diffPhase' = "done" /\ step = 0
      /\ UNCHANGED << versions, oldBlocks, newBlocks, step, reach, trace, at, ops >>
  BY DEF Reconstructed
<1>4. QED BY <1>2, <1>3 DEF DiffInv

LEMMA StepDiffInv == DiffInv /\ [DiffNext]_diffVars => DiffInv'
<1>1. ASSUME DiffInv, UNCHANGED diffVars PROVE DiffInv'
  BY <1>1 DEF DiffInv, diffVars
<1>2. QED
  BY <1>1, ForwardDiffInv, BackwardDiffInv, ReconstructedDiffInv DEF DiffNext

THEOREM DiffInductive == DiffSpec => []DiffInv
<1>1. QED BY InitDiffInv, StepDiffInv, PTL DEF DiffSpec

LEMMA DiffInvIsTyped == DiffInv => DiffTypeOK
<1> SUFFICES ASSUME DiffInv PROVE DiffTypeOK
  OBVIOUS
<1> DEFINE a == oldBlocks
           b == newBlocks
<1>1. Len(a) \in Nat /\ Len(b) \in Nat /\ diffPhase \in {"forward", "back", "done"}
  BY DEF DiffInv
<1>2. CASE diffPhase = "forward"
  <2>1. Forth(a, b, step, reach, trace, at, ops)
    BY <1>2 DEF DiffInv
  <2>2. step \in Nat /\ step <= Len(a) + Len(b) /\ at = << Len(a), Len(b) >> /\ ops = << >>
    BY <2>1 DEF Forth, Known, Traces
  <2>3. QED BY <1>1, <2>2 DEF DiffTypeOK
<1>3. ASSUME After(a, b, 0, 0, ops)
      PROVE  \A i \in DOMAIN ops : ops[i].i \in 1..(IF ops[i].del THEN Len(a) ELSE Len(b))
  <2>1. \A j \in DOMAIN ops : IF ops[j].del THEN ops[j].i \in 0 + 1..Len(a)
                              ELSE ops[j].i \in 0 + 1..Len(b)
    BY <1>3 DEF After
  <2>2. QED BY <1>1, <2>1
<1>4. CASE diffPhase = "back"
  <2>1. Retraced(a, b, step, trace, at[1], at[2], ops)
    BY <1>4 DEF DiffInv
  <2>2. /\ step \in 0..Len(a) + Len(b) /\ at[1] \in 0..Len(a) /\ at[2] \in 0..Len(b)
        /\ After(a, b, at[1], at[2], ops)
    <3>1. /\ step \in 0..Len(trace) - 1 /\ Len(trace) - 1 <= Len(a) + Len(b)
          /\ Len(trace) \in Nat
          /\ at[1] \in 0..Len(a) /\ at[2] \in 0..Len(b)
          /\ After(a, b, at[1], at[2], ops)
      BY <2>1 DEF Retraced, Known, Traces, Aligned
    <3>2. QED BY <1>1, <3>1
  <2>3. After(a, b, 0, 0, ops)
    BY <1>1, <2>2 DEF After
  <2>4. QED BY <1>1, <1>3, <1>4, <2>2, <2>3 DEF DiffTypeOK
<1>5. CASE diffPhase = "done"
  <2>1. step = 0 /\ Told(a, b, at[1], at[2], ops)
    BY <1>5 DEF DiffInv
  <2>2. at[1] \in 0..Len(a) /\ at[2] \in 0..Len(b)
    BY <2>1 DEF Told
  <2>3. After(a, b, 0, 0, ops)
    <3>1. CASE ops = << >>
      BY <3>1 DEF After
    <3>2. CASE ops # << >>
      BY <2>1, <3>2 DEF Told, Aligned
    <3>3. QED BY <3>1, <3>2
  <2>4. QED BY <1>1, <1>3, <1>5, <2>1, <2>2, <2>3 DEF DiffTypeOK
<1>6. QED BY <1>1, <1>2, <1>4, <1>5

LEMMA DiffInvIsShortest == DiffInv => ScriptIsShortest
<1> SUFFICES ASSUME DiffInv, diffPhase = "done", oldBlocks # << >>, newBlocks # << >>
             PROVE  /\ Len(ops) = Distance
                    /\ \E f \in [Untouched(oldBlocks, TRUE) -> Untouched(newBlocks, FALSE)] :
                        /\ \A j \in Untouched(newBlocks, FALSE) : \E i \in Untouched(oldBlocks, TRUE) : f[i] = j
                        /\ \A i, j \in Untouched(oldBlocks, TRUE) : i < j => f[i] < f[j]
                        /\ \A i \in Untouched(oldBlocks, TRUE) : oldBlocks[i].raw = newBlocks[f[i]].raw
  BY DEF ScriptIsShortest
<1>1. Told(oldBlocks, newBlocks, at[1], at[2], ops)
  BY DEF DiffInv
<1>2. /\ Len(ops) = D(oldBlocks, newBlocks, Len(oldBlocks), Len(newBlocks))
      /\ Aligned(oldBlocks, newBlocks, 0, 0, ops)
  BY <1>1 DEF Told
<1>3. Len(ops) = Distance
  BY <1>2, DistanceIs
<1>4. /\ Left(ops, TRUE, 0, Len(oldBlocks)) = Untouched(oldBlocks, TRUE)
      /\ Left(ops, FALSE, 0, Len(newBlocks)) = Untouched(newBlocks, FALSE)
  BY DEF Left, Untouched
<1>5. PICK f : Pairs(oldBlocks, newBlocks, 0, 0, ops, f)
  BY <1>2 DEF Aligned
<1>6. /\ f \in [Untouched(oldBlocks, TRUE) -> Untouched(newBlocks, FALSE)]
      /\ \A j \in Untouched(newBlocks, FALSE) : \E i \in Untouched(oldBlocks, TRUE) : f[i] = j
      /\ \A i, j \in Untouched(oldBlocks, TRUE) : i < j => f[i] < f[j]
      /\ \A i \in Untouched(oldBlocks, TRUE) : oldBlocks[i].raw = newBlocks[f[i]].raw
  BY <1>4, <1>5, Zenon DEF Pairs
<1>7. QED BY <1>3, <1>6

THEOREM DiffTyped == DiffSpec => []DiffTypeOK
<1>1. QED BY DiffInductive, DiffInvIsTyped, PTL

THEOREM ShortestScript == DiffSpec => []ScriptIsShortest
<1>1. QED BY DiffInductive, DiffInvIsShortest, PTL

-----------------------------------------------------------------------------
(* The lines of a document are those of its blocks.                         *)

Reads(bs, f, ls) ==
  \A i \in 1..Len(bs) :
    /\ f[i] + Len(bs[i].raw) <= Len(ls) + 1
    /\ \A j \in 1..Len(bs[i].raw) :
         bs[i].raw[j].is = ls[f[i] + j - 1].is /\ bs[i].raw[j].text = ls[f[i] + j - 1].text
Ordered(bs, f) == \A i, j \in 1..Len(bs) : i < j => f[i] + Len(bs[i].raw) <= f[j]
Covers(ls, p, bs, f) ==
  \A n \in p..Len(ls) : \/ ls[n].is = "blank"
                        \/ \E i \in 1..Len(bs) : f[i] <= n /\ n < f[i] + Len(bs[i].raw)

LEMMA LaidIs ==
  \A ls, p, bs : Laid(ls, p, bs) <=> \E f \in [1..Len(bs) -> p..Len(ls)] :
                                       Reads(bs, f, ls) /\ Ordered(bs, f) /\ Covers(ls, p, bs, f)
BY DEF Laid, Reads, Ordered, Covers

LEMMA RawReads ==
  ASSUME NEW ls \in Docs, NEW i \in 1..Len(ls), NEW e \in i + 1..Len(ls) + 1, NEW kind,
         NEW r, r = Raw(kind, SubSeq(ls, i, e - 1))
  PROVE  Len(r) = e - i /\ \A j \in 1..e - i : r[j].is = ls[i + j - 1].is /\ r[j].text = ls[i + j - 1].text
<1> DEFINE s == SubSeq(ls, i, e - 1)
<1>1. ls \in Seq(BlockLines) /\ Len(ls) \in Nat
  BY DocsAre
<1>2. e - 1 \in i..Len(ls) /\ (e - 1) - i + 1 = e - i
  BY <1>1
<1>3. s \in Seq(BlockLines) /\ s # << >> /\ 1 \in DOMAIN s
  BY <1>2, SubLines
<1>4. Len(s) = e - i /\ \A j \in 1..e - i : s[j] = ls[i + j - 1]
  <2>1. i \in 1..Len(ls) /\ e - 1 \in 1..Len(ls)
    BY <1>1, <1>2
  <2>2. Len(s) = (e - 1) - i + 1 /\ \A j \in 1..(e - 1) - i + 1 : s[j] = ls[i + j - 1]
    BY <1>1, <1>2, <2>1, SubSeqProperties
  <2>3. QED BY <1>2, <2>2
<1> HIDE DEF s
<1>5. CASE kind \in {"code_fence", "frontmatter"}
  <2>1. r = s
    BY <1>5, Zenon DEF Raw, s
  <2>2. QED BY <1>4, <2>1
<1>6. CASE kind \notin {"code_fence", "frontmatter"}
  <2> DEFINE c == [s[1] EXCEPT !.indented = FALSE]
  <2>1. r = [s EXCEPT ![1] = c]
    <3>1. r = [s EXCEPT ![1].indented = FALSE]
      BY <1>6 DEF Raw, s
    <3>2. QED BY <1>3, <3>1
  <2>2. c.is = s[1].is /\ c.text = s[1].text /\ c \in BlockLines
    <3>1. s[1] \in BlockLines
      BY <1>3
    <3>2. QED BY <3>1 DEF BlockLines
  <2> HIDE DEF c
  <2>3. Len(r) = Len(s) /\ r[1] = c /\ \A j \in 1..Len(s) : j # 1 => r[j] = s[j]
    BY <1>3, <2>1, <2>2
  <2>4. QED BY <1>4, <2>2, <2>3
<1>7. QED BY <1>5, <1>6

LEMMA LaidEmpty ==
  ASSUME NEW ls, Len(ls) \in Nat, NEW p \in Nat, p > Len(ls)
  PROVE  Laid(ls, p, << >>)
<1>1. p..Len(ls) = {}
  OBVIOUS
<1>2. [i \in {} |-> 0] \in [1..Len(<< >>) -> p..Len(ls)]
  OBVIOUS
<1>3. Reads(<< >>, [i \in {} |-> 0], ls) /\ Ordered(<< >>, [i \in {} |-> 0])
      /\ Covers(ls, p, << >>, [i \in {} |-> 0])
  BY <1>1 DEF Reads, Ordered, Covers
<1>4. QED BY <1>2, <1>3, LaidIs

LEMMA LaidBlank ==
  ASSUME NEW ls, Len(ls) \in Nat, NEW p \in 1..Len(ls), ls[p].is = "blank",
         NEW bs \in Seq(Blocks), Laid(ls, p + 1, bs)
  PROVE  Laid(ls, p, bs)
<1>1. PICK f \in [1..Len(bs) -> p + 1..Len(ls)] :
         Reads(bs, f, ls) /\ Ordered(bs, f) /\ Covers(ls, p + 1, bs, f)
  BY LaidIs
<1>2. f \in [1..Len(bs) -> p..Len(ls)]
  BY <1>1
<1>3. Covers(ls, p, bs, f)
  <2> SUFFICES ASSUME NEW n \in p..Len(ls), ls[n].is # "blank"
               PROVE  \E i \in 1..Len(bs) : f[i] <= n /\ n < f[i] + Len(bs[i].raw)
    BY DEF Covers
  <2>1. n \in p + 1..Len(ls)
    OBVIOUS
  <2>2. QED BY <1>1, <2>1 DEF Covers
<1>4. QED BY <1>1, <1>2, <1>3, LaidIs

LEMMA LaidBlock ==
  ASSUME NEW ls, Len(ls) \in Nat, NEW p \in 1..Len(ls), NEW e \in p + 1..Len(ls) + 1,
         NEW c \in Blocks, Len(c.raw) = e - p,
         \A j \in 1..e - p : c.raw[j].is = ls[p + j - 1].is /\ c.raw[j].text = ls[p + j - 1].text,
         NEW bs \in Seq(Blocks), Laid(ls, e, bs)
  PROVE  Laid(ls, p, << c >> \o bs)
<1> DEFINE w == << c >> \o bs
<1>1. PICK f \in [1..Len(bs) -> e..Len(ls)] :
         Reads(bs, f, ls) /\ Ordered(bs, f) /\ Covers(ls, e, bs, f)
  BY LaidIs
<1>2. /\ w \in Seq(Blocks) /\ Len(w) = Len(bs) + 1 /\ Len(bs) \in Nat /\ w[1] = c
      /\ \A i \in 1..Len(bs) : w[i + 1] = bs[i]
      /\ \A i \in 1..Len(w) : i = 1 \/ (i - 1 \in 1..Len(bs) /\ w[i] = bs[i - 1])
  OBVIOUS
<1> HIDE DEF w
<1> DEFINE g == [i \in 1..Len(w) |-> IF i = 1 THEN p ELSE f[i - 1]]
<1>3. \A i \in 1..Len(bs) : f[i] \in e..Len(ls) /\ f[i] \in Int /\ Len(bs[i].raw) \in Nat
  <2> TAKE i \in 1..Len(bs)
  <2>1. bs[i] \in Blocks
    OBVIOUS
  <2>2. bs[i].raw \in Seq(BlockLines)
    BY <2>1 DEF Blocks
  <2>3. QED BY <1>1, <2>2
<1>4. g \in [1..Len(w) -> p..Len(ls)]
  <2> SUFFICES ASSUME NEW i \in 1..Len(w) PROVE g[i] \in p..Len(ls)
    OBVIOUS
  <2>1. CASE i = 1
    BY <2>1
  <2>2. CASE i # 1
    BY <1>2, <1>3, <2>2
  <2>3. QED BY <2>1, <2>2
<1>5. g[1] = p /\ \A i \in 1..Len(bs) : g[i + 1] = f[i]
  BY <1>2
<1>6. \A i \in 1..Len(w) : i # 1 => i - 1 \in 1..Len(bs) /\ g[i] = f[i - 1] /\ w[i] = bs[i - 1]
  BY <1>2
<1> HIDE DEF g
<1>7. 1 \in 1..Len(w)
  BY <1>2
<1>8. Reads(w, g, ls)
  <2> SUFFICES ASSUME NEW i \in 1..Len(w)
               PROVE  /\ g[i] + Len(w[i].raw) <= Len(ls) + 1
                      /\ \A j \in 1..Len(w[i].raw) :
                           /\ w[i].raw[j].is = ls[g[i] + j - 1].is
                           /\ w[i].raw[j].text = ls[g[i] + j - 1].text
    BY DEF Reads
  <2>1. CASE i = 1
    <3>1. g[i] = p /\ w[i] = c
      BY <1>2, <1>5, <2>1
    <3>2. p + Len(c.raw) <= Len(ls) + 1
      OBVIOUS
    <3>3. QED BY <3>1, <3>2
  <2>2. CASE i # 1
    <3>1. PICK k \in 1..Len(bs) : g[i] = f[k] /\ w[i] = bs[k]
      BY <1>6, <2>2
    <3>2. /\ f[k] + Len(bs[k].raw) <= Len(ls) + 1
          /\ \A j \in 1..Len(bs[k].raw) :
               bs[k].raw[j].is = ls[f[k] + j - 1].is /\ bs[k].raw[j].text = ls[f[k] + j - 1].text
      BY <1>1 DEF Reads
    <3>3. QED BY <3>1, <3>2
  <2>3. QED BY <2>1, <2>2
<1>9. Ordered(w, g)
  <2> SUFFICES ASSUME NEW i \in 1..Len(w), NEW j \in 1..Len(w), i < j
               PROVE  g[i] + Len(w[i].raw) <= g[j]
    BY DEF Ordered
  <2>1. j # 1 /\ g[j] = f[j - 1] /\ j - 1 \in 1..Len(bs)
    BY <1>2, <1>6
  <2>2. CASE i = 1
    <3>1. g[i] = p /\ w[i] = c
      BY <1>2, <1>5, <2>2
    <3>2. p + Len(c.raw) = e /\ e <= f[j - 1]
      BY <1>3, <2>1
    <3>3. QED BY <2>1, <3>1, <3>2
  <2>3. CASE i # 1
    <3>1. i - 1 \in 1..Len(bs) /\ g[i] = f[i - 1] /\ w[i] = bs[i - 1] /\ i - 1 < j - 1
      BY <1>2, <1>6, <2>3
    <3>2. QED BY <1>1, <2>1, <3>1 DEF Ordered
  <2>4. QED BY <2>2, <2>3
<1>10. Covers(ls, p, w, g)
  <2> SUFFICES ASSUME NEW n \in p..Len(ls), ls[n].is # "blank"
               PROVE  \E i \in 1..Len(w) : g[i] <= n /\ n < g[i] + Len(w[i].raw)
    BY DEF Covers
  <2>1. CASE n < e
    <3>1. g[1] = p /\ w[1] = c
      BY <1>2, <1>5
    <3>2. p <= n /\ n < p + Len(c.raw)
      BY <2>1
    <3>3. QED BY <1>7, <3>1, <3>2
  <2>2. CASE ~(n < e)
    <3>1. n \in e..Len(ls)
      BY <2>2
    <3>2. PICK i \in 1..Len(bs) : f[i] <= n /\ n < f[i] + Len(bs[i].raw)
      BY <1>1, <3>1 DEF Covers
    <3>3. i + 1 \in 1..Len(w) /\ g[i + 1] = f[i] /\ w[i + 1] = bs[i]
      BY <1>2, <1>5
    <3>4. QED BY <3>2, <3>3
  <2>3. QED BY <2>1, <2>2
<1>11. QED BY <1>4, <1>8, <1>9, <1>10, LaidIs DEF w

LEMMA SplitIsLaid ==
  ASSUME NEW ls \in Docs
  PROVE  \A p \in SplitPlaces(ls) : Laid(ls, p[1], Split(ls)[p])
<1> DEFINE h == Split(ls)
           Bad == {m \in Nat : \E p \in SplitPlaces(ls) : p[1] + m = Len(ls) + 1 /\ ~Laid(ls, p[1], h[p])}
<1>1. Len(ls) \in Nat /\ \A p \in SplitPlaces(ls) : p[1] \in 1..Len(ls) + 1 /\ p[2] \in SectionsOf(ls)
  BY DocsAre DEF SplitPlaces
<1>2. \A p \in SplitPlaces(ls) : h[p] = SplitStep(ls, h, p) /\ h[p] \in Seq(Blocks)
  <2>1. IsSplit(ls, h)
    BY SplitExists
  <2>2. \A p \in SplitPlaces(ls) : h[p] \in Seq(Blocks)
    BY SplitIsBlocks
  <2> HIDE DEF h
  <2>3. QED BY <2>1, <2>2 DEF IsSplit
<1> HIDE DEF h
<1>3. SUFFICES ASSUME Bad # {} PROVE FALSE
  <2> SUFFICES ASSUME NEW p \in SplitPlaces(ls), ~Laid(ls, p[1], h[p]) PROVE FALSE
    BY DEF h
  <2> DEFINE m == Len(ls) + 1 - p[1]
  <2>1. m \in Nat /\ p[1] + m = Len(ls) + 1
    BY <1>1
  <2> HIDE DEF m
  <2>2. m \in Bad
    BY <2>1
  <2>3. QED BY <1>3, <2>2
<1>4. PICK m \in Bad : \A n \in Bad : m <= n
  <2>1. Bad \in SUBSET Nat
    OBVIOUS
  <2> HIDE DEF Bad
  <2>2. QED BY <1>3, <2>1, Least
<1>5. PICK p \in SplitPlaces(ls) : p[1] + m = Len(ls) + 1 /\ ~Laid(ls, p[1], h[p])
  BY <1>4
<1>6. \A u \in SplitPlaces(ls) : u[1] > p[1] => Laid(ls, u[1], h[u])
  <2> SUFFICES ASSUME NEW u \in SplitPlaces(ls), u[1] > p[1], ~Laid(ls, u[1], h[u]) PROVE FALSE
    OBVIOUS
  <2> DEFINE n == Len(ls) + 1 - u[1]
  <2>1. n \in Nat /\ u[1] + n = Len(ls) + 1 /\ ~(m <= n)
    <3>1. m \in Nat
      BY <1>4
    <3>2. u[1] \in Nat /\ u[1] <= Len(ls) + 1 /\ p[1] \in Nat
      BY <1>1
    <3>3. QED BY <1>1, <1>5, <3>1, <3>2, SMTT(30)
  <2> HIDE DEF n
  <2>2. n \in Bad
    BY <2>1
  <2>3. QED BY <1>4, <2>1, <2>2
<1>7. p[1] \in 1..Len(ls) + 1 /\ p[2] \in SectionsOf(ls) /\ h[p] = SplitStep(ls, h, p)
  BY <1>1, <1>2, <1>5
<1>8. CASE p[1] > Len(ls)
  <2>1. h[p] = << >> /\ p[1] \in Nat
    BY <1>7, <1>8 DEF SplitStep
  <2>2. QED BY <1>1, <1>5, <1>8, <2>1, LaidEmpty
<1>9. CASE ~(p[1] > Len(ls)) /\ ls[p[1]].is = "blank"
  <2> DEFINE u == << p[1] + 1, p[2] >>
  <2>1. u \in SplitPlaces(ls) /\ u[1] > p[1] /\ u[1] = p[1] + 1 /\ p[1] \in 1..Len(ls)
    BY <1>1, <1>7, <1>9 DEF SplitPlaces
  <2>2. Laid(ls, p[1] + 1, h[u]) /\ h[u] \in Seq(Blocks)
    BY <1>2, <1>6, <2>1
  <2>3. h[p] = h[u]
    BY <1>7, <1>9, Zenon DEF SplitStep
  <2> HIDE DEF u
  <2>4. Laid(ls, p[1], h[u])
    BY <1>1, <1>9, <2>1, <2>2, LaidBlank
  <2>5. QED BY <1>5, <2>3, <2>4
<1>10. CASE ~(p[1] > Len(ls)) /\ ls[p[1]].is # "blank"
  <2> DEFINE e == BlockEnd(ls, p[1])
             u == << e, SectionAt(ls, p[1], p[2]) >>
             c == BlockAt(ls, p[1], p[2])
  <2>1. p[1] \in 1..Len(ls)
    BY <1>1, <1>7, <1>10
  <2>2. e \in p[1] + 1..Len(ls) + 1 /\ c \in Blocks
        /\ SectionAt(ls, p[1], p[2]) \in SectionsOf(ls)
    BY <1>7, <2>1, BlockEndIsAfter, BlockIsBlock
  <2>3. u \in SplitPlaces(ls) /\ u[1] > p[1] /\ u[1] = e
    BY <1>1, <2>1, <2>2 DEF SplitPlaces
  <2>4. Laid(ls, e, h[u]) /\ h[u] \in Seq(Blocks)
    BY <1>2, <1>6, <2>3
  <2>5. h[p] = << c >> \o h[u]
    BY <1>7, <1>10, Zenon DEF SplitStep
  <2>6. c.raw = Raw(KindOf(ls[p[1]]), SubSeq(ls, p[1], e - 1))
    BY DEF BlockAt
  <2> HIDE DEF c, u, e
  <2>7. PICK z : z = p[1]
    OBVIOUS
  <2>8. z \in 1..Len(ls) /\ e \in z + 1..Len(ls) + 1 /\ c.raw = Raw(KindOf(ls[z]), SubSeq(ls, z, e - 1))
    BY <2>1, <2>2, <2>6, <2>7
  <2>9. /\ Len(c.raw) = e - z
         /\ \A j \in 1..e - z : c.raw[j].is = ls[z + j - 1].is /\ c.raw[j].text = ls[z + j - 1].text
    BY <2>8, RawReads, SMTT(30)
  <2>10. Laid(ls, z, << c >> \o h[u])
    BY <1>1, <2>2, <2>4, <2>8, <2>9, LaidBlock
  <2>11. Laid(ls, p[1], << c >> \o h[u])
    BY <2>7, <2>10
  <2>12. QED BY <1>5, <2>5, <2>11
<1>11. QED BY <1>8, <1>9, <1>10

LEMMA FrontmatterEndIs ==
  ASSUME NEW ls \in Docs
  PROVE  FrontmatterEnd(ls) = 0 \/ FrontmatterEnd(ls) \in 2..Len(ls)
<1> DEFINE ends == {j \in 2..Len(ls) : ls[j].is = "dashes"}
           first == CHOOSE j \in ends : \A k \in ends : j <= k
<1>1. FrontmatterEnd(ls) = IF ls # << >> /\ ls[1].is = "dashes" /\ ends # {} THEN first ELSE 0
  BY DEF FrontmatterEnd
<1>2. ends \in SUBSET Nat /\ ends \subseteq 2..Len(ls)
  BY DocsAre
<1> HIDE DEF ends
<1>3. ends # {} => \E m \in ends : \A n \in ends : m <= n
  BY <1>2, Least
<1>4. ends # {} => first \in ends
  BY <1>3
<1>5. QED BY <1>1, <1>2, <1>4

\* No line is lost or doubled when a document is split.
LEMMA LinesKept ==
  ASSUME NEW ls \in Docs
  PROVE  SplitKeepsLines(ls)
<1> DEFINE f == FrontmatterEnd(ls)
<1>1. ls \in Seq(BlockLines) /\ Len(ls) \in Nat
  BY DocsAre
<1>2. f = 0 \/ f \in 2..Len(ls)
  BY FrontmatterEndIs
<1>3. SplitBlocks(ls) =
        IF f = 0 THEN Split(ls)[<< 1, NoSection >>]
        ELSE << [kind |-> "frontmatter", raw |-> SubSeq(ls, 1, f), section |-> NoSection] >>
             \o Split(ls)[<< f + 1, NoSection >>]
  BY SplitBlocksIs
<1> HIDE DEF f
<1>4. CASE f = 0
  <2> DEFINE u == << 1, NoSection >>
  <2>1. u \in SplitPlaces(ls) /\ u[1] = 1
    BY <1>1 DEF SplitPlaces, SectionsOf
  <2>2. Laid(ls, 1, Split(ls)[u])
    BY <2>1, SplitIsLaid
  <2>3. QED BY <1>3, <1>4, <2>2 DEF SplitKeepsLines
<1>5. CASE f \in 2..Len(ls)
  <2> DEFINE c == [kind |-> "frontmatter", raw |-> SubSeq(ls, 1, f), section |-> NoSection]
             u == << f + 1, NoSection >>
             rest == Split(ls)[u]
  <2>1. 1 \in 1..Len(ls) /\ f \in 1..Len(ls) /\ f + 1 \in 1 + 1..Len(ls) + 1 /\ (f + 1) - 1 = f
    BY <1>1, <1>5
  <2>2. SubSeq(ls, 1, f) \in Seq(BlockLines)
    BY <2>1, SubLines
  <2>3. c \in Blocks /\ c.raw = SubSeq(ls, 1, f)
    BY <2>2 DEF Blocks, Kinds
  <2>4. SubSeq(ls, 1, f) = Raw("frontmatter", SubSeq(ls, 1, (f + 1) - 1))
    BY <2>1 DEF Raw
  <2>5. u \in SplitPlaces(ls) /\ u[1] = f + 1
    BY <1>1, <1>5 DEF SplitPlaces, SectionsOf
  <2>6. Laid(ls, f + 1, rest) /\ rest \in Seq(Blocks)
    BY <2>5, SplitIsLaid, SplitIsBlocks
  <2>7. SplitBlocks(ls) = << c >> \o rest
    BY <1>1, <1>3, <1>5
  <2> HIDE DEF c, rest, u
  <2>8. PICK z, e : z = 1 /\ e = f + 1
    OBVIOUS
  <2>9. z \in 1..Len(ls) /\ e \in z + 1..Len(ls) + 1 /\ c.raw = Raw("frontmatter", SubSeq(ls, z, e - 1))
    BY <2>1, <2>3, <2>4, <2>8
  <2>10. /\ Len(c.raw) = e - z
         /\ \A j \in 1..e - z : c.raw[j].is = ls[z + j - 1].is /\ c.raw[j].text = ls[z + j - 1].text
    BY <2>9, RawReads
  <2>11. Laid(ls, e, rest)
    BY <2>6, <2>8
  <2>12. Laid(ls, z, << c >> \o rest)
    BY <1>1, <2>3, <2>6, <2>9, <2>10, <2>11, LaidBlock
  <2>13. QED BY <2>7, <2>8, <2>12 DEF SplitKeepsLines
<1>6. QED BY <1>2, <1>4, <1>5

-----------------------------------------------------------------------------
(* What is counted of the changes.                                          *)

StepAt(next, n, v) == next[<< n, v >>]
IsStep(N, S, next) == next \in [(1..N) \X S -> S]
Goes(N, S, first, next) ==
  \E h \in [0..N -> S] : h[0] = first /\ \A n \in 1..N : h[n] = StepAt(next, n, h[n - 1])

\* What takes one step after the other, from a first value on, is a function.
LEMMA Iterate ==
  ASSUME NEW N \in Nat, NEW S, NEW first \in S, NEW next, IsStep(N, S, next)
  PROVE  Goes(N, S, first, next)
<1> DEFINE Until(m, h) == h[0] = first /\ \A n \in 1..m : h[n] = StepAt(next, n, h[n - 1])
           Bad == {m \in Nat : m <= N /\ ~\E h \in [0..m -> S] : Until(m, h)}
<1>1. SUFFICES ASSUME Bad # {} PROVE FALSE
  <2> HIDE DEF Until
  <2>1. N \notin Bad
    BY <1>1
  <2>2. \E h \in [0..N -> S] : Until(N, h)
    BY <2>1
  <2>3. QED BY <2>2 DEF Until, Goes
<1>2. PICK m \in Bad : \A n \in Bad : m <= n
  <2> HIDE DEF Until
  <2>1. Bad \in SUBSET Nat
    OBVIOUS
  <2> HIDE DEF Bad
  <2>2. QED BY <1>1, <2>1, Least
<1>3. m \in Nat /\ m <= N /\ ~\E h \in [0..m -> S] : Until(m, h)
  <2> HIDE DEF Until
  <2>1. QED BY <1>2
<1>4. m # 0
  <2>1. [i \in 0..0 |-> first] \in [0..0 -> S] /\ Until(0, [i \in 0..0 |-> first])
    OBVIOUS
  <2> HIDE DEF Until
  <2>2. QED BY <1>3, <2>1
<1>5. PICK h \in [0..m - 1 -> S] : Until(m - 1, h)
  <2> HIDE DEF Until
  <2>1. m - 1 \in Nat /\ m - 1 <= N /\ m - 1 \notin Bad
    BY <1>2, <1>3, <1>4
  <2>2. QED BY <2>1
<1> DEFINE g == [i \in 0..m |-> IF i = m THEN StepAt(next, m, h[m - 1]) ELSE h[i]]
<1>6. h[m - 1] \in S /\ << m, h[m - 1] >> \in (1..N) \X S
  BY <1>3, <1>4
<1>7. g \in [0..m -> S]
  <2>1. StepAt(next, m, h[m - 1]) \in S
    BY <1>6 DEF StepAt, IsStep
  <2>2. \A i \in 0..m : i # m => h[i] \in S
    BY <1>3
  <2>3. QED BY <2>1, <2>2
<1>8. g[0] = first
  BY <1>3, <1>4, <1>5
<1>9. ASSUME NEW n \in 1..m PROVE g[n] = StepAt(next, n, g[n - 1])
  <2>1. g[n - 1] = h[n - 1]
    BY <1>3
  <2>2. CASE n = m
    <3>1. g[m] = StepAt(next, m, h[m - 1])
      BY <1>3 DEF StepAt
    <3>2. QED BY <2>1, <2>2, <3>1
  <2>3. CASE n # m
    <3>1. n \in 1..m - 1
      BY <1>3, <2>3
    <3>2. h[n] = StepAt(next, n, h[n - 1])
      BY <1>5, <3>1
    <3>3. g[n] = h[n]
      BY <2>3
    <3>4. QED BY <2>1, <3>2, <3>3
  <2>4. QED BY <2>2, <2>3
<1>10. Until(m, g)
  BY <1>8, <1>9
<1>11. QED
  <2> HIDE DEF Until, g
  <2>1. QED BY <1>3, <1>7, <1>10

\* What is counted class by class is counted once.
Counts(N, k, M, B, h) ==
  /\ \A i, j \in 1..M : i < j => B[i] # B[j]
  /\ \A n \in 1..N : \E j \in 1..M : k[n] = B[j]
  /\ h[0] = 0 /\ \A j \in 1..M : h[j] = h[j - 1] + Cardinality({n \in 1..N : k[n] = B[j]})
LEMMA AllCounted ==
  ASSUME NEW N \in Nat, NEW k, NEW M \in Nat, NEW B, NEW h, Counts(N, k, M, B, h)
  PROVE  h[M] = N
<1>1. /\ \A i, j \in 1..M : i < j => B[i] # B[j]
      /\ \A n \in 1..N : \E j \in 1..M : k[n] = B[j]
      /\ h[0] = 0 /\ \A j \in 1..M : h[j] = h[j - 1] + Cardinality({n \in 1..N : k[n] = B[j]})
  BY DEF Counts
<1> DEFINE In(m) == {n \in 1..N : \E j \in 1..m : k[n] = B[j]}
           Of(m) == {n \in 1..N : k[n] = B[m]}
           Bad == {m \in Nat : m <= M /\ h[m] # Cardinality(In(m))}
<1>2. IsFiniteSet(1..N) /\ Cardinality(1..N) = N
  <2>1. 1 \in Int /\ N \in Int
    OBVIOUS
  <2>2. QED BY <2>1, FS_Interval
<1>3. \A m : IsFiniteSet(In(m)) /\ IsFiniteSet(Of(m))
  BY <1>2, FS_Subset
<1>4. Bad = {}
  <2> SUFFICES ASSUME Bad # {} PROVE FALSE
    OBVIOUS
  <2>1. PICK m \in Bad : \A n \in Bad : m <= n
    <3>1. Bad \in SUBSET Nat
      OBVIOUS
    <3> HIDE DEF Bad
    <3>2. QED BY <3>1, Least
  <2>2. m \in Nat /\ m <= M /\ h[m] # Cardinality(In(m))
    <3> HIDE DEF In
    <3>1. QED BY <2>1
  <2>3. m # 0
    <3>1. In(0) = {}
      OBVIOUS
    <3>2. Cardinality(In(0)) = 0
      BY <3>1, FS_EmptySet
    <3> HIDE DEF In
    <3>3. QED BY <1>1, <2>2, <3>2
  <2>4. h[m - 1] = Cardinality(In(m - 1))
    <3> HIDE DEF In
    <3>1. m - 1 \in Nat /\ m - 1 <= M /\ m - 1 \notin Bad
      BY <2>1, <2>2, <2>3
    <3>2. QED BY <3>1
  <2>5. m \in 1..M /\ h[m] = h[m - 1] + Cardinality(Of(m))
    BY <1>1, <2>2, <2>3
  <2>6. In(m) = In(m - 1) \cup Of(m)
    BY <2>5
  <2>7. In(m - 1) \cap Of(m) = {}
    <3> SUFFICES ASSUME NEW n \in 1..N, NEW j \in 1..m - 1, k[n] = B[j], k[n] = B[m] PROVE FALSE
      OBVIOUS
    <3>1. j \in 1..M /\ j < m
      BY <2>5
    <3>2. QED BY <1>1, <2>5, <3>1
  <2> HIDE DEF In, Of
  <2>8. Cardinality(In(m)) = Cardinality(In(m - 1)) + Cardinality(Of(m))
    <3>1. IsFiniteSet(In(m - 1)) /\ IsFiniteSet(Of(m))
      BY <1>3
    <3>2. Cardinality(In(m)) = Cardinality(In(m - 1)) + Cardinality(Of(m)) - Cardinality({})
      BY <2>6, <2>7, <3>1, FS_Union
    <3>3. Cardinality(In(m - 1)) \in Nat /\ Cardinality(Of(m)) \in Nat /\ Cardinality({}) = 0
      BY <3>1, FS_CardinalityType, FS_EmptySet
    <3>4. QED BY <3>2, <3>3
  <2>9. QED BY <2>2, <2>4, <2>5, <2>8
<1>5. h[M] = Cardinality(In(M))
  <2> HIDE DEF In
  <2>1. QED BY <1>4
<1>6. In(M) = 1..N
  BY <1>1
<1>7. QED BY <1>2, <1>5, <1>6

Gathered(cs, h) ==
  h = [n \in 0..Len(cs) |-> IF n = 0 THEN << >>
                            ELSE IF Contains(h[n - 1], Bucket(cs[n])) THEN h[n - 1]
                            ELSE Append(h[n - 1], Bucket(cs[n]))]
Gather(cs) == CHOOSE h : Gathered(cs, h)
Summed(s, h) == h = [n \in 0..Len(s) |-> IF n = 0 THEN 0 ELSE h[n - 1] + s[n].blocks]
SumOf(s) == CHOOSE h : Summed(s, h)

LEMMA CountedIs == \A s : Counted(s) = SumOf(s)[Len(s)]
BY DEF Counted, SumOf, Summed

LEMMA SummaryIs ==
  ASSUME NEW cs
  PROVE  Summary(cs) =
           LET all == Gather(cs)[Len(cs)] IN
           IF Len(cs) > MajorAbove
             THEN << [blocks |-> Len(cs),
                      sections |-> Cardinality({cs[i].section : i \in DOMAIN cs})] >>
             ELSE [i \in DOMAIN all |->
                     [blocks |-> Cardinality({n \in DOMAIN cs : Bucket(cs[n]) = all[i]}), of |-> all[i]]]
BY DEF Summary, Gather, Gathered

LEMMA SumRules ==
  ASSUME NEW s, Len(s) \in Nat, \A n \in 1..Len(s) : s[n].blocks \in Nat
  PROVE  SumOf(s)[0] = 0 /\ \A n \in 1..Len(s) : SumOf(s)[n] = SumOf(s)[n - 1] + s[n].blocks
<1> DEFINE next == [p \in (1..Len(s)) \X Nat |-> p[2] + s[p[1]].blocks]
<1>1. next \in [(1..Len(s)) \X Nat -> Nat] /\ 0 \in Nat
  OBVIOUS
<1>2. PICK h \in [0..Len(s) -> Nat] : h[0] = 0 /\ \A n \in 1..Len(s) : h[n] = StepAt(next, n, h[n - 1])
  <2>1. PICK f, N : f = next /\ N = Len(s)
    OBVIOUS
  <2>2. IsStep(N, Nat, f) /\ N \in Nat /\ 0 \in Nat
    BY <1>1, <2>1 DEF IsStep
  <2>3. \E h \in [0..N -> Nat] : h[0] = 0 /\ \A n \in 1..N : h[n] = StepAt(f, n, h[n - 1])
    <3>1. Goes(N, Nat, 0, f)
      BY <2>2, Iterate, Zenon
    <3>2. QED BY <3>1 DEF Goes
  <2> HIDE DEF next
  <2>4. QED BY <2>1, <2>3
<1>3. \A n \in 1..Len(s) : h[n] = h[n - 1] + s[n].blocks
  <2> TAKE n \in 1..Len(s)
  <2>1. n - 1 \in 0..Len(s)
    OBVIOUS
  <2>2. h[n - 1] \in Nat
    BY <1>2, <2>1
  <2>3. << n, h[n - 1] >> \in (1..Len(s)) \X Nat
    BY <2>2
  <2>4. StepAt(next, n, h[n - 1]) = h[n - 1] + s[n].blocks
    BY <2>3 DEF StepAt
  <2> HIDE DEF next
  <2>5. QED BY <1>2, <2>4
<1>4. Summed(s, h)
  <2>1. h = [n \in 0..Len(s) |-> h[n]]
    OBVIOUS
  <2>2. \A n \in 0..Len(s) : h[n] = IF n = 0 THEN 0 ELSE h[n - 1] + s[n].blocks
    BY <1>2, <1>3
  <2>3. QED BY <2>1, <2>2 DEF Summed
<1>5. Summed(s, SumOf(s))
  BY <1>4 DEF SumOf
<1>6. \A n \in 0..Len(s) : SumOf(s)[n] = IF n = 0 THEN 0 ELSE SumOf(s)[n - 1] + s[n].blocks
  BY <1>5 DEF Summed
<1>7. QED BY <1>6

\* The buckets are those of the changes so far, each one once.
LEMMA GatherFacts ==
  ASSUME NEW X, NEW cs \in Seq(X)
  PROVE  LET all == Gather(cs)[Len(cs)] IN
         /\ Len(all) \in Nat /\ DOMAIN all = 1..Len(all)
         /\ \A i, j \in 1..Len(all) : i < j => all[i] # all[j]
         /\ \A n \in 1..Len(cs) : \E j \in 1..Len(all) : Bucket(cs[n]) = all[j]
<1> DEFINE K == {Bucket(cs[n]) : n \in 1..Len(cs)}
           Once(q) == \A i, j \in 1..Len(q) : i < j => q[i] # q[j]
           Has(q, n) == \A m \in 1..n : \E j \in 1..Len(q) : Bucket(cs[m]) = q[j]
           S == {q \in Seq(K) : Once(q)}
           next == [p \in (1..Len(cs)) \X S |->
                      IF Contains(p[2], Bucket(cs[p[1]])) THEN p[2] ELSE Append(p[2], Bucket(cs[p[1]]))]
<1>1. Len(cs) \in Nat
  OBVIOUS
<1>2. << >> \in S
  OBVIOUS
<1>3. ASSUME NEW q \in S, NEW n \in 1..Len(cs), ~Contains(q, Bucket(cs[n]))
      PROVE  Append(q, Bucket(cs[n])) \in S
  <2>1. PICK c \in K : c = Bucket(cs[n])
    OBVIOUS
  <2>2. q \in Seq(K) /\ Once(q)
    OBVIOUS
  <2>3. \A i \in 1..Len(q) : q[i] # c
    BY <1>3, <2>1 DEF Contains
  <2> HIDE DEF K
  <2>4. /\ Append(q, c) \in Seq(K) /\ Len(Append(q, c)) = Len(q) + 1 /\ Len(q) \in Nat
        /\ Append(q, c)[Len(q) + 1] = c /\ \A i \in 1..Len(q) : Append(q, c)[i] = q[i]
    BY <2>2
  <2>5. Once(Append(q, c))
    BY <2>2, <2>3, <2>4
  <2>6. QED BY <2>1, <2>4, <2>5
<1>4. next \in [(1..Len(cs)) \X S -> S]
  <2> HIDE DEF S
  <2>1. QED BY <1>3
<1>5. PICK h \in [0..Len(cs) -> S] : h[0] = << >> /\ \A n \in 1..Len(cs) : h[n] = StepAt(next, n, h[n - 1])
  <2> HIDE DEF S
  <2>1. PICK f, N, T : f = next /\ N = Len(cs) /\ T = S
    OBVIOUS
  <2>2. IsStep(N, T, f) /\ N \in Nat /\ << >> \in T
    BY <1>1, <1>2, <1>4, <2>1 DEF IsStep
  <2> HIDE DEF next
  <2>3. \E h \in [0..N -> T] : h[0] = << >> /\ \A n \in 1..N : h[n] = StepAt(f, n, h[n - 1])
    <3>1. Goes(N, T, << >>, f)
      BY <2>2, Iterate, Zenon
    <3>2. QED BY <3>1 DEF Goes
  <2>4. QED BY <2>1, <2>3
<1>6. \A n \in 1..Len(cs) : h[n] = IF Contains(h[n - 1], Bucket(cs[n])) THEN h[n - 1]
                                   ELSE Append(h[n - 1], Bucket(cs[n]))
  <2> HIDE DEF S
  <2> TAKE n \in 1..Len(cs)
  <2>1. n - 1 \in 0..Len(cs)
    BY <1>1
  <2>2. h[n - 1] \in S
    BY <1>5, <2>1
  <2>3. << n, h[n - 1] >> \in (1..Len(cs)) \X S
    BY <2>2
  <2>4. StepAt(next, n, h[n - 1]) = IF Contains(h[n - 1], Bucket(cs[n])) THEN h[n - 1]
                               ELSE Append(h[n - 1], Bucket(cs[n]))
    BY <2>3 DEF StepAt
  <2> HIDE DEF next
  <2>5. QED BY <1>5, <2>4
<1>7. Gathered(cs, h)
  <2> HIDE DEF S, next
  <2>1. h = [n \in 0..Len(cs) |-> h[n]]
    OBVIOUS
  <2>2. \A n \in 0..Len(cs) : h[n] = IF n = 0 THEN << >>
                            ELSE IF Contains(h[n - 1], Bucket(cs[n])) THEN h[n - 1]
                            ELSE Append(h[n - 1], Bucket(cs[n]))
    <3> TAKE n \in 0..Len(cs)
    <3>1. CASE n = 0
      BY <1>5, <3>1
    <3>2. CASE n # 0
      <4>1. n \in 1..Len(cs)
        BY <1>1, <3>2
      <4>2. QED BY <1>6, <3>2, <4>1
    <3>3. QED BY <3>1, <3>2
  <2>3. QED BY <2>1, <2>2 DEF Gathered
<1> DEFINE g == Gather(cs)
<1>8. \A n \in 0..Len(cs) : g[n] = IF n = 0 THEN << >>
                            ELSE IF Contains(g[n - 1], Bucket(cs[n])) THEN g[n - 1]
                            ELSE Append(g[n - 1], Bucket(cs[n]))
  <2>1. Gathered(cs, Gather(cs))
    BY <1>7 DEF Gather
  <2> HIDE DEF g
  <2>2. Gathered(cs, g)
    BY <2>1 DEF g
  <2>3. QED BY <2>2 DEF Gathered
<1> DEFINE Bad == {n \in Nat : n <= Len(cs) /\ ~(g[n] \in S /\ Has(g[n], n))}
<1>9. Bad = {}
  <2> SUFFICES ASSUME Bad # {} PROVE FALSE
    OBVIOUS
  <2> HIDE DEF S, Has, g
  <2>1. PICK m \in Bad : \A n \in Bad : m <= n
    <3>1. Bad \in SUBSET Nat
      OBVIOUS
    <3> HIDE DEF Bad
    <3>2. QED BY <3>1, Least
  <2>2. m \in Nat /\ m <= Len(cs) /\ ~(g[m] \in S /\ Has(g[m], m))
    BY <2>1
  <2>3. m # 0
    <3>1. g[0] = << >>
      BY <1>1, <1>8
    <3>2. Has(<< >>, 0)
      BY DEF Has
    <3>3. QED BY <1>2, <2>2, <3>1, <3>2
  <2>4. g[m - 1] \in S /\ Has(g[m - 1], m - 1) /\ m \in 1..Len(cs)
    <3>1. m - 1 \in Nat /\ m - 1 <= Len(cs) /\ m - 1 \notin Bad
      BY <1>1, <2>1, <2>2, <2>3
    <3>2. QED BY <1>1, <2>2, <2>3, <3>1
  <2>5. g[m] = IF Contains(g[m - 1], Bucket(cs[m])) THEN g[m - 1] ELSE Append(g[m - 1], Bucket(cs[m]))
    BY <1>8, <2>3, <2>4
  <2>6. g[m] \in S
    BY <1>3, <2>4, <2>5
  <2>7. Has(g[m], m)
    <3> SUFFICES ASSUME NEW i \in 1..m PROVE \E j \in 1..Len(g[m]) : Bucket(cs[i]) = g[m][j]
      BY DEF Has
    <3> DEFINE q == g[m - 1]
               c == Bucket(cs[m])
    <3>1. q \in Seq(K) /\ Len(q) \in Nat
      BY <2>4 DEF S
    <3>2. i # m => \E j \in 1..Len(q) : Bucket(cs[i]) = q[j]
      <4>1. i # m => i \in 1..m - 1
        BY <2>2
      <4>2. QED BY <2>4, <4>1 DEF Has
    <3>3. CASE Contains(q, c)
      <4>1. \E j \in 1..Len(q) : c = q[j]
        BY <3>3 DEF Contains
      <4>2. g[m] = q
        BY <2>5, <3>3
      <4> HIDE DEF q
      <4>3. QED BY <3>2, <4>1, <4>2
    <3>4. CASE ~Contains(q, c)
      <4>1. g[m] = Append(q, c)
        BY <2>5, <3>4
      <4>2. c \in K
        BY <2>4
      <4> HIDE DEF q, c, K
      <4>3. /\ Len(Append(q, c)) = Len(q) + 1 /\ Append(q, c)[Len(q) + 1] = c
            /\ \A j \in 1..Len(q) : Append(q, c)[j] = q[j]
        BY <3>1, <4>2
      <4>4. i = m => Append(q, c)[Len(q) + 1] = Bucket(cs[i])
        BY <4>3 DEF c
      <4>5. Len(q) + 1 \in 1..Len(Append(q, c)) /\ \A j \in 1..Len(q) : j \in 1..Len(Append(q, c))
        BY <3>1, <4>3
      <4>6. QED BY <3>2, <4>1, <4>3, <4>4, <4>5
    <3>5. QED BY <3>3, <3>4
  <2>8. QED BY <2>2, <2>6, <2>7
<1>10. g[Len(cs)] \in S /\ Has(g[Len(cs)], Len(cs))
  <2> HIDE DEF S, Has, g
  <2>1. QED BY <1>1, <1>9
<1>11. PICK q : q = Gather(cs)[Len(cs)]
  OBVIOUS
<1>12. q \in Seq(K) /\ Once(q) /\ Has(q, Len(cs))
  <2> HIDE DEF Has, Once, K
  <2>1. QED BY <1>10, <1>11
<1> HIDE DEF g
<1>13. Len(q) \in Nat /\ DOMAIN q = 1..Len(q)
  <2> HIDE DEF K, Once, Has
  <2>1. QED BY <1>12
<1>14. QED
  <2> HIDE DEF K
  <2>1. QED BY <1>11, <1>12, <1>13

\* A summary counts every change once.
LEMMA SummaryCounts ==
  ASSUME NEW X, NEW cs \in Seq(X)
  PROVE  Len(cs) = Counted(Summary(cs))
<1> DEFINE all == Gather(cs)[Len(cs)]
           s == Summary(cs)
<1>1. Len(cs) \in Nat /\ DOMAIN cs = 1..Len(cs)
  OBVIOUS
<1>2. CASE Len(cs) > MajorAbove
  <2>1. PICK n : n = Cardinality({cs[i].section : i \in DOMAIN cs})
    OBVIOUS
  <2>2. s = << [blocks |-> Len(cs), sections |-> n] >>
    BY <1>2, <2>1, SummaryIs
  <2> HIDE DEF s
  <2>3. Len(s) = 1 /\ s[1].blocks = Len(cs)
    BY <2>2
  <2>4. SumOf(s)[0] = 0 /\ SumOf(s)[1] = SumOf(s)[1 - 1] + s[1].blocks
    <3>1. Len(s) \in Nat /\ \A m \in 1..Len(s) : s[m].blocks \in Nat
      BY <1>1, <2>3
    <3>2. 1 \in 1..Len(s)
      BY <2>3
    <3>3. QED BY <3>1, <3>2, SumRules
  <2>5. SumOf(s)[1] = Len(cs)
    BY <1>1, <2>3, <2>4
  <2>6. QED BY <2>3, <2>5, CountedIs DEF s
<1>3. CASE ~(Len(cs) > MajorAbove)
  <2>1. /\ Len(all) \in Nat /\ DOMAIN all = 1..Len(all)
        /\ \A i, j \in 1..Len(all) : i < j => all[i] # all[j]
        /\ \A n \in 1..Len(cs) : \E j \in 1..Len(all) : Bucket(cs[n]) = all[j]
    BY GatherFacts
  <2> HIDE DEF all
  <2>2. s = [i \in DOMAIN all |-> [blocks |-> Cardinality({n \in DOMAIN cs : Bucket(cs[n]) = all[i]}),
                                   of |-> all[i]]]
    BY <1>3, SummaryIs DEF all
  <2> HIDE DEF s
  <2>3. /\ Len(s) = Len(all)
        /\ \A i \in 1..Len(all) : s[i].blocks = Cardinality({n \in 1..Len(cs) : Bucket(cs[n]) = all[i]})
    <3>1. PICK M \in Nat : M = Len(all)
      BY <2>1
    <3> DEFINE val(i) == [blocks |-> Cardinality({n \in DOMAIN cs : Bucket(cs[n]) = all[i]}), of |-> all[i]]
    <3>2. \A i : val(i).blocks = Cardinality({n \in 1..Len(cs) : Bucket(cs[n]) = all[i]})
      BY <1>1
    <3>3. s = [i \in 1..M |-> val(i)]
      BY <2>1, <2>2, <3>1
    <3> HIDE DEF val
    <3>4. s \in [1..M -> {val(i) : i \in 1..M}]
      BY <3>3
    <3>5. Len(s) = M /\ \A i \in 1..M : s[i] = val(i)
      BY <3>3, <3>4
    <3>6. QED BY <3>1, <3>2, <3>5
  <2> DEFINE k == [n \in 1..Len(cs) |-> Bucket(cs[n])]
  <2>4. \A i \in 1..Len(all) : {n \in 1..Len(cs) : Bucket(cs[n]) = all[i]} = {n \in 1..Len(cs) : k[n] = all[i]}
    OBVIOUS
  <2>5. \A n \in 1..Len(cs) : \E j \in 1..Len(all) : k[n] = all[j]
    BY <2>1
  <2> HIDE DEF k
  <2>6. \A i \in 1..Len(all) : s[i].blocks = Cardinality({n \in 1..Len(cs) : k[n] = all[i]})
    BY <2>3, <2>4
  <2>7. \A i \in 1..Len(all) : s[i].blocks \in Nat
    <3>1. IsFiniteSet(1..Len(cs))
      BY <1>1, FS_Interval
    <3>2. \A i \in 1..Len(all) : IsFiniteSet({n \in 1..Len(cs) : k[n] = all[i]})
      BY <3>1, FS_Subset
    <3>3. QED BY <2>6, <3>2, FS_CardinalityType
  <2>8. SumOf(s)[0] = 0 /\ \A j \in 1..Len(all) : SumOf(s)[j] = SumOf(s)[j - 1] + s[j].blocks
    BY <2>1, <2>3, <2>7, SumRules
  <2>9. PICK h : h = SumOf(s)
    OBVIOUS
  <2>10. h[0] = 0 /\ \A j \in 1..Len(all) : h[j] = h[j - 1] + Cardinality({n \in 1..Len(cs) : k[n] = all[j]})
    BY <2>6, <2>8, <2>9
  <2>11. h[Len(all)] = Len(cs)
    <3>1. PICK N, M : N = Len(cs) /\ M = Len(all)
      OBVIOUS
    <3>2. N \in Nat /\ M \in Nat /\ Counts(N, k, M, all, h)
      BY <1>1, <2>1, <2>5, <2>10, <3>1 DEF Counts
    <3>3. h[M] = N
      BY <3>2, AllCounted, Zenon
    <3>4. QED BY <3>1, <3>3
  <2>12. QED BY <2>3, <2>9, <2>11, CountedIs DEF s
<1>4. QED BY <1>2, <1>3

-----------------------------------------------------------------------------
(* What is told of a script is all of it.                                   *)

Folds(i) == i < Len(ops) /\ ~ops[i + 1].del /\ Folded(oldBlocks[ops[i].i], newBlocks[ops[i + 1].i])
\* What is told of the edit at i, and from which edit on the rest is told.
TellsOf(i) ==
  IF ops[i].del
    THEN IF Folds(i) THEN << Change("modified", oldBlocks[ops[i].i], oldBlocks[ops[i].i].raw,
                                    newBlocks[ops[i + 1].i].raw) >>
         ELSE Gone(oldBlocks[ops[i].i])
    ELSE IF ExistsIn(newBlocks[ops[i].i], oldBlocks) THEN << >> ELSE << Added(newBlocks[ops[i].i]) >>
NextTold(i) == IF ops[i].del /\ Folds(i) THEN i + 2 ELSE i + 1
ToldStep(h, i) == IF i > Len(ops) THEN << >> ELSE TellsOf(i) \o h[NextTold(i)]
IsTold(h) == h = [i \in 1..Len(ops) + 2 |-> ToldStep(h, i)]
AllTold == CHOOSE h : IsTold(h)

LEMMA OpsToChangesAre == OpsToChanges = AllTold[1]
<1> DEFINE body(h, i) ==
            IF i > Len(ops) THEN << >>
            ELSE IF ops[i].del
              THEN LET b == oldBlocks[ops[i].i] IN
                   IF i < Len(ops) /\ ~ops[i + 1].del /\ Folded(b, newBlocks[ops[i + 1].i])
                     THEN << Change("modified", b, b.raw, newBlocks[ops[i + 1].i].raw) >>
                          \o h[i + 2]
                     ELSE Gone(b) \o h[i + 1]
              ELSE LET c == newBlocks[ops[i].i] IN
                   (IF ExistsIn(c, oldBlocks) THEN << >> ELSE << Added(c) >>) \o h[i + 1]
<1>1. \A h, i : body(h, i) = ToldStep(h, i)
  <2> SUFFICES ASSUME NEW h, NEW i PROVE body(h, i) = ToldStep(h, i)
    OBVIOUS
  <2>1. CASE i > Len(ops)
    BY <2>1 DEF ToldStep
  <2>2. CASE ~(i > Len(ops)) /\ ops[i].del /\ Folds(i)
    <3>1. NextTold(i) = i + 2 /\ TellsOf(i) = << Change("modified", oldBlocks[ops[i].i], oldBlocks[ops[i].i].raw,
                                    newBlocks[ops[i + 1].i].raw) >>
      BY <2>2, SMTT(30) DEF NextTold, TellsOf
    <3>2. QED BY <2>2, <3>1 DEF ToldStep, Folds
  <2>3. CASE ~(i > Len(ops)) /\ ops[i].del /\ ~Folds(i)
    <3>1. NextTold(i) = i + 1 /\ TellsOf(i) = Gone(oldBlocks[ops[i].i])
      BY <2>3 DEF NextTold, TellsOf
    <3>2. QED BY <2>3, <3>1 DEF ToldStep, Folds
  <2>4. CASE ~(i > Len(ops)) /\ ~ops[i].del
    <3>1. NextTold(i) = i + 1
          /\ TellsOf(i) = IF ExistsIn(newBlocks[ops[i].i], oldBlocks) THEN << >>
                          ELSE << Added(newBlocks[ops[i].i]) >>
      BY <2>4 DEF NextTold, TellsOf
    <3>2. QED BY <2>4, <3>1 DEF ToldStep
  <2>5. QED BY <2>1, <2>2, <2>3, <2>4
<1>2. OpsToChanges = (CHOOSE h : h = [i \in 1..Len(ops) + 2 |-> body(h, i)])[1]
  BY DEF OpsToChanges
<1> HIDE DEF body
<1>3. \A h : (h = [i \in 1..Len(ops) + 2 |-> body(h, i)]) <=> IsTold(h)
  BY <1>1 DEF IsTold
<1>4. (CHOOSE h : h = [i \in 1..Len(ops) + 2 |-> body(h, i)]) = CHOOSE h : IsTold(h)
  BY <1>3
<1>5. QED BY <1>2, <1>4 DEF AllTold

LEMMA AllToldExists ==
  ASSUME Len(ops) \in Nat
  PROVE  IsTold(AllTold)
<1> DEFINE P == 1..Len(ops) + 2
           From(m, h) == /\ h = [i \in P |-> h[i]]
                         /\ \A i \in P : i + m > Len(ops) + 2 => h[i] = ToldStep(h, i)
           Not == {m \in Nat : ~\E h : From(m, h)}
<1>1. Not = {}
  <2> SUFFICES ASSUME Not # {} PROVE FALSE
    OBVIOUS
  <2>1. PICK m \in Not : \A n \in Not : m <= n
    <3> HIDE DEF From
    <3>1. QED BY Least
  <2>2. From(0, [i \in P |-> 0])
    OBVIOUS
  <2>3. m \in Nat /\ m # 0 /\ m - 1 \in Nat /\ m - 1 \notin Not
    <3> HIDE DEF From
    <3>1. QED BY <2>1, <2>2
  <2>4. PICK h : From(m - 1, h)
    <3> HIDE DEF From
    <3>1. QED BY <2>3
  <2> DEFINE Now(i) == i + m = Len(ops) + 3
             g == [i \in P |-> IF Now(i) THEN ToldStep(h, i) ELSE h[i]]
  <2>5. \A i \in P : i + m > Len(ops) + 2 => g[i] = ToldStep(g, i)
    <3> SUFFICES ASSUME NEW i \in P, i + m > Len(ops) + 2 PROVE g[i] = ToldStep(g, i)
      OBVIOUS
    <3>1. g[i] = ToldStep(h, i)
      <4>1. CASE Now(i)
        BY <4>1
      <4>2. CASE ~Now(i)
        <5>1. i + (m - 1) > Len(ops) + 2
          BY <2>3, <4>2
        <5>2. QED BY <2>4, <4>2, <5>1
      <4>3. QED BY <4>1, <4>2
    <3>2. CASE i > Len(ops)
      BY <3>1, <3>2 DEF ToldStep
    <3>3. CASE ~(i > Len(ops))
      <4>1. NextTold(i) \in P /\ NextTold(i) > i
        BY <3>3 DEF NextTold
      <4>2. ~Now(NextTold(i))
        BY <2>3, <4>1
      <4>3. g[NextTold(i)] = h[NextTold(i)]
        BY <4>1, <4>2
      <4>4. QED BY <3>1, <3>3, <4>3 DEF ToldStep
    <3>4. QED BY <3>2, <3>3
  <2>6. From(m, g)
    BY <2>5
  <2>7. QED
    <3> HIDE DEF From
    <3>1. QED BY <2>1, <2>6
<1>2. PICK h : From(Len(ops) + 2, h)
  <2>1. Len(ops) + 2 \in Nat
    OBVIOUS
  <2> HIDE DEF From
  <2>2. QED BY <1>1, <2>1
<1>3. \A i \in P : h[i] = ToldStep(h, i)
  BY <1>2
<1>4. h = [i \in P |-> h[i]]
  BY <1>2
<1>5. IsTold(h)
  BY <1>3, <1>4 DEF IsTold
<1>6. QED BY <1>5 DEF AllTold

Types == {"added", "removed", "modified", "moved"}
ChangeSet == [type : Types, kind : Kinds, section : {NoSection} \cup STRING,
              was : Seq(BlockLines), is : Seq(BlockLines)]

\* A text that came or went with the edit at j is in q.
Covered(q, j) ==
  /\ ops[j].del /\ ~ExistsIn(oldBlocks[ops[j].i], newBlocks)
       => \E m \in 1..Len(q) : q[m].was = oldBlocks[ops[j].i].raw
  /\ ~ops[j].del /\ ~ExistsIn(newBlocks[ops[j].i], oldBlocks)
       => \E m \in 1..Len(q) : q[m].is = newBlocks[ops[j].i].raw

LEMMA CoveredTogether ==
  ASSUME NEW s \in Seq(ChangeSet), NEW q \in Seq(ChangeSet), NEW j, Covered(s, j) \/ Covered(q, j)
  PROVE  Covered(s \o q, j)
<1> DEFINE w == s \o q
<1>1. /\ Len(w) = Len(s) + Len(q) /\ Len(s) \in Nat /\ Len(q) \in Nat
      /\ \A m \in 1..Len(s) : w[m] = s[m]
      /\ \A m \in 1..Len(q) : w[Len(s) + m] = q[m]
  OBVIOUS
<1> HIDE DEF w
<1>2. /\ \A m \in 1..Len(s) : m \in 1..Len(w)
      /\ \A m \in 1..Len(q) : Len(s) + m \in 1..Len(w)
  BY <1>1
<1>3. Covered(w, j)
  <2>1. CASE Covered(s, j)
    BY <1>1, <1>2, <2>1 DEF Covered
  <2>2. CASE Covered(q, j)
    BY <1>1, <1>2, <2>2, ZenonT(40) DEF Covered
  <2>3. QED BY <2>1, <2>2
<1>4. QED BY <1>3 DEF w

LEMMA ChangeIs ==
  ASSUME NEW c \in Blocks, NEW t \in Types, NEW was \in Seq(BlockLines), NEW is \in Seq(BlockLines)
  PROVE  /\ Change(t, c, was, is) \in ChangeSet
         /\ Change(t, c, was, is).was = was /\ Change(t, c, was, is).is = is
BY DEF Change, ChangeSet, Blocks

LEMMA ChangesAre ==
  ASSUME NEW c \in Blocks
  PROVE  /\ Added(c) \in ChangeSet /\ Added(c).is = c.raw
         /\ Removed(c) \in ChangeSet /\ Removed(c).was = c.raw
         /\ c.raw \in Seq(BlockLines)
<1>1. c.raw \in Seq(BlockLines)
  BY DEF Blocks
<1>2. PICK t, u, e : t = "added" /\ u = "removed" /\ e = << >>
  OBVIOUS
<1>3. t \in Types /\ u \in Types
  BY <1>2 DEF Types
<1>4. e \in Seq(BlockLines)
  BY <1>2
<1>5. Added(c) = Change(t, c, e, c.raw) /\ Removed(c) = Change(u, c, c.raw, e)
  BY <1>2, Zenon DEF Added, Removed
<1>6. Change(t, c, e, c.raw) \in ChangeSet /\ Change(t, c, e, c.raw).is = c.raw
  BY <1>1, <1>3, <1>4, ChangeIs
<1>7. Change(u, c, c.raw, e) \in ChangeSet /\ Change(u, c, c.raw, e).was = c.raw
  BY <1>1, <1>3, <1>4, ChangeIs
<1>8. QED BY <1>1, <1>5, <1>6, <1>7

Ranged ==
  /\ oldBlocks \in Seq(Blocks) /\ newBlocks \in Seq(Blocks)
  /\ ops \in Seq(Edits(oldBlocks, newBlocks))
  /\ \A i \in 1..Len(ops) : IF ops[i].del THEN ops[i].i \in 1..Len(oldBlocks) ELSE ops[i].i \in 1..Len(newBlocks)

\* What is told of an edit covers it, and the one after it that is folded into it.
LEMMA TellsCovers ==
  ASSUME Ranged, NEW i \in 1..Len(ops)
  PROVE  /\ TellsOf(i) \in Seq(ChangeSet) /\ Covered(TellsOf(i), i)
         /\ ops[i].del /\ Folds(i) => Covered(TellsOf(i), i + 1)
<1>1. Len(ops) \in Nat
  BY DEF Ranged
<1>2. CASE ops[i].del /\ Folds(i)
  <2> DEFINE c == oldBlocks[ops[i].i]
             e == newBlocks[ops[i + 1].i]
             x == Change("modified", c, c.raw, e.raw)
  <2>1. i + 1 \in 1..Len(ops) /\ ~ops[i + 1].del
    BY <1>1, <1>2 DEF Folds
  <2>2. c \in Blocks /\ e \in Blocks
    BY <1>2, <2>1 DEF Ranged
  <2>3. c.raw \in Seq(BlockLines) /\ e.raw \in Seq(BlockLines)
    BY <2>2 DEF Blocks
  <2>4. x \in ChangeSet /\ x.was = c.raw /\ x.is = e.raw
    <3>1. PICK t : t = "modified"
      OBVIOUS
    <3>2. t \in Types
      BY <3>1 DEF Types
    <3>3. /\ Change(t, c, c.raw, e.raw) \in ChangeSet /\ Change(t, c, c.raw, e.raw).was = c.raw
          /\ Change(t, c, c.raw, e.raw).is = e.raw
      BY <2>2, <2>3, <3>2, ChangeIs
    <3>4. QED BY <3>1, <3>3
  <2>5. TellsOf(i) = << x >>
    BY <1>2 DEF TellsOf
  <2> HIDE DEF x
  <2>6. << x >> \in Seq(ChangeSet) /\ Len(<< x >>) = 1 /\ << x >>[1] = x /\ 1 \in 1..Len(<< x >>)
    BY <2>4
  <2>7. Covered(<< x >>, i)
    BY <1>2, <2>4, <2>6 DEF Covered
  <2>8. Covered(<< x >>, i + 1)
    BY <2>1, <2>4, <2>6 DEF Covered
  <2>9. QED BY <2>5, <2>6, <2>7, <2>8
<1>3. CASE ops[i].del /\ ~Folds(i)
  <2> DEFINE c == oldBlocks[ops[i].i]
  <2>1. c \in Blocks /\ c.raw \in Seq(BlockLines)
    <3>1. c \in Blocks
      BY <1>3 DEF Ranged
    <3>2. QED BY <3>1 DEF Blocks
  <2>2. TellsOf(i) = Gone(c)
    BY <1>3 DEF TellsOf
  <2>3. CASE ExistsIn(c, newBlocks)
    <3> DEFINE x == Change("moved", c, c.raw, c.raw)
    <3>1. x \in ChangeSet
      <4>1. PICK t : t = "moved"
        OBVIOUS
      <4>2. t \in Types
        BY <4>1 DEF Types
      <4>3. Change(t, c, c.raw, c.raw) \in ChangeSet
        BY <2>1, <4>2, ChangeIs
      <4>4. QED BY <4>1, <4>3
    <3>2. TellsOf(i) = << x >>
      BY <2>2, <2>3 DEF Gone
    <3> HIDE DEF x
    <3>3. TellsOf(i) \in Seq(ChangeSet)
      BY <3>1, <3>2
    <3>4. Covered(TellsOf(i), i)
      BY <1>3, <2>3 DEF Covered
    <3>5. QED BY <1>3, <3>3, <3>4
  <2>4. CASE ~ExistsIn(c, newBlocks)
    <3> DEFINE x == Removed(c)
    <3>1. x \in ChangeSet /\ x.was = c.raw
      BY <2>1, ChangesAre
    <3>2. TellsOf(i) = << x >>
      BY <2>2, <2>4 DEF Gone
    <3> HIDE DEF x
    <3>3. << x >> \in Seq(ChangeSet) /\ Len(<< x >>) = 1 /\ << x >>[1] = x /\ 1 \in 1..Len(<< x >>)
      BY <3>1
    <3>4. Covered(<< x >>, i)
      BY <1>3, <3>1, <3>3 DEF Covered
    <3>5. QED BY <1>3, <3>2, <3>3, <3>4
  <2>5. QED BY <2>3, <2>4
<1>4. CASE ~ops[i].del
  <2> DEFINE c == newBlocks[ops[i].i]
  <2>1. c \in Blocks
    BY <1>4 DEF Ranged
  <2>2. CASE ExistsIn(c, oldBlocks)
    <3>1. TellsOf(i) = << >>
      BY <1>4, <2>2 DEF TellsOf
    <3>2. Covered(TellsOf(i), i)
      BY <1>4, <2>2 DEF Covered
    <3>3. QED BY <1>4, <3>1, <3>2
  <2>3. CASE ~ExistsIn(c, oldBlocks)
    <3> DEFINE x == Added(c)
    <3>1. x \in ChangeSet /\ x.is = c.raw
      BY <2>1, ChangesAre
    <3>2. TellsOf(i) = << x >>
      BY <1>4, <2>3 DEF TellsOf
    <3> HIDE DEF x
    <3>3. << x >> \in Seq(ChangeSet) /\ Len(<< x >>) = 1 /\ << x >>[1] = x /\ 1 \in 1..Len(<< x >>)
      BY <3>1
    <3>4. Covered(<< x >>, i)
      BY <1>4, <3>1, <3>3 DEF Covered
    <3>5. QED BY <1>4, <3>2, <3>3, <3>4
  <2>4. QED BY <2>2, <2>3
<1>5. QED BY <1>2, <1>3, <1>4

LEMMA ToldCovers ==
  ASSUME Ranged
  PROVE  OpsToChanges \in Seq(ChangeSet) /\ \A j \in 1..Len(ops) : Covered(OpsToChanges, j)
<1> DEFINE h == AllTold
           P == 1..Len(ops) + 2
           Good(i) == h[i] \in Seq(ChangeSet) /\ \A j \in i..Len(ops) : Covered(h[i], j)
           Bad == {m \in Nat : \E i \in P : i + m = Len(ops) + 2 /\ ~Good(i)}
<1>1. Len(ops) \in Nat
  BY DEF Ranged
<1>2. \A i \in P : h[i] = ToldStep(h, i)
  <2>1. IsTold(h)
    BY <1>1, AllToldExists
  <2> HIDE DEF h
  <2>2. QED BY <2>1 DEF IsTold
<1> HIDE DEF h
<1>3. Bad = {}
  <2> SUFFICES ASSUME Bad # {} PROVE FALSE
    OBVIOUS
  <2> HIDE DEF Good
  <2>1. PICK m \in Bad : \A n \in Bad : m <= n
    <3>1. Bad \in SUBSET Nat
      OBVIOUS
    <3> HIDE DEF Bad
    <3>2. QED BY <3>1, Least
  <2>2. PICK i \in P : i + m = Len(ops) + 2 /\ ~Good(i)
    BY <2>1
  <2>3. \A k \in P : k > i => Good(k)
    <3> SUFFICES ASSUME NEW k \in P, k > i, ~Good(k) PROVE FALSE
      OBVIOUS
    <3>1. Len(ops) + 2 - k \in Bad /\ m \in Nat
      BY <1>1, <2>1
    <3>2. m <= Len(ops) + 2 - k
      BY <2>1, <3>1
    <3>3. QED BY <1>1, <2>2, <3>1, <3>2
  <2>4. CASE i > Len(ops)
    <3>1. h[i] = << >>
      BY <1>2, <2>4 DEF ToldStep
    <3>2. Good(i)
      BY <1>1, <2>4, <3>1 DEF Good
    <3>3. QED BY <2>2, <3>2
  <2>5. CASE ~(i > Len(ops))
    <3> DEFINE k == NextTold(i)
               s == TellsOf(i)
    <3>1. i \in 1..Len(ops)
      BY <1>1, <2>5
    <3>2. k \in P /\ k > i /\ (k = i + 1 \/ (k = i + 2 /\ ops[i].del /\ Folds(i)))
      BY <1>1, <3>1 DEF NextTold
    <3>3. h[i] = s \o h[k]
      BY <1>2, <2>5 DEF ToldStep
    <3>4. /\ s \in Seq(ChangeSet) /\ Covered(s, i)
          /\ ops[i].del /\ Folds(i) => Covered(s, i + 1)
      BY <3>1, TellsCovers
    <3> HIDE DEF k, s
    <3>5. h[k] \in Seq(ChangeSet) /\ \A j \in k..Len(ops) : Covered(h[k], j)
      BY <2>3, <3>2 DEF Good
    <3>6. h[i] \in Seq(ChangeSet)
      BY <3>3, <3>4, <3>5
    <3>7. ASSUME NEW j \in i..Len(ops) PROVE Covered(h[i], j)
      <4>1. j = i \/ (j = i + 1 /\ k = i + 2 /\ ops[i].del /\ Folds(i)) \/ j \in k..Len(ops)
        BY <1>1, <3>1, <3>2
      <4>2. Covered(s, j) \/ Covered(h[k], j)
        BY <3>4, <3>5, <4>1
      <4>3. QED BY <3>3, <3>4, <3>5, <4>2, CoveredTogether
    <3>8. Good(i)
      BY <3>6, <3>7 DEF Good
    <3>9. QED BY <2>2, <3>8
  <2>6. QED BY <2>4, <2>5
<1>4. Good(1)
  <2> HIDE DEF Good
  <2>1. Len(ops) + 1 \in Nat /\ 1 \in P /\ 1 + (Len(ops) + 1) = Len(ops) + 2
    BY <1>1
  <2>2. QED BY <1>3, <2>1
<1>5. QED BY <1>4, OpsToChangesAre DEF h

\* A reader of the history misses nothing.
LEMMA DiffInvIsComplete == DiffInv => ReportIsComplete
<1> SUFFICES ASSUME DiffInv, diffPhase = "done"
             PROVE  /\ \A i \in DOMAIN newBlocks : ~ExistsIn(newBlocks[i], oldBlocks) =>
                         \E j \in DOMAIN Changes : Changes[j].is = newBlocks[i].raw
                    /\ \A i \in DOMAIN oldBlocks : ~ExistsIn(oldBlocks[i], newBlocks) =>
                         \E j \in DOMAIN Changes : Changes[j].was = oldBlocks[i].raw
                    /\ Len(Changes) = Counted(Summary(Changes))
                    /\ \A i \in DOMAIN versions : SplitKeepsLines(versions[i])
  BY DEF ReportIsComplete
<1> DEFINE a == oldBlocks
           b == newBlocks
<1>1. /\ a \in Seq(Blocks) /\ b \in Seq(Blocks) /\ versions \in Docs \X Docs
      /\ Told(a, b, at[1], at[2], ops)
  BY DEF DiffInv
<1>2. \A i \in DOMAIN versions : SplitKeepsLines(versions[i])
  <2>1. PICK v \in Docs, w \in Docs : versions = << v, w >>
    BY <1>1
  <2>2. \A i \in DOMAIN versions : versions[i] \in Docs
    BY <2>1
  <2>3. QED BY <2>2, LinesKept
<1>3. CASE a = << >>
  <2> DEFINE cs == [i \in DOMAIN b |-> Added(b[i])]
  <2>1. Changes = cs
    BY <1>3 DEF Changes
  <2>2. DOMAIN b = 1..Len(b) /\ Len(b) \in Nat /\ \A i \in 1..Len(b) : b[i] \in Blocks
    BY <1>1
  <2>3. cs \in Seq(ChangeSet) /\ DOMAIN cs = DOMAIN b /\ \A i \in DOMAIN b : cs[i].is = b[i].raw
    <3>1. \A i \in 1..Len(b) : Added(b[i]) \in ChangeSet /\ Added(b[i]).is = b[i].raw
      BY <2>2, ChangesAre
    <3>2. cs \in [1..Len(b) -> ChangeSet]
      BY <2>2, <3>1
    <3>3. cs \in Seq(ChangeSet)
      BY <2>2, <3>2
    <3>4. QED BY <2>2, <3>1, <3>3
  <2> HIDE DEF cs
  <2>4. DOMAIN a = {}
    BY <1>3
  <2>5. Len(cs) = Counted(Summary(cs))
    BY <2>3, SummaryCounts
  <2>6. QED BY <1>2, <2>1, <2>3, <2>4, <2>5
<1>4. CASE a # << >> /\ b = << >>
  <2> DEFINE cs == [i \in DOMAIN a |-> Removed(a[i])]
  <2>1. Changes = cs
    BY <1>4 DEF Changes
  <2>2. DOMAIN a = 1..Len(a) /\ Len(a) \in Nat /\ \A i \in 1..Len(a) : a[i] \in Blocks
    BY <1>1
  <2>3. cs \in Seq(ChangeSet) /\ DOMAIN cs = DOMAIN a /\ \A i \in DOMAIN a : cs[i].was = a[i].raw
    <3>1. \A i \in 1..Len(a) : Removed(a[i]) \in ChangeSet /\ Removed(a[i]).was = a[i].raw
      BY <2>2, ChangesAre
    <3>2. cs \in [1..Len(a) -> ChangeSet]
      BY <2>2, <3>1
    <3>3. cs \in Seq(ChangeSet)
      BY <2>2, <3>2
    <3>4. QED BY <2>2, <3>1, <3>3
  <2> HIDE DEF cs
  <2>4. DOMAIN b = {}
    BY <1>4
  <2>5. Len(cs) = Counted(Summary(cs))
    BY <2>3, SummaryCounts
  <2>6. QED BY <1>2, <2>1, <2>3, <2>4, <2>5
<1>5. CASE a # << >> /\ b # << >>
  <2>1. ops \in Seq(Edits(a, b)) /\ Aligned(a, b, 0, 0, ops)
    BY <1>1, <1>5 DEF Told
  <2>2. After(a, b, 0, 0, ops)
    BY <2>1 DEF Aligned
  <2>3. Ranged
    BY <1>1, <2>1, <2>2 DEF Ranged, After
  <2>4. PICK cs : cs = OpsToChanges
    OBVIOUS
  <2>5. Changes = cs
    BY <1>5, <2>4 DEF Changes
  <2>6. cs \in Seq(ChangeSet) /\ (\A j \in 1..Len(ops) : Covered(cs, j)) /\ DOMAIN cs = 1..Len(cs)
    BY <2>3, <2>4, ToldCovers
  <2>7. Len(cs) = Counted(Summary(cs))
    BY <2>6, SummaryCounts
  <2>8. PICK f : Pairs(a, b, 0, 0, ops, f)
    BY <2>1 DEF Aligned
  <2>9. DOMAIN a = 1..Len(a) /\ DOMAIN b = 1..Len(b) /\ DOMAIN ops = 1..Len(ops)
    BY <1>1, <2>1
  <2>10. ASSUME NEW i \in 1..Len(b), ~ExistsIn(b[i], a)
         PROVE  \E j \in DOMAIN cs : cs[j].is = b[i].raw
    <3>1. i \notin Left(ops, FALSE, 0, Len(b))
      <4> SUFFICES ASSUME i \in Left(ops, FALSE, 0, Len(b)) PROVE FALSE
        OBVIOUS
      <4>1. PICK l \in Left(ops, TRUE, 0, Len(a)) : f[l] = i
        BY <2>8 DEF Pairs
      <4>2. a[l].raw = b[i].raw /\ l \in 1..Len(a)
        BY <2>8, <4>1 DEF Pairs, Left
      <4>3. QED BY <2>10, <4>2 DEF ExistsIn
    <3>2. PICK j \in 1..Len(ops) : ops[j].del = FALSE /\ ops[j].i = i
      BY <2>9, <3>1 DEF Left
    <3>3. QED BY <2>6, <2>10, <3>2 DEF Covered
  <2>11. ASSUME NEW i \in 1..Len(a), ~ExistsIn(a[i], b)
         PROVE  \E j \in DOMAIN cs : cs[j].was = a[i].raw
    <3>1. i \notin Left(ops, TRUE, 0, Len(a))
      <4> SUFFICES ASSUME i \in Left(ops, TRUE, 0, Len(a)) PROVE FALSE
        OBVIOUS
      <4>1. f[i] \in Left(ops, FALSE, 0, Len(b)) /\ a[i].raw = b[f[i]].raw
        BY <2>8 DEF Pairs
      <4>2. f[i] \in 1..Len(b)
        BY <4>1 DEF Left
      <4>3. QED BY <2>11, <4>1, <4>2 DEF ExistsIn
    <3>2. PICK j \in 1..Len(ops) : ops[j].del = TRUE /\ ops[j].i = i
      BY <2>9, <3>1 DEF Left
    <3>3. QED BY <2>6, <2>11, <3>2 DEF Covered
  <2>12. QED BY <1>2, <2>5, <2>7, <2>9, <2>10, <2>11
<1>6. QED BY <1>3, <1>4, <1>5

THEOREM CompleteReport == DiffSpec => []ReportIsComplete
<1>1. QED BY DiffInductive, DiffInvIsComplete, PTL

-----------------------------------------------------------------------------
(***************************************************************************)
(* The preview of code, for every size of file, cap and anchor: what is    *)
(* shown is the lines that were asked for.                                 *)
(***************************************************************************)

PreviewSpec == PreviewInit /\ [][PreviewNext]_previewVars

\* What the lines of a file are read from: where each of them begins, in the first i
\* bytes of it.
Starts(f, i, ls, c) ==
  /\ ls \in Seq(Seq(Bytes)) /\ Len(ls) >= 1
  /\ c \in [1..Len(ls) -> 1..i + 1] /\ c[1] = 1
  /\ \A j, k \in 1..Len(ls) : j < k => c[j] < c[k]
  /\ \A k \in 2..Len(ls) : f[c[k] - 1] = "lf"
  /\ \A x \in 2..i + 1 : f[x - 1] = "lf" => \E k \in 1..Len(ls) : c[k] = x
Lined(f, i, ls, c) ==
  /\ ls[Len(ls)] = SubSeq(f, c[Len(ls)], i)
  /\ \A k \in 1..Len(ls) - 1 : ls[k] = WithoutCR(SubSeq(f, c[k], c[k + 1] - 2))
ReadUpTo(f, i, ls) == \E c : Starts(f, i, ls, c) /\ Lined(f, i, ls, c)

\* The lines after one more byte.
NextLines(ls, b) ==
  IF b = "lf" THEN BreakLine(ls) ELSE [ls EXCEPT ![Len(ls)] = Append(@, b)]

LEMMA PieceTyped ==
  ASSUME NEW f \in Seq(Bytes), NEW a \in Nat \ {0}, NEW b \in 0..Len(f)
  PROVE  SubSeq(f, a, b) \in Seq(Bytes)
<1>1. \A i \in a..b : f[i] \in Bytes
  OBVIOUS
<1>2. QED BY <1>1, SubSeqProperties

LEMMA WithoutCRTyped ==
  ASSUME NEW l \in Seq(Bytes)
  PROVE  WithoutCR(l) \in Seq(Bytes)
<1>1. CASE l # << >>
  <2>1. Len(l) \in Nat /\ Len(l) - 1 \in 0..Len(l)
    BY <1>1
  <2>2. Front(l) \in Seq(Bytes)
    BY <2>1, PieceTyped DEF Front
  <2>3. QED BY <2>2 DEF WithoutCR
<1>2. QED BY <1>1 DEF WithoutCR

\* A newline ends the last line.
LEMMA BreakLineIs ==
  ASSUME NEW ls \in Seq(Seq(Bytes)), Len(ls) >= 1
  PROVE  BreakLine(ls) = Append([ls EXCEPT ![Len(ls)] = WithoutCR(ls[Len(ls)])], << >>)
<1> DEFINE l == ls[Len(ls)]
<1>1. ls # << >> /\ l \in Seq(Bytes) /\ Last(ls) = l
  BY DEF Last
<1>2. CASE l # << >> /\ Last(l) = "cr"
  BY <1>1, <1>2 DEF BreakLine, WithoutCR
<1>3. CASE ~(l # << >> /\ Last(l) = "cr")
  <2>1. WithoutCR(l) = l
    BY <1>3 DEF WithoutCR
  <2>2. [ls EXCEPT ![Len(ls)] = l] = ls
    OBVIOUS
  <2>3. BreakLine(ls) = Append(ls, << >>)
    BY <1>1, <1>3 DEF BreakLine
  <2>4. QED BY <2>1, <2>2, <2>3
<1>4. QED BY <1>2, <1>3

\* A byte that is no newline goes to the last line.
LEMMA ReadByte ==
  ASSUME NEW f \in Seq(Bytes), NEW i \in 1..Len(f), f[i] # "lf",
         NEW ls, ReadUpTo(f, i - 1, ls)
  PROVE  ReadUpTo(f, i, [ls EXCEPT ![Len(ls)] = Append(@, f[i])])
<1>1. PICK c : Starts(f, i - 1, ls, c) /\ Lined(f, i - 1, ls, c)
  BY DEF ReadUpTo
<1> DEFINE q == Len(ls)
           ms == [ls EXCEPT ![q] = Append(@, f[i])]
<1>2. ls \in Seq(Seq(Bytes)) /\ q \in Nat /\ q >= 1 /\ q \in 1..q /\ c[q] \in 1..i /\ f[i] \in Bytes
  <2>1. ls \in Seq(Seq(Bytes)) /\ q >= 1 /\ c \in [1..q -> 1..(i - 1) + 1]
    BY <1>1 DEF Starts, q
  <2>2. q \in Nat /\ q \in 1..q /\ (i - 1) + 1 = i
    BY <2>1
  <2> HIDE DEF q
  <2>3. c[q] \in 1..i
    BY <2>1, <2>2
  <2>4. f[i] \in Bytes
    OBVIOUS
  <2>5. QED BY <2>1, <2>2, <2>3, <2>4
<1>3. ls[q] = SubSeq(f, c[q], i - 1) /\ ls[q] \in Seq(Bytes)
  BY <1>1, <1>2 DEF Lined, q
<1> HIDE DEF q
<1>4. SubSeq(f, c[q], i) = Append(ls[q], f[i])
  <2>1. SubSeq(f, c[q], i) = SubSeq(f, c[q], i - 1) \o << f[i] >>
    <3>1. c[q] \in 1..Len(f) /\ i \in c[q]..Len(f)
      BY <1>2
    <3>2. QED BY <3>1, SubSeqRecursiveSecond
  <2>2. Append(ls[q], f[i]) = ls[q] \o << f[i] >>
    BY <1>2, <1>3, AppendIsConcat
  <2>3. QED BY <1>3, <2>1, <2>2
<1>5. /\ ms \in Seq(Seq(Bytes)) /\ Len(ms) = q /\ ms[q] = Append(ls[q], f[i])
      /\ \A k \in 1..q - 1 : ms[k] = ls[k]
  <2>1. Append(ls[q], f[i]) \in Seq(Bytes)
    BY <1>2, <1>3
  <2>2. QED BY <1>2, <2>1 DEF q
<1>6. Starts(f, i, ms, c)
  <2>1. \A x \in 2..i + 1 : f[x - 1] = "lf" => \E k \in 1..q : c[k] = x
    <3> SUFFICES ASSUME NEW x \in 2..i + 1, f[x - 1] = "lf" PROVE \E k \in 1..q : c[k] = x
      OBVIOUS
    <3>1. x # i + 1
      OBVIOUS
    <3>2. x \in 2..(i - 1) + 1
      BY <3>1
    <3>3. QED BY <1>1, <3>2 DEF Starts, q
  <2>2. c \in [1..q -> 1..i + 1]
    BY <1>1 DEF Starts, q
  <2> HIDE DEF ms
  <2>3. QED BY <1>1, <1>2, <1>5, <2>1, <2>2 DEF Starts, q
<1>7. Lined(f, i, ms, c)
  <2>1. ms[Len(ms)] = SubSeq(f, c[Len(ms)], i)
    BY <1>4, <1>5
  <2>2. \A k \in 1..q - 1 : ms[k] = WithoutCR(SubSeq(f, c[k], c[k + 1] - 2))
    BY <1>1, <1>5 DEF Lined, q
  <2> HIDE DEF ms
  <2>3. QED BY <1>5, <2>1, <2>2 DEF Lined, q
<1>8. QED BY <1>6, <1>7 DEF ReadUpTo, q

\* A newline ends the last line and begins another.
LEMMA ReadNewline ==
  ASSUME NEW f \in Seq(Bytes), NEW i \in 1..Len(f), f[i] = "lf",
         NEW ls, ReadUpTo(f, i - 1, ls)
  PROVE  ReadUpTo(f, i, BreakLine(ls))
<1>1. PICK c : Starts(f, i - 1, ls, c) /\ Lined(f, i - 1, ls, c)
  BY DEF ReadUpTo
<1> DEFINE q == Len(ls)
           ms == BreakLine(ls)
           d == [k \in 1..q + 1 |-> IF k = q + 1 THEN i + 1 ELSE c[k]]
<1>2. /\ ls \in Seq(Seq(Bytes)) /\ q \in Nat /\ q >= 1 /\ q \in 1..q /\ c[q] \in 1..i
      /\ c \in [1..q -> 1..i]
  <2>1. ls \in Seq(Seq(Bytes)) /\ q >= 1 /\ c \in [1..q -> 1..(i - 1) + 1]
    BY <1>1, Zenon DEF Starts, q
  <2>2. q \in Nat
    BY <2>1
  <2>3. (i - 1) + 1 = i
    OBVIOUS
  <2> HIDE DEF q
  <2>4. QED BY <2>1, <2>2, <2>3
<1>3. ls[q] = SubSeq(f, c[q], i - 1) /\ ls[q] \in Seq(Bytes)
  BY <1>1, <1>2 DEF Lined, q
<1> HIDE DEF q
<1>4. /\ ms \in Seq(Seq(Bytes)) /\ Len(ms) = q + 1 /\ ms[q + 1] = << >> /\ ms[q] = WithoutCR(ls[q])
      /\ \A k \in 1..q - 1 : ms[k] = ls[k]
  <2> DEFINE l == WithoutCR(ls[q])
             ns == [ls EXCEPT ![q] = l]
  <2>1. l \in Seq(Bytes)
    BY <1>3, WithoutCRTyped
  <2> HIDE DEF l
  <2>2. ns \in Seq(Seq(Bytes)) /\ Len(ns) = q /\ ns[q] = l /\ \A k \in 1..q - 1 : ns[k] = ls[k]
    BY <1>2, <2>1 DEF q
  <2>3. ms = Append(ns, << >>)
    BY <1>2, BreakLineIs DEF l, q
  <2> HIDE DEF ns, ms
  <2>4. << >> \in Seq(Bytes)
    OBVIOUS
  <2>5. QED BY <1>2, <2>2, <2>3, <2>4 DEF l
<1> HIDE DEF ms
<1>5. d \in [1..q + 1 -> 1..i + 1] /\ d[q + 1] = i + 1 /\ \A k \in 1..q : d[k] = c[k]
  BY <1>2
<1> HIDE DEF d
<1>6. Starts(f, i, ms, d)
  <2>1. d[1] = 1 /\ Len(ms) >= 1
    BY <1>1, <1>2, <1>4, <1>5 DEF Starts, q
  <2>2. \A j, k \in 1..q + 1 : j < k => d[j] < d[k]
    <3> SUFFICES ASSUME NEW j \in 1..q + 1, NEW k \in 1..q + 1, j < k PROVE d[j] < d[k]
      OBVIOUS
    <3>1. j \in 1..q /\ d[j] = c[j] /\ c[j] \in 1..i
      BY <1>2, <1>5
    <3>2. CASE k = q + 1
      BY <1>5, <3>1, <3>2
    <3>3. CASE k # q + 1
      <4>1. k \in 1..q /\ d[k] = c[k]
        BY <1>2, <1>5, <3>3
      <4>2. QED BY <1>1, <3>1, <4>1 DEF Starts, q
    <3>4. QED BY <3>2, <3>3
  <2>3. \A k \in 2..q + 1 : f[d[k] - 1] = "lf"
    <3> SUFFICES ASSUME NEW k \in 2..q + 1 PROVE f[d[k] - 1] = "lf"
      OBVIOUS
    <3>1. CASE k = q + 1
      <4>1. d[k] = i + 1
        BY <1>5, <3>1
      <4>2. (i + 1) - 1 = i
        OBVIOUS
      <4>3. QED BY <4>1, <4>2
    <3>2. CASE k # q + 1
      <4>1. k \in 2..q /\ d[k] = c[k]
        BY <1>2, <1>5, <3>2
      <4>2. QED BY <1>1, <4>1 DEF Starts, q
    <3>3. QED BY <3>1, <3>2
  <2>4. \A x \in 2..i + 1 : f[x - 1] = "lf" => \E k \in 1..q + 1 : d[k] = x
    <3> SUFFICES ASSUME NEW x \in 2..i + 1, f[x - 1] = "lf" PROVE \E k \in 1..q + 1 : d[k] = x
      OBVIOUS
    <3>1. CASE x = i + 1
      BY <1>2, <1>5, <3>1
    <3>2. CASE x # i + 1
      <4>1. x \in 2..(i - 1) + 1
        BY <3>2
      <4>2. PICK k \in 1..q : c[k] = x
        BY <1>1, <4>1 DEF Starts, q
      <4>3. QED BY <1>2, <1>5, <4>2
    <3>3. QED BY <3>1, <3>2
  <2>5. QED BY <1>4, <1>5, <2>1, <2>2, <2>3, <2>4 DEF Starts, q
<1>7. Lined(f, i, ms, d)
  <2>1. ms[Len(ms)] = SubSeq(f, d[Len(ms)], i)
    <3>1. SubSeq(f, i + 1, i) = << >>
      BY SubSeqEmpty
    <3>2. QED BY <1>4, <1>5, <3>1
  <2>2. ASSUME NEW k \in 1..q PROVE ms[k] = WithoutCR(SubSeq(f, d[k], d[k + 1] - 2))
    <3>1. CASE k = q
      <4>1. d[k] = c[q] /\ d[k + 1] = i + 1 /\ (i + 1) - 2 = i - 1
        BY <1>2, <1>5, <3>1
      <4>2. QED BY <1>3, <1>4, <3>1, <4>1
    <3>2. CASE k # q
      <4>1. k \in 1..q - 1 /\ k + 1 \in 1..q /\ d[k] = c[k] /\ d[k + 1] = c[k + 1]
        BY <1>2, <1>5, <3>2
      <4>2. QED BY <1>1, <1>4, <4>1 DEF Lined, q
    <3>3. QED BY <3>1, <3>2
  <2>3. Len(ms) - 1 = q
    BY <1>2, <1>4
  <2>4. QED BY <2>1, <2>2, <2>3 DEF Lined, q
<1>8. QED BY <1>6, <1>7 DEF ReadUpTo, ms

LEMMA ReadNothing ==
  ASSUME NEW f \in Seq(Bytes)
  PROVE  ReadUpTo(f, 0, << << >> >>)
<1> DEFINE ls == << << >> >>
           c == [k \in 1..1 |-> 1]
<1>1. ls \in Seq(Seq(Bytes)) /\ Len(ls) = 1 /\ ls[1] = << >>
  OBVIOUS
<1>2. c \in [1..1 -> 1..0 + 1] /\ c[1] = 1
  OBVIOUS
<1> HIDE DEF ls, c
<1>3. Starts(f, 0, ls, c)
  BY <1>1, <1>2 DEF Starts
<1>4. SubSeq(f, 1, 0) = << >>
  BY SubSeqEmpty
<1>5. Lined(f, 0, ls, c)
  BY <1>1, <1>2, <1>4 DEF Lined
<1>6. QED BY <1>3, <1>5 DEF ReadUpTo, ls

-----------------------------------------------------------------------------
(* The lines of a file are read one byte after the other.                   *)

\* Every byte leads on from the lines so far.
LEMMA ReadMore ==
  ASSUME NEW f \in Seq(Bytes), NEW i \in 1..Len(f), NEW ls, ReadUpTo(f, i - 1, ls)
  PROVE  ReadUpTo(f, i, NextLines(ls, f[i]))
<1>1. CASE f[i] = "lf"
  BY <1>1, ReadNewline DEF NextLines
<1>2. CASE f[i] # "lf"
  BY <1>2, ReadByte DEF NextLines
<1>3. QED BY <1>1, <1>2

LEMMA NextLinesTyped ==
  ASSUME NEW ls \in Seq(Seq(Bytes)), Len(ls) >= 1, NEW b \in Bytes
  PROVE  NextLines(ls, b) \in Seq(Seq(Bytes)) /\ Len(NextLines(ls, b)) >= 1
<1> DEFINE q == Len(ls)
<1>1. q \in Nat /\ q \in 1..q /\ ls[q] \in Seq(Bytes)
  OBVIOUS
<1>2. CASE b = "lf"
  <2> DEFINE l == WithoutCR(ls[q])
             ns == [ls EXCEPT ![q] = l]
  <2>1. l \in Seq(Bytes)
    BY <1>1, WithoutCRTyped
  <2> HIDE DEF l
  <2>2. ns \in Seq(Seq(Bytes)) /\ Len(ns) = q
    BY <1>1, <2>1
  <2>3. NextLines(ls, b) = Append(ns, << >>)
    BY <1>2, BreakLineIs DEF NextLines, l
  <2> HIDE DEF ns
  <2>4. << >> \in Seq(Bytes)
    OBVIOUS
  <2>5. QED BY <1>1, <2>2, <2>3, <2>4
<1>3. CASE b # "lf"
  <2>1. Append(ls[q], b) \in Seq(Bytes)
    BY <1>1
  <2>2. NextLines(ls, b) = [ls EXCEPT ![q] = Append(ls[q], b)]
    BY <1>3 DEF NextLines
  <2>3. QED BY <1>1, <2>1, <2>2
<1>4. QED BY <1>2, <1>3

Trimmed(raw) == IF raw # << >> /\ Last(raw) = "lf" THEN Front(raw) ELSE raw
ReadsOn(t, h) ==
  h = [i \in 0..Len(t) |-> IF i = 0 THEN << << >> >>
                           ELSE IF t[i] = "lf" THEN BreakLine(h[i - 1])
                           ELSE [h[i - 1] EXCEPT ![Len(h[i - 1])] = Append(@, t[i])]]
ReadOf(t) == CHOOSE h : ReadsOn(t, h)

LEMMA SplitIs == \A raw : SplitLines(raw) = ReadOf(Trimmed(raw))[Len(Trimmed(raw))]
BY DEF SplitLines, ReadOf, ReadsOn, Trimmed

\* The lines are read one byte after the other.
LEMMA ReadExists ==
  ASSUME NEW t \in Seq(Bytes)
  PROVE  \E h : ReadsOn(t, h)
<1> DEFINE S == {ls \in Seq(Seq(Bytes)) : Len(ls) >= 1}
           next == [p \in (1..Len(t)) \X S |-> NextLines(p[2], t[p[1]])]
<1>1. Len(t) \in Nat /\ << << >> >> \in S
  OBVIOUS
<1>2. \A p \in (1..Len(t)) \X S : NextLines(p[2], t[p[1]]) \in S
  <2> SUFFICES ASSUME NEW n \in 1..Len(t), NEW ls \in S PROVE NextLines(ls, t[n]) \in S
    OBVIOUS
  <2>1. t[n] \in Bytes
    OBVIOUS
  <2>2. QED BY <2>1, NextLinesTyped
<1>3. IsStep(Len(t), S, next)
  BY <1>2 DEF IsStep
<1>4. Goes(Len(t), S, << << >> >>, next)
  <2> HIDE DEF S, next
  <2>1. QED BY <1>1, <1>3, Iterate, Zenon
<1>5. PICK h \in [0..Len(t) -> S] :
        h[0] = << << >> >> /\ \A n \in 1..Len(t) : h[n] = StepAt(next, n, h[n - 1])
  <2> HIDE DEF S, next
  <2>1. QED BY <1>4 DEF Goes
<1>6. ASSUME NEW n \in 1..Len(t) PROVE h[n] = NextLines(h[n - 1], t[n])
  <2>1. n - 1 \in 0..Len(t)
    OBVIOUS
  <2>2. h[n - 1] \in S
    <3> HIDE DEF S
    <3>1. QED BY <1>5, <2>1
  <2>3. << n, h[n - 1] >> \in (1..Len(t)) \X S
    <3> HIDE DEF S
    <3>1. QED BY <2>2
  <2>4. StepAt(next, n, h[n - 1]) = NextLines(h[n - 1], t[n])
    <3> HIDE DEF S
    <3>1. QED BY <2>3 DEF StepAt
  <2> HIDE DEF next, S
  <2>5. QED BY <1>5, <2>4
<1>7. ReadsOn(t, h)
  <2>1. h = [n \in 0..Len(t) |-> h[n]]
    <3> HIDE DEF S, next
    <3>1. QED BY <1>5
  <2>2. \A n \in 1..Len(t) : h[n] = IF t[n] = "lf" THEN BreakLine(h[n - 1])
                                    ELSE [h[n - 1] EXCEPT ![Len(h[n - 1])] = Append(@, t[n])]
    BY <1>6, Zenon DEF NextLines
  <2> DEFINE G(n) == IF n = 0 THEN << << >> >>
                     ELSE IF t[n] = "lf" THEN BreakLine(h[n - 1])
                     ELSE [h[n - 1] EXCEPT ![Len(h[n - 1])] = Append(@, t[n])]
  <2>3. \A n \in 0..Len(t) : h[n] = G(n)
    <3> SUFFICES ASSUME NEW n \in 0..Len(t) PROVE h[n] = G(n)
      OBVIOUS
    <3>1. CASE n = 0
      BY <1>5, <3>1, Zenon
    <3>2. CASE n # 0
      <4>1. n \in 1..Len(t)
        BY <1>1, <3>2
      <4>2. QED BY <2>2, <3>2, <4>1, Zenon
    <3>3. QED BY <3>1, <3>2
  <2> HIDE DEF G
  <2>4. h = [n \in 0..Len(t) |-> G(n)]
    BY <2>1, <2>3
  <2>5. QED BY <2>4, Zenon DEF ReadsOn, G
<1>8. QED BY <1>7

LEMMA ReadRules ==
  ASSUME NEW t \in Seq(Bytes)
  PROVE  /\ ReadOf(t)[0] = << << >> >>
         /\ \A i \in 1..Len(t) : ReadOf(t)[i] = NextLines(ReadOf(t)[i - 1], t[i])
<1>1. PICK h : h = ReadOf(t)
  OBVIOUS
<1>2. ReadsOn(t, h)
  BY <1>1, ReadExists DEF ReadOf
<1> DEFINE G(n) == IF n = 0 THEN << << >> >> ELSE NextLines(h[n - 1], t[n])
<1>3. h = [n \in 0..Len(t) |-> G(n)]
  BY <1>2, Zenon DEF ReadsOn, NextLines
<1>4. \A n \in 0..Len(t) : h[n] = G(n)
  <2> HIDE DEF G
  <2>1. QED BY <1>3
<1>5. 0 \in 0..Len(t) /\ \A n \in 1..Len(t) : n \in 0..Len(t) /\ n # 0
  OBVIOUS
<1>6. QED BY <1>1, <1>4, <1>5, Zenon

\* They are the lines of what was read.
LEMMA ReadAll ==
  ASSUME NEW t \in Seq(Bytes)
  PROVE  ReadUpTo(t, Len(t), ReadOf(t)[Len(t)])
<1> DEFINE Bad == {i \in 0..Len(t) : ~ReadUpTo(t, i, ReadOf(t)[i])}
<1>1. SUFFICES ASSUME Bad # {} PROVE FALSE
  <2>1. Len(t) \in 0..Len(t)
    OBVIOUS
  <2>2. QED BY <1>1, <2>1
<1>2. PICK i \in Bad : \A n \in Bad : i <= n
  <2>1. Bad \in SUBSET Nat
    OBVIOUS
  <2> HIDE DEF Bad
  <2>2. QED BY <1>1, <2>1, Least
<1>3. i \in 0..Len(t) /\ ~ReadUpTo(t, i, ReadOf(t)[i])
  BY <1>2
<1>4. i # 0
  BY <1>3, ReadRules, ReadNothing
<1>5. i \in 1..Len(t) /\ i - 1 \in 0..Len(t) /\ ~(i <= i - 1)
  BY <1>3, <1>4
<1>6. ReadUpTo(t, i - 1, ReadOf(t)[i - 1])
  <2>1. i - 1 \notin Bad
    <3> HIDE DEF Bad
    <3>1. QED BY <1>2, <1>5
  <2>2. QED BY <1>5, <2>1
<1>7. ReadUpTo(t, i, NextLines(ReadOf(t)[i - 1], t[i]))
  BY <1>5, <1>6, ReadMore
<1>8. ReadOf(t)[i] = NextLines(ReadOf(t)[i - 1], t[i])
  BY <1>5, ReadRules
<1>9. QED BY <1>3, <1>7, <1>8

-----------------------------------------------------------------------------
(* Where the lines of a file are.                                           *)

\* How many of an increasing sequence are up to its k-th.
LEMMA CountUpTo ==
  ASSUME NEW q \in Nat, NEW N \in Nat, NEW c \in [1..q -> 1..N],
         \A j, k \in 1..q : j < k => c[j] < c[k], NEW k \in 1..q
  PROVE  Cardinality({x \in {c[j] : j \in 1..q} : x <= c[k]}) = k
<1> DEFINE T == {x \in {c[j] : j \in 1..q} : x <= c[k]}
           g == [j \in 1..k |-> c[j]]
<1>1. \A j \in 1..k : j \in 1..q /\ c[j] <= c[k]
  BY SMTT(30)
<1>2. g \in [1..k -> T]
  BY <1>1
<1>3. \A i, j \in 1..k : g[i] = g[j] => i = j
  <2> SUFFICES ASSUME NEW i \in 1..k, NEW j \in 1..k, c[i] = c[j], i # j PROVE FALSE
    OBVIOUS
  <2>1. i \in 1..q /\ j \in 1..q /\ c[i] \in Nat /\ c[j] \in Nat
    BY <1>1
  <2>2. i < j \/ j < i
    OBVIOUS
  <2>3. QED BY <2>1, <2>2
<1>4. \A x \in T : \E j \in 1..k : g[j] = x
  <2> SUFFICES ASSUME NEW j \in 1..q, c[j] <= c[k] PROVE j \in 1..k
    BY <1>1
  <2>1. c[j] \in Nat /\ c[k] \in Nat
    OBVIOUS
  <2>2. ~(k < j)
    BY <2>1
  <2>3. QED BY <2>2
<1> HIDE DEF g, T
<1>5. g \in Bijection(1..k, T)
  BY <1>2, <1>3, <1>4, Fun_IsBij
<1>6. ExistsBijection(1..k, T)
  BY <1>5, Fun_ExistsBij
<1>7. IsFiniteSet(1..k) /\ Cardinality(1..k) = k
  BY FS_Interval
<1>8. Cardinality(T) = k
  BY <1>6, <1>7, FS_Bijection
<1>9. QED BY <1>8 DEF T

\* What is split: what was read, without a newline at its end.
ReadOff(n, t) ==
  /\ t \in Seq(Bytes) /\ Len(t) \in 0..n
  /\ \A i \in 1..Len(t) : t[i] = file[i]
  /\ Len(t) # n => Len(t) = n - 1 /\ file[n] = "lf"
  /\ Len(t) = n => n = 0 \/ file[n] # "lf"

LEMMA TrimmedIs ==
  ASSUME file \in Seq(Bytes), NEW n \in 0..Len(file)
  PROVE  ReadOff(n, Trimmed(SubSeq(file, 1, n)))
<1> DEFINE raw == SubSeq(file, 1, n)
<1>1. raw \in Seq(Bytes) /\ Len(raw) = n /\ \A i \in 1..n : raw[i] = file[i]
  <2>1. \A i \in 1..n : file[i] \in Bytes
    OBVIOUS
  <2>2. raw \in Seq(Bytes) /\ Len(raw) = (IF 1 <= n THEN n - 1 + 1 ELSE 0)
        /\ \A i \in 1..n - 1 + 1 : raw[i] = file[1 + i - 1]
    BY <2>1, SubSeqProperties
  <2> HIDE DEF raw
  <2>3. QED BY <2>2
<1> HIDE DEF raw
<1>2. raw = << >> <=> n = 0
  BY <1>1
<1>3. CASE n # 0 /\ file[n] = "lf"
  <2>1. Last(raw) = "lf"
    BY <1>1, <1>3 DEF Last
  <2>2. Trimmed(raw) = SubSeq(raw, 1, n - 1)
    BY <1>1, <1>2, <1>3, <2>1 DEF Trimmed, Front
  <2> DEFINE t == SubSeq(raw, 1, n - 1)
  <2>3. \A i \in 1..n - 1 : raw[i] \in Bytes
    BY <1>1
  <2>4. t \in Seq(Bytes) /\ Len(t) = (IF 1 <= n - 1 THEN (n - 1) - 1 + 1 ELSE 0)
        /\ \A i \in 1..(n - 1) - 1 + 1 : t[i] = raw[1 + i - 1]
    BY <2>3, SubSeqProperties
  <2> HIDE DEF t
  <2>5. t \in Seq(Bytes) /\ Len(t) = n - 1 /\ \A i \in 1..n - 1 : t[i] = raw[i]
    BY <1>3, <2>4
  <2>6. Len(t) # n /\ \A i \in 1..n - 1 : t[i] = file[i]
    BY <1>1, <2>5
  <2>7. ReadOff(n, t)
    BY <1>3, <2>5, <2>6 DEF ReadOff
  <2>8. QED BY <2>2, <2>7 DEF t, raw
<1>4. CASE ~(n # 0 /\ file[n] = "lf")
  <2>1. Trimmed(raw) = raw
    <3>1. CASE n = 0
      BY <1>2, <3>1 DEF Trimmed
    <3>2. CASE n # 0
      <4>1. Last(raw) # "lf"
        BY <1>1, <1>4, <3>2 DEF Last
      <4>2. QED BY <4>1 DEF Trimmed
    <3>3. QED BY <3>1, <3>2
  <2>2. ReadOff(n, raw)
    BY <1>1, <1>4 DEF ReadOff
  <2>3. QED BY <2>1, <2>2 DEF raw
<1>5. QED BY <1>3, <1>4

LEMMA BeginsAre ==
  ASSUME file \in Seq(Bytes), NEW n \in 0..Len(file), NEW t, ReadOff(n, t),
         NEW ls, NEW c, Starts(t, Len(t), ls, c)
  PROVE  Begins(n) = {c[k] : k \in 1..Len(ls)}
<1> DEFINE m == Len(t)
           q == Len(ls)
<1>1. /\ m \in 0..n /\ \A i \in 1..m : t[i] = file[i]
      /\ m # n => m = n - 1
      /\ m = n => n = 0 \/ file[n] # "lf"
  BY DEF ReadOff
<1>2. /\ q \in Nat /\ q >= 1 /\ c \in [1..q -> 1..m + 1] /\ c[1] = 1
      /\ \A j, k \in 1..q : j < k => c[j] < c[k]
      /\ \A k \in 2..q : t[c[k] - 1] = "lf"
      /\ \A x \in 2..m + 1 : t[x - 1] = "lf" => \E k \in 1..q : c[k] = x
  BY DEF Starts
<1> HIDE DEF m, q
<1>3. ASSUME NEW x \in 2..n, file[x - 1] = "lf" PROVE \E k \in 1..q : c[k] = x
  <2>1. x \in 2..m + 1 /\ x - 1 \in 1..m
    BY <1>1
  <2>2. QED BY <1>1, <1>2, <1>3, <2>1
<1>4. ASSUME NEW k \in 2..q PROVE c[k] \in 2..n /\ file[c[k] - 1] = "lf"
  <2>1. k \in 1..q /\ 1 \in 1..q /\ 1 < k
    BY <1>2
  <2>2. c[k] \in 1..m + 1 /\ 1 < c[k]
    BY <1>2, <2>1
  <2>3. c[k] \in 2..m + 1 /\ c[k] - 1 \in 1..m
    BY <1>1, <2>2
  <2>4. file[c[k] - 1] = "lf"
    BY <1>1, <1>2, <2>3
  <2>5. c[k] \in 2..n
    <3>1. CASE m = n
      <4>1. c[k] # n + 1
        <5> SUFFICES ASSUME c[k] = n + 1 PROVE FALSE
          OBVIOUS
        <5>1. file[n] = "lf"
          BY <2>4
        <5>2. n # 0
          BY <1>1, <2>3, <3>1
        <5>3. QED BY <1>1, <3>1, <5>1, <5>2
      <4>2. QED BY <1>1, <2>3, <3>1, <4>1
    <3>2. CASE m # n
      BY <1>1, <2>3, <3>2
    <3>3. QED BY <3>1, <3>2
  <2>6. QED BY <2>4, <2>5
<1>5. \A k \in 1..q : k = 1 \/ k \in 2..q
  BY <1>2
<1>6. 1 \in 1..q
  BY <1>2
<1>7. Begins(n) = {c[k] : k \in 1..q}
  <2>1. ASSUME NEW x \in Begins(n) PROVE \E k \in 1..q : c[k] = x
    BY <1>2, <1>3, <1>6, <2>1 DEF Begins
  <2>2. ASSUME NEW k \in 1..q PROVE c[k] \in Begins(n)
    BY <1>2, <1>4, <1>5 DEF Begins
  <2>3. QED BY <2>1, <2>2
<1>8. QED BY <1>7 DEF q

\* A line ends before the newline that the next one follows, the last with what was read.
LEMMA EndsAre ==
  ASSUME file \in Seq(Bytes), NEW n \in 0..Len(file), NEW t, ReadOff(n, t),
         NEW ls, NEW c, Starts(t, Len(t), ls, c), NEW k \in 1..Len(ls)
  PROVE  Ends(n, c[k]) = IF k = Len(ls) THEN Len(t) + 1 ELSE c[k + 1] - 1
<1> DEFINE m == Len(t)
           q == Len(ls)
           b == c[k]
           end == IF k = q THEN m + 1 ELSE c[k + 1] - 1
           IsEnd(e) == /\ e = n + 1 \/ file[e] = "lf"
                       /\ \A i \in b..e - 1 : file[i] # "lf"
<1>1. /\ m \in 0..n /\ \A i \in 1..m : t[i] = file[i]
      /\ m # n => m = n - 1 /\ file[n] = "lf"
  BY DEF ReadOff
<1>2. /\ q \in Nat /\ q >= 1 /\ c \in [1..q -> 1..m + 1] /\ c[1] = 1
      /\ \A i, j \in 1..q : i < j => c[i] < c[j]
      /\ \A j \in 2..q : t[c[j] - 1] = "lf"
      /\ \A x \in 2..m + 1 : t[x - 1] = "lf" => \E j \in 1..q : c[j] = x
      /\ k \in 1..q
  BY DEF Starts
<1> HIDE DEF m, q
<1>3. b \in 1..m + 1
  BY <1>2
<1>4. k = q \/ (k # q /\ k + 1 \in 2..q /\ k + 1 \in 1..q /\ k < k + 1)
  BY <1>2
<1>5. end \in b..n + 1 /\ end <= m + 1 /\ (end = n + 1 \/ file[end] = "lf")
  <2>1. CASE k = q
    <3>1. end = m + 1
      BY <2>1
    <3> HIDE DEF end, b
    <3>2. CASE m = n
      BY <1>1, <1>3, <3>1, <3>2
    <3>3. CASE m # n
      <4>1. m + 1 = n
        BY <1>1, <3>3
      <4>2. QED BY <1>1, <1>3, <3>1, <3>3, <4>1
    <3>4. QED BY <3>2, <3>3
  <2>2. CASE k # q
    <3>1. end = c[k + 1] - 1 /\ c[k + 1] \in 1..m + 1 /\ b < c[k + 1] /\ t[c[k + 1] - 1] = "lf"
      BY <1>2, <1>4, <2>2
    <3> HIDE DEF end, b
    <3>2. end \in b..m /\ end \in 1..m
      BY <1>1, <1>3, <3>1
    <3>3. QED BY <1>1, <1>3, <3>1, <3>2, SMTT(30)
  <2>3. QED BY <2>1, <2>2
<1>6. ASSUME NEW i \in b..end - 1 PROVE file[i] # "lf"
  <2> SUFFICES ASSUME file[i] = "lf" PROVE FALSE
    OBVIOUS
  <2>1. end \in Int
    <3> HIDE DEF end, b
    <3>1. QED BY <1>1, <1>3, <1>5
  <2>2. i \in 1..m /\ i + 1 \in 2..m + 1 /\ (i + 1) - 1 = i
    <3> HIDE DEF end, b
    <3>1. QED BY <1>1, <1>3, <1>5, <2>1
  <2>3. PICK j \in 1..q : c[j] = i + 1
    BY <1>1, <1>2, <2>2
  <2>4. b < c[j] /\ c[j] <= end
    <3> HIDE DEF end, b
    <3>1. QED BY <1>3, <2>1, <2>2, <2>3
  <2>5. k < j
    <3>1. j = k \/ j < k \/ k < j
      BY <1>2
    <3>2. CASE j < k
      <4>1. c[j] < c[k] /\ c[j] \in Nat /\ c[k] \in Nat
        BY <1>2, <3>2
      <4>2. QED BY <2>4, <4>1
    <3>3. CASE j = k
      BY <1>3, <2>4, <3>3
    <3>4. QED BY <3>1, <3>2, <3>3
  <2>6. k # q /\ end = c[k + 1] - 1 /\ k + 1 \in 1..q
    BY <1>2, <1>4, <2>5
  <2>7. c[j] >= c[k + 1]
    <3>1. j = k + 1 \/ k + 1 < j
      BY <1>2, <2>5
    <3>2. c[j] \in Nat /\ c[k + 1] \in Nat
      BY <1>2, <2>6, SMTT(30)
    <3>3. QED BY <1>2, <2>6, <3>1, <3>2, SMTT(30)
  <2>8. c[j] \in Nat /\ c[k + 1] \in Nat
    BY <1>2, <2>6
  <2>9. c[j] <= c[k + 1] - 1
    BY <2>4, <2>6, Zenon
  <2>10. QED BY <2>7, <2>8, <2>9
<1> HIDE DEF end
<1>7. IsEnd(end) /\ end \in b..n + 1
  BY <1>5, <1>6
<1>8. ASSUME NEW e \in b..n + 1, IsEnd(e) PROVE e = end
  <2> HIDE DEF b
  <2>1. e \in Int /\ end \in Int /\ b \in Int
    BY <1>3, <1>7
  <2>2. ~(e < end)
    <3> SUFFICES ASSUME e < end PROVE FALSE
      OBVIOUS
    <3>1. e \in b..end - 1 /\ e # n + 1
      BY <1>7, <2>1
    <3>2. file[e] # "lf"
      BY <1>6, <3>1
    <3>3. QED BY <1>8, <3>1, <3>2
  <2>3. ~(end < e)
    <3> SUFFICES ASSUME end < e PROVE FALSE
      OBVIOUS
    <3>1. end \in b..e - 1 /\ end # n + 1
      BY <1>7, <2>1
    <3>2. file[end] # "lf"
      BY <1>8, <3>1
    <3>3. QED BY <1>7, <3>1, <3>2
  <2>4. QED BY <2>1, <2>2, <2>3
<1>9. Ends(n, b) = end
  <2>1. Ends(n, b) = CHOOSE e \in b..n + 1 : IsEnd(e)
    BY DEF Ends
  <2> HIDE DEF IsEnd, b
  <2>2. QED BY <1>7, <1>8, <2>1
<1>10. QED BY <1>9 DEF end, q, m

LEMMA SamePiece ==
  ASSUME NEW f \in Seq(Bytes), NEW g \in Seq(Bytes), NEW a \in Nat \ {0}, NEW b \in Int,
         b <= Len(f), b <= Len(g), \A i \in a..b : f[i] = g[i]
  PROVE  SubSeq(f, a, b) = SubSeq(g, a, b)
<1> DEFINE s == SubSeq(f, a, b)
           r == SubSeq(g, a, b)
<1>1. \A i \in a..b : f[i] \in Bytes /\ g[i] \in Bytes
  <2>1. \A i \in a..b : i \in 1..Len(f) /\ i \in 1..Len(g)
    OBVIOUS
  <2>2. QED BY <2>1
<1>2. s \in Seq(Bytes) /\ Len(s) = (IF a <= b THEN b - a + 1 ELSE 0)
      /\ \A i \in 1..b - a + 1 : s[i] = f[a + i - 1]
  BY <1>1, SubSeqProperties
<1>3. r \in Seq(Bytes) /\ Len(r) = (IF a <= b THEN b - a + 1 ELSE 0)
      /\ \A i \in 1..b - a + 1 : r[i] = g[a + i - 1]
  BY <1>1, SubSeqProperties
<1> HIDE DEF s, r
<1>4. Len(s) = Len(r) /\ \A i \in 1..Len(s) : i \in 1..b - a + 1 /\ a + i - 1 \in a..b
  BY <1>2, <1>3
<1>5. \A i \in 1..Len(s) : s[i] = r[i]
  <2> TAKE i \in 1..Len(s)
  <2>1. i \in 1..b - a + 1 /\ f[a + i - 1] = g[a + i - 1]
    BY <1>4
  <2>2. QED BY <1>2, <1>3, <2>1
<1>6. s = [i \in 1..Len(s) |-> s[i]] /\ r = [i \in 1..Len(r) |-> r[i]]
  BY <1>2, <1>3
<1>7. s = r
  BY <1>4, <1>5, <1>6
<1>8. QED BY <1>7 DEF s, r

\* The lines that are read are those of the file.
LEMMA LinesOfFile ==
  ASSUME file \in Seq(Bytes), NEW n \in 0..Len(file), NEW t, ReadOff(n, t),
         NEW ls, ReadUpTo(t, Len(t), ls)
  PROVE  /\ ls \in Seq(Seq(Bytes)) /\ Len(ls) >= 1
         /\ Cardinality(Begins(n)) = Len(ls)
         /\ ls[Len(ls)] = NthLine(n, Len(ls))
         /\ \A k \in 1..Len(ls) - 1 : ls[k] = WithoutCR(NthLine(n, k))
<1>1. PICK c : Starts(t, Len(t), ls, c) /\ Lined(t, Len(t), ls, c)
  BY DEF ReadUpTo
<1> DEFINE m == Len(t)
           q == Len(ls)
           B == Begins(n)
           Upto(i) == {j \in B : j <= i}
<1>2. /\ t \in Seq(Bytes) /\ Len(t) = m /\ m \in 0..n /\ n <= Len(file) /\ m <= Len(file)
      /\ \A i \in 1..m : t[i] = file[i]
  BY DEF ReadOff
<1>3. /\ ls \in Seq(Seq(Bytes)) /\ q \in Nat /\ q >= 1 /\ c \in [1..q -> 1..m + 1]
      /\ \A i, j \in 1..q : i < j => c[i] < c[j]
  BY <1>1 DEF Starts
<1>4. B = {c[j] : j \in 1..q}
  BY <1>1, BeginsAre
<1>5. \A k \in 1..q : Ends(n, c[k]) = IF k = q THEN m + 1 ELSE c[k + 1] - 1
  BY <1>1, EndsAre
<1>6. /\ ls[q] = SubSeq(t, c[q], m)
      /\ \A k \in 1..q - 1 : ls[k] = WithoutCR(SubSeq(t, c[k], c[k + 1] - 2))
  BY <1>1 DEF Lined
<1> HIDE DEF m, q, B
<1>7. ASSUME NEW k \in 1..q PROVE Cardinality(Upto(c[k])) = k
  <2>1. m + 1 \in Nat
    BY <1>2
  <2>2. Cardinality({x \in {c[j] : j \in 1..q} : x <= c[k]}) = k
    BY <1>3, <2>1, CountUpTo
  <2>3. QED BY <1>4, <2>2
<1>8. Cardinality(B) = q
  <2>1. q \in 1..q
    BY <1>3
  <2>2. \A x \in B : x <= c[q]
    <3> SUFFICES ASSUME NEW j \in 1..q PROVE c[j] <= c[q]
      BY <1>4
    <3>1. c[j] \in Nat /\ c[q] \in Nat /\ (j = q \/ j < q)
      BY <1>3, <2>1
    <3>2. QED BY <1>3, <2>1, <3>1
  <2>3. Upto(c[q]) = B
    BY <2>2
  <2>4. QED BY <1>7, <2>1, <2>3
<1>9. ASSUME NEW k \in 1..q PROVE NthLine(n, k) = SubSeq(file, c[k], Ends(n, c[k]) - 1)
  <2> DEFINE P(i) == Cardinality(Upto(i)) = k
  <2>1. c[k] \in B /\ P(c[k])
    BY <1>4, <1>7
  <2>2. ASSUME NEW i \in B, P(i) PROVE i = c[k]
    <3>1. PICK j \in 1..q : i = c[j]
      BY <1>4
    <3>2. Cardinality(Upto(c[j])) = j
      BY <1>7
    <3>3. QED BY <2>2, <3>1, <3>2
  <2>3. NthLine(n, k) = LET b == CHOOSE i \in B : P(i) IN SubSeq(file, b, Ends(n, b) - 1)
    BY Zenon DEF NthLine, B
  <2> HIDE DEF P
  <2>4. (CHOOSE i \in B : P(i)) = c[k]
    BY <2>1, <2>2
  <2>5. QED BY <2>3, <2>4, Zenon
<1>10. ls[q] = NthLine(n, q)
  <2>1. q \in 1..q /\ Ends(n, c[q]) = m + 1 /\ (m + 1) - 1 = m /\ c[q] \in Nat \ {0}
    BY <1>2, <1>3, <1>5
  <2>2. NthLine(n, q) = SubSeq(file, c[q], m)
    BY <1>9, <2>1
  <2>3. SubSeq(t, c[q], m) = SubSeq(file, c[q], m)
    <3>1. \A i \in c[q]..m : t[i] = file[i]
      BY <1>2, <2>1
    <3>2. m \in Int /\ m <= Len(t)
      BY <1>2
    <3>3. QED BY <1>2, <2>1, <3>1, <3>2, SamePiece
  <2>4. QED BY <1>6, <2>2, <2>3
<1>11. ASSUME NEW k \in 1..q - 1 PROVE ls[k] = WithoutCR(NthLine(n, k))
  <2>1. k \in 1..q /\ k # q /\ k + 1 \in 1..q
    BY <1>3
  <2>2. c[k] \in Nat \ {0} /\ c[k + 1] \in 1..m + 1
    BY <1>3, <2>1
  <2>3. Ends(n, c[k]) - 1 = c[k + 1] - 2
    BY <1>5, <2>1, <2>2
  <2>4. NthLine(n, k) = SubSeq(file, c[k], c[k + 1] - 2)
    BY <1>9, <2>1, <2>3
  <2> DEFINE e == c[k + 1] - 2
  <2>5. e \in Int /\ e <= m /\ e <= Len(file) /\ e <= Len(t)
    BY <1>2, <2>2
  <2> HIDE DEF e
  <2>6. \A i \in c[k]..e : t[i] = file[i]
    BY <1>2, <2>2, <2>5
  <2>7. SubSeq(t, c[k], e) = SubSeq(file, c[k], e)
    BY <1>2, <2>2, <2>5, <2>6, SamePiece
  <2>8. QED BY <1>6, <2>4, <2>7 DEF e
<1>12. ls \in Seq(Seq(Bytes)) /\ q >= 1 /\ Cardinality(B) = q
  BY <1>3, <1>8
<1>13. \A k \in 1..q - 1 : ls[k] = WithoutCR(NthLine(n, k))
  BY <1>11
<1>14. Cardinality(Begins(n)) = Len(ls)
  BY <1>12 DEF q, B
<1>15. ls[Len(ls)] = NthLine(n, Len(ls))
  BY <1>10 DEF q
<1>16. \A k \in 1..Len(ls) - 1 : ls[k] = WithoutCR(NthLine(n, k))
  BY <1>13 DEF q
<1>17. ls \in Seq(Seq(Bytes)) /\ Len(ls) >= 1
  BY <1>12 DEF q
<1>18. QED BY <1>14, <1>15, <1>16, <1>17

-----------------------------------------------------------------------------
(* What is answered.                                                        *)

\* What was read up to the cap.
LEMMA PrefixIs ==
  ASSUME NEW f \in Seq(Bytes)
  PROVE  \E n \in 0..Len(f) : /\ Prefix(f) = SubSeq(f, 1, n) /\ Len(Prefix(f)) = n
                              /\ Prefix(f) \in Seq(Bytes)
                              /\ n < Len(f) <=> Len(f) > MaxFileBytes
                              /\ n = Len(f) => Prefix(f) = f
<1> DEFINE n == IF Len(f) > MaxFileBytes THEN MaxFileBytes ELSE Len(f)
<1>1. n \in 0..Len(f) /\ (n < Len(f) <=> Len(f) > MaxFileBytes)
  BY PreviewAssumption
<1>2. Prefix(f) = SubSeq(f, 1, n)
  BY DEF Prefix
<1> HIDE DEF n
<1>3. \A i \in 1..n : f[i] \in Bytes
  BY <1>1
<1>4. SubSeq(f, 1, n) \in Seq(Bytes) /\ Len(SubSeq(f, 1, n)) = IF 1 <= n THEN n - 1 + 1 ELSE 0
  BY <1>1, <1>3, SubSeqProperties
<1>5. Len(SubSeq(f, 1, n)) = n
  BY <1>1, <1>4
<1>6. n = Len(f) => SubSeq(f, 1, n) = f
  BY SubSeqFull
<1>7. QED BY <1>1, <1>2, <1>4, <1>5, <1>6

\* What is shown, from the lines of the file.
Exact(n, ls) ==
  /\ ls \in Seq(Seq(Bytes)) /\ Len(ls) >= 1
  /\ Cardinality(Begins(n)) = Len(ls)
  /\ ls[Len(ls)] = NthLine(n, Len(ls))
  /\ \A k \in 1..Len(ls) - 1 : ls[k] = WithoutCR(NthLine(n, k))

LEMMA SplitIsExact ==
  ASSUME file \in Seq(Bytes)
  PROVE  Exact(Len(Prefix(file)), SplitLines(Prefix(file)))
<1>1. PICK n \in 0..Len(file) : Prefix(file) = SubSeq(file, 1, n) /\ Len(Prefix(file)) = n
  BY PrefixIs
<1>2. PICK t : t = Trimmed(Prefix(file))
  OBVIOUS
<1>3. ReadOff(n, t) /\ t \in Seq(Bytes)
  BY <1>1, <1>2, TrimmedIs, ZenonT(40) DEF ReadOff
<1>4. PICK ls : ls = ReadOf(t)[Len(t)]
  OBVIOUS
<1>5. ReadUpTo(t, Len(t), ls)
  BY <1>3, <1>4, ReadAll
<1>6. Exact(n, ls)
  BY <1>3, <1>5, LinesOfFile DEF Exact
<1>7. SplitLines(Prefix(file)) = ls
  BY <1>2, <1>4, SplitIs
<1>8. QED BY <1>1, <1>6, <1>7

LEMMA ExactLine ==
  ASSUME NEW n, NEW ls, Exact(n, ls), NEW k \in 1..Len(ls)
  PROVE  \/ ls[k] = WithoutCR(NthLine(n, k))
         \/ ls[k] = NthLine(n, k) /\ k = Cardinality(Begins(n))
<1>1. CASE k = Len(ls)
  BY <1>1 DEF Exact
<1>2. CASE k # Len(ls)
  <2>1. k \in 1..Len(ls) - 1
    BY <1>2 DEF Exact
  <2>2. QED BY <2>1 DEF Exact
<1>3. QED BY <1>1, <1>2

\* What a line or a range asks for.
LEMMA AskedIs ==
  ASSUME NEW a \in Anchors, ValidAnchor(a), a.form # "none"
  PROVE  /\ a.form \in {"line", "range"}
         /\ Asked(a)[1] \in Nat \ {0} /\ Asked(a)[2] \in Nat /\ Asked(a)[1] <= Asked(a)[2]
<1>1. a.form \in {"line", "range"} /\ a.from \in Int /\ a.to \in Int
  <2>1. a.from \in Int /\ a.to \in Int /\ a.form \in {"none", "other", "line", "range"}
    <3>1. CASE a \in [form : {"none"}, from : {0}, to : {0}]
      BY <3>1
    <3>2. CASE a \in [form : {"other"}, from : {0}, to : {0}]
      BY <3>2
    <3>3. CASE a \in [form : {"line"}, from : -1..MaxLine, to : {0}]
      BY <3>3
    <3>4. CASE a \in [form : {"range"}, from : -1..MaxLine, to : -1..MaxLine]
      BY <3>4
    <3>5. QED BY <3>1, <3>2, <3>3, <3>4 DEF Anchors
  <2>2. a.form # "other"
    BY DEF ValidAnchor
  <2>3. QED BY <2>1, <2>2
<1>2. a.from >= 1 /\ (a.form = "range" => a.to >= a.from)
  BY <1>1 DEF ValidAnchor
<1>3. QED BY <1>1, <1>2 DEF Asked

\* The answer is the one of what is asked and of the file, or there is none yet.
PreviewInv ==
  /\ uri.leads \in Leads /\ uri.anchor \in Anchors /\ file \in Seq(Bytes)
  /\ preview = Unanswered \/ preview = Previewed(uri.leads, uri.anchor, file)

\* What an answer says of the lines from one to another.
Shows(n, ls, from, to) ==
  /\ preview.result = "ok" /\ uri.leads = "file"
  /\ from \in Nat \ {0} /\ to \in 0..Len(ls) /\ from <= to
  /\ preview.start = from /\ preview.end = to /\ preview.lines = SubSeq(ls, from, to)
  /\ preview.total = Len(ls)
  /\ preview.truncated <=> n < Len(file)
  /\ preview.newline => file[Len(file)] = "lf"
Refuses == /\ preview.result # "ok" /\ preview.start = 0 /\ preview.end = 0 /\ preview.total = 0
AsksMore(ls) == Asked(uri.anchor)[2] \in Nat /\ Asked(uri.anchor)[2] > Len(ls)

\* An answer of lines.
LEMMA ShownIs ==
  ASSUME file \in Seq(Bytes), uri.leads = "file", NEW n, n = Len(Prefix(file)),
         NEW ls, ls = SplitLines(Prefix(file)), Len(ls) \in Nat,
         NEW from \in Nat \ {0}, NEW to \in 0..Len(ls), from <= to,
         preview = Shown(Prefix(file), from, to, Len(file) > MaxFileBytes)
  PROVE  Shows(n, ls, from, to)
<1>1. /\ preview.result = "ok" /\ preview.start = from /\ preview.end = to
      /\ preview.lines = SubSeq(ls, from, to) /\ preview.total = Len(ls)
      /\ preview.truncated = (Len(file) > MaxFileBytes)
      /\ preview.newline = (/\ ~(Len(file) > MaxFileBytes) /\ from = 1 /\ to = Len(ls)
                            /\ Prefix(file) # << >> /\ Last(Prefix(file)) = "lf")
  BY Zenon DEF Shown
<1>2. PICK m \in 0..Len(file) :
        /\ Len(Prefix(file)) = m /\ (m < Len(file) <=> Len(file) > MaxFileBytes)
        /\ m = Len(file) => Prefix(file) = file
  BY PrefixIs
<1>3. n < Len(file) <=> Len(file) > MaxFileBytes
  BY <1>2
<1>4. preview.newline => file[Len(file)] = "lf"
  <2> SUFFICES ASSUME preview.newline PROVE file[Len(file)] = "lf"
    OBVIOUS
  <2>1. ~(Len(file) > MaxFileBytes) /\ Last(Prefix(file)) = "lf"
    BY <1>1
  <2>2. m = Len(file)
    BY <1>2, <2>1
  <2>3. QED BY <1>2, <2>1, <2>2 DEF Last
<1>5. QED BY <1>1, <1>3, <1>4 DEF Shows

\* The answers there are.
LEMMA AnswerIs ==
  ASSUME PreviewInv, preview # Unanswered, NEW n, n = Len(Prefix(file)),
         NEW ls, ls = SplitLines(Prefix(file)), Len(ls) \in Nat \ {0}
  PROVE  \/ uri.anchor.form = "none" /\ Shows(n, ls, 1, Len(ls))
         \/ /\ uri.anchor.form # "none" /\ ValidAnchor(uri.anchor)
            /\ Shows(n, ls, Asked(uri.anchor)[1], Asked(uri.anchor)[2])
         \/ Refuses /\ uri.anchor.form # "none" /\ AsksMore(ls)
         \/ Refuses /\ preview.result \in {"binary", "too many"}
         \/ Refuses /\ (uri.leads # "file" \/ ~ValidAnchor(uri.anchor))
<1> DEFINE raw == Prefix(file)
           asked == Asked(uri.anchor)
           a == uri.anchor
<1>1. /\ a \in Anchors /\ uri.leads \in Leads /\ file \in Seq(Bytes)
      /\ preview = Previewed(uri.leads, a, file)
  BY DEF PreviewInv
<1>2. ASSUME NEW why, preview = Refusal(why), why # "ok" PROVE Refuses /\ preview.result = why
  BY <1>2 DEF Refusal, Unanswered, Refuses
<1>3. CASE uri.leads = "empty" \/ (ValidAnchor(a) /\ uri.leads # "file")
  <2>1. preview = Refusal(uri.leads) /\ uri.leads # "ok" /\ uri.leads # "file"
    BY <1>1, <1>3 DEF Previewed, Leads
  <2>2. QED BY <1>2, <2>1
<1> DEFINE Leads1 == ~(uri.leads = "empty" \/ (ValidAnchor(a) /\ uri.leads # "file"))
<1>4. CASE Leads1 /\ ~ValidAnchor(a)
  <2>1. preview = Refusal("anchor")
    BY <1>1, <1>4, Zenon DEF Previewed
  <2>2. QED BY <1>2, <1>4, <2>1
<1>5. CASE Leads1 /\ ValidAnchor(a) /\ Binary(raw)
  <2>1. preview = Refusal("binary")
    BY <1>1, <1>5, Zenon DEF Previewed
  <2>2. QED BY <1>2, <2>1
<1>6. CASE Leads1 /\ ValidAnchor(a) /\ ~Binary(raw) /\ a.form = "none"
  <2>1. preview = Shown(raw, 1, Len(ls), Len(file) > MaxFileBytes)
    BY <1>1, <1>6, Zenon DEF Previewed
  <2>2. uri.leads = "file"
    BY <1>6
  <2>3. Shows(n, ls, 1, Len(ls))
    BY <1>1, <2>1, <2>2, ShownIs
  <2>4. QED BY <1>6, <2>3
<1>7. CASE Leads1 /\ ValidAnchor(a) /\ ~Binary(raw) /\ a.form # "none"
  <2>1. /\ asked[1] \in Nat \ {0} /\ asked[2] \in Nat /\ asked[1] <= asked[2]
        /\ uri.leads = "file"
    BY <1>1, <1>7, AskedIs
  <2>2. preview = IF asked[2] - asked[1] + 1 > MaxLineRange THEN Refusal("too many")
                  ELSE IF asked[2] > Len(ls) THEN Refusal("beyond")
                  ELSE Shown(raw, asked[1], asked[2], Len(file) > MaxFileBytes)
    BY <1>1, <1>7, Zenon DEF Previewed
  <2> HIDE DEF asked, raw
  <2>3. CASE asked[2] - asked[1] + 1 > MaxLineRange
    BY <1>2, <2>2, <2>3
  <2>4. CASE ~(asked[2] - asked[1] + 1 > MaxLineRange) /\ asked[2] > Len(ls)
    <3>1. preview = Refusal("beyond")
      BY <2>2, <2>4
    <3>2. QED BY <1>2, <1>7, <2>1, <2>4, <3>1 DEF AsksMore, asked
  <2>5. CASE ~(asked[2] - asked[1] + 1 > MaxLineRange) /\ ~(asked[2] > Len(ls))
    <3>1. preview = Shown(raw, asked[1], asked[2], Len(file) > MaxFileBytes)
      BY <2>2, <2>5
    <3>2. asked[2] \in 0..Len(ls)
      BY <2>1, <2>5
    <3>3. Shows(n, ls, asked[1], asked[2])
      BY <1>1, <2>1, <3>1, <3>2, ShownIs DEF raw
    <3>4. QED BY <1>7, <3>3 DEF asked
  <2>6. QED BY <2>3, <2>4, <2>5
<1>8. QED BY <1>3, <1>4, <1>5, <1>6, <1>7

LEMMA InitPreviewInv == PreviewInit => PreviewInv
<1> SUFFICES ASSUME PreviewInit PROVE PreviewInv
  OBVIOUS
<1>1. uri.leads \in Leads /\ uri.anchor \in Anchors /\ preview = Unanswered
  BY DEF PreviewInit
<1>2. file \in Seq(Bytes)
  <2>1. PICK n \in 0..MaxBytes : file \in [1..n -> Bytes]
    BY DEF PreviewInit
  <2>2. n \in Nat
    BY PreviewAssumption
  <2>3. QED BY <2>1, <2>2
<1>3. QED BY <1>1, <1>2 DEF PreviewInv

LEMMA StepPreviewInv == PreviewInv /\ [PreviewNext]_previewVars => PreviewInv'
<1> SUFFICES ASSUME PreviewInv, PreviewNext \/ UNCHANGED previewVars PROVE PreviewInv'
  OBVIOUS
<1>1. CASE Resolve
  BY <1>1 DEF Resolve, PreviewInv
<1>2. CASE UNCHANGED previewVars
  BY <1>2 DEF previewVars, PreviewInv
<1>3. QED BY <1>1, <1>2 DEF PreviewNext

\* What is asked for of a file without an anchor is all of it.
WantedOf(n) == IF uri.anchor.form = "none" THEN << 1, Cardinality(Begins(n)) >> ELSE Asked(uri.anchor)
LineOf(n, k, l) == \/ l = WithoutCR(NthLine(n, k))
                   \/ l = NthLine(n, k) /\ k = Cardinality(Begins(n))
Faithful(n, from, to) ==
  /\ preview.result = "ok" =>
       /\ uri.leads = "file" /\ << preview.start, preview.end >> = << from, to >>
       /\ Len(preview.lines) = to - from + 1
       /\ \A i \in DOMAIN preview.lines : LineOf(n, from + i - 1, preview.lines[i])
       /\ preview.total = Cardinality(Begins(n))
       /\ preview.truncated <=> n < Len(file)
       /\ preview.newline => file[Len(file)] = "lf"
  /\ uri.leads = "file" /\ ValidAnchor(uri.anchor)
       /\ preview.result \notin {"none", "binary", "too many"} =>
       (preview.result = "ok" <=> to <= Cardinality(Begins(n)))

LEMMA ExactIs ==
  PreviewIsExact <=> LET n == Len(Prefix(file)) IN
                     LET w == WantedOf(n) IN
  /\ preview.result = "ok" =>
       /\ uri.leads = "file" /\ << preview.start, preview.end >> = w
       /\ Len(preview.lines) = w[2] - w[1] + 1
       /\ \A i \in DOMAIN preview.lines : LineOf(n, w[1] + i - 1, preview.lines[i])
       /\ preview.total = Cardinality(Begins(n))
       /\ preview.truncated <=> n < Len(file)
       /\ preview.newline => file[Len(file)] = "lf"
  /\ uri.leads = "file" /\ ValidAnchor(uri.anchor)
       /\ preview.result \notin {"none", "binary", "too many"} =>
       (preview.result = "ok" <=> w[2] <= Cardinality(Begins(n)))
BY Zenon DEF PreviewIsExact, WantedOf, LineOf

LEMMA FaithfulIsExact ==
  ASSUME NEW n, n = Len(Prefix(file)), NEW from, NEW to, WantedOf(n) = << from, to >>,
         Faithful(n, from, to)
  PROVE  PreviewIsExact
<1>1. << from, to >>[1] = from /\ << from, to >>[2] = to
  OBVIOUS
<1>2. QED BY <1>1, ExactIs, Zenon DEF Faithful

LEMMA LinesTaken ==
  ASSUME NEW T, NEW l \in Seq(T), NEW u \in Nat \ {0}, NEW v \in 0..Len(l)
  PROVE  /\ SubSeq(l, u, v) \in Seq(T)
         /\ Len(SubSeq(l, u, v)) = IF u <= v THEN v - u + 1 ELSE 0
         /\ \A i \in 1..v - u + 1 : SubSeq(l, u, v)[i] = l[u + i - 1]
<1>1. \A i \in u..v : l[i] \in T
  OBVIOUS
<1>2. u \in Int /\ v \in Int
  OBVIOUS
<1>3. QED BY <1>1, <1>2, SubSeqProperties

LEMMA ShowsIsFaithful ==
  ASSUME NEW n, NEW ls, Exact(n, ls), NEW from, NEW to, Shows(n, ls, from, to)
  PROVE  Faithful(n, from, to)
<1>1. /\ ls \in Seq(Seq(Bytes)) /\ from \in Nat \ {0} /\ to \in 0..Len(ls) /\ from <= to
      /\ preview.lines = SubSeq(ls, from, to) /\ Cardinality(Begins(n)) = Len(ls)
  BY DEF Exact, Shows
<1> DEFINE s == SubSeq(ls, from, to)
<1>2. Len(s) = to - from + 1 /\ DOMAIN s = 1..to - from + 1
      /\ \A i \in 1..to - from + 1 : s[i] = ls[from + i - 1]
  <2>1. /\ s \in Seq(Seq(Bytes))
        /\ Len(s) = IF from <= to THEN to - from + 1 ELSE 0
        /\ \A i \in 1..to - from + 1 : s[i] = ls[from + i - 1]
    BY <1>1, LinesTaken
  <2> HIDE DEF s
  <2>2. QED BY <1>1, <2>1
<1> HIDE DEF s
<1>3. ASSUME NEW i \in 1..to - from + 1 PROVE LineOf(n, from + i - 1, s[i])
  <2>1. from + i - 1 \in 1..Len(ls)
    BY <1>1
  <2>2. s[i] = ls[from + i - 1]
    BY <1>2
  <2>3. LineOf(n, from + i - 1, ls[from + i - 1])
    BY <2>1, ExactLine DEF LineOf
  <2>4. QED BY <2>2, <2>3
<1>4. preview.lines = s
  BY <1>1 DEF s
<1>5. to <= Cardinality(Begins(n))
  BY <1>1
<1>6. QED BY <1>1, <1>2, <1>3, <1>4, <1>5 DEF Faithful, Shows

LEMMA RefusedIsFaithful ==
  ASSUME NEW n, NEW ls, Exact(n, ls), NEW from, NEW to, Refuses,
         \/ preview.result \in {"none", "binary", "too many"}
         \/ uri.leads # "file" \/ ~ValidAnchor(uri.anchor)
         \/ ~(to <= Len(ls))
  PROVE  Faithful(n, from, to)
BY DEF Faithful, Refuses, Exact

LEMMA PreviewInvIsExact == PreviewInv => PreviewIsExact
<1> SUFFICES ASSUME PreviewInv PROVE PreviewIsExact
  OBVIOUS
<1>1. PICK n, ls : n = Len(Prefix(file)) /\ ls = SplitLines(Prefix(file))
  OBVIOUS
<1>2. Exact(n, ls) /\ Len(ls) \in Nat \ {0} /\ Cardinality(Begins(n)) = Len(ls)
  <2>1. Exact(n, ls)
    BY <1>1, SplitIsExact DEF PreviewInv
  <2>2. QED BY <2>1 DEF Exact
<1>3. PICK from, to : WantedOf(n) = << from, to >>
  BY DEF WantedOf, Asked
<1>4. SUFFICES Faithful(n, from, to)
  BY <1>1, <1>3, FaithfulIsExact
<1>5. uri.anchor.form = "none" => from = 1 /\ to = Len(ls)
  BY <1>2, <1>3 DEF WantedOf
<1>6. uri.anchor.form # "none" => from = Asked(uri.anchor)[1] /\ to = Asked(uri.anchor)[2]
  BY <1>3 DEF WantedOf
<1>7. CASE preview = Unanswered
  <2>1. Refuses /\ preview.result = "none"
    BY <1>7 DEF Refuses, Unanswered
  <2>2. QED BY <1>2, <2>1, RefusedIsFaithful
<1>8. CASE preview # Unanswered
  <2>1. CASE uri.anchor.form = "none" /\ Shows(n, ls, 1, Len(ls))
    BY <1>2, <1>5, <2>1, ShowsIsFaithful
  <2>2. CASE uri.anchor.form # "none" /\ Shows(n, ls, Asked(uri.anchor)[1], Asked(uri.anchor)[2])
    BY <1>2, <1>6, <2>2, ShowsIsFaithful
  <2>3. CASE Refuses /\ uri.anchor.form # "none" /\ AsksMore(ls)
    <3>1. to > Len(ls) /\ to \in Int
      BY <1>6, <2>3 DEF AsksMore
    <3>2. ~(to <= Len(ls))
      BY <1>2, <3>1
    <3>3. QED BY <1>2, <2>3, <3>2, RefusedIsFaithful
  <2>4. CASE Refuses /\ preview.result \in {"binary", "too many"}
    BY <1>2, <2>4, RefusedIsFaithful
  <2>5. CASE Refuses /\ (uri.leads # "file" \/ ~ValidAnchor(uri.anchor))
    BY <1>2, <2>5, RefusedIsFaithful
  <2>6. QED BY <1>1, <1>2, <1>8, <2>1, <2>2, <2>3, <2>4, <2>5, AnswerIs
<1>9. QED BY <1>7, <1>8

LEMMA PreviewInvIsTyped == PreviewInv => PreviewTypeOK
<1> SUFFICES ASSUME PreviewInv PROVE PreviewTypeOK
  OBVIOUS
<1>1. PICK n, ls : n = Len(Prefix(file)) /\ ls = SplitLines(Prefix(file))
  OBVIOUS
<1>2. Len(ls) \in Nat \ {0}
  <2>1. Exact(n, ls)
    BY <1>1, SplitIsExact DEF PreviewInv
  <2>2. QED BY <2>1 DEF Exact
<1>3. CASE preview = Unanswered
  BY <1>3 DEF PreviewInv, PreviewTypeOK, Unanswered
<1>4. ASSUME NEW from, NEW to, Shows(n, ls, from, to) PROVE PreviewTypeOK
  BY <1>2, <1>4 DEF PreviewInv, PreviewTypeOK, Shows
<1>5. CASE Refuses
  BY <1>5 DEF PreviewInv, PreviewTypeOK, Refuses
<1>6. QED BY <1>1, <1>2, <1>3, <1>4, <1>5, AnswerIs

\* Every answer is the one of what is asked and of the file.
THEOREM PreviewInductive == PreviewSpec => []PreviewInv
BY InitPreviewInv, StepPreviewInv, PTL DEF PreviewSpec

\* Typing of the previews.
THEOREM PreviewTyped == PreviewSpec => []PreviewTypeOK
BY PreviewInductive, PreviewInvIsTyped, PTL

\* What is shown of code is the lines that were asked for, each as it is in the file.
THEOREM PreviewExact == PreviewSpec => []PreviewIsExact
BY PreviewInductive, PreviewInvIsExact, PTL

-----------------------------------------------------------------------------
(***************************************************************************)
(* The whole.                                                              *)
(***************************************************************************)

LEMMA InitOfParts ==
  Init => /\ CatalogInit /\ SecretsInit /\ ServiceInit
          /\ IndexInit /\ DiffInit /\ PreviewInit
BY DEF Init

LEMMA StepOfParts ==
  [Next]_upkeepVars => /\ [CatalogNext]_catalogVars
                       /\ [SecretsNext]_secretVars
                       /\ [ServiceNext]_serviceVars
                       /\ [IndexNext]_indexVars
                       /\ [DiffNext]_diffVars
                       /\ [PreviewNext]_previewVars
<1> SUFFICES ASSUME [Next]_upkeepVars
             PROVE  /\ CatalogNext \/ UNCHANGED catalogVars
                    /\ SecretsNext \/ UNCHANGED secretVars
                    /\ ServiceNext \/ UNCHANGED serviceVars
                    /\ IndexNext \/ UNCHANGED indexVars
                    /\ DiffNext \/ UNCHANGED diffVars
                    /\ PreviewNext \/ UNCHANGED previewVars
  OBVIOUS
<1>1. CASE FollowHistory \/ FollowPreview \/ FollowIndex
  BY <1>1 DEF FollowHistory, FollowPreview, FollowIndex
<1>2. CASE FollowCatalog \/ FollowSecrets \/ FollowService
  BY <1>2 DEF FollowCatalog, FollowSecrets, FollowService
<1>3. CASE UNCHANGED upkeepVars
  BY <1>3 DEF upkeepVars
<1>4. QED BY <1>1, <1>2, <1>3 DEF Next

\* A behaviour of the whole is one of each of the six parts.
THEOREM BehavesAsParts ==
  Spec => /\ CatalogSpec /\ SecretsSpec /\ ServiceSpec
          /\ IndexSpec /\ DiffSpec /\ PreviewSpec
BY InitOfParts, StepOfParts, PTL
   DEF Spec, CatalogSpec, SecretsSpec, ServiceSpec, IndexSpec, DiffSpec, PreviewSpec

\* What is registered is there, what is acted on was shown, what was stored is kept, the
\* service is as it was told, the index agrees with the documents, and of a file is shown
\* what it holds.
THEOREM UpkeepSafe ==
  Spec => [](/\ RegisteredIsThere /\ ActsOnWhatItShowed
             /\ SecretsKept /\ ServiceIsAsTold /\ IndexIsSound /\ ShownIsExact)
<1>1. ScriptIsShortest /\ ReportIsComplete /\ PreviewIsExact => ShownIsExact
  BY DEF ShownIsExact
<1>2. QED BY <1>1, BehavesAsParts, Registered, ActsOnShown, NothingIsLost, ServiceTold,
             IndexSound, ShortestScript, CompleteReport, PreviewExact, PTL

FollowedOK == followed \in Parts
WalkOK == walk = NoWalk \/ walk \subseteq DocIds

\* Every part of every behaviour stays within its types.
THEOREM UpkeepTyped == Spec => []TypeOK
<1>1. Init => FollowedOK
  BY DEF Init, FollowedOK
<1>2. FollowedOK /\ [Next]_upkeepVars => FollowedOK'
  BY DEF FollowedOK, Next, upkeepVars, FollowHistory, FollowPreview, FollowIndex,
         FollowCatalog, FollowSecrets, FollowService
<1>3. Spec => []FollowedOK
  BY <1>1, <1>2, PTL DEF Spec
<1>4. IndexInit => WalkOK
  BY DEF IndexInit, WalkOK
<1>5. WalkOK /\ [IndexNext]_indexVars => WalkOK'
  BY TreesAssumption
     DEF WalkOK, IndexNext, indexVars, ReadSchemaVersion, ApplyMigration, KilledOpening,
         SaveRefs, DeleteRefs, DeleteDoc, UpsertDoc, ReindexDoc, Reindex, ReindexEnds
<1>6. IndexSpec => []WalkOK
  BY <1>4, <1>5, PTL DEF IndexSpec
<1>7. /\ IndexInv /\ WalkOK => IndexTypeOK
      /\ CatalogInv => CatalogTypeOK
      /\ SecretsInv => SecretsTypeOK
      /\ ServiceInv => ServiceTypeOK
  <2>1. IndexInv /\ WalkOK => IndexTypeOK
    BY DEF IndexInv, SchemaInv, TablesInv, WalkOK, IndexTypeOK
  <2>2. CatalogInv => CatalogTypeOK
    BY DEF CatalogInv
  <2>3. SecretsInv => SecretsTypeOK
    BY DEF SecretsInv
  <2>4. ServiceInv => ServiceTypeOK
    BY DEF ServiceInv
  <2>5. QED BY <2>1, <2>2, <2>3, <2>4
<1>8. /\ DiffTypeOK /\ PreviewTypeOK /\ FollowedOK
      /\ IndexTypeOK /\ CatalogTypeOK /\ SecretsTypeOK /\ ServiceTypeOK
      => TypeOK
  BY DEF TypeOK, FollowedOK
<1>9. QED BY <1>3, <1>6, <1>7, <1>8, BehavesAsParts, DiffTyped, PreviewTyped, IndexInductive,
             CatalogInductive, SecretsInductive, ServiceInductive, PTL

-----------------------------------------------------------------------------
(***************************************************************************)
(* The lists of projects, for every number of scans and requests.          *)
(***************************************************************************)

JobsSpec == JobsInit /\ [][JobsNext]_jobVars

\* What a request must show is registered still when it comes to merge the registry.
JobsInv ==
  /\ JobsTypeOK
  /\ \A l \in ListIds : /\ listing[l].at = "merge" => listing[l].due \subseteq registered
                        /\ listing[l].at = "done" => listing[l].due \subseteq listing[l].out

LEMMA InitJobsInv == JobsInit => JobsInv
BY JobsAssumption DEF JobsInit, JobsInv, JobsTypeOK, JobStatus

LEMMA ScanStep ==
  ASSUME JobsInv, NEW s \in ScanIds, StartScan(s) \/ WalkWorkspace(s) \/ FinishScan(s)
  PROVE  JobsInv'
<1> USE DEF JobsInv, JobsTypeOK, JobStatus
<1>1. UNCHANGED << repos, registered, outdated, listing, gen >>
  BY DEF StartScan, WalkWorkspace, FinishScan
<1>2. /\ scan' \in [ScanIds -> [status : JobStatus, found : SUBSET Projects]]
      /\ lastDone' \in ScanIds \cup {NoScan}
      /\ lastDone' # NoScan => scan'[lastDone'].status = "done"
  <2>1. CASE StartScan(s)
    BY <2>1 DEF StartScan
  <2>2. CASE WalkWorkspace(s)
    BY <2>2 DEF WalkWorkspace
  <2>3. CASE FinishScan(s)
    BY <2>3 DEF FinishScan
  <2>4. QED BY <2>1, <2>2, <2>3
<1>3. QED BY <1>1, <1>2

LEMMA ProjectsStep ==
  ASSUME JobsInv, NEW p \in Projects, AddProject(p) \/ ChangeRepos(p)
  PROVE  JobsInv'
<1>1. CASE AddProject(p)
  BY <1>1, JobsAssumption DEF JobsInv, JobsTypeOK, AddProject, InvalidateCache
<1>2. CASE ChangeRepos(p)
  BY <1>2 DEF JobsInv, JobsTypeOK, ChangeRepos
<1>3. QED BY <1>1, <1>2

LEMMA ListingStep ==
  ASSUME JobsInv, NEW l \in ListIds, ListScanned(l) \/ ScanSummary(l) \/ MergeRegistered(l)
  PROVE  JobsInv'
<1> USE DEF JobsInv, JobsTypeOK
<1>1. (IF lastDone = NoScan THEN repos ELSE scan[lastDone].found) \subseteq Projects
  OBVIOUS
<1>2. UNCHANGED << repos, registered, scan, lastDone, outdated, gen >>
  BY DEF ListScanned, ScanSummary, MergeRegistered
<1>3. CASE ListScanned(l)
  BY <1>1, <1>2, <1>3 DEF ListScanned
<1>4. CASE ScanSummary(l)
  BY <1>1, <1>2, <1>4 DEF ScanSummary
<1>5. CASE MergeRegistered(l)
  <2>1. listing[l].at = "merge" /\ listing[l].due \subseteq registered
    BY <1>5 DEF MergeRegistered
  <2>2. /\ listing' = [listing EXCEPT ![l] = listing'[l]]
        /\ listing'[l] = [at |-> "done", out |-> listing[l].out \cup registered,
                          due |-> listing[l].due]
    BY <1>5 DEF MergeRegistered
  <2>3. /\ listing'[l].at = "done" /\ listing'[l].due = listing[l].due
        /\ listing'[l].out = listing[l].out \cup registered
        /\ listing'[l] \in [at : {"none", "merge", "done"},
                            out : SUBSET Projects, due : SUBSET Projects]
    BY <2>2
  <2>4. JobsTypeOK'
    BY <1>2, <2>2, <2>3
  <2>5. \A k \in ListIds \ {l} : listing'[k] = listing[k]
    BY <2>2
  <2>6. QED BY <1>2, <2>1, <2>3, <2>4, <2>5
<1>6. QED BY <1>3, <1>4, <1>5

LEMMA GenStep ==
  ASSUME JobsInv, NEW g \in GenIds,
         \/ Submit(g) \/ Acquire(g) \/ Fork(g) \/ ChildEnds(g) \/ OrphanEnds(g) \/ Return(g)
  PROVE  JobsInv'
<1> USE DEF JobsInv, JobsTypeOK, JobStatus
<1>1. UNCHANGED scanVars
  BY DEF Submit, Acquire, Fork, ChildEnds, OrphanEnds, Return
<1>2. gen' \in [GenIds -> [status : JobStatus, child : BOOLEAN, pipe : BOOLEAN]]
  <2>1. CASE Submit(g)
    BY <2>1 DEF Submit
  <2>6. CASE Acquire(g)
    <3>1. gen' = [gen EXCEPT ![g] = [status |-> "running", child |-> TRUE, pipe |-> FALSE]]
      BY <2>6 DEF Acquire
    <3>2. QED BY <3>1
  <2>2. CASE Fork(g)
    BY <2>2 DEF Fork
  <2>3. CASE ChildEnds(g)
    BY <2>3 DEF ChildEnds
  <2>7. CASE OrphanEnds(g)
    BY <2>7 DEF OrphanEnds
  <2>4. CASE Return(g)
    BY <2>4 DEF Return
  <2>5. QED BY <2>1, <2>2, <2>3, <2>4, <2>6, <2>7
<1>3. QED BY <1>1, <1>2 DEF scanVars

LEMMA StepJobsInv == JobsInv /\ [JobsNext]_jobVars => JobsInv'
<1> SUFFICES ASSUME JobsInv, JobsNext \/ UNCHANGED jobVars PROVE JobsInv'
  OBVIOUS
<1>1. CASE UNCHANGED jobVars
  BY <1>1 DEF JobsInv, JobsTypeOK, jobVars, scanVars
<1>2. CASE JobsNext
  BY <1>2, ScanStep, ProjectsStep, ListingStep, GenStep DEF JobsNext
<1>3. QED BY <1>1, <1>2

\* The inductive invariant of the jobs.
THEOREM JobsInductive == JobsSpec => []JobsInv
BY InitJobsInv, StepJobsInv, PTL DEF JobsSpec

\* Every registered project is in the answer.
THEOREM ListsAreComplete == JobsSpec => []RegisteredListed
<1>1. JobsInv => RegisteredListed
  BY DEF JobsInv, RegisteredListed
<1>2. QED BY <1>1, JobsInductive, PTL

-----------------------------------------------------------------------------
(***************************************************************************)
(* The voice pipeline, for every number of requests and capacity of the    *)
(* channel.                                                                *)
(***************************************************************************)

VoiceSpec == VoiceInit /\ [][VoiceNext]_voiceVars

\* While nothing was dropped and no two requests overlapped, the request under way has set the
\* flag; without one, the last notification says what the flag says, and when none is left, the
\* microphone does not listen after a release.
Calling(p) == ptt.calls[p] \in {"press", "release"}
KeyInv ==
  ~lossy =>
    /\ \A p, q \in Presses : Calling(p) /\ Calling(q) => p = q
    /\ \A p \in Presses : Calling(p) => ptt.active = (ptt.calls[p] = "press")
    /\ (\A p \in Presses : ~Calling(p)) =>
         IF ptt.queue = << >> THEN mic.listening => ptt.active
                              ELSE ptt.queue[Len(ptt.queue)] = ptt.active

VoiceInv == VoiceTypeOK /\ KeyInv

LEMMA InitVoiceInv == VoiceInit => VoiceInv
<1> SUFFICES ASSUME VoiceInit PROVE VoiceInv
  OBVIOUS
<1>1. /\ ptt \in [active : BOOLEAN, queue : Seq(BOOLEAN),
                  calls : [Presses -> {"none", "press", "release", "done"}]]
      /\ ptt.queue = << >> /\ Len(ptt.queue) <= PttCap
  BY VoiceAssumption DEF VoiceInit
<1>2. VoiceTypeOK
  BY <1>1 DEF VoiceInit, VoiceTypeOK, VoiceStates
<1>3. KeyInv
  BY DEF VoiceInit, KeyInv, Calling
<1>4. QED BY <1>2, <1>3 DEF VoiceInv

LEMMA SetActiveStep ==
  ASSUME VoiceInv, NEW p \in Presses, NEW key \in {"press", "release"}, SetActive(p, key)
  PROVE  VoiceInv'
<1>1. /\ ptt' = [ptt EXCEPT !.active = (key = "press"), !.calls[p] = key]
      /\ ptt.calls[p] = "none"
      /\ lossy' = (lossy \/ \E q \in Presses : Calling(q))
      /\ UNCHANGED << pipeline, source, loop, mic, status, stopping >>
  BY DEF SetActive, Calling
<1>2. ptt \in [active : BOOLEAN, queue : Seq(BOOLEAN),
              calls : [Presses -> {"none", "press", "release", "done"}]]
  BY DEF VoiceInv, VoiceTypeOK
<1>3. /\ ptt'.active = (key = "press") /\ ptt'.queue = ptt.queue
      /\ ptt'.calls = [ptt.calls EXCEPT ![p] = key]
  BY <1>1, <1>2
<1>7. ptt'.calls \in [Presses -> {"none", "press", "release", "done"}]
  BY <1>2, <1>3
<1>8. ptt' \in [active : BOOLEAN, queue : Seq(BOOLEAN),
              calls : [Presses -> {"none", "press", "release", "done"}]]
  BY <1>1, <1>2, <1>3, <1>7
<1>9. lossy' \in BOOLEAN
  BY <1>1
<1>4. VoiceTypeOK'
  BY <1>1, <1>2, <1>3, <1>8, <1>9 DEF VoiceInv, VoiceTypeOK
<1>5. KeyInv'
  <2>1. SUFFICES ASSUME ~lossy' PROVE KeyInv'
    BY DEF KeyInv
  <2>2. ~lossy /\ \A q \in Presses : ~Calling(q)
    BY <1>1, <2>1
  <2>3. /\ Calling(p)'
        /\ \A q \in Presses : q # p => ~Calling(q)'
    BY <1>2, <1>3, <2>2 DEF Calling
  <2>4. ptt'.calls[p] = key
    BY <1>2, <1>3
  <2>5. QED BY <1>3, <2>3, <2>4 DEF KeyInv
<1>6. QED BY <1>4, <1>5 DEF VoiceInv

LEMMA NotifyStep ==
  ASSUME VoiceInv, NEW p \in Presses, Notify(p)
  PROVE  VoiceInv'
<1> DEFINE room == Len(ptt.queue) < PttCap
           pressed == ptt.calls[p] = "press"
<1>1. /\ ptt' = [ptt EXCEPT !.calls[p] = "done",
                   !.queue = IF room THEN Append(@, pressed) ELSE @]
      /\ Calling(p)
      /\ lossy' = (lossy \/ ~room)
      /\ UNCHANGED << pipeline, source, loop, mic, status, stopping >>
  BY DEF Notify, Calling
<1>2. /\ ptt \in [active : BOOLEAN, queue : Seq(BOOLEAN),
                 calls : [Presses -> {"none", "press", "release", "done"}]]
      /\ Len(ptt.queue) <= PttCap
  BY DEF VoiceInv, VoiceTypeOK
<1>3. /\ ptt'.active = ptt.active
      /\ ptt'.queue = IF room THEN Append(ptt.queue, pressed) ELSE ptt.queue
      /\ ptt'.calls = [ptt.calls EXCEPT ![p] = "done"]
  BY <1>1, <1>2
<1> HIDE DEF pressed
<1>9. pressed \in BOOLEAN
  BY DEF pressed
<1>4. /\ ptt'.queue \in Seq(BOOLEAN) /\ Len(ptt'.queue) <= PttCap
      /\ room => /\ ptt'.queue # << >>
                 /\ ptt'.queue[Len(ptt'.queue)] = pressed
  <2>1. ptt.queue \in Seq(BOOLEAN) /\ PttCap \in Nat
    BY <1>2, VoiceAssumption
  <2>2. CASE room
    <3>1. ptt'.queue = Append(ptt.queue, pressed)
      BY <1>3, <2>2
    <3>2. QED BY <1>9, <2>1, <2>2, <3>1
  <2>3. CASE ~room
    BY <1>2, <1>3, <2>1, <2>3
  <2>4. QED BY <2>2, <2>3
<1>10. ptt'.calls \in [Presses -> {"none", "press", "release", "done"}]
  BY <1>2, <1>3
<1>11. ptt' \in [active : BOOLEAN, queue : Seq(BOOLEAN),
              calls : [Presses -> {"none", "press", "release", "done"}]]
  BY <1>1, <1>2, <1>3, <1>4, <1>10
<1>12. lossy' \in BOOLEAN
  BY <1>1
<1>5. VoiceTypeOK'
  BY <1>1, <1>4, <1>11, <1>12 DEF VoiceInv, VoiceTypeOK
<1>6. KeyInv'
  <2>1. SUFFICES ASSUME ~lossy' PROVE KeyInv'
    BY DEF KeyInv
  <2>2. ~lossy /\ room
    BY <1>1, <2>1
  <2>3. /\ \A q \in Presses : Calling(q) => q = p
        /\ ptt.active = pressed
    BY <1>1, <2>2 DEF VoiceInv, KeyInv, pressed
  <2>4. \A q \in Presses : ~Calling(q)'
    BY <1>2, <1>3, <2>3 DEF Calling
  <2>5. QED BY <1>3, <1>4, <2>2, <2>3, <2>4 DEF KeyInv
<1>7. QED BY <1>5, <1>6 DEF VoiceInv

LEMMA ReceivePttStep ==
  ASSUME VoiceInv, ReceivePtt
  PROVE  VoiceInv'
<1>1. /\ ptt' = [ptt EXCEPT !.queue = Tail(@)] /\ ptt.queue # << >>
      /\ UNCHANGED << pipeline, source, stopping, lossy >>
  BY DEF ReceivePtt
<1>2. /\ ptt \in [active : BOOLEAN, queue : Seq(BOOLEAN),
                 calls : [Presses -> {"none", "press", "release", "done"}]]
      /\ Len(ptt.queue) <= PttCap
      /\ mic \in [listening : BOOLEAN, buffered : BOOLEAN]
  BY DEF VoiceInv, VoiceTypeOK
<1>3. /\ ptt'.active = ptt.active /\ ptt'.calls = ptt.calls
      /\ ptt'.queue = Tail(ptt.queue)
  BY <1>1, <1>2
<1>4. /\ ptt'.queue \in Seq(BOOLEAN) /\ Len(ptt'.queue) <= PttCap
      /\ Head(ptt.queue) \in BOOLEAN /\ Head(ptt.queue) = ptt.queue[1]
      /\ ptt'.queue = << >> => Len(ptt.queue) = 1
      /\ ptt'.queue # << >> => ptt'.queue[Len(ptt'.queue)] = ptt.queue[Len(ptt.queue)]
  <2> DEFINE q == ptt.queue
  <2>1. q \in Seq(BOOLEAN) /\ q # << >> /\ Len(q) <= PttCap /\ PttCap \in Nat
    BY <1>1, <1>2, VoiceAssumption
  <2> HIDE DEF q
  <2>2. /\ Tail(q) \in Seq(BOOLEAN) /\ Len(Tail(q)) = Len(q) - 1 /\ Len(q) \in Nat
        /\ Len(q) >= 1 /\ Head(q) = q[1] /\ Head(q) \in BOOLEAN
    BY <2>1
  <2>3. Tail(q) # << >> => Tail(q)[Len(Tail(q))] = q[Len(q)]
    BY <2>1, <2>2
  <2>4. Tail(q) = << >> => Len(q) = 1
    <3> DEFINE t == Tail(q)
               n == Len(q)
    <3>1. Len(t) = n - 1 /\ n \in Nat
      BY <2>2
    <3> HIDE DEF t, n
    <3>2. ASSUME t = << >> PROVE n = 1
      BY <3>1, <3>2
    <3>3. QED BY <3>2 DEF t, n
  <2>5. QED BY <1>3, <2>1, <2>2, <2>3, <2>4 DEF q
<1>5. /\ mic' \in [listening : BOOLEAN, buffered : BOOLEAN]
      /\ mic'.listening = Head(ptt.queue)
  <2>1. CASE Head(ptt.queue) /\ ~mic.listening /\ mic' = Listening
    BY <1>4, <2>1 DEF Listening
  <2>2. CASE ~Head(ptt.queue) /\ mic.listening /\ mic' = NotListening
    BY <1>2, <1>4, <2>2 DEF NotListening
  <2>3. CASE Head(ptt.queue) = mic.listening /\ UNCHANGED mic
    BY <1>2, <2>3
  <2>4. QED BY <2>1, <2>2, <2>3 DEF ReceivePtt
<1>6. /\ loop' \in {"none", "select", "transcribe", "dispatch", "ended"}
      /\ status' \in VoiceStates
  BY DEF ReceivePtt, VoiceInv, VoiceTypeOK, VoiceStates
<1>7. VoiceTypeOK'
  BY <1>1, <1>2, <1>3, <1>4, <1>5, <1>6 DEF VoiceInv, VoiceTypeOK
<1>8. KeyInv'
  BY <1>1, <1>3, <1>4, <1>5 DEF VoiceInv, KeyInv, Calling
<1>9. QED BY <1>7, <1>8 DEF VoiceInv

\* What only ends listening, or leaves key, channel and microphone alone.
LEMMA QuietVoiceStep ==
  ASSUME VoiceInv, UNCHANGED << ptt, lossy >>,
         mic' \in [listening : BOOLEAN, buffered : BOOLEAN],
         mic'.listening => mic.listening
  PROVE  KeyInv'
<1> SUFFICES ASSUME ~lossy' PROVE KeyInv'
  BY DEF KeyInv
<1>1. mic.listening \in BOOLEAN /\ ~lossy
  BY DEF VoiceInv, VoiceTypeOK
<1>2. QED BY <1>1 DEF VoiceInv, KeyInv, Calling

LEMMA LoopStep ==
  ASSUME VoiceInv, HearChunk \/ AutoRelease \/ Transcribe \/ Dispatch \/ EndLoop
  PROVE  VoiceInv'
<1>1. UNCHANGED << pipeline, source, ptt, stopping, lossy >>
  BY DEF HearChunk, AutoRelease, Transcribe, Dispatch, EndLoop
<1>2. mic \in [listening : BOOLEAN, buffered : BOOLEAN]
  BY DEF VoiceInv, VoiceTypeOK
<1>3. /\ mic' \in [listening : BOOLEAN, buffered : BOOLEAN]
      /\ mic'.listening => mic.listening
  <2>1. CASE HearChunk
    BY <1>2, <2>1 DEF HearChunk
  <2>2. CASE AutoRelease
    BY <1>2, <2>2 DEF AutoRelease, NotListening
  <2>3. CASE Transcribe
    BY <1>2, <2>3 DEF Transcribe
  <2>4. CASE Dispatch \/ EndLoop
    BY <1>2, <2>4 DEF Dispatch, EndLoop
  <2>5. QED BY <2>1, <2>2, <2>3, <2>4
<1>4. /\ loop' \in {"none", "select", "transcribe", "dispatch", "ended"}
      /\ status' \in VoiceStates
  BY DEF HearChunk, AutoRelease, Transcribe, Dispatch, EndLoop, VoiceInv, VoiceTypeOK,
         VoiceStates
<1>5. VoiceTypeOK'
  BY <1>1, <1>3, <1>4 DEF VoiceInv, VoiceTypeOK
<1>6. QED BY <1>1, <1>3, <1>5, QuietVoiceStep DEF VoiceInv

LEMMA StartVoiceStep ==
  ASSUME VoiceInv, StartPipeline \/ StartSource \/ CancelRoot \/ EndSource
  PROVE  VoiceInv'
<1>1. UNCHANGED << ptt, mic, stopping, lossy >>
  BY DEF StartPipeline, StartSource, CancelRoot, EndSource
<1>2. /\ pipeline' \in [start : {"none", "source", "up", "failed"}, cancel : BOOLEAN,
                        started : BOOLEAN, cancelled : BOOLEAN,
                        stopCh : {"none", "open", "closed"}]
      /\ source' \in {"none", "running", "ended"}
      /\ loop' \in {"none", "select", "transcribe", "dispatch", "ended"}
      /\ status' \in VoiceStates
  <2> USE DEF VoiceInv, VoiceTypeOK, VoiceStates
  <2>1. CASE StartPipeline
    BY <2>1 DEF StartPipeline
  <2>2. CASE StartSource
    BY <2>2 DEF StartSource
  <2>3. CASE CancelRoot
    BY <2>3 DEF CancelRoot
  <2>4. CASE EndSource
    BY <2>4 DEF EndSource
  <2>5. QED BY <2>1, <2>2, <2>3, <2>4
<1>3. VoiceTypeOK'
  BY <1>1, <1>2 DEF VoiceInv, VoiceTypeOK
<1>4. QED BY <1>1, <1>3, QuietVoiceStep DEF VoiceInv, VoiceTypeOK

LEMMA StopVoiceStep ==
  ASSUME VoiceInv, NEW s \in Stops,
         \/ StopPipeline(s) \/ SeeStopCh(s) \/ CloseStopCh(s)
         \/ SourceStopped(s) \/ LoopStopped(s)
  PROVE  VoiceInv'
<1>1. UNCHANGED << ptt, mic, status, lossy >>
  BY DEF StopPipeline, SeeStopCh, CloseStopCh, SourceStopped, LoopStopped
<1>2. /\ pipeline' \in [start : {"none", "source", "up", "failed"}, cancel : BOOLEAN,
                        started : BOOLEAN, cancelled : BOOLEAN,
                        stopCh : {"none", "open", "closed"}]
      /\ stopping' \in [Stops -> [at : {"none", "source", "close", "wait", "done", "panicked"},
                                 started : BOOLEAN]]
      /\ source' \in {source, "ended"} /\ loop' \in {loop, "ended"}
  <2> USE DEF VoiceInv, VoiceTypeOK
  <2>1. CASE StopPipeline(s)
    BY <2>1 DEF StopPipeline
  <2>2. CASE SeeStopCh(s)
    BY <2>2 DEF SeeStopCh
  <2>3. CASE CloseStopCh(s)
    <3>1. CASE pipeline.stopCh = "open"
      BY <2>3, <3>1 DEF CloseStopCh
    <3>2. CASE stopping' = [x \in Stops |-> [stopping[x] EXCEPT !.at = "panicked"]]
      <4>1. \A x \in Stops : [stopping[x] EXCEPT !.at = "panicked"]
                           \in [at : {"panicked"}, started : BOOLEAN]
        OBVIOUS
      <4>2. QED BY <2>3, <3>2, <4>1 DEF CloseStopCh
    <3>3. QED BY <2>3, <3>1, <3>2 DEF CloseStopCh
  <2>4. CASE SourceStopped(s)
    BY <2>4 DEF SourceStopped
  <2>5. CASE LoopStopped(s)
    BY <2>5, SMTT(30) DEF LoopStopped
  <2>6. QED BY <2>1, <2>2, <2>3, <2>4, <2>5
<1>3. VoiceTypeOK'
  BY <1>1, <1>2 DEF VoiceInv, VoiceTypeOK
<1>4. QED BY <1>1, <1>3, QuietVoiceStep DEF VoiceInv, VoiceTypeOK

LEMMA StepVoiceInv == VoiceInv /\ [VoiceNext]_voiceVars => VoiceInv'
<1> SUFFICES ASSUME VoiceInv, VoiceNext \/ UNCHANGED voiceVars PROVE VoiceInv'
  OBVIOUS
<1>1. CASE UNCHANGED voiceVars
  BY <1>1 DEF VoiceInv, VoiceTypeOK, VoiceStates, KeyInv, Calling, voiceVars
<1>2. CASE VoiceNext
  <2>1. ASSUME NEW p \in Presses,
               SetActive(p, "press") \/ SetActive(p, "release") \/ Notify(p)
        PROVE  VoiceInv'
    BY <2>1, SetActiveStep, NotifyStep
  <2>2. ASSUME NEW s \in Stops,
               \/ StopPipeline(s) \/ SeeStopCh(s) \/ CloseStopCh(s)
               \/ SourceStopped(s) \/ LoopStopped(s)
        PROVE  VoiceInv'
    BY <2>2, StopVoiceStep
  <2>3. QED BY <1>2, <2>1, <2>2, ReceivePttStep, LoopStep, StartVoiceStep DEF VoiceNext, VoiceStep
<1>3. QED BY <1>1, <1>2

\* The inductive invariant of the voice pipeline.
THEOREM VoiceInductive == VoiceSpec => []VoiceInv
BY InitVoiceInv, StepVoiceInv, PTL DEF VoiceSpec

\* Nothing is heard after the last release.
THEOREM MicrophoneFollows == VoiceSpec => []MicFollowsKey
<1>1. VoiceInv => MicFollowsKey
  BY DEF VoiceInv, KeyInv, MicFollowsKey, Quiet, Calling
<1>2. QED BY <1>1, VoiceInductive, PTL

-----------------------------------------------------------------------------
(***************************************************************************)
(* The configuration panels, for every number of requests and writes.      *)
(***************************************************************************)

ConfigSpec == ConfigInit /\ [][ConfigNext]_configVars

AnyContents == UNION {FileContents(f) : f \in ConfigFiles}
SentPuts ==
  [at : {"sent", "checked"}, file : ConfigFiles,
   section : UNION {Panels[f] : f \in ConfigFiles},
   etag : AnyContents, read : AnyContents, raced : BOOLEAN, unread : BOOLEAN]

\* A request that nobody overtook since its check, of a file that could be read, has read
\* what its client was shown, which parses, and the file still holds it.
PutInv(r) ==
  put[r] \in {NoPut, AnsweredPut} \/
    /\ put[r] \in SentPuts
    /\ put[r].section \in Panels[put[r].file]
    /\ put[r].etag \in FileContents(put[r].file)
    /\ put[r].read \in FileContents(put[r].file)
    /\ put[r].at = "sent" => ~put[r].raced /\ ~put[r].unread
    /\ put[r].at = "checked" /\ ~put[r].raced /\ ~put[r].unread =>
         put[r].read = put[r].etag /\ content[put[r].file] = put[r].etag /\ Parses(put[r].file)

ConfigInv ==
  /\ DOMAIN content = ConfigFiles /\ content = [f \in ConfigFiles |-> content[f]]
  /\ \A f \in ConfigFiles : content[f] \in FileContents(f)
  /\ writes \in 0..MaxWrites
  /\ put = [r \in Puts |-> put[r]] /\ \A r \in Puts : PutInv(r)

\* A file has all of its sections, or is missing.
LEMMA ContentsShape ==
  ASSUME NEW f, NEW c \in FileContents(f)
  PROVE  /\ DOMAIN c \in {{}, Sections[f]}
         /\ \A x : Value(c, x) \in 0..MaxWrites
BY ConfigAssumption DEF FileContents, Missing, Value

\* What is written is a file, with the values it is written with.
LEMMA EncodedFits ==
  ASSUME NEW f, NEW c \in [Sections[f] -> 0..MaxWrites]
  PROVE  /\ Encoded(f, c) \in FileContents(f)
         /\ \A x \in Sections[f] : Value(Encoded(f, c), x) = c[x]
BY DEF FileContents, Encoded, Missing, Value

LEMMA FilesAre ==
  /\ "agent" \in ConfigFiles
  /\ \A f \in ConfigFiles : Panels[f] \subseteq Sections[f]
BY DEF ConfigFiles, Sections, Panels

LEMMA InitConfigInv == ConfigInit => ConfigInv
<1> SUFFICES ASSUME ConfigInit PROVE ConfigInv
  OBVIOUS
<1>1. \A f \in ConfigFiles : content[f] \in FileContents(f)
  BY DEF ConfigInit, FileContents
<1>2. \A r \in Puts : PutInv(r)
  BY DEF ConfigInit, PutInv
<1>3. QED BY <1>1, <1>2, ConfigAssumption DEF ConfigInit, ConfigInv

\* A write by anybody else leaves a request as it was, or overtaken.
LEMMA OthersOvertaken ==
  ASSUME ConfigInv, NEW f \in ConfigFiles, NEW new, NEW spared, NEW q \in Puts \ spared,
         content' = [content EXCEPT ![f] = new], new \in FileContents(f),
         put'[q] = Overtaken(f, spared)[q]
  PROVE  PutInv(q)'
<1>1. PutInv(q)
  BY DEF ConfigInv
<1>2. CASE put[q].at = "checked" /\ put[q].file = f
  <2>1. put[q] \in SentPuts
    BY <1>1, <1>2 DEF PutInv, NoPut, AnsweredPut
  <2>2. put'[q] = [put[q] EXCEPT !.raced = TRUE]
    BY <1>2 DEF Overtaken
  <2>3. /\ put'[q] \in SentPuts /\ put'[q].raced
        /\ put'[q].at = "checked" /\ put'[q].file = put[q].file
        /\ put'[q].section = put[q].section /\ put'[q].etag = put[q].etag
        /\ put'[q].read = put[q].read
    BY <1>2, <2>1, <2>2 DEF SentPuts
  <2>4. put[q] \notin {NoPut, AnsweredPut}
    BY <1>2 DEF NoPut, AnsweredPut
  <2>5. QED BY <1>1, <2>3, <2>4 DEF PutInv
<1>3. CASE ~(put[q].at = "checked" /\ put[q].file = f)
  <2>1. put'[q] = put[q]
    BY <1>3 DEF Overtaken
  <2>2. CASE put[q] \in {NoPut, AnsweredPut}
    BY <2>1, <2>2 DEF PutInv
  <2>3. CASE put[q] \notin {NoPut, AnsweredPut}
    <3>1. put[q].at = "checked" => content'[put[q].file] = content[put[q].file]
      BY <1>1, <1>3, <2>3 DEF PutInv, SentPuts, ConfigInv
    <3>2. QED BY <1>1, <2>1, <2>3, <3>1 DEF PutInv, Parses
  <2>4. QED BY <2>2, <2>3
<1>4. QED BY <1>2, <1>3

\* The files after a write.
LEMMA FileWritten ==
  ASSUME ConfigInv, NEW f \in ConfigFiles, NEW new \in FileContents(f),
         content' = [content EXCEPT ![f] = new]
  PROVE  /\ DOMAIN content' = ConfigFiles /\ content' = [g \in ConfigFiles |-> content'[g]]
         /\ \A g \in ConfigFiles : content'[g] \in FileContents(g)
BY DEF ConfigInv

LEMMA ShowStep ==
  ASSUME ConfigInv, NEW r \in Puts, Show(r)
  PROVE  ConfigInv'
<1> DEFINE SentBy(f, x, seen) ==
      put' = [put EXCEPT ![r] = [at |-> "sent", file |-> f, section |-> x, etag |-> seen,
                read |-> Missing, raced |-> FALSE, unread |-> FALSE]]
<1>0. PICK f \in ConfigFiles :
        \E x \in Panels[f], seen \in {content[f], Missing} : SentBy(f, x, seen)
  BY DEF Show
<1>1. PICK x \in Panels[f], seen \in {content[f], Missing} : SentBy(f, x, seen)
  BY <1>0
<1>2. UNCHANGED << content, writes >>
  BY DEF Show
<1>3. seen \in FileContents(f) /\ Missing \in FileContents(f)
  BY DEF ConfigInv, FileContents
<1>4. /\ put' = [q \in Puts |-> put'[q]]
      /\ put'[r] = [at |-> "sent", file |-> f, section |-> x, etag |-> seen,
                    read |-> Missing, raced |-> FALSE, unread |-> FALSE]
      /\ \A q \in Puts \ {r} : put'[q] = put[q]
  BY <1>1 DEF ConfigInv
<1>5. put'[r] \in SentPuts
  BY <1>3, <1>4 DEF SentPuts, AnyContents
<1>6. PutInv(r)'
  BY <1>3, <1>4, <1>5 DEF PutInv
<1>7. \A q \in Puts \ {r} : PutInv(q)'
  BY <1>2, <1>4 DEF ConfigInv, PutInv, Parses
<1>8. QED BY <1>2, <1>4, <1>6, <1>7 DEF ConfigInv

LEMMA CheckEtagStep ==
  ASSUME ConfigInv, NEW r \in Puts, CheckEtag(r)
  PROVE  ConfigInv'
<1>1. put[r].at = "sent" /\ UNCHANGED << content, writes >>
  BY DEF CheckEtag
<1>2. /\ put[r] \in SentPuts /\ PutInv(r)
      /\ put[r] \notin {NoPut, AnsweredPut}
      /\ put[r].file \in ConfigFiles
      /\ ~put[r].raced /\ ~put[r].unread
  BY <1>1 DEF ConfigInv, PutInv, NoPut, AnsweredPut, SentPuts
<1> DEFINE f == put[r].file
<1>3. content[f] \in FileContents(f) /\ content[f] \in AnyContents
  BY <1>2 DEF ConfigInv, AnyContents
<1>4. ASSUME NEW new, put' = [put EXCEPT ![r] = new],
             new = AnsweredPut \/ PutInv(r)'
      PROVE  ConfigInv'
  <2>1. put' = [q \in Puts |-> put'[q]] /\ \A q \in Puts \ {r} : put'[q] = put[q]
    BY <1>4 DEF ConfigInv
  <2>2. \A q \in Puts \ {r} : PutInv(q)'
    BY <1>1, <2>1 DEF ConfigInv, PutInv, Parses
  <2>3. new = AnsweredPut => PutInv(r)'
    BY <1>4 DEF ConfigInv, PutInv
  <2>4. QED BY <1>1, <1>4, <2>1, <2>2, <2>3 DEF ConfigInv
<1>5. CASE put' = [put EXCEPT ![r] = AnsweredPut]
  BY <1>4, <1>5
<1>6. CASE /\ put' = [put EXCEPT ![r].at = "checked", ![r].read = content[f]]
           /\ content[f] = put[r].etag /\ Parses(f)
  <2>1. put' = [put EXCEPT ![r] = [@ EXCEPT !.at = "checked", !.read = content[f]]]
    BY <1>2, <1>6 DEF ConfigInv, SentPuts
  <2>2. put'[r] = [put[r] EXCEPT !.at = "checked", !.read = content[f]]
    BY <2>1 DEF ConfigInv
  <2>3. /\ put'[r] \in SentPuts /\ put'[r].at = "checked" /\ put'[r].file = f
        /\ put'[r].section = put[r].section /\ put'[r].etag = put[r].etag
        /\ put'[r].read = content[f]
    BY <1>2, <1>3, <2>2 DEF SentPuts
  <2>4. PutInv(r)'
    BY <1>1, <1>2, <1>3, <1>6, <2>3 DEF PutInv, Parses
  <2>5. QED BY <1>4, <2>1, <2>4
<1>7. CASE put' = [put EXCEPT ![r].at = "checked", ![r].unread = TRUE]
  <2>1. put' = [put EXCEPT ![r] = [@ EXCEPT !.at = "checked", !.unread = TRUE]]
    BY <1>2, <1>7 DEF ConfigInv, SentPuts
  <2>2. put'[r] = [put[r] EXCEPT !.at = "checked", !.unread = TRUE]
    BY <2>1 DEF ConfigInv
  <2>3. /\ put'[r] \in SentPuts /\ put'[r].at = "checked" /\ put'[r].file = f
        /\ put'[r].section = put[r].section /\ put'[r].etag = put[r].etag
        /\ put'[r].read = put[r].read /\ put'[r].unread
    BY <1>2, <2>2 DEF SentPuts
  <2>4. PutInv(r)'
    BY <1>2, <2>3 DEF PutInv
  <2>5. QED BY <1>4, <2>1, <2>4
<1>8. QED BY <1>5, <1>6, <1>7 DEF CheckEtag

\* What a handler writes has all sections of its file.
LEMMA MergedFits ==
  ASSUME ConfigInv, NEW r \in Puts, put[r].at = "checked", writes < MaxWrites,
         NEW v \in NewValues(r)
  PROVE  /\ put[r].file \in ConfigFiles
         /\ Merged(r, v) \in [Sections[put[r].file] -> 0..MaxWrites]
<1>1. put[r].read \in FileContents(put[r].file) /\ put[r].file \in ConfigFiles
  BY DEF ConfigInv, PutInv, NoPut, AnsweredPut, SentPuts
<1>2. \A x : Value(put[r].read, x) \in 0..MaxWrites
  BY <1>1, ContentsShape
<1>3. 0 \in 0..MaxWrites /\ writes + 1 \in 0..MaxWrites
  BY ConfigAssumption DEF ConfigInv
<1>4. v \in 0..MaxWrites
  BY <1>2, <1>3 DEF NewValues
<1>5. QED BY <1>1, <1>2, <1>3, <1>4 DEF Merged

LEMMA ReplaceStep ==
  ASSUME ConfigInv, NEW r \in Puts, ReplaceFile(r)
  PROVE  ConfigInv'
<1>1. CASE put' = [put EXCEPT ![r] = AnsweredPut] /\ UNCHANGED << content, writes >>
  BY <1>1 DEF ConfigInv, PutInv, Parses
<1>2. ASSUME NEW v \in NewValues(r), writes < MaxWrites, writes' = writes + 1,
             content' = [content EXCEPT ![put[r].file] = Encoded(put[r].file, Merged(r, v))],
             put' = [Overtaken(put[r].file, {r}) EXCEPT ![r] = AnsweredPut]
      PROVE  ConfigInv'
  <2>1. put[r].at = "checked" /\ writes + 1 \in 0..MaxWrites
    BY <1>2, ConfigAssumption DEF ReplaceFile, ConfigInv
  <2>2. /\ put[r].file \in ConfigFiles
        /\ Encoded(put[r].file, Merged(r, v)) \in FileContents(put[r].file)
    BY <1>2, <2>1, MergedFits, EncodedFits
  <2>3. /\ put' = [q \in Puts |-> put'[q]] /\ put'[r] = AnsweredPut
        /\ \A q \in Puts \ {r} : put'[q] = Overtaken(put[r].file, {r})[q]
    BY <1>2 DEF Overtaken
  <2>4. \A q \in Puts \ {r} : PutInv(q)'
    BY <1>2, <2>2, <2>3, OthersOvertaken
  <2>5. PutInv(r)'
    BY <2>3 DEF PutInv
  <2>6. QED BY <1>2, <2>1, <2>2, <2>3, <2>4, <2>5, FileWritten DEF ConfigInv
<1>3. QED BY <1>1, <1>2 DEF ReplaceFile

\* A write that belongs to no request.
LEMMA OutsideWrite ==
  ASSUME ConfigInv, NEW f \in ConfigFiles, NEW new \in FileContents(f),
         content' = [content EXCEPT ![f] = new], writes' \in 0..MaxWrites,
         put' = Overtaken(f, {})
  PROVE  ConfigInv'
<1>1. put' = [q \in Puts |-> put'[q]]
  BY DEF Overtaken
<1>2. \A q \in Puts : PutInv(q)'
  BY OthersOvertaken
<1>3. QED BY <1>1, <1>2, FileWritten DEF ConfigInv

LEMMA OutsideStep ==
  ASSUME ConfigInv, CreateAgent \/ DeleteAgent \/ \E f \in ConfigFiles : ProgramWrites(f)
  PROVE  ConfigInv'
<1>1. CASE CreateAgent
  <2> DEFINE new == [x \in Sections["agent"] |-> IF x = "text" THEN writes + 1 ELSE 0]
  <2>1. writes + 1 \in 0..MaxWrites /\ 0 \in 0..MaxWrites
    BY <1>1, ConfigAssumption DEF CreateAgent, ConfigInv
  <2>2. new \in FileContents("agent")
    BY <2>1 DEF FileContents
  <2>3. /\ content' = [content EXCEPT !["agent"] = new] /\ writes' = writes + 1
        /\ put' = Overtaken("agent", {})
    BY <1>1 DEF CreateAgent
  <2> HIDE DEF new
  <2>4. QED BY <2>1, <2>2, <2>3, FilesAre, OutsideWrite
<1>2. CASE DeleteAgent
  <2>1. /\ content' = [content EXCEPT !["agent"] = Missing] /\ writes' = writes
        /\ put' = Overtaken("agent", {})
    BY <1>2 DEF DeleteAgent
  <2>2. Missing \in FileContents("agent") /\ writes \in 0..MaxWrites
    BY DEF FileContents, ConfigInv
  <2>3. QED BY <2>1, <2>2, FilesAre, OutsideWrite
<1>3. ASSUME NEW f \in ConfigFiles, ProgramWrites(f) PROVE ConfigInv'
  <2> DEFINE changed(section, v) ==
               [x \in Sections[f] |-> IF x = section THEN v ELSE Value(content[f], x)]
  <2>1. PICK section \in Sections[f], v \in {0, writes + 1} :
          content' = [content EXCEPT ![f] = Encoded(f, changed(section, v))]
    BY <1>3 DEF ProgramWrites
  <2>2. writes' = writes + 1 /\ put' = Overtaken(f, {})
    BY <1>3 DEF ProgramWrites
  <2>3. writes + 1 \in 0..MaxWrites /\ v \in 0..MaxWrites
    BY <1>3, ConfigAssumption DEF ProgramWrites, ConfigInv
  <2>4. \A x : Value(content[f], x) \in 0..MaxWrites
    BY ContentsShape DEF ConfigInv
  <2>5. changed(section, v) \in [Sections[f] -> 0..MaxWrites]
    BY <2>3, <2>4
  <2> HIDE DEF changed
  <2>6. QED BY <2>1, <2>2, <2>3, <2>5, EncodedFits, OutsideWrite
<1>4. QED BY <1>1, <1>2, <1>3

LEMMA StepConfigInv == ConfigInv /\ [ConfigNext]_configVars => ConfigInv'
<1> SUFFICES ASSUME ConfigInv, ConfigNext \/ UNCHANGED configVars PROVE ConfigInv'
  OBVIOUS
<1>1. CASE UNCHANGED configVars
  BY <1>1 DEF ConfigInv, PutInv, Parses, configVars
<1>2. CASE ConfigNext
  BY <1>2, ShowStep, CheckEtagStep, ReplaceStep, OutsideStep DEF ConfigNext
<1>3. QED BY <1>1, <1>2

\* The inductive invariant of the panels.
THEOREM ConfigInductive == ConfigSpec => []ConfigInv
BY InitConfigInv, StepConfigInv, PTL DEF ConfigSpec

\* What a request that is answered after its check has written.
KeptNow ==
  \A r \in Puts :
     put[r].at = "checked" /\ ~put[r].raced /\ ~put[r].unread /\ put'[r].at = "done" =>
     \A f \in ConfigFiles : content'[f] # content[f] =>
        /\ f = put[r].file
        /\ content[f] = put[r].etag /\ Parses(f)
        /\ \A x \in Sections[f] \ {put[r].section, "comments"} :
              Value(content'[f], x) = Value(content[f], x)

LEMMA StepKeeps == ConfigInv /\ ConfigNext => KeptNow
<1> SUFFICES ASSUME ConfigInv, ConfigNext,
                    NEW r \in Puts, put[r].at = "checked", ~put[r].raced, ~put[r].unread,
                    put'[r].at = "done",
                    NEW f \in ConfigFiles, content'[f] # content[f]
             PROVE  /\ f = put[r].file
                    /\ content[f] = put[r].etag /\ Parses(f)
                    /\ \A x \in Sections[f] \ {put[r].section, "comments"} :
                          Value(content'[f], x) = Value(content[f], x)
  BY DEF KeptNow
<1>1. put[r] \in SentPuts /\ PutInv(r)
  BY DEF ConfigInv, PutInv, NoPut, AnsweredPut
<1>2. \A g, spared : Overtaken(g, spared)[r].at = "checked"
  BY <1>1 DEF Overtaken, SentPuts
<1>3. ~CreateAgent /\ ~DeleteAgent /\ \A g \in ConfigFiles : ~ProgramWrites(g)
  BY <1>2 DEF CreateAgent, DeleteAgent, ProgramWrites
<1>4. PICK q \in Puts : Show(q) \/ CheckEtag(q) \/ ReplaceFile(q)
  BY <1>3 DEF ConfigNext
<1>5. ReplaceFile(q)
  BY <1>4 DEF Show, CheckEtag
<1>6. PICK v \in NewValues(q) :
        content' = [content EXCEPT ![put[q].file] = Encoded(put[q].file, Merged(q, v))]
  BY <1>5 DEF ReplaceFile
<1>7. /\ put' = [Overtaken(put[q].file, {q}) EXCEPT ![q] = AnsweredPut]
      /\ put[q].at = "checked" /\ writes < MaxWrites
  BY <1>5 DEF ReplaceFile
<1>8. q = r
  <2>1. q # r => put'[r] = Overtaken(put[q].file, {q})[r]
    BY <1>7 DEF Overtaken
  <2>2. QED BY <1>2, <2>1
<1>9. f = put[r].file /\ content'[f] = Encoded(f, Merged(r, v))
  BY <1>6, <1>8 DEF ConfigInv
<1>10. content[f] = put[r].etag /\ put[r].read = content[f] /\ Parses(f)
  BY <1>1, <1>9 DEF PutInv, NoPut, AnsweredPut
<1>11. \A x \in Sections[f] : Value(content'[f], x) = Merged(r, v)[x]
  BY <1>6, <1>7, <1>8, <1>9, MergedFits, EncodedFits
<1>12. \A x \in Sections[f] \ {put[r].section, "comments"} :
         Merged(r, v)[x] = Value(content[f], x)
  BY <1>9, <1>10 DEF Merged
<1>13. QED BY <1>9, <1>10, <1>11, <1>12

\* A write that nobody overtook, of a file that could be read, changes its own section and
\* the comments, of what its client was shown.
THEOREM PanelsKeepSections == ConfigSpec => SectionsKept
<1>1. ConfigInv /\ [ConfigNext]_configVars => [KeptNow]_configVars
  BY StepKeeps
<1>2. SectionsKept <=> [][KeptNow]_configVars
  BY DEF SectionsKept, KeptNow
<1>3. QED BY <1>1, <1>2, ConfigInductive, PTL DEF ConfigSpec

-----------------------------------------------------------------------------
(***************************************************************************)
(* The tasks of a project, for every finite set of tasks, distance and     *)
(* number of requests.                                                     *)
(***************************************************************************)

BoardSpec == BoardInit /\ [][BoardNext]_boardVars

\* Lists of some of the tasks, each once.
Orders == UNION {SetToSeqs(S) : S \in SUBSET Tasks}

SentCalls ==
  [at : {"insert", "list", "renumber"}, pos : Positions, list : Seq(Tasks), alone : BOOLEAN]

\* A request that runs alone is the only one under way, and the list it is about to renumber
\* is a list of the board as it is.
CallInv(c) ==
  call[c] \in IdleCalls \/
    /\ call[c] \in SentCalls
    /\ call[c].at = "renumber" => call[c].list \in Orders
    /\ call[c].alone => \A d \in Calls : call[d] \notin IdleCalls => d = c
    /\ call[c].alone /\ call[c].at = "renumber" => call[c].list \in Listings

BoardInv ==
  /\ DOMAIN pos \subseteq Tasks /\ pos = [t \in DOMAIN pos |-> pos[t]]
  /\ \A t \in DOMAIN pos : pos[t] \in Positions
  /\ call = [c \in Calls |-> call[c]] /\ \A c \in Calls : CallInv(c)

LEMMA TasksCounted == Cardinality(Tasks) \in Nat /\ One \in Nat /\ One >= 2
BY FS_CardinalityType, BoardAssumption DEF MinGap

LEMMA PositionBound ==
  ASSUME NEW i \in 1..Cardinality(Tasks)
  PROVE  One * i \in Positions
<1> DEFINE n == Cardinality(Tasks)
<1>1. n \in Nat /\ One \in Nat /\ One >= 2 /\ i \in Nat /\ 1 <= i /\ i <= n
  BY TasksCounted
<1> HIDE DEF n
<1>2. One * i \in Nat /\ One * (n + 1) \in Nat /\ One * i <= One * (n + 1)
  BY <1>1
<1>3. One * i >= 1
  BY <1>1
<1>4. QED BY <1>2, <1>3 DEF Positions, n

LEMMA OneApart ==
  ASSUME NEW i \in Nat, NEW j \in Nat, i < j
  PROVE  One * i \in Nat /\ One * j \in Nat /\ One * j - One * i >= MinGap
<1>1. One \in Nat /\ One >= MinGap
  BY BoardAssumption
<1>2. One * j = One * i + One * (j - i)
  BY <1>1
<1>3. One * (j - i) >= One
  BY <1>1
<1>4. One * i \in Nat /\ One * j \in Nat /\ One * (j - i) \in Nat
  BY <1>1
<1>5. QED BY <1>1, <1>2, <1>3, <1>4 DEF MinGap

LEMMA IndexFound ==
  ASSUME NEW l, NEW t, \E i \in DOMAIN l : l[i] = t
  PROVE  Index(l, t) \in DOMAIN l /\ l[Index(l, t)] = t
BY DEF Index

\* A listing names each of its tasks at one place.
LEMMA OrderShape ==
  ASSUME NEW S \in SUBSET Tasks, NEW l \in SetToSeqs(S)
  PROVE  /\ l \in Seq(Tasks) /\ Len(l) \in Nat /\ DOMAIN l = 1..Len(l)
         /\ Len(l) <= Cardinality(Tasks)
         /\ \A i, j \in DOMAIN l : l[i] = l[j] => i = j
         /\ \A i \in DOMAIN l : l[i] \in S
         /\ \A t \in S : \E i \in DOMAIN l : l[i] = t
<1> DEFINE n == Cardinality(S)
<1>1. IsFiniteSet(S) /\ n \in Nat /\ n <= Cardinality(Tasks)
  BY FS_Subset, FS_CardinalityType, BoardAssumption
<1>2. l \in [1..n -> S] /\ \A i, j \in 1..n : i # j => l[i] # l[j]
  BY DEF SetToSeqs
<1>3. Cardinality(1..n) = n
  BY <1>1, FS_Interval
<1>4. l \in Injection(1..n, S)
  BY <1>2 DEF Injection, IsInjective
<1>5. l \in Surjection(1..n, S)
  BY <1>1, <1>3, <1>4, FS_Injection
<1>6. \A t \in S : \E i \in 1..n : l[i] = t
  BY <1>5 DEF Surjection
<1> HIDE DEF n
<1>7. l \in Seq(Tasks) /\ Len(l) = n
  BY <1>1, <1>2
<1>8. QED BY <1>1, <1>2, <1>6, <1>7

LEMMA RenumberedFits ==
  ASSUME BoardInv, NEW l \in Orders
  PROVE  /\ DOMAIN Renumbered(l) = DOMAIN pos
         /\ Renumbered(l) = [t \in DOMAIN pos |-> Renumbered(l)[t]]
         /\ \A t \in DOMAIN pos : Renumbered(l)[t] \in Positions
<1>1. PICK S \in SUBSET Tasks : l \in SetToSeqs(S)
  BY DEF Orders
<1>2. \A i \in DOMAIN l : One * i \in Positions
  <2>1. DOMAIN l = 1..Len(l) /\ Len(l) \in Nat /\ Len(l) <= Cardinality(Tasks)
    BY <1>1, OrderShape
  <2>2. QED BY <2>1, TasksCounted, PositionBound
<1>3. ASSUME NEW t \in DOMAIN pos PROVE Renumbered(l)[t] \in Positions
  <2>1. CASE \E i \in DOMAIN l : l[i] = t
    BY <1>2, <2>1, IndexFound DEF Renumbered
  <2>2. CASE ~\E i \in DOMAIN l : l[i] = t
    BY <2>2 DEF Renumbered, BoardInv
  <2>3. QED BY <2>1, <2>2
<1>4. QED BY <1>3 DEF Renumbered

LEMMA InitBoardInv == BoardInit => BoardInv
<1> SUFFICES ASSUME BoardInit PROVE BoardInv
  OBVIOUS
<1>1. PICK l \in StoredLists : pos = [t \in Range(l) |-> One * Index(l, t)]
  BY DEF BoardInit
<1>2. l \in Seq(Tasks) /\ IsInjective(l)
  BY BoardAssumption
<1>3. Len(l) \in Nat /\ DOMAIN l = 1..Len(l) /\ \A i \in 1..Len(l) : l[i] \in Tasks
  BY <1>2
<1>4. l \in [1..Len(l) -> Tasks]
  BY <1>2
<1>5. l \in Injection(1..Len(l), Tasks)
  BY <1>2, <1>4 DEF Injection
<1>6. Len(l) <= Cardinality(Tasks)
  <2>1. Cardinality(1..Len(l)) = Len(l)
    BY <1>3, FS_Interval
  <2>2. QED BY <1>5, <2>1, FS_Injection, BoardAssumption
<1>7. Range(l) \subseteq Tasks /\ \A t \in Range(l) : \E i \in DOMAIN l : l[i] = t
  BY <1>3 DEF Range
<1>8. \A t \in Range(l) : Index(l, t) \in 1..Cardinality(Tasks)
  BY <1>3, <1>6, <1>7, IndexFound, TasksCounted
<1>9. \A t \in DOMAIN pos : pos[t] \in Positions
  BY <1>1, <1>8, PositionBound
<1>10. DOMAIN pos \subseteq Tasks /\ pos = [t \in DOMAIN pos |-> pos[t]]
  BY <1>1, <1>7
<1>11. call = [c \in Calls |-> NoCall] /\ \A c \in Calls : CallInv(c)
  BY DEF BoardInit, CallInv, IdleCalls
<1>12. QED BY <1>9, <1>10, <1>11 DEF BoardInv

\* A request that begins, or deletes at once: nobody runs alone any more, but it may.
LEMMA Disturbed ==
  ASSUME BoardInv, NEW c \in Calls, call[c] = NoCall, NEW rec, Disturb(c, rec),
         \/ rec \in IdleCalls
         \/ rec \in SentCalls /\ rec.at # "renumber" /\ (rec.alone => InFlight = {})
  PROVE  call' = [d \in Calls |-> call'[d]] /\ \A d \in Calls : CallInv(d)'
<1>1. /\ call' = [d \in Calls |-> call'[d]] /\ call'[c] = rec
      /\ \A d \in Calls \ {c} : call'[d] = IF call[d] \in IdleCalls THEN call[d]
                                         ELSE [call[d] EXCEPT !.alone = FALSE]
  BY DEF Disturb
<1>2. ASSUME NEW d \in Calls \ {c} PROVE CallInv(d)'
  <2>1. CASE call[d] \in IdleCalls
    BY <1>1, <2>1 DEF CallInv
  <2>2. CASE call[d] \notin IdleCalls
    <3>1. /\ call[d] \in SentCalls
          /\ call[d].at = "renumber" => call[d].list \in Orders
      BY <2>2 DEF BoardInv, CallInv
    <3>4. call'[d] = [call[d] EXCEPT !.alone = FALSE]
      BY <1>1, <2>2
    <3>2. /\ call'[d] \in SentCalls /\ ~call'[d].alone
          /\ call'[d].at = call[d].at /\ call'[d].list = call[d].list
      BY <3>1, <3>4 DEF SentCalls
    <3>3. QED BY <3>1, <3>2 DEF CallInv
  <2>3. QED BY <2>1, <2>2
<1>3. CallInv(c)'
  <2>1. CASE rec \in IdleCalls
    BY <1>1, <2>1 DEF CallInv
  <2>2. CASE rec \in SentCalls /\ rec.at # "renumber" /\ (rec.alone => InFlight = {})
    <3>1. rec.alone => \A d \in Calls : call'[d] \notin IdleCalls => d = c
      BY <1>1, <2>2 DEF InFlight
    <3>2. QED BY <1>1, <2>2, <3>1 DEF CallInv
  <2>3. QED BY <2>1, <2>2
<1>4. QED BY <1>1, <1>2, <1>3

LEMMA NewCallFits ==
  ASSUME NEW kind \in {"insert", "list"}, NEW p \in Positions
  PROVE  /\ NewCall(kind, p) \in SentCalls /\ NewCall(kind, p).at # "renumber"
         /\ NewCall(kind, p).alone => InFlight = {}
<1>1. << >> \in Seq(Tasks) /\ (InFlight = {}) \in BOOLEAN
  OBVIOUS
<1>2. QED BY <1>1 DEF NewCall, SentCalls

LEMMA PosSet ==
  ASSUME BoardInv, NEW t \in Tasks, NEW p \in Positions, pos' = SetPos(t, p)
  PROVE  /\ DOMAIN pos' \subseteq Tasks /\ pos' = [x \in DOMAIN pos' |-> pos'[x]]
         /\ \A x \in DOMAIN pos' : pos'[x] \in Positions
BY DEF BoardInv, SetPos

LEMMA BeginStep ==
  ASSUME BoardInv, NEW c \in Calls, CreateTask(c) \/ UpdateTask(c) \/ DeleteTask(c)
  PROVE  BoardInv'
<1>1. CASE CreateTask(c)
  <2>1. /\ call[c] = NoCall /\ NextPosition \in Positions
        /\ Disturb(c, NewCall("insert", NextPosition)) /\ UNCHANGED pos
    BY <1>1 DEF CreateTask
  <2>2. call' = [d \in Calls |-> call'[d]] /\ \A d \in Calls : CallInv(d)'
    BY <2>1, NewCallFits, Disturbed
  <2>3. QED BY <2>1, <2>2 DEF BoardInv, Positions
<1>2. CASE UpdateTask(c)
  <2>1. PICK t \in DOMAIN pos : \E p \in Positions :
          pos' = SetPos(t, p) /\ Disturb(c, NewCall("list", p))
    BY <1>2 DEF UpdateTask
  <2>2. PICK p \in Positions : pos' = SetPos(t, p) /\ Disturb(c, NewCall("list", p))
    BY <2>1
  <2>3. call[c] = NoCall /\ t \in Tasks
    BY <1>2 DEF UpdateTask, BoardInv
  <2>4. call' = [d \in Calls |-> call'[d]] /\ \A d \in Calls : CallInv(d)'
    BY <2>2, <2>3, NewCallFits, Disturbed
  <2>5. QED BY <2>2, <2>3, <2>4, PosSet DEF BoardInv, Positions
<1>3. CASE DeleteTask(c)
  <2>1. PICK t \in DOMAIN pos :
          pos' = [x \in DOMAIN pos \ {t} |-> pos[x]] /\ Disturb(c, Answered)
    BY <1>3 DEF DeleteTask
  <2>2. call[c] = NoCall /\ Answered \in IdleCalls
    BY <1>3 DEF DeleteTask, IdleCalls
  <2>3. call' = [d \in Calls |-> call'[d]] /\ \A d \in Calls : CallInv(d)'
    BY <2>1, <2>2, Disturbed
  <2>4. QED BY <2>1, <2>3 DEF BoardInv, Positions
<1>4. QED BY <1>1, <1>2, <1>3

\* The end of a request leaves only those under way that were.
LEMMA CallEnds ==
  ASSUME BoardInv, NEW c \in Calls, call[c] \notin IdleCalls, NEW rec \in IdleCalls,
         call' = [call EXCEPT ![c] = rec]
  PROVE  call' = [d \in Calls |-> call'[d]] /\ \A d \in Calls : CallInv(d)'
<1>1. /\ call' = [d \in Calls |-> call'[d]] /\ call'[c] = rec
      /\ \A d \in Calls \ {c} : call'[d] = call[d]
  BY DEF BoardInv
<1>2. ASSUME NEW d \in Calls \ {c} PROVE CallInv(d)'
  <2>1. CASE call[d] \in IdleCalls
    BY <1>1, <2>1 DEF CallInv
  <2>2. CASE call[d] \notin IdleCalls
    <3>1. /\ call[d] \in SentCalls
          /\ call[d].at = "renumber" => call[d].list \in Orders
      BY <2>2 DEF BoardInv, CallInv
    <3>2. ~call[d].alone
      BY <2>2 DEF BoardInv, CallInv
    <3>3. QED BY <1>1, <3>1, <3>2 DEF CallInv
  <2>3. QED BY <2>1, <2>2
<1>3. CallInv(c)'
  BY <1>1 DEF CallInv
<1>4. QED BY <1>1, <1>2, <1>3

LEMMA NotIdle ==
  ASSUME NEW rec, rec.at \in {"insert", "list", "renumber"}
  PROVE  rec \notin IdleCalls
BY DEF IdleCalls, NoCall, Answered, Unchecked, Failed

LEMMA IdleEnds == {Answered, Unchecked, Failed} \subseteq IdleCalls
BY DEF IdleCalls

LEMMA InsertTaskStep ==
  ASSUME BoardInv, NEW c \in Calls, InsertTask(c)
  PROVE  BoardInv'
<1>1. PICK t \in Tasks \ DOMAIN pos : pos' = SetPos(t, call[c].pos)
  BY DEF InsertTask
<1>2. call[c] \notin IdleCalls /\ call' = [call EXCEPT ![c] = Answered]
  BY NotIdle DEF InsertTask
<1>3. call[c].pos \in Positions
  BY <1>2 DEF BoardInv, CallInv, SentCalls
<1>4. call' = [d \in Calls |-> call'[d]] /\ \A d \in Calls : CallInv(d)'
  BY <1>2, IdleEnds, CallEnds
<1>5. QED BY <1>1, <1>3, <1>4, PosSet DEF BoardInv, Positions

LEMMA CheckGapsStep ==
  ASSUME BoardInv, NEW c \in Calls, CheckGaps(c)
  PROVE  BoardInv'
<1>1. call[c].at = "list" /\ UNCHANGED pos
  BY DEF CheckGaps
<1>2. call[c] \notin IdleCalls
  BY <1>1, NotIdle
<1>3. call[c] \in SentCalls /\ CallInv(c)
  BY <1>2 DEF BoardInv, CallInv
<1>4. PICK l \in Listings :
        call' = [call EXCEPT ![c] = IF TooClose(l)
                   THEN [@ EXCEPT !.at = "renumber", !.list = l] ELSE Answered]
  BY DEF CheckGaps
<1>5. CASE call' = [call EXCEPT ![c] = Answered]
  <2>1. call' = [d \in Calls |-> call'[d]] /\ \A d \in Calls : CallInv(d)'
    BY <1>2, <1>5, IdleEnds, CallEnds
  <2>2. QED BY <1>1, <2>1 DEF BoardInv, Positions
<1>6. CASE call' = [call EXCEPT ![c] = [@ EXCEPT !.at = "renumber", !.list = l]]
  <2>1. l \in Orders /\ l \in Seq(Tasks)
    <3>1. l \in SetToSeqs(DOMAIN pos) /\ DOMAIN pos \in SUBSET Tasks
      BY <1>4 DEF Listings, BoardInv
    <3>2. QED BY <3>1, OrderShape DEF Orders
  <2>2. /\ call' = [d \in Calls |-> call'[d]]
        /\ call'[c] = [call[c] EXCEPT !.at = "renumber", !.list = l]
        /\ \A d \in Calls \ {c} : call'[d] = call[d]
    BY <1>6 DEF BoardInv
  <2>3. /\ call'[c] \in SentCalls /\ call'[c].at = "renumber" /\ call'[c].list = l
        /\ call'[c].alone = call[c].alone
    BY <1>3, <2>1, <2>2 DEF SentCalls
  <2>4. call'[c] \notin IdleCalls
    BY <2>3, NotIdle
  <2>5. Listings' = Listings
    BY <1>1 DEF Listings
  <2>6. CallInv(c)'
    <3>1. call[c].alone => \A d \in Calls : call'[d] \notin IdleCalls => d = c
      BY <1>2, <1>3, <2>2 DEF CallInv
    <3>2. QED BY <1>4, <2>1, <2>3, <2>5, <3>1 DEF CallInv
  <2>7. ASSUME NEW d \in Calls \ {c} PROVE CallInv(d)'
    <3>1. call'[d] = call[d] /\ CallInv(d)
      BY <2>2 DEF BoardInv
    <3>2. call[d] \notin IdleCalls => ~call[d].alone
      BY <1>2, <3>1 DEF CallInv
    <3>3. QED BY <3>1, <3>2 DEF CallInv
  <2>8. QED BY <1>1, <2>2, <2>6, <2>7 DEF BoardInv, Positions
<1>7. QED BY <1>4, <1>5, <1>6

LEMMA EndStep ==
  ASSUME BoardInv, NEW c \in Calls, RenumberTasks(c) \/ FailRequest(c)
  PROVE  BoardInv'
<1>1. CASE RenumberTasks(c)
  <2>1. call[c].at = "renumber" /\ pos' = Renumbered(call[c].list)
        /\ call' = [call EXCEPT ![c] = Answered]
    BY <1>1 DEF RenumberTasks
  <2>2. call[c] \notin IdleCalls
    BY <2>1, NotIdle
  <2>3. call[c].list \in Orders
    BY <2>1, <2>2 DEF BoardInv, CallInv
  <2>4. call' = [d \in Calls |-> call'[d]] /\ \A d \in Calls : CallInv(d)'
    BY <2>1, <2>2, IdleEnds, CallEnds
  <2>5. /\ DOMAIN pos' \subseteq Tasks /\ pos' = [t \in DOMAIN pos' |-> pos'[t]]
        /\ \A t \in DOMAIN pos' : pos'[t] \in Positions
    BY <2>1, <2>3, RenumberedFits DEF BoardInv
  <2>6. QED BY <2>4, <2>5 DEF BoardInv, Positions
<1>2. CASE FailRequest(c)
  <2>1. call' = [d \in Calls |-> call'[d]] /\ \A d \in Calls : CallInv(d)'
    BY <1>2, IdleEnds, CallEnds DEF FailRequest
  <2>2. QED BY <1>2, <2>1 DEF FailRequest, BoardInv, Positions
<1>3. QED BY <1>1, <1>2

LEMMA StepBoardInv == BoardInv /\ [BoardNext]_boardVars => BoardInv'
<1> SUFFICES ASSUME BoardInv, BoardNext \/ UNCHANGED boardVars PROVE BoardInv'
  OBVIOUS
<1>1. CASE UNCHANGED boardVars
  BY <1>1 DEF BoardInv, CallInv, Listings, Positions, boardVars
<1>2. CASE BoardNext
  BY <1>2, BeginStep, InsertTaskStep, CheckGapsStep, EndStep DEF BoardNext
<1>3. QED BY <1>1, <1>2

\* The inductive invariant of the tasks.
THEOREM BoardInductive == BoardSpec => []BoardInv
BY InitBoardInv, StepBoardInv, PTL DEF BoardSpec

\* A listing of the board: every task at one place, in the order of their positions.
LEMMA ListingShape ==
  ASSUME BoardInv, NEW l \in Listings
  PROVE  /\ Len(l) \in Nat /\ DOMAIN l = 1..Len(l)
         /\ \A i \in DOMAIN l : l[i] \in DOMAIN pos /\ pos[l[i]] \in Int
         /\ \A i, j \in DOMAIN l : i < j => pos[l[i]] <= pos[l[j]]
         /\ \A t \in DOMAIN pos : /\ \E i \in DOMAIN l : l[i] = t
                                  /\ Index(l, t) \in 1..Len(l) /\ l[Index(l, t)] = t
<1>1. l \in SetToSeqs(DOMAIN pos) /\ DOMAIN pos \in SUBSET Tasks
  BY DEF Listings, BoardInv
<1>2. /\ Len(l) \in Nat /\ DOMAIN l = 1..Len(l)
      /\ \A i \in DOMAIN l : l[i] \in DOMAIN pos
      /\ \A t \in DOMAIN pos : \E i \in DOMAIN l : l[i] = t
  BY <1>1, OrderShape
<1>3. \A t \in DOMAIN pos : pos[t] \in Int
  BY TasksCounted DEF BoardInv, Positions
<1>4. \A t \in DOMAIN pos : Index(l, t) \in DOMAIN l /\ l[Index(l, t)] = t
  BY <1>2, IndexFound
<1>5. QED BY <1>2, <1>3, <1>4 DEF Listings

\* A list without two tasks that are too close is a board without.
LEMMA ListedApart ==
  ASSUME BoardInv, NEW l \in Listings, ~TooClose(l)
  PROVE  Spread(pos)
<1>1. ASSUME NEW i \in 1..Len(l), NEW j \in 1..Len(l), i < j
      PROVE  pos[l[j]] - pos[l[i]] >= MinGap
  <2>1. /\ Len(l) \in Nat /\ i + 1 \in 1..Len(l) /\ i \in 1..(Len(l) - 1)
    BY <1>1, ListingShape
  <2>2. pos[l[i + 1]] - pos[l[i]] >= MinGap
    <3>1. ~(pos[l[i + 1]] - pos[l[i]] < MinGap)
      BY <2>1 DEF TooClose
    <3>2. pos[l[i + 1]] \in Int /\ pos[l[i]] \in Int
      BY <2>1, ListingShape
    <3>3. QED BY <3>1, <3>2 DEF MinGap
  <2>3. pos[l[i + 1]] <= pos[l[j]]
    <3>1. CASE i + 1 = j
      BY <3>1, ListingShape
    <3>2. CASE i + 1 < j
      BY <2>1, <3>2, ListingShape
    <3>3. QED BY <1>1, <2>1, <3>1, <3>2
  <2>4. pos[l[i]] \in Int /\ pos[l[j]] \in Int /\ pos[l[i + 1]] \in Int
    BY <2>1, ListingShape
  <2>5. QED BY <2>2, <2>3, <2>4 DEF MinGap
<1>2. ASSUME NEW t \in DOMAIN pos, NEW u \in DOMAIN pos, t # u
      PROVE  pos[t] - pos[u] >= MinGap \/ pos[u] - pos[t] >= MinGap
  <2> DEFINE i == Index(l, t)
             j == Index(l, u)
  <2>1. /\ i \in 1..Len(l) /\ j \in 1..Len(l) /\ l[i] = t /\ l[j] = u
        /\ Len(l) \in Nat
    BY ListingShape
  <2> HIDE DEF i, j
  <2>2. i < j \/ j < i
    BY <1>2, <2>1
  <2>3. QED BY <1>1, <2>1, <2>2
<1>3. QED BY <1>2 DEF Spread

\* Renumbering in the order of a listing keeps that order, and sets all tasks apart.
LEMMA RenumberingSettles ==
  ASSUME BoardInv, NEW l \in Listings, pos' = Renumbered(l)
  PROVE  /\ Spread(pos')
         /\ \A t, u \in DOMAIN pos : pos[t] < pos[u] => pos'[t] < pos'[u]
<1>1. /\ DOMAIN pos' = DOMAIN pos
      /\ \A t \in DOMAIN pos : pos'[t] = One * Index(l, t)
  BY ListingShape DEF Renumbered
<1>2. ASSUME NEW t \in DOMAIN pos, NEW u \in DOMAIN pos
      PROVE  /\ Index(l, t) \in Nat /\ Index(l, u) \in Nat
             /\ t # u => Index(l, t) # Index(l, u)
             /\ pos[t] < pos[u] => Index(l, t) < Index(l, u)
  <2> DEFINE i == Index(l, t)
             j == Index(l, u)
  <2>1. /\ i \in 1..Len(l) /\ j \in 1..Len(l) /\ l[i] = t /\ l[j] = u
        /\ Len(l) \in Nat /\ DOMAIN l = 1..Len(l)
    BY ListingShape
  <2> HIDE DEF i, j
  <2>2. pos[t] \in Int /\ pos[u] \in Int
    BY <2>1, ListingShape
  <2>3. j < i => pos[u] <= pos[t]
    BY <2>1, ListingShape
  <2>4. i = j => t = u
    BY <2>1
  <2>5. i \in Nat /\ j \in Nat /\ (pos[t] < pos[u] => i < j)
    BY <2>1, <2>2, <2>3, <2>4
  <2>6. QED BY <2>4, <2>5 DEF i, j
<1>3. ASSUME NEW t \in DOMAIN pos, NEW u \in DOMAIN pos, t # u
      PROVE  pos'[t] - pos'[u] >= MinGap \/ pos'[u] - pos'[t] >= MinGap
  <2>1. Index(l, t) < Index(l, u) \/ Index(l, u) < Index(l, t)
    BY <1>2, <1>3
  <2>2. QED BY <1>1, <1>2, <2>1, OneApart
<1>4. ASSUME NEW t \in DOMAIN pos, NEW u \in DOMAIN pos, pos[t] < pos[u]
      PROVE  pos'[t] < pos'[u]
  <2>1. /\ Index(l, t) < Index(l, u) /\ Index(l, t) \in Nat /\ Index(l, u) \in Nat
    BY <1>2, <1>4
  <2>2. /\ One * Index(l, t) \in Nat /\ One * Index(l, u) \in Nat
        /\ One * Index(l, u) - One * Index(l, t) >= MinGap
    BY <2>1, OneApart
  <2>3. pos'[t] \in Nat /\ pos'[u] \in Nat /\ pos'[u] - pos'[t] >= MinGap
    BY <1>1, <2>2
  <2>4. QED BY <2>3 DEF MinGap
<1>5. QED BY <1>1, <1>3, <1>4 DEF Spread

\* What the answer to a move that ran alone finds.
SettledNow ==
  \A c \in Calls :
     call[c].at \in {"list", "renumber"} /\ call[c].alone /\ call'[c].at = "done" =>
        /\ Spread(pos')
        /\ \A t, u \in DOMAIN pos : pos[t] < pos[u] => pos'[t] < pos'[u]

LEMMA StepSettles == BoardInv /\ BoardNext => SettledNow
<1> SUFFICES ASSUME BoardInv, BoardNext,
                    NEW c \in Calls, call[c].at \in {"list", "renumber"}, call[c].alone,
                    call'[c].at = "done"
             PROVE  /\ Spread(pos')
                    /\ \A t, u \in DOMAIN pos : pos[t] < pos[u] => pos'[t] < pos'[u]
  BY DEF SettledNow
<1>1. call[c] \notin IdleCalls /\ call[c] \in SentCalls /\ CallInv(c)
  BY NotIdle DEF BoardInv, CallInv
<1>2. PICK d \in Calls : CreateTask(d) \/ InsertTask(d) \/ UpdateTask(d) \/ DeleteTask(d)
                          \/ CheckGaps(d) \/ RenumberTasks(d) \/ FailRequest(d)
  BY DEF BoardNext
<1>3. \A rec : Disturb(d, rec) /\ d # c => call'[c].at = call[c].at
  BY <1>1 DEF Disturb, SentCalls
<1>4. ~CreateTask(d) /\ ~UpdateTask(d) /\ ~DeleteTask(d)
  <2>1. call[d] = NoCall => d # c
    BY <1>1 DEF IdleCalls
  <2>2. QED BY <1>3, <2>1 DEF CreateTask, UpdateTask, DeleteTask
<1>5. d = c
  <2> SUFFICES ASSUME d # c PROVE FALSE
    OBVIOUS
  <2>1. call'[c] = call[c]
    <3>1. DOMAIN call = Calls
      BY DEF BoardInv
    <3>2. CASE InsertTask(d) \/ RenumberTasks(d) \/ FailRequest(d)
      BY <3>1, <3>2 DEF InsertTask, RenumberTasks, FailRequest
    <3>3. CASE CheckGaps(d)
      BY <3>1, <3>3 DEF CheckGaps
    <3>4. QED BY <1>2, <1>4, <3>2, <3>3
  <2>2. QED BY <2>1
<1>6. ~InsertTask(d) /\ ~FailRequest(d)
  BY <1>5 DEF InsertTask, FailRequest, Unchecked, Failed, BoardInv
<1>7. CASE CheckGaps(c)
  <2>1. PICK l \in Listings :
          call' = [call EXCEPT ![c] = IF TooClose(l)
                     THEN [@ EXCEPT !.at = "renumber", !.list = l] ELSE Answered]
    BY <1>7 DEF CheckGaps
  <2>2. ~TooClose(l)
    BY <1>1, <2>1 DEF BoardInv, SentCalls
  <2>3. UNCHANGED pos
    BY <1>7 DEF CheckGaps
  <2>4. QED BY <2>2, <2>3, ListedApart
<1>8. CASE RenumberTasks(c)
  <2>1. call[c].list \in Listings /\ pos' = Renumbered(call[c].list)
    BY <1>1, <1>8 DEF RenumberTasks, CallInv
  <2>2. QED BY <2>1, RenumberingSettles
<1>9. QED BY <1>2, <1>4, <1>5, <1>6, <1>7, <1>8

\* A move that runs alone and can check leaves room between any two tasks, in the order it gave them.
THEOREM MovesSettle == BoardSpec => MoveSettles
<1>1. BoardInv /\ [BoardNext]_boardVars => [SettledNow]_boardVars
  BY StepSettles
<1>2. MoveSettles <=> [][SettledNow]_boardVars
  BY DEF MoveSettles, SettledNow
<1>3. QED BY <1>1, <1>2, BoardInductive, PTL DEF BoardSpec

-----------------------------------------------------------------------------
(***************************************************************************)
(* What is made of a transcript, for all letters, phrases and wake words:  *)
(* the wake word is recognised in what is at most as many edits from it as *)
(* the threshold says, and the most special phrase counts.                 *)
(***************************************************************************)

SpeechSpec == SpeechInit /\ [][SpeechNext]_speechVars

\* The least of three numbers.
IsLeast(c, x, y, z) == c \in {x, y, z} /\ c <= x /\ c <= y /\ c <= z

LEMMA LeastOfThree ==
  ASSUME NEW x \in Nat, NEW y \in Nat, NEW z \in Nat
  PROVE  Min({x, y, z}) \in Nat /\ IsLeast(Min({x, y, z}), x, y, z)
<1> DEFINE S == {x, y, z}
<1>1. S \in SUBSET Nat /\ S # {}
  OBVIOUS
<1>2. PICK m \in S : \A n \in S : m <= n
  <2> HIDE DEF S
  <2>1. QED BY <1>1, Least
<1>3. Min(S) \in S /\ \A n \in S : Min(S) <= n
  <2> HIDE DEF S
  <2>1. QED BY <1>2 DEF Min
<1>4. QED BY <1>1, <1>3 DEF IsLeast

\* The table of the distances of the beginnings of two words.
Cell(d, i, j) == d[i][j]
Unlike(a, b, i, j) == IF b[j] = a[i] THEN 0 ELSE 1
Fills(a, b, d) ==
  /\ \A i \in 0..Len(a), j \in 0..Len(b) : Cell(d, i, j) \in Nat
  /\ \A j \in 0..Len(b) : Cell(d, 0, j) = j
  /\ \A i \in 0..Len(a) : Cell(d, i, 0) = i
  /\ \A i \in 1..Len(a), j \in 1..Len(b) :
       IsLeast(Cell(d, i, j), Cell(d, i - 1, j) + 1, Cell(d, i, j - 1) + 1,
               Cell(d, i - 1, j - 1) + Unlike(a, b, i, j))

\* A row from the one before.
RowStep(prev, letter, b, row, j) ==
  Min({prev[j] + 1, row[j - 1] + 1, prev[j - 1] + (IF b[j] = letter THEN 0 ELSE 1)})
IsRow(prev, letter, b, row) ==
  row = [j \in 0..Len(b) |-> IF j = 0 THEN prev[0] + 1
                             ELSE Min({prev[j] + 1, row[j - 1] + 1,
                                       prev[j - 1] + (IF b[j] = letter THEN 0 ELSE 1)})]

LEMMA RowIs == \A prev, letter, b : NextRow(prev, letter, b) = CHOOSE row : IsRow(prev, letter, b, row)
BY Zenon DEF NextRow, IsRow

LEMMA RowExists ==
  ASSUME NEW b \in Seq(Letters), NEW letter, NEW prev \in [0..Len(b) -> Nat]
  PROVE  \E row \in [0..Len(b) -> Nat] : IsRow(prev, letter, b, row)
<1> DEFINE N == Len(b)
           to(j, v) == Min({prev[j] + 1, v + 1, prev[j - 1] + (IF b[j] = letter THEN 0 ELSE 1)})
           next == [p \in (1..N) \X Nat |-> to(p[1], p[2])]
<1>1. N \in Nat /\ prev[0] \in Nat /\ \A j \in 1..N : prev[j] \in Nat /\ prev[j - 1] \in Nat
  OBVIOUS
<1> HIDE DEF N
<1>2. \A j \in 1..N, v \in Nat : to(j, v) \in Nat
  <2> SUFFICES ASSUME NEW j \in 1..N, NEW v \in Nat PROVE to(j, v) \in Nat
    OBVIOUS
  <2>1. (IF b[j] = letter THEN 0 ELSE 1) \in Nat
    OBVIOUS
  <2>2. PICK x, y, z : /\ x = prev[j] + 1 /\ y = v + 1
                       /\ z = prev[j - 1] + (IF b[j] = letter THEN 0 ELSE 1)
    OBVIOUS
  <2>3. x \in Nat /\ y \in Nat /\ z \in Nat
    BY <1>1, <2>1, <2>2, SMTT(30)
  <2>4. Min({x, y, z}) \in Nat
    BY <2>3, LeastOfThree
  <2>5. QED BY <2>2, <2>4
<1>3. IsStep(N, Nat, next)
  <2> HIDE DEF to
  <2>1. QED BY <1>2 DEF IsStep
<1>4. Goes(N, Nat, prev[0] + 1, next)
  <2>1. prev[0] + 1 \in Nat
    BY <1>1
  <2> HIDE DEF next
  <2>2. QED BY <1>1, <1>3, <2>1, Iterate, Zenon
<1>5. PICK h \in [0..N -> Nat] :
        h[0] = prev[0] + 1 /\ \A n \in 1..N : h[n] = StepAt(next, n, h[n - 1])
  <2> HIDE DEF next
  <2>1. QED BY <1>4 DEF Goes
<1>6. ASSUME NEW n \in 1..N PROVE h[n] = to(n, h[n - 1])
  <2>1. n - 1 \in 0..N /\ h[n - 1] \in Nat
    BY <1>1
  <2>2. StepAt(next, n, h[n - 1]) = to(n, h[n - 1])
    <3> HIDE DEF to
    <3>1. << n, h[n - 1] >> \in (1..N) \X Nat
      BY <2>1
    <3>2. QED BY <3>1 DEF StepAt
  <2> HIDE DEF next, to
  <2>3. QED BY <1>5, <2>2
<1> DEFINE G(n) == IF n = 0 THEN prev[0] + 1 ELSE to(n, h[n - 1])
<1>7. \A n \in 0..N : h[n] = G(n)
  <2> HIDE DEF to, next
  <2>1. \A n \in 0..N : n = 0 \/ n \in 1..N
    BY <1>1
  <2>2. QED BY <1>5, <1>6, <2>1, Zenon
<1>8. h = [n \in 0..N |-> G(n)]
  <2> HIDE DEF G
  <2>1. QED BY <1>7
<1>9. IsRow(prev, letter, b, h)
  BY <1>8, Zenon DEF IsRow, N
<1>10. QED BY <1>9 DEF N

LEMMA RowRules ==
  ASSUME NEW b \in Seq(Letters), NEW letter, NEW prev \in [0..Len(b) -> Nat]
  PROVE  /\ NextRow(prev, letter, b) \in [0..Len(b) -> Nat]
         /\ NextRow(prev, letter, b)[0] = prev[0] + 1
         /\ \A j \in 1..Len(b) :
              IsLeast(NextRow(prev, letter, b)[j], prev[j] + 1, NextRow(prev, letter, b)[j - 1] + 1,
                      prev[j - 1] + (IF b[j] = letter THEN 0 ELSE 1))
<1>1. PICK row : row = NextRow(prev, letter, b)
  OBVIOUS
<1>2. IsRow(prev, letter, b, row)
  BY <1>1, RowIs, RowExists
<1> DEFINE N == Len(b)
           G(j) == IF j = 0 THEN prev[0] + 1 ELSE RowStep(prev, letter, b, row, j)
<1>3. row = [j \in 0..N |-> G(j)]
  BY <1>2, Zenon DEF IsRow, RowStep
<1>4. N \in Nat /\ 0 \in 0..N /\ \A j \in 1..N : j \in 0..N /\ j # 0 /\ j - 1 \in 0..N
  OBVIOUS
<1>5. row[0] = prev[0] + 1 /\ \A j \in 1..N : row[j] = RowStep(prev, letter, b, row, j)
  <2> HIDE DEF N
  <2>1. \A j \in 0..N : row[j] = G(j)
    <3> HIDE DEF G
    <3>1. QED BY <1>3
  <2>2. QED BY <1>4, <2>1, Zenon
<1>6. row \in [0..N -> Nat]
  <2>1. PICK old \in [0..Len(b) -> Nat] : IsRow(prev, letter, b, old)
    BY RowExists
  <2> DEFINE Bad == {j \in 0..N : row[j] \notin Nat}
  <2>2. Bad = {}
    <3> SUFFICES ASSUME Bad # {} PROVE FALSE
      OBVIOUS
    <3>1. PICK j \in Bad : \A n \in Bad : j <= n
      <4>1. Bad \in SUBSET Nat
        BY <1>4
      <4> HIDE DEF Bad
      <4>2. QED BY <4>1, Least
    <3>2. j # 0
      BY <1>4, <1>5
    <3>3. j \in 1..N /\ j - 1 \in 0..N /\ ~(j <= j - 1)
      BY <1>4, <3>2
    <3>4. row[j - 1] \in Nat
      <4>1. j - 1 \notin Bad
        <5> HIDE DEF Bad
        <5>1. QED BY <3>1, <3>3
      <4>2. QED BY <3>3, <4>1
    <3>5. prev[j] \in Nat /\ prev[j - 1] \in Nat
      BY <3>3
    <3>6. RowStep(prev, letter, b, row, j) \in Nat
      <4>1. (IF b[j] = letter THEN 0 ELSE 1) \in Nat
        OBVIOUS
      <4>2. PICK x, y, z : /\ x = prev[j] + 1 /\ y = row[j - 1] + 1
                           /\ z = prev[j - 1] + (IF b[j] = letter THEN 0 ELSE 1)
        OBVIOUS
      <4> HIDE DEF Bad, N
      <4>3. x \in Nat /\ y \in Nat
        BY <3>4, <3>5, <4>2, SMTT(30)
      <4>4. z \in Nat
        BY <3>5, <4>1, <4>2
      <4>5. Min({x, y, z}) \in Nat
        BY <4>3, <4>4, LeastOfThree
      <4>6. QED BY <4>2, <4>5 DEF RowStep
    <3>7. QED BY <1>5, <3>3, <3>6
  <2> HIDE DEF N
  <2>3. \A j \in 0..N : row[j] \in Nat
    BY <2>2
  <2>4. row = [j \in 0..N |-> row[j]]
    BY <1>3
  <2>5. QED BY <2>3, <2>4
<1>7. ASSUME NEW j \in 1..N
      PROVE  IsLeast(row[j], prev[j] + 1, row[j - 1] + 1, prev[j - 1] + (IF b[j] = letter THEN 0 ELSE 1))
  <2>1. prev[j] \in Nat /\ prev[j - 1] \in Nat
    BY <1>4
  <2> HIDE DEF N
  <2>2. row[j - 1] \in Nat
    BY <1>4, <1>6
  <2>3. (IF b[j] = letter THEN 0 ELSE 1) \in Nat
    OBVIOUS
  <2>4. PICK x, y, z : /\ x = prev[j] + 1 /\ y = row[j - 1] + 1
                       /\ z = prev[j - 1] + (IF b[j] = letter THEN 0 ELSE 1)
    OBVIOUS
  <2>5. x \in Nat /\ y \in Nat /\ z \in Nat
    BY <2>1, <2>2, <2>3, <2>4, SMTT(30)
  <2>6. IsLeast(Min({x, y, z}), x, y, z)
    BY <2>5, LeastOfThree
  <2>7. QED BY <1>5, <2>4, <2>6 DEF RowStep
<1>8. QED BY <1>1, <1>5, <1>6, <1>7

-----------------------------------------------------------------------------
(* The distance is the last cell of a table that is filled row by row.      *)

IsTable(a, b, d) ==
  d = [i \in 0..Len(a) |-> IF i = 0 THEN [j \in 0..Len(b) |-> j] ELSE NextRow(d[i - 1], a[i], b)]

LEMMA LevenshteinIs ==
  \A a, b : Levenshtein(a, b) = (CHOOSE d : IsTable(a, b, d))[Len(a)][Len(b)]
BY Zenon DEF Levenshtein, IsTable

LEMMA TableExists ==
  ASSUME NEW a \in Seq(Letters), NEW b \in Seq(Letters)
  PROVE  \E d \in [0..Len(a) -> [0..Len(b) -> Nat]] : IsTable(a, b, d)
<1> DEFINE N == Len(a)
           S == [0..Len(b) -> Nat]
           first == [j \in 0..Len(b) |-> j]
           next == [p \in (1..N) \X S |-> NextRow(p[2], a[p[1]], b)]
<1>1. N \in Nat /\ first \in S
  OBVIOUS
<1>2. \A i \in 1..N, row \in S : NextRow(row, a[i], b) \in S
  BY RowRules
<1> HIDE DEF S, N, first
<1>3. IsStep(N, S, next)
  BY <1>2 DEF IsStep
<1>4. Goes(N, S, first, next)
  <2> HIDE DEF next
  <2>1. QED BY <1>1, <1>3, Iterate, Zenon
<1>5. PICK d \in [0..N -> S] : d[0] = first /\ \A n \in 1..N : d[n] = StepAt(next, n, d[n - 1])
  <2> HIDE DEF next
  <2>1. QED BY <1>4 DEF Goes
<1>6. ASSUME NEW n \in 1..N PROVE d[n] = NextRow(d[n - 1], a[n], b)
  <2>1. n - 1 \in 0..N /\ d[n - 1] \in S
    BY <1>1
  <2>2. StepAt(next, n, d[n - 1]) = NextRow(d[n - 1], a[n], b)
    <3>1. << n, d[n - 1] >> \in (1..N) \X S
      BY <2>1
    <3>2. QED BY <3>1 DEF StepAt
  <2> HIDE DEF next
  <2>3. QED BY <1>5, <2>2
<1> DEFINE G(n) == IF n = 0 THEN first ELSE NextRow(d[n - 1], a[n], b)
<1>7. \A n \in 0..N : d[n] = G(n)
  <2> HIDE DEF next
  <2>1. \A n \in 0..N : n = 0 \/ n \in 1..N
    BY <1>1
  <2>2. QED BY <1>5, <1>6, <2>1, Zenon
<1>8. d = [n \in 0..N |-> G(n)]
  <2> HIDE DEF G
  <2>1. QED BY <1>7
<1>9. IsTable(a, b, d)
  BY <1>8, Zenon DEF IsTable, N, first
<1>10. QED BY <1>9 DEF N, S

\* The distance is the last cell of a table that is filled step by step.
LEMMA TableIs ==
  ASSUME NEW a \in Seq(Letters), NEW b \in Seq(Letters)
  PROVE  \E d : Fills(a, b, d) /\ Levenshtein(a, b) = Cell(d, Len(a), Len(b))
<1> DEFINE N == Len(a)
           M == Len(b)
           first == [j \in 0..M |-> j]
<1>1. PICK d : d = CHOOSE x : IsTable(a, b, x)
  OBVIOUS
<1>2. IsTable(a, b, d)
  BY <1>1, TableExists
<1>3. Levenshtein(a, b) = Cell(d, N, M)
  BY <1>1, LevenshteinIs, Zenon DEF Cell
<1>4. N \in Nat /\ M \in Nat /\ first \in [0..M -> Nat] /\ \A j \in 0..M : first[j] = j
  OBVIOUS
<1> DEFINE G(i) == IF i = 0 THEN first ELSE NextRow(d[i - 1], a[i], b)
<1>5. d = [i \in 0..N |-> G(i)]
  BY <1>2, Zenon DEF IsTable
<1>6. \A i \in 0..N : d[i] = G(i)
  <2> HIDE DEF G
  <2>1. QED BY <1>5
<1>7. \A i \in 1..N : i \in 0..N /\ i # 0 /\ i - 1 \in 0..N /\ ~(i <= i - 1)
  OBVIOUS
<1> HIDE DEF N, first
<1>8. d[0] = first /\ \A i \in 1..N : d[i] = NextRow(d[i - 1], a[i], b)
  <2>1. 0 \in 0..N
    BY <1>4
  <2>2. QED BY <1>6, <1>7, <2>1, Zenon
<1>9. \A i \in 0..N : d[i] \in [0..M -> Nat] /\ d[i][0] = i
  <2> DEFINE Bad == {i \in 0..N : ~(d[i] \in [0..M -> Nat] /\ d[i][0] = i)}
  <2> SUFFICES ASSUME Bad # {} PROVE FALSE
    OBVIOUS
  <2>1. PICK i \in Bad : \A n \in Bad : i <= n
    <3>1. Bad \in SUBSET Nat
      BY <1>4
    <3> HIDE DEF Bad
    <3>2. QED BY <3>1, Least
  <2>2. i \in 0..N /\ ~(d[i] \in [0..M -> Nat] /\ d[i][0] = i)
    BY <2>1
  <2>3. i # 0
    BY <1>4, <1>8, <2>2
  <2>4. i \in 1..N
    BY <1>4, <2>2, <2>3
  <2>5. i - 1 \notin Bad
    <3> HIDE DEF Bad
    <3>1. QED BY <1>7, <2>1, <2>4
  <2>6. d[i - 1] \in [0..M -> Nat] /\ d[i - 1][0] = i - 1
    BY <1>7, <2>4, <2>5
  <2>7. PICK prev, row : prev = d[i - 1] /\ row = NextRow(prev, a[i], b)
    OBVIOUS
  <2>8. prev \in [0..M -> Nat] /\ prev[0] = i - 1
    BY <2>6, <2>7
  <2>9. row \in [0..M -> Nat] /\ row[0] = prev[0] + 1
    <3>1. prev \in [0..Len(b) -> Nat]
      BY <2>8
    <3>2. PICK letter : letter = a[i]
      OBVIOUS
    <3>3. NextRow(prev, letter, b) \in [0..Len(b) -> Nat]
      BY <3>1, RowRules, Zenon
    <3>4. NextRow(prev, letter, b)[0] = prev[0] + 1
      BY <3>1, RowRules, Zenon
    <3>5. QED BY <2>7, <3>2, <3>3, <3>4
  <2>10. row[0] = i
    BY <2>2, <2>8, <2>9
  <2>11. QED BY <1>8, <2>2, <2>4, <2>7, <2>9, <2>10
<1>10. \A i \in 0..N, j \in 0..M : Cell(d, i, j) \in Nat
  BY <1>9 DEF Cell
<1>11. \A j \in 0..M : Cell(d, 0, j) = j
  BY <1>4, <1>8 DEF Cell
<1>12. \A i \in 0..N : Cell(d, i, 0) = i
  BY <1>9 DEF Cell
<1>13. ASSUME NEW i \in 1..N, NEW j \in 1..M
       PROVE  IsLeast(Cell(d, i, j), Cell(d, i - 1, j) + 1, Cell(d, i, j - 1) + 1,
                      Cell(d, i - 1, j - 1) + Unlike(a, b, i, j))
  <2>1. d[i - 1] \in [0..M -> Nat]
    BY <1>7, <1>9
  <2>2. IsLeast(NextRow(d[i - 1], a[i], b)[j], d[i - 1][j] + 1,
                NextRow(d[i - 1], a[i], b)[j - 1] + 1,
                d[i - 1][j - 1] + (IF b[j] = a[i] THEN 0 ELSE 1))
    BY <2>1, RowRules
  <2>3. d[i] = NextRow(d[i - 1], a[i], b)
    BY <1>8
  <2>4. QED BY <2>2, <2>3, Zenon DEF Cell, Unlike
<1>14. Fills(a, b, d)
  BY <1>10, <1>11, <1>12, <1>13 DEF Fills, N
<1>15. QED BY <1>3, <1>14 DEF N

\* What holds of a cell if it holds of the three before it holds of all.
In(S, i, j) == << i, j >> \in S
Closed(N, M, S) ==
  \A i \in 0..N, j \in 0..M :
    /\ i > 0 => In(S, i - 1, j)
    /\ j > 0 => In(S, i, j - 1)
    /\ i > 0 /\ j > 0 => In(S, i - 1, j - 1)
    => In(S, i, j)

LEMMA Grid ==
  ASSUME NEW N \in Nat, NEW M \in Nat, NEW S, Closed(N, M, S)
  PROVE  \A i \in 0..N, j \in 0..M : In(S, i, j)
<1> DEFINE Bad == {m \in Nat : \E i \in 0..N, j \in 0..M : i + j = m /\ ~In(S, i, j)}
<1>1. SUFFICES ASSUME Bad # {} PROVE FALSE
  <2> SUFFICES ASSUME NEW i \in 0..N, NEW j \in 0..M, ~In(S, i, j) PROVE FALSE
    OBVIOUS
  <2>1. i + j \in Nat
    OBVIOUS
  <2>2. i + j \in Bad
    BY <2>1
  <2>3. QED BY <1>1, <2>2
<1>2. PICK m \in Bad : \A n \in Bad : m <= n
  <2>1. Bad \in SUBSET Nat
    OBVIOUS
  <2> HIDE DEF Bad
  <2>2. QED BY <1>1, <2>1, Least
<1>3. PICK i \in 0..N, j \in 0..M : i + j = m /\ ~In(S, i, j)
  BY <1>2
<1>4. ASSUME NEW u \in 0..N, NEW v \in 0..M, u + v < m PROVE In(S, u, v)
  <2> SUFFICES ASSUME ~In(S, u, v) PROVE FALSE
    OBVIOUS
  <2>1. u + v \in Nat /\ m \in Nat /\ ~(m <= u + v)
    BY <1>3, <1>4
  <2>2. u + v \in Bad
    BY <2>1
  <2> HIDE DEF Bad
  <2>3. QED BY <1>2, <2>1, <2>2
<1> HIDE DEF Bad
<1>5. i > 0 => In(S, i - 1, j)
  <2> SUFFICES ASSUME i > 0 PROVE In(S, i - 1, j)
    OBVIOUS
  <2>1. i - 1 \in 0..N /\ (i - 1) + j < m
    BY <1>3
  <2>2. QED BY <1>4, <2>1
<1>6. j > 0 => In(S, i, j - 1)
  <2> SUFFICES ASSUME j > 0 PROVE In(S, i, j - 1)
    OBVIOUS
  <2>1. j - 1 \in 0..M /\ i + (j - 1) < m
    BY <1>3
  <2>2. QED BY <1>4, <2>1
<1>7. i > 0 /\ j > 0 => In(S, i - 1, j - 1)
  <2> SUFFICES ASSUME i > 0, j > 0 PROVE In(S, i - 1, j - 1)
    OBVIOUS
  <2>1. i - 1 \in 0..N /\ j - 1 \in 0..M /\ (i - 1) + (j - 1) < m
    BY <1>3
  <2>2. QED BY <1>4, <2>1
<1>8. QED BY <1>3, <1>5, <1>6, <1>7 DEF Closed

-----------------------------------------------------------------------------
(* A letter replaced, removed or inserted.                                  *)

\* A word and one that has another letter in place of, or one letter more than, it.
Replaced(v, w, p) ==
  /\ w \in Seq(Letters) /\ Len(w) = Len(v) /\ p \in 1..Len(v)
  /\ \A i \in 1..Len(v) : i # p => w[i] = v[i]
Longer(v, w, p) ==
  /\ w \in Seq(Letters) /\ Len(w) = Len(v) + 1 /\ p \in 1..Len(v) + 1
  /\ \A i \in 1..p - 1 : w[i] = v[i]
  /\ \A i \in p..Len(v) : w[i + 1] = v[i]

LEMMA PieceIs ==
  ASSUME NEW s \in Seq(Letters), NEW a \in Nat \ {0}, NEW z \in 0..Len(s), a <= z + 1
  PROVE  /\ SubSeq(s, a, z) \in Seq(Letters) /\ Len(SubSeq(s, a, z)) = z + 1 - a
         /\ \A n \in 1..z + 1 - a : SubSeq(s, a, z)[n] = s[a + n - 1]
<1>1. \A i \in a..z : s[i] \in Letters
  OBVIOUS
<1>2. PICK t : t = SubSeq(s, a, z)
  OBVIOUS
<1>3. /\ t \in Seq(Letters) /\ Len(t) = (IF a <= z THEN z - a + 1 ELSE 0)
      /\ \A i \in 1..z - a + 1 : t[i] = s[a + i - 1]
  BY <1>1, <1>2, SubSeqProperties
<1>4. z - a + 1 = z + 1 - a
  OBVIOUS
<1>5. QED BY <1>2, <1>3, <1>4

LEMMA FrontIs ==
  ASSUME NEW s \in Seq(Letters), NEW k \in 0..Len(s)
  PROVE  /\ SubSeq(s, 1, k) \in Seq(Letters) /\ Len(SubSeq(s, 1, k)) = k
         /\ \A n \in 1..k : SubSeq(s, 1, k)[n] = s[n]
<1>1. 1 \in Nat \ {0} /\ 1 <= k + 1 /\ k + 1 - 1 = k /\ \A n \in 1..k : 1 + n - 1 = n
  OBVIOUS
<1>2. PICK t : t = SubSeq(s, 1, k)
  OBVIOUS
<1>3. /\ t \in Seq(Letters) /\ Len(t) = k + 1 - 1
      /\ \A n \in 1..k + 1 - 1 : t[n] = s[1 + n - 1]
  BY <1>1, <1>2, PieceIs
<1>4. QED BY <1>1, <1>2, <1>3

LEMMA BackIs ==
  ASSUME NEW s \in Seq(Letters), NEW k \in 0..Len(s)
  PROVE  /\ SubSeq(s, k + 1, Len(s)) \in Seq(Letters) /\ Len(SubSeq(s, k + 1, Len(s))) = Len(s) - k
         /\ \A n \in 1..Len(s) - k : SubSeq(s, k + 1, Len(s))[n] = s[k + n]
<1>1. PICK L : L = Len(s)
  OBVIOUS
<1>2. /\ L \in 0..L /\ k + 1 \in Nat \ {0} /\ k + 1 <= L + 1 /\ L + 1 - (k + 1) = L - k
      /\ \A n \in 1..L - k : (k + 1) + n - 1 = k + n
  BY <1>1
<1>3. PICK t : t = SubSeq(s, k + 1, L)
  OBVIOUS
<1>4. /\ t \in Seq(Letters) /\ Len(t) = L + 1 - (k + 1)
      /\ \A n \in 1..L + 1 - (k + 1) : t[n] = s[(k + 1) + n - 1]
  BY <1>1, <1>2, <1>3, PieceIs
<1>5. QED BY <1>1, <1>2, <1>3, <1>4

LEMMA JoinedIs ==
  ASSUME NEW s \in Seq(Letters), NEW t \in Seq(Letters)
  PROVE  /\ s \o t \in Seq(Letters) /\ Len(s \o t) = Len(s) + Len(t)
         /\ \A n \in 1..Len(s) : (s \o t)[n] = s[n]
         /\ \A n \in 1..Len(t) : (s \o t)[Len(s) + n] = t[n]
OBVIOUS

LEMMA SameWord ==
  ASSUME NEW s \in Seq(Letters), NEW t \in Seq(Letters), Len(s) = Len(t),
         \A n \in 1..Len(s) : s[n] = t[n]
  PROVE  s = t
<1>1. s = [n \in 1..Len(s) |-> s[n]] /\ t = [n \in 1..Len(t) |-> t[n]]
  OBVIOUS
<1>2. QED BY <1>1

LEMMA ReplaceAtIs ==
  ASSUME NEW v \in Seq(Letters), NEW p \in 1..Len(v), NEW c \in Letters
  PROVE  Replaced(v, ReplaceAt(v, p, c), p) /\ ReplaceAt(v, p, c)[p] = c
BY DEF Replaced, ReplaceAt

LEMMA RemoveAtIs ==
  ASSUME NEW v \in Seq(Letters), NEW p \in 1..Len(v)
  PROVE  RemoveAt(v, p) \in Seq(Letters) /\ Longer(RemoveAt(v, p), v, p)
<1>1. PICK s, t : s = SubSeq(v, 1, p - 1) /\ t = SubSeq(v, p + 1, Len(v))
  OBVIOUS
<1>2. s \in Seq(Letters) /\ Len(s) = p - 1 /\ \A n \in 1..p - 1 : s[n] = v[n]
  <2>1. p - 1 \in 0..Len(v)
    OBVIOUS
  <2>2. QED BY <1>1, <2>1, FrontIs
<1>3. t \in Seq(Letters) /\ Len(t) = Len(v) - p /\ \A n \in 1..Len(v) - p : t[n] = v[p + n]
  <2>1. p \in 0..Len(v)
    OBVIOUS
  <2>2. QED BY <1>1, <2>1, BackIs
<1>4. PICK w : w = s \o t
  OBVIOUS
<1>5. RemoveAt(v, p) = w
  BY <1>1, <1>4 DEF RemoveAt
<1>6. w \in Seq(Letters) /\ Len(w) = Len(s) + Len(t) /\ \A n \in 1..Len(s) : w[n] = s[n]
  BY <1>2, <1>3, <1>4, JoinedIs
<1>7. \A m \in 1..Len(t) : w[Len(s) + m] = t[m]
  BY <1>2, <1>3, <1>4, JoinedIs
<1>8. PICK T, L, W : T = Len(t) /\ L = Len(v) /\ W = Len(w)
  OBVIOUS
<1>9. T = L - p /\ W = (p - 1) + T /\ p \in 1..L /\ L \in Nat
  BY <1>2, <1>3, <1>6, <1>8
<1>10. L = W + 1 /\ p \in 1..W + 1 /\ p \in Nat
  BY <1>9
<1>11. \A i \in 1..p - 1 : v[i] = w[i]
  BY <1>2, <1>6
<1>12. \A m \in 1..T : w[(p - 1) + m] = v[p + m]
  BY <1>2, <1>3, <1>7, <1>8
<1>13. ASSUME NEW i \in p..W PROVE v[i + 1] = w[i]
  <2>1. i + 1 - p \in 1..T /\ (p - 1) + (i + 1 - p) = i /\ p + (i + 1 - p) = i + 1
    BY <1>9
  <2>2. QED BY <1>12, <2>1
<1>14. QED BY <1>5, <1>6, <1>8, <1>10, <1>11, <1>13 DEF Longer

LEMMA InsertAtIs ==
  ASSUME NEW v \in Seq(Letters), NEW p \in 1..Len(v) + 1, NEW c \in Letters
  PROVE  Longer(v, InsertAt(v, p, c), p) /\ InsertAt(v, p, c)[p] = c
<1>1. PICK s, t : s = SubSeq(v, 1, p - 1) /\ t = SubSeq(v, p, Len(v))
  OBVIOUS
<1>2. s \in Seq(Letters) /\ Len(s) = p - 1 /\ \A n \in 1..p - 1 : s[n] = v[n]
  <2>1. p - 1 \in 0..Len(v)
    OBVIOUS
  <2>2. QED BY <1>1, <2>1, FrontIs
<1>3. t \in Seq(Letters) /\ Len(t) = Len(v) + 1 - p /\ \A n \in 1..Len(v) + 1 - p : t[n] = v[p + n - 1]
  <2>1. Len(v) \in 0..Len(v) /\ p \in Nat \ {0} /\ p <= Len(v) + 1
    OBVIOUS
  <2>2. QED BY <1>1, <2>1, PieceIs
<1>4. PICK r : r = s \o << c >>
  OBVIOUS
<1>5. << c >> \in Seq(Letters) /\ Len(<< c >>) = 1 /\ << c >>[1] = c
  OBVIOUS
<1>6. r \in Seq(Letters) /\ Len(r) = p /\ r[p] = c /\ \A n \in 1..p - 1 : r[n] = v[n]
  <2>1. /\ r \in Seq(Letters) /\ Len(r) = Len(s) + 1
        /\ \A n \in 1..Len(s) : r[n] = s[n] /\ \A m \in 1..1 : r[Len(s) + m] = << c >>[m]
    BY <1>2, <1>4, <1>5, JoinedIs
  <2>2. r[Len(s) + 1] = c
    BY <1>2, <1>4
  <2>3. Len(s) + 1 = p
    BY <1>2
  <2>4. QED BY <1>2, <1>4, <2>1, <2>2, <2>3
<1>7. PICK w : w = r \o t
  OBVIOUS
<1>8. InsertAt(v, p, c) = w
  BY <1>1, <1>4, <1>7 DEF InsertAt
<1>9. /\ w \in Seq(Letters) /\ Len(w) = p + Len(t)
      /\ \A n \in 1..p : w[n] = r[n]
  BY <1>3, <1>6, <1>7, JoinedIs
<1>10. \A m \in 1..Len(t) : w[p + m] = t[m]
  <2>1. \A m \in 1..Len(t) : w[Len(r) + m] = t[m]
    BY <1>3, <1>6, <1>7, JoinedIs
  <2>2. QED BY <1>6, <2>1
<1>11. Len(w) = Len(v) + 1 /\ w[p] = c
  BY <1>3, <1>6, <1>9
<1>12. \A i \in 1..p - 1 : w[i] = v[i]
  BY <1>6, <1>9
<1>13. ASSUME NEW i \in p..Len(v) PROVE w[i + 1] = v[i]
  <2>1. PICK m : m = i + 1 - p
    OBVIOUS
  <2>2. m \in 1..Len(t) /\ p + m = i + 1 /\ p + m - 1 = i
    BY <1>3, <2>1
  <2>3. \A k \in 1..Len(t) : w[p + k] = t[k] /\ t[k] = v[p + k - 1]
    BY <1>3, <1>10
  <2>4. QED BY <2>2, <2>3
<1>14. QED BY <1>8, <1>9, <1>11, <1>12, <1>13 DEF Longer

-----------------------------------------------------------------------------
(* One edit changes a distance by one at most.                              *)

\* Two distances that one edit may lie between.
Apart(m, n) == m \in Nat /\ n \in Nat /\ m <= n + 1 /\ n <= m + 1

LEMMA LeastApart ==
  ASSUME NEW c, NEW x, NEW y, NEW z, NEW e, NEW u, NEW v, NEW w,
         IsLeast(c, x, y, z), IsLeast(e, u, v, w), Apart(x, u), Apart(y, v), Apart(z, w)
  PROVE  Apart(c, e)
BY DEF IsLeast, Apart

LEMMA OneMoreApart ==
  ASSUME NEW m, NEW n, Apart(m, n)
  PROVE  Apart(m + 1, n + 1)
BY DEF Apart

LEMMA UnlikeIs == \A a, b, i, j : Unlike(a, b, i, j) \in {0, 1}
BY DEF Unlike

LEMMA SameCell ==
  ASSUME NEW c, NEW e, NEW x \in Nat, NEW y \in Nat, NEW z \in Nat,
         IsLeast(c, x, y, z), IsLeast(e, x, y, z)
  PROVE  c = e
BY DEF IsLeast

\* What two words begin with has the same distances.
SameRows(d, e, p, M) == \A i \in 0..p, j \in 0..M : Cell(d, i, j) = Cell(e, i, j)

LEMMA SameBeginning ==
  ASSUME NEW a \in Seq(Letters), NEW c \in Seq(Letters), NEW b \in Seq(Letters),
         NEW d, NEW e, Fills(a, b, d), Fills(c, b, e),
         NEW p \in Nat, p <= Len(a), p <= Len(c), \A i \in 1..p : a[i] = c[i]
  PROVE  SameRows(d, e, p, Len(b))
<1> DEFINE M == Len(b)
           S == {q \in (0..p) \X (0..M) : Cell(d, q[1], q[2]) = Cell(e, q[1], q[2])}
<1>1. M \in Nat /\ \A i \in 1..p : i \in 1..Len(a) /\ i \in 1..Len(c)
  OBVIOUS
<1>2. \A i \in 0..p : i \in 0..Len(a) /\ i \in 0..Len(c)
  OBVIOUS
<1>3. \A i \in 0..p, j \in 0..M : In(S, i, j) <=> Cell(d, i, j) = Cell(e, i, j)
  BY DEF In
<1>4. ASSUME NEW i \in 0..p, NEW j \in 0..M,
             i > 0 => In(S, i - 1, j), j > 0 => In(S, i, j - 1),
             i > 0 /\ j > 0 => In(S, i - 1, j - 1)
      PROVE  In(S, i, j)
  <2> HIDE DEF S, M
  <2>1. CASE i = 0
    <3>1. Cell(d, 0, j) = j /\ Cell(e, 0, j) = j
      BY DEF Fills, M
    <3>2. QED BY <1>3, <2>1, <3>1
  <2>2. CASE j = 0
    <3>1. Cell(d, i, 0) = i /\ Cell(e, i, 0) = i
      BY <1>2 DEF Fills, M
    <3>2. QED BY <1>3, <2>2, <3>1
  <2>3. CASE i # 0 /\ j # 0
    <3>1. i \in 1..p /\ j \in 1..M /\ i - 1 \in 0..p /\ j - 1 \in 0..M /\ i > 0 /\ j > 0
      BY <1>1, <2>3
    <3>2. PICK x, y, z : x = Cell(d, i - 1, j) /\ y = Cell(d, i, j - 1) /\ z = Cell(d, i - 1, j - 1)
      OBVIOUS
    <3>3. x = Cell(e, i - 1, j) /\ y = Cell(e, i, j - 1) /\ z = Cell(e, i - 1, j - 1)
      BY <1>3, <1>4, <3>1, <3>2
    <3>4. PICK u : u = Unlike(a, b, i, j)
      OBVIOUS
    <3>5. u = Unlike(c, b, i, j) /\ u \in {0, 1}
      BY <3>1, <3>4 DEF Unlike
    <3>6. i \in 1..Len(a) /\ i \in 1..Len(c)
      BY <1>1, <3>1
    <3>7. IsLeast(Cell(d, i, j), x + 1, y + 1, z + u) /\ IsLeast(Cell(e, i, j), x + 1, y + 1, z + u)
      BY <3>1, <3>2, <3>3, <3>4, <3>5, <3>6 DEF Fills, M
    <3>8. x \in Nat /\ y \in Nat /\ z \in Nat
      BY <1>2, <3>1, <3>2 DEF Fills, M
    <3>9. x + 1 \in Nat /\ y + 1 \in Nat /\ z + u \in Nat
      BY <3>5, <3>8
    <3>10. QED BY <1>3, <3>7, <3>9, SameCell
  <2>4. QED BY <2>1, <2>2, <2>3
<1>5. Closed(p, M, S)
  <2> HIDE DEF S, M
  <2>1. QED BY <1>4 DEF Closed
<1>6. \A i \in 0..p, j \in 0..M : In(S, i, j)
  <2> HIDE DEF S
  <2>1. QED BY <1>1, <1>5, Grid
<1>7. QED
  <2> HIDE DEF S
  <2>1. QED BY <1>3, <1>6 DEF SameRows

\* Another letter.
LEMMA ReplacedApart ==
  ASSUME NEW a \in Seq(Letters), NEW c, NEW p, Replaced(a, c, p), NEW b \in Seq(Letters)
  PROVE  Apart(Levenshtein(a, b), Levenshtein(c, b))
<1> DEFINE N == Len(a)
           M == Len(b)
<1>1. /\ c \in Seq(Letters) /\ Len(c) = N /\ p \in 1..N
      /\ \A i \in 1..N : i # p => a[i] = c[i]
  BY DEF Replaced
<1>2. PICK d : Fills(a, b, d) /\ Levenshtein(a, b) = Cell(d, N, M)
  BY TableIs
<1>3. PICK e : Fills(c, b, e) /\ Levenshtein(c, b) = Cell(e, N, M)
  BY <1>1, TableIs
<1>4. N \in Nat /\ M \in Nat
  OBVIOUS
<1>5. SameRows(d, e, p - 1, M)
  <2>1. p - 1 \in Nat /\ p - 1 <= Len(a) /\ p - 1 <= Len(c) /\ \A i \in 1..p - 1 : a[i] = c[i]
    BY <1>1
  <2>2. QED BY <1>1, <1>2, <1>3, <2>1, SameBeginning
<1> DEFINE S == {q \in (0..N) \X (0..M) : Apart(Cell(d, q[1], q[2]), Cell(e, q[1], q[2]))}
<1>6. \A i \in 0..N, j \in 0..M : In(S, i, j) <=> Apart(Cell(d, i, j), Cell(e, i, j))
  BY DEF In
<1>7. ASSUME NEW i \in 0..N, NEW j \in 0..M,
             i > 0 => In(S, i - 1, j), j > 0 => In(S, i, j - 1),
             i > 0 /\ j > 0 => In(S, i - 1, j - 1)
      PROVE  In(S, i, j)
  <2> HIDE DEF S
  <2>1. CASE i = 0
    <3>1. Cell(d, 0, j) = j /\ Cell(e, 0, j) = j
      BY <1>2, <1>3 DEF Fills
    <3>2. QED BY <1>6, <2>1, <3>1 DEF Apart
  <2>2. CASE j = 0
    <3>1. Cell(d, i, 0) = i /\ Cell(e, i, 0) = i
      BY <1>1, <1>2, <1>3 DEF Fills
    <3>2. QED BY <1>6, <2>2, <3>1 DEF Apart
  <2>3. CASE i # 0 /\ j # 0
    <3> HIDE DEF N, M
    <3>1. i \in 1..N /\ j \in 1..M /\ i - 1 \in 0..N /\ j - 1 \in 0..M /\ i > 0 /\ j > 0
      BY <1>4, <2>3
    <3>2. PICK x, y, z : x = Cell(d, i - 1, j) /\ y = Cell(d, i, j - 1) /\ z = Cell(d, i - 1, j - 1)
      OBVIOUS
    <3>3. PICK r, s, t : r = Cell(e, i - 1, j) /\ s = Cell(e, i, j - 1) /\ t = Cell(e, i - 1, j - 1)
      OBVIOUS
    <3>4. Apart(x, r) /\ Apart(y, s) /\ Apart(z, t)
      BY <1>6, <1>7, <3>1, <3>2, <3>3
    <3>5. PICK u, v : u = Unlike(a, b, i, j) /\ v = Unlike(c, b, i, j)
      OBVIOUS
    <3>6. u \in {0, 1} /\ v \in {0, 1}
      BY <3>5, UnlikeIs
    <3>7. IsLeast(Cell(d, i, j), x + 1, y + 1, z + u) /\ IsLeast(Cell(e, i, j), r + 1, s + 1, t + v)
      BY <1>1, <1>2, <1>3, <3>1, <3>2, <3>3, <3>5 DEF Fills, N, M
    <3>8. Apart(z + u, t + v)
      <4>1. CASE i = p
        <5>1. i - 1 \in 0..p - 1
          BY <3>1, <4>1
        <5>2. z = t
          BY <1>5, <3>1, <3>2, <3>3, <5>1 DEF SameRows
        <5>3. QED BY <3>4, <3>6, <5>2 DEF Apart
      <4>2. CASE i # p
        <5>1. u = v
          BY <1>1, <3>1, <3>5, <4>2 DEF Unlike
        <5>2. QED BY <3>4, <3>6, <5>1 DEF Apart
      <4>3. QED BY <4>1, <4>2
    <3>9. Apart(x + 1, r + 1) /\ Apart(y + 1, s + 1)
      BY <3>4, OneMoreApart
    <3>10. Apart(Cell(d, i, j), Cell(e, i, j))
      BY <3>7, <3>8, <3>9, LeastApart
    <3>11. QED BY <1>6, <3>10
  <2>4. QED BY <2>1, <2>2, <2>3
<1>8. Closed(N, M, S)
  <2> HIDE DEF S, N, M
  <2>1. QED BY <1>7 DEF Closed
<1>9. In(S, N, M)
  <2>1. N \in 0..N /\ M \in 0..M
    BY <1>4
  <2> HIDE DEF S, N, M
  <2>2. QED BY <1>4, <1>8, <2>1, Grid
<1>10. QED
  <2>1. N \in 0..N /\ M \in 0..M
    BY <1>4
  <2> HIDE DEF S, N, M
  <2>2. QED BY <1>2, <1>3, <1>6, <1>9, <2>1

\* Two rows that follow each other.
LEMMA RowsApart ==
  ASSUME NEW a \in Seq(Letters), NEW b \in Seq(Letters), NEW d, Fills(a, b, d)
  PROVE  \A i \in 1..Len(a), j \in 0..Len(b) : Apart(Cell(d, i, j), Cell(d, i - 1, j))
<1> DEFINE N == Len(a)
           M == Len(b)
           S == {q \in (0..N) \X (0..M) :
                   q[1] > 0 => Apart(Cell(d, q[1], q[2]), Cell(d, q[1] - 1, q[2]))}
<1>1. N \in Nat /\ M \in Nat
  OBVIOUS
<1>2. \A i \in 0..N, j \in 0..M :
        In(S, i, j) <=> (i > 0 => Apart(Cell(d, i, j), Cell(d, i - 1, j)))
  BY DEF In
<1>3. ASSUME NEW i \in 0..N, NEW j \in 0..M, j > 0 => In(S, i, j - 1)
      PROVE  In(S, i, j)
  <2> HIDE DEF S
  <2> SUFFICES ASSUME i > 0 PROVE Apart(Cell(d, i, j), Cell(d, i - 1, j))
    BY <1>2
  <2>1. CASE j = 0
    <3>1. i - 1 \in 0..N
      BY <1>1
    <3>2. Cell(d, i, 0) = i /\ Cell(d, i - 1, 0) = i - 1
      BY <3>1 DEF Fills
    <3>3. Apart(i, i - 1)
      BY <3>1 DEF Apart
    <3>4. QED BY <2>1, <3>2, <3>3
  <2>2. CASE j # 0
    <3> HIDE DEF N, M
    <3>1. i \in 1..N /\ j \in 1..M /\ i - 1 \in 0..N /\ j - 1 \in 0..M /\ j > 0
      BY <1>1, <2>2
    <3>2. PICK x, y, z, u : /\ x = Cell(d, i - 1, j) /\ y = Cell(d, i, j - 1)
                            /\ z = Cell(d, i - 1, j - 1) /\ u = Unlike(a, b, i, j)
      OBVIOUS
    <3>3. PICK c : c = Cell(d, i, j)
      OBVIOUS
    <3>4. c \in Nat /\ x \in Nat /\ y \in Nat /\ z \in Nat
      BY <3>1, <3>2, <3>3 DEF Fills, N, M
    <3>5. u \in {0, 1}
      BY <3>2, UnlikeIs
    <3>6. IsLeast(c, x + 1, y + 1, z + u)
      BY <3>1, <3>2, <3>3 DEF Fills, N, M
    <3>7. Apart(y, z)
      BY <1>2, <1>3, <3>1, <3>2
    <3>8. x <= z + 1
      <4>1. CASE i = 1
        <5>1. x = j /\ z = j - 1
          BY <3>1, <3>2, <4>1 DEF Fills, N, M
        <5>2. QED BY <3>4, <5>1
      <4>2. CASE i # 1
        <5>1. i - 1 \in 1..N
          BY <3>1, <4>2
        <5>2. PICK r, t, v : r = Cell(d, i - 2, j) /\ t = Cell(d, i - 2, j - 1) /\ v = Unlike(a, b, i - 1, j)
          OBVIOUS
        <5>3. (i - 1) - 1 = i - 2
          BY <5>1
        <5>4. IsLeast(x, r + 1, z + 1, t + v)
          BY <3>1, <3>2, <5>1, <5>2, <5>3 DEF Fills, N, M
        <5>5. QED BY <5>4 DEF IsLeast
      <4>3. QED BY <4>1, <4>2
    <3>9. Apart(c, x)
      BY <3>4, <3>5, <3>6, <3>7, <3>8 DEF IsLeast, Apart
    <3>10. QED BY <3>2, <3>3, <3>9
  <2>3. QED BY <2>1, <2>2
<1>4. Closed(N, M, S)
  <2> HIDE DEF S, N, M
  <2>1. QED BY <1>3 DEF Closed
<1>5. \A i \in 0..N, j \in 0..M : In(S, i, j)
  <2> HIDE DEF S, N, M
  <2>1. QED BY <1>1, <1>4, Grid
<1>6. \A i \in 1..N : i \in 0..N /\ i > 0
  OBVIOUS
<1>7. QED
  <2> HIDE DEF S
  <2>1. QED BY <1>2, <1>5, <1>6

\* One letter more.
LEMMA LongerApart ==
  ASSUME NEW a \in Seq(Letters), NEW c, NEW p, Longer(a, c, p), NEW b \in Seq(Letters)
  PROVE  Apart(Levenshtein(c, b), Levenshtein(a, b))
<1> DEFINE N == Len(a)
           M == Len(b)
<1>1. /\ c \in Seq(Letters) /\ Len(c) = N + 1 /\ p \in 1..N + 1
      /\ \A i \in 1..p - 1 : c[i] = a[i]
      /\ \A i \in p..N : c[i + 1] = a[i]
  BY DEF Longer
<1>2. PICK d : Fills(a, b, d) /\ Levenshtein(a, b) = Cell(d, N, M)
  BY TableIs
<1>3. PICK e : Fills(c, b, e) /\ Levenshtein(c, b) = Cell(e, N + 1, M)
  BY <1>1, TableIs
<1>4. N \in Nat /\ M \in Nat
  OBVIOUS
<1>5. SameRows(d, e, p - 1, M)
  <2>1. p - 1 \in Nat /\ p - 1 <= Len(a) /\ p - 1 <= Len(c) /\ \A i \in 1..p - 1 : a[i] = c[i]
    BY <1>1
  <2>2. QED BY <1>1, <1>2, <1>3, <2>1, SameBeginning
<1>6. \A i \in 1..N + 1, j \in 0..M : Apart(Cell(e, i, j), Cell(e, i - 1, j))
  BY <1>1, <1>3, RowsApart
<1> DEFINE S == {q \in (0..N) \X (0..M) :
                   q[1] >= p - 1 => Apart(Cell(e, q[1] + 1, q[2]), Cell(d, q[1], q[2]))}
<1>7. \A i \in 0..N, j \in 0..M :
        In(S, i, j) <=> (i >= p - 1 => Apart(Cell(e, i + 1, j), Cell(d, i, j)))
  BY DEF In
<1>8. ASSUME NEW i \in 0..N, NEW j \in 0..M,
             i > 0 => In(S, i - 1, j), j > 0 => In(S, i, j - 1),
             i > 0 /\ j > 0 => In(S, i - 1, j - 1)
      PROVE  In(S, i, j)
  <2> HIDE DEF S
  <2> SUFFICES ASSUME i >= p - 1 PROVE Apart(Cell(e, i + 1, j), Cell(d, i, j))
    BY <1>7
  <2>1. CASE i = p - 1
    <3>1. i + 1 \in 1..N + 1 /\ (i + 1) - 1 = i
      BY <1>4
    <3>2. Apart(Cell(e, i + 1, j), Cell(e, i, j))
      BY <1>6, <3>1
    <3>3. Cell(d, i, j) = Cell(e, i, j)
      <4>1. i \in 0..p - 1
        BY <1>1, <2>1
      <4>2. QED BY <1>5, <4>1 DEF SameRows
    <3>4. QED BY <3>2, <3>3
  <2>2. CASE i # p - 1 /\ j = 0
    <3>1. i + 1 \in 0..Len(c) /\ i \in 0..Len(a)
      BY <1>1, <1>4
    <3>2. Cell(e, i + 1, 0) = i + 1 /\ Cell(d, i, 0) = i
      BY <1>2, <1>3, <3>1 DEF Fills
    <3>3. Apart(i + 1, i)
      BY <1>4 DEF Apart
    <3>4. QED BY <2>2, <3>2, <3>3
  <2>3. CASE i # p - 1 /\ j # 0
    <3> HIDE DEF N, M
    <3>1. /\ i \in p..N /\ i \in 1..N /\ j \in 1..M /\ i - 1 \in 0..N /\ j - 1 \in 0..M /\ i > 0 /\ j > 0
          /\ i - 1 >= p - 1 /\ (i - 1) + 1 = i /\ (i + 1) - 1 = i /\ i + 1 \in 1..N + 1
      BY <1>1, <1>4, <2>3
    <3>2. PICK x, y, z : x = Cell(d, i - 1, j) /\ y = Cell(d, i, j - 1) /\ z = Cell(d, i - 1, j - 1)
      OBVIOUS
    <3>3. PICK r, s, t : r = Cell(e, i, j) /\ s = Cell(e, i + 1, j - 1) /\ t = Cell(e, i, j - 1)
      OBVIOUS
    <3>4. Apart(r, x)
      <4>1. In(S, i - 1, j)
        BY <1>8, <3>1
      <4>2. QED BY <1>7, <3>1, <3>2, <3>3, <4>1
    <3>5. Apart(s, y)
      <4>1. In(S, i, j - 1)
        BY <1>8, <3>1
      <4>2. QED BY <1>7, <3>1, <3>2, <3>3, <4>1
    <3>6. Apart(t, z)
      <4>1. In(S, i - 1, j - 1)
        BY <1>8, <3>1
      <4>2. QED BY <1>7, <3>1, <3>2, <3>3, <4>1
    <3>7. PICK u, v : u = Unlike(a, b, i, j) /\ v = Unlike(c, b, i + 1, j)
      OBVIOUS
    <3>8. u = v
      <4>1. c[i + 1] = a[i]
        BY <1>1, <3>1
      <4>2. QED BY <3>7, <4>1 DEF Unlike
    <3>9. u \in {0, 1}
      BY <3>7, UnlikeIs
    <3>10. IsLeast(Cell(d, i, j), x + 1, y + 1, z + u)
      BY <1>2, <3>1, <3>2, <3>7 DEF Fills, N, M
    <3>11. IsLeast(Cell(e, i + 1, j), r + 1, s + 1, t + v)
      <4>1. i + 1 \in 1..Len(c)
        BY <1>1, <3>1 DEF N
      <4>2. IsLeast(Cell(e, i + 1, j), Cell(e, (i + 1) - 1, j) + 1, Cell(e, i + 1, j - 1) + 1,
                    Cell(e, (i + 1) - 1, j - 1) + Unlike(c, b, i + 1, j))
        BY <1>3, <3>1, <4>1 DEF Fills, M
      <4>3. QED BY <3>1, <3>3, <3>7, <4>2
    <3>12. Apart(t + v, z + u)
      BY <3>6, <3>8, <3>9 DEF Apart
    <3>13. Apart(r + 1, x + 1) /\ Apart(s + 1, y + 1)
      BY <3>4, <3>5, OneMoreApart
    <3>14. QED BY <3>10, <3>11, <3>12, <3>13, LeastApart
  <2>4. QED BY <2>1, <2>2, <2>3
<1>9. Closed(N, M, S)
  <2> HIDE DEF S, N, M
  <2>1. QED BY <1>8 DEF Closed
<1>10. In(S, N, M)
  <2>1. N \in 0..N /\ M \in 0..M
    BY <1>4
  <2> HIDE DEF S, N, M
  <2>2. QED BY <1>4, <1>9, <2>1, Grid
<1>11. QED
  <2>1. N \in 0..N /\ M \in 0..M /\ N >= p - 1
    BY <1>1, <1>4
  <2> HIDE DEF S, N, M
  <2>2. QED BY <1>2, <1>3, <1>7, <1>10, <2>1

\* One edit.
LEMMA OneEditApart ==
  ASSUME NEW w \in Seq(Letters), NEW e \in OneEdit(w), NEW b \in Seq(Letters)
  PROVE  e \in Seq(Letters) /\ Apart(Levenshtein(w, b), Levenshtein(e, b))
<1>1. Len(w) \in Nat /\ DOMAIN w = 1..Len(w)
  OBVIOUS
<1>2. ASSUME NEW p \in DOMAIN w, e = RemoveAt(w, p)
      PROVE  e \in Seq(Letters) /\ Apart(Levenshtein(w, b), Levenshtein(e, b))
  <2>1. e \in Seq(Letters) /\ Longer(e, w, p)
    BY <1>1, <1>2, RemoveAtIs
  <2>2. QED BY <2>1, LongerApart
<1>3. ASSUME NEW p \in DOMAIN w, NEW c \in Letters, e = ReplaceAt(w, p, c)
      PROVE  e \in Seq(Letters) /\ Apart(Levenshtein(w, b), Levenshtein(e, b))
  <2>1. Replaced(w, e, p)
    BY <1>1, <1>3, ReplaceAtIs
  <2>2. e \in Seq(Letters)
    BY <2>1 DEF Replaced
  <2>3. QED BY <2>1, <2>2, ReplacedApart
<1>4. ASSUME NEW p \in 1..Len(w) + 1, NEW c \in Letters, e = InsertAt(w, p, c)
      PROVE  e \in Seq(Letters) /\ Apart(Levenshtein(w, b), Levenshtein(e, b))
  <2>1. Longer(w, e, p)
    BY <1>4, InsertAtIs
  <2>2. e \in Seq(Letters)
    BY <2>1 DEF Longer
  <2>3. Apart(Levenshtein(e, b), Levenshtein(w, b))
    BY <2>1, LongerApart
  <2>4. QED BY <2>2, <2>3 DEF Apart
<1>5. \/ \E p \in DOMAIN w : e = RemoveAt(w, p)
      \/ \E p \in DOMAIN w, c \in Letters : e = ReplaceAt(w, p, c)
      \/ \E p \in 1..Len(w) + 1, c \in Letters : e = InsertAt(w, p, c)
  BY SMT DEF OneEdit
<1>6. QED BY <1>2, <1>3, <1>4, <1>5

LEMMA NoEdits ==
  ASSUME NEW b \in Seq(Letters)
  PROVE  Levenshtein(b, b) = 0
<1> DEFINE M == Len(b)
<1>1. PICK d : Fills(b, b, d) /\ Levenshtein(b, b) = Cell(d, M, M)
  BY TableIs
<1> DEFINE S == {q \in (0..M) \X (0..M) : q[1] = q[2] => Cell(d, q[1], q[2]) = 0}
<1>2. M \in Nat /\ M \in 0..M
  OBVIOUS
<1>3. \A i \in 0..M, j \in 0..M : In(S, i, j) <=> (i = j => Cell(d, i, j) = 0)
  BY DEF In
<1>4. ASSUME NEW i \in 0..M, NEW j \in 0..M, i > 0 /\ j > 0 => In(S, i - 1, j - 1)
      PROVE  In(S, i, j)
  <2> HIDE DEF S
  <2> SUFFICES ASSUME i = j PROVE Cell(d, i, j) = 0
    BY <1>3
  <2>1. CASE i = 0
    BY <1>1, <2>1 DEF Fills
  <2>2. CASE i # 0
    <3> HIDE DEF M
    <3>1. i \in 1..M /\ j \in 1..M /\ i - 1 \in 0..M /\ j - 1 \in 0..M /\ i > 0 /\ j > 0 /\ i - 1 = j - 1
      BY <1>2, <2>2
    <3>2. Cell(d, i - 1, j - 1) = 0
      BY <1>3, <1>4, <3>1
    <3>3. PICK x, y, u, c : /\ x = Cell(d, i - 1, j) /\ y = Cell(d, i, j - 1)
                            /\ u = Unlike(b, b, i, j) /\ c = Cell(d, i, j)
      OBVIOUS
    <3>4. u = 0
      BY <3>3 DEF Unlike
    <3>5. IsLeast(c, x + 1, y + 1, Cell(d, i - 1, j - 1) + u) /\ c \in Nat
      BY <1>1, <3>1, <3>3 DEF Fills, M
    <3>6. IsLeast(c, x + 1, y + 1, 0)
      BY <3>2, <3>4, <3>5
    <3>7. QED BY <3>3, <3>5, <3>6 DEF IsLeast
  <2>3. QED BY <2>1, <2>2
<1>5. Closed(M, M, S)
  <2> HIDE DEF S, M
  <2>1. QED BY <1>4 DEF Closed
<1>6. In(S, M, M)
  <2> HIDE DEF S, M
  <2>1. QED BY <1>2, <1>5, Grid
<1>7. QED
  <2> HIDE DEF S, M
  <2>1. QED BY <1>1, <1>2, <1>3, <1>6

-----------------------------------------------------------------------------
(* What is near the wake word.                                             *)

Around(near) == near \cup UNION {OneEdit(w) : w \in near}
IsNear(near) ==
  near = [n \in 0..fuzzyWakeThreshold |->
            IF n = 0 THEN {WakeWord}
            ELSE LET old == near[n - 1] IN old \cup UNION {OneEdit(w) : w \in old}]

LEMMA NearIs == Near = CHOOSE near : IsNear(near)
BY Zenon DEF Near, IsNear

LEMMA NearRules ==
  /\ Near[0] = {WakeWord}
  /\ \A n \in 1..fuzzyWakeThreshold : Near[n] = Around(Near[n - 1])
  /\ \A n \in 0..fuzzyWakeThreshold : Near[n] \subseteq Seq(Letters)
<1> DEFINE T == fuzzyWakeThreshold
           S == SUBSET Seq(Letters)
           next == [p \in (1..T) \X S |-> Around(p[2])]
<1>1. T \in Nat
  BY DEF fuzzyWakeThreshold
<1>2. {WakeWord} \in S
  BY WordsAssumption
<1>3. \A X \in S : Around(X) \in S
  <2>1. \A w \in Seq(Letters) : OneEdit(w) \subseteq Seq(Letters)
    BY OneEditApart
  <2>2. QED BY <2>1 DEF Around
<1> HIDE DEF S, T
<1>4. IsStep(T, S, next)
  BY <1>3 DEF IsStep
<1>5. Goes(T, S, {WakeWord}, next)
  <2> HIDE DEF next
  <2>1. QED BY <1>1, <1>2, <1>4, Iterate, Zenon
<1>6. PICK h \in [0..T -> S] : h[0] = {WakeWord} /\ \A n \in 1..T : h[n] = StepAt(next, n, h[n - 1])
  <2> HIDE DEF next
  <2>1. QED BY <1>5 DEF Goes
<1>7. ASSUME NEW n \in 1..T PROVE h[n] = Around(h[n - 1])
  <2>1. n - 1 \in 0..T /\ h[n - 1] \in S
    BY <1>1
  <2>2. StepAt(next, n, h[n - 1]) = Around(h[n - 1])
    <3>1. << n, h[n - 1] >> \in (1..T) \X S
      BY <2>1
    <3>2. QED BY <3>1 DEF StepAt
  <2> HIDE DEF next
  <2>3. QED BY <1>6, <2>2
<1> DEFINE G(f, n) == IF n = 0 THEN {WakeWord} ELSE Around(f[n - 1])
<1>8. \A n \in 0..T : h[n] = G(h, n)
  <2> HIDE DEF next
  <2>1. \A n \in 0..T : n = 0 \/ n \in 1..T
    BY <1>1
  <2>2. QED BY <1>6, <1>7, <2>1, Zenon
<1>9. h = [n \in 0..T |-> G(h, n)]
  <2> HIDE DEF G
  <2>1. QED BY <1>8
<1>10. IsNear(h)
  BY <1>9, Zenon DEF IsNear, T, Around
<1>11. PICK near : near = Near
  OBVIOUS
<1>12. IsNear(near)
  BY <1>10, <1>11, NearIs
<1>13. near = [n \in 0..T |-> G(near, n)]
  BY <1>12, Zenon DEF IsNear, T, Around
<1>14. \A n \in 0..T : near[n] = G(near, n)
  <2> HIDE DEF G
  <2>1. QED BY <1>13
<1>15. \A n \in 1..T : n \in 0..T /\ n # 0 /\ n - 1 \in 0..T /\ ~(n <= n - 1) /\ n \in Nat
  BY <1>1
<1>16. 0 \in 0..T /\ \A n \in 0..T : n \in Nat /\ (n = 0 \/ n \in 1..T)
  BY <1>1
<1>17. near[0] = {WakeWord} /\ \A n \in 1..T : near[n] = Around(near[n - 1])
  BY <1>14, <1>15, <1>16, Zenon
<1>18. \A n \in 0..T : near[n] \in S
  <2> DEFINE Bad == {n \in 0..T : near[n] \notin S}
  <2> SUFFICES ASSUME Bad # {} PROVE FALSE
    OBVIOUS
  <2>1. PICK n \in Bad : \A m \in Bad : n <= m
    <3>1. Bad \in SUBSET Nat
      BY <1>16
    <3> HIDE DEF Bad
    <3>2. QED BY <3>1, Least
  <2>2. n \in 1..T
    BY <1>2, <1>16, <1>17
  <2>3. near[n - 1] \in S
    BY <1>15, <2>1, <2>2
  <2>4. QED BY <1>3, <1>17, <2>2, <2>3
<1>19. QED BY <1>11, <1>17, <1>18 DEF S, T

\* What can be reached by n edits is no further than n.
LEMMA NearIsClose ==
  \A n \in 0..fuzzyWakeThreshold : \A w \in Near[n] : Levenshtein(w, WakeWord) <= n
<1> DEFINE T == fuzzyWakeThreshold
           Bad == {n \in 0..T : ~\A w \in Near[n] : Levenshtein(w, WakeWord) <= n}
<1> SUFFICES ASSUME Bad # {} PROVE FALSE
  OBVIOUS
<1>1. T \in Nat
  BY DEF fuzzyWakeThreshold
<1>2. PICK n \in Bad : \A m \in Bad : n <= m
  <2>1. Bad \in SUBSET Nat
    BY <1>1
  <2> HIDE DEF Bad
  <2>2. QED BY <2>1, Least
<1>3. WakeWord \in Seq(Letters)
  BY WordsAssumption
<1>4. n # 0
  BY <1>3, NearRules, NoEdits
<1>5. n \in 1..T /\ n - 1 \in 0..T /\ n - 1 \notin Bad /\ n \in Nat
  <2>1. n \in 0..T
    OBVIOUS
  <2>2. n \in 1..T /\ n - 1 \in 0..T /\ ~(n <= n - 1) /\ n \in Nat
    BY <1>1, <1>4, <2>1
  <2> HIDE DEF Bad
  <2>3. QED BY <1>2, <2>2
<1>6. \A w \in Near[n - 1] : w \in Seq(Letters) /\ Levenshtein(w, WakeWord) <= n - 1
  <2>1. \A w \in Near[n - 1] : Levenshtein(w, WakeWord) <= n - 1
    BY <1>5
  <2>2. Near[n - 1] \subseteq Seq(Letters)
    BY <1>5, NearRules
  <2>3. QED BY <2>1, <2>2
<1>7. PICK w \in Near[n] : ~(Levenshtein(w, WakeWord) <= n)
  BY <1>2
<1>8. Near[n] = Around(Near[n - 1])
  BY <1>5, NearRules
<1> HIDE DEF Bad, T
<1>9. CASE w \in Near[n - 1]
  <2>1. Levenshtein(w, WakeWord) <= n - 1 /\ w \in Seq(Letters)
    BY <1>6, <1>9
  <2>2. Apart(Levenshtein(w, WakeWord), Levenshtein(w, WakeWord))
    <3>1. PICK d : Fills(w, WakeWord, d) /\ Levenshtein(w, WakeWord) = Cell(d, Len(w), Len(WakeWord))
      BY <1>3, <2>1, TableIs
    <3>2. Len(w) \in 0..Len(w) /\ Len(WakeWord) \in 0..Len(WakeWord)
      BY <1>3, <2>1
    <3>3. Levenshtein(w, WakeWord) \in Nat
      BY <3>1, <3>2 DEF Fills
    <3>4. QED BY <3>3 DEF Apart
  <2>3. QED BY <1>5, <1>7, <2>1, <2>2 DEF Apart
<1>10. ASSUME NEW v \in Near[n - 1], w \in OneEdit(v) PROVE FALSE
  <2>1. v \in Seq(Letters) /\ Levenshtein(v, WakeWord) <= n - 1
    BY <1>6
  <2>2. Apart(Levenshtein(v, WakeWord), Levenshtein(w, WakeWord))
    BY <1>3, <1>10, <2>1, OneEditApart
  <2>3. QED BY <1>5, <1>7, <2>1, <2>2 DEF Apart
<1>11. QED BY <1>7, <1>8, <1>9, <1>10 DEF Around

-----------------------------------------------------------------------------
(* What has a small distance is reached by as many edits.                   *)

\* A word that begins as v up to i and goes on as b after j.
Mixed(t, v, b, i, j) ==
  /\ t \in Seq(Letters) /\ Len(t) = i + Len(b) - j
  /\ \A n \in 1..i : t[n] = v[n]
  /\ \A n \in i + 1..Len(t) : t[n] = b[n - i + j]

LEMMA EditsAre ==
  ASSUME NEW w
  PROVE  /\ \A p \in DOMAIN w : RemoveAt(w, p) \in OneEdit(w)
         /\ \A p \in DOMAIN w, c \in Letters : ReplaceAt(w, p, c) \in OneEdit(w)
         /\ \A p \in 1..Len(w) + 1, c \in Letters : InsertAt(w, p, c) \in OneEdit(w)
<1>1. \A p \in DOMAIN w : RemoveAt(w, p) \in OneEdit(w)
  BY SMT DEF OneEdit
<1>2. \A p \in DOMAIN w, c \in Letters : ReplaceAt(w, p, c) \in OneEdit(w)
  BY SMT DEF OneEdit
<1>3. \A p \in 1..Len(w) + 1, c \in Letters : InsertAt(w, p, c) \in OneEdit(w)
  BY SMT DEF OneEdit
<1>4. QED BY <1>1, <1>2, <1>3

LEMMA MixedInsert ==
  ASSUME NEW v \in Seq(Letters), NEW b \in Seq(Letters),
         NEW i \in 1..Len(v), NEW j \in 0..Len(b), NEW t, Mixed(t, v, b, i - 1, j)
  PROVE  \E s \in OneEdit(t) : Mixed(s, v, b, i, j)
<1>1. PICK c, s : c = v[i] /\ s = InsertAt(t, i, c)
  OBVIOUS
<1>2. PICK T, B : T = Len(t) /\ B = Len(b)
  OBVIOUS
<1>3. /\ t \in Seq(Letters) /\ T = i - 1 + B - j
      /\ \A n \in 1..i - 1 : t[n] = v[n]
      /\ \A n \in i..T : t[n] = b[n - (i - 1) + j]
  <2>1. (i - 1) + 1 = i
    OBVIOUS
  <2>2. QED BY <1>2, <2>1 DEF Mixed
<1>4. T \in Nat /\ B \in Nat /\ j \in 0..B /\ i \in Nat \ {0} /\ i \in 1..T + 1
  BY <1>2, <1>3
<1>5. c \in Letters
  BY <1>1
<1>6. Longer(t, s, i) /\ s[i] = c
  BY <1>1, <1>2, <1>3, <1>4, <1>5, InsertAtIs
<1>7. /\ s \in Seq(Letters) /\ Len(s) = T + 1
      /\ \A n \in 1..i - 1 : s[n] = t[n]
      /\ \A n \in i..T : s[n + 1] = t[n]
  BY <1>2, <1>6 DEF Longer
<1>8. Len(s) = i + B - j
  <2>1. PICK k : k = Len(s)
    OBVIOUS
  <2>2. k = T + 1 /\ T = i - 1 + B - j
    BY <1>3, <1>7, <2>1
  <2>3. k = i + B - j
    BY <1>4, <2>2
  <2>4. QED BY <2>1, <2>3
<1>9. \A n \in 1..i : s[n] = v[n]
  <2>1. \A n \in 1..i : n = i \/ n \in 1..i - 1
    BY <1>4
  <2>2. QED BY <1>1, <1>3, <1>6, <1>7, <2>1
<1>10. ASSUME NEW n \in i + 1..Len(s) PROVE s[n] = b[n - i + j]
  <2>1. n - 1 \in i..T /\ (n - 1) + 1 = n /\ (n - 1) - (i - 1) + j = n - i + j
    BY <1>4, <1>7
  <2>2. QED BY <1>3, <1>7, <2>1
<1>11. s \in OneEdit(t)
  BY <1>1, <1>2, <1>4, <1>5, EditsAre
<1>12. QED BY <1>2, <1>7, <1>8, <1>9, <1>10, <1>11 DEF Mixed

LEMMA MixedRemove ==
  ASSUME NEW v \in Seq(Letters), NEW b \in Seq(Letters),
         NEW i \in 0..Len(v), NEW j \in 1..Len(b), NEW t, Mixed(t, v, b, i, j - 1)
  PROVE  \E s \in OneEdit(t) : Mixed(s, v, b, i, j)
<1>1. PICK s : s = RemoveAt(t, i + 1)
  OBVIOUS
<1>2. PICK T, B : T = Len(t) /\ B = Len(b)
  OBVIOUS
<1>3. /\ t \in Seq(Letters) /\ T = i + B - (j - 1)
      /\ \A n \in 1..i : t[n] = v[n]
      /\ \A n \in i + 1..T : t[n] = b[n - i + (j - 1)]
  BY <1>2 DEF Mixed
<1>4. T \in Nat /\ B \in Nat /\ j \in 1..B /\ i \in Nat /\ i + 1 \in 1..T
  BY <1>2, <1>3
<1>5. s \in Seq(Letters) /\ Longer(s, t, i + 1)
  BY <1>1, <1>2, <1>3, <1>4, RemoveAtIs
<1>6. /\ T = Len(s) + 1
      /\ \A n \in 1..i : t[n] = s[n]
      /\ \A n \in i + 1..Len(s) : t[n + 1] = s[n]
  <2>1. (i + 1) - 1 = i
    BY <1>4
  <2>2. QED BY <1>2, <1>5, <2>1 DEF Longer
<1>7. Len(s) = i + B - j /\ Len(s) \in Nat
  <2>1. PICK k : k = Len(s)
    OBVIOUS
  <2>2. T = k + 1 /\ T = i + B - (j - 1) /\ k \in Nat
    BY <1>3, <1>5, <1>6, <2>1
  <2>3. k = i + B - j
    BY <1>4, <2>2
  <2>4. QED BY <2>1, <2>2, <2>3
<1>8. ASSUME NEW n \in i + 1..Len(s) PROVE s[n] = b[n - i + j]
  <2>1. n + 1 \in i + 1..T /\ (n + 1) - i + (j - 1) = n - i + j
    BY <1>4, <1>6, <1>7, SMTT(30)
  <2>2. QED BY <1>3, <1>6, <2>1
<1>9. s \in OneEdit(t)
  <2>1. DOMAIN t = 1..T
    <3>1. t \in Seq(Letters)
      BY <1>3
    <3>2. DOMAIN t = 1..Len(t)
      BY <3>1
    <3>3. QED BY <1>2, <3>2
  <2>2. QED BY <1>1, <1>4, <2>1, EditsAre
<1>10. QED BY <1>2, <1>3, <1>5, <1>6, <1>7, <1>8, <1>9 DEF Mixed

LEMMA MixedReplace ==
  ASSUME NEW v \in Seq(Letters), NEW b \in Seq(Letters),
         NEW i \in 1..Len(v), NEW j \in 1..Len(b), NEW t, Mixed(t, v, b, i - 1, j - 1)
  PROVE  /\ \E s \in OneEdit(t) : Mixed(s, v, b, i, j)
         /\ b[j] = v[i] => Mixed(t, v, b, i, j)
<1>1. PICK c, s : c = v[i] /\ s = ReplaceAt(t, i, c)
  OBVIOUS
<1>2. PICK T, B : T = Len(t) /\ B = Len(b)
  OBVIOUS
<1>3. /\ t \in Seq(Letters) /\ T = (i - 1) + B - (j - 1)
      /\ \A n \in 1..i - 1 : t[n] = v[n]
      /\ \A n \in i..T : t[n] = b[n - (i - 1) + (j - 1)]
  <2>1. (i - 1) + 1 = i
    OBVIOUS
  <2>2. QED BY <1>2, <2>1 DEF Mixed
<1>4. T \in Nat /\ B \in Nat /\ j \in 1..B /\ i \in Nat \ {0} /\ i \in 1..T /\ T = i + B - j
  BY <1>2, <1>3
<1>5. c \in Letters
  BY <1>1
<1>6. Replaced(t, s, i) /\ s[i] = c
  BY <1>1, <1>2, <1>3, <1>4, <1>5, ReplaceAtIs, ZenonT(40)
<1>7. s \in Seq(Letters) /\ Len(s) = T /\ \A n \in 1..T : n # i => s[n] = t[n]
  BY <1>2, <1>6 DEF Replaced
<1>8. \A n \in 1..i - 1 : n \in 1..T /\ n # i
  BY <1>4
<1>9. \A n \in i + 1..T : n \in 1..T /\ n # i /\ n \in i..T /\ n - (i - 1) + (j - 1) = n - i + j
  BY <1>4
<1>10. \A n \in 1..i : n = i \/ n \in 1..i - 1
  BY <1>4
<1>11. \A n \in i + 1..T : t[n] = b[n - i + j]
  BY <1>3, <1>9
<1>12. Mixed(s, v, b, i, j)
  <2>1. \A n \in 1..i : s[n] = v[n]
    BY <1>1, <1>3, <1>6, <1>7, <1>8, <1>10
  <2>2. \A n \in i + 1..T : s[n] = b[n - i + j]
    BY <1>7, <1>9, <1>11
  <2>3. QED BY <1>2, <1>4, <1>7, <2>1, <2>2 DEF Mixed
<1>13. s \in OneEdit(t)
  <2>1. DOMAIN t = 1..T
    <3>1. t \in Seq(Letters)
      BY <1>3
    <3>2. DOMAIN t = 1..Len(t)
      BY <3>1
    <3>3. QED BY <1>2, <3>2
  <2>2. QED BY <1>1, <1>4, <1>5, <2>1, EditsAre
<1>14. b[j] = v[i] => Mixed(t, v, b, i, j)
  <2> SUFFICES ASSUME b[j] = v[i] PROVE Mixed(t, v, b, i, j)
    OBVIOUS
  <2>1. i \in i..T /\ i - (i - 1) + (j - 1) = j
    BY <1>4
  <2>2. t[i] = v[i]
    BY <1>3, <2>1
  <2>3. \A n \in 1..i : t[n] = v[n]
    BY <1>3, <1>10, <2>2
  <2>4. QED BY <1>2, <1>3, <1>4, <1>11, <2>3 DEF Mixed
<1>15. QED BY <1>12, <1>13, <1>14

LEMMA MixedEnds ==
  ASSUME NEW v \in Seq(Letters), NEW b \in Seq(Letters)
  PROVE  /\ Mixed(b, v, b, 0, 0)
         /\ \A t : Mixed(t, v, b, Len(v), Len(b)) => t = v
<1>1. Mixed(b, v, b, 0, 0)
  BY DEF Mixed
<1>2. ASSUME NEW t, Mixed(t, v, b, Len(v), Len(b)) PROVE t = v
  <2>1. t \in Seq(Letters) /\ Len(t) = Len(v) + Len(b) - Len(b) /\ \A n \in 1..Len(v) : t[n] = v[n]
    BY <1>2 DEF Mixed
  <2>2. Len(t) = Len(v)
    BY <2>1
  <2>3. QED BY <2>1, <2>2, SameWord
<1>3. QED BY <1>1, <1>2

\* A beginning that is n edits from one of the wake word is reached by n edits.
ReachedBy(v, i, j, n) == \E t \in Near[n] : Mixed(t, v, WakeWord, i, j)
ReachedIn(v, d, i, j) ==
  \A n \in 0..fuzzyWakeThreshold : Cell(d, i, j) <= n => ReachedBy(v, i, j, n)

LEMMA NearGrows ==
  ASSUME NEW n \in 1..fuzzyWakeThreshold, NEW t \in Near[n - 1]
  PROVE  t \in Near[n] /\ OneEdit(t) \subseteq Near[n]
BY NearRules DEF Around

LEMMA NearHasWake == \A n \in 0..fuzzyWakeThreshold : WakeWord \in Near[n]
<1> DEFINE T == fuzzyWakeThreshold
           Bad == {n \in 0..T : WakeWord \notin Near[n]}
<1> SUFFICES ASSUME Bad # {} PROVE FALSE
  OBVIOUS
<1>1. T \in Nat
  BY DEF fuzzyWakeThreshold
<1>2. PICK n \in Bad : \A m \in Bad : n <= m
  <2>1. Bad \in SUBSET Nat
    BY <1>1
  <2> HIDE DEF Bad
  <2>2. QED BY <2>1, Least
<1>3. n # 0
  BY NearRules
<1>4. n \in 1..T /\ n - 1 \in 0..T /\ ~(n <= n - 1)
  BY <1>1, <1>3
<1>5. n - 1 \notin Bad
  <2> HIDE DEF Bad
  <2>1. QED BY <1>2, <1>4
<1>6. WakeWord \in Near[n - 1]
  BY <1>4, <1>5
<1>7. QED BY <1>4, <1>6, NearGrows

\* One step of the table.
LEMMA ReachedStep ==
  ASSUME NEW v \in Seq(Letters), NEW d, Fills(v, WakeWord, d),
         NEW i \in 0..Len(v), NEW j \in 0..Len(WakeWord),
         i > 0 => ReachedIn(v, d, i - 1, j), j > 0 => ReachedIn(v, d, i, j - 1),
         i > 0 /\ j > 0 => ReachedIn(v, d, i - 1, j - 1)
  PROVE  ReachedIn(v, d, i, j)
<1> DEFINE T == fuzzyWakeThreshold
           b == WakeWord
<1>1. b \in Seq(Letters)
  BY WordsAssumption
<1>2. T \in Nat
  BY DEF fuzzyWakeThreshold
<1> SUFFICES ASSUME NEW n \in 0..T, Cell(d, i, j) <= n PROVE ReachedBy(v, i, j, n)
  BY DEF ReachedIn
<1>3. PICK N, M : N = Len(v) /\ M = Len(b)
  OBVIOUS
<1>4. N \in Nat /\ M \in Nat /\ i \in 0..N /\ j \in 0..M
  BY <1>1, <1>3
<1> HIDE DEF T, b
<1>5. ASSUME i > 0, Cell(d, i - 1, j) <= n - 1, n # 0 PROVE ReachedBy(v, i, j, n)
  <2>1. n - 1 \in 0..T /\ n \in 1..T
    BY <1>2, <1>5
  <2>2. PICK t \in Near[n - 1] : Mixed(t, v, b, i - 1, j)
    BY <1>5, <2>1 DEF ReachedIn, ReachedBy, T, b
  <2>3. i \in 1..Len(v) /\ j \in 0..Len(b)
    BY <1>3, <1>4, <1>5
  <2>4. PICK s \in OneEdit(t) : Mixed(s, v, b, i, j)
    BY <1>1, <2>2, <2>3, MixedInsert
  <2>5. s \in Near[n]
    BY <2>1, NearGrows DEF T
  <2>6. QED BY <2>4, <2>5 DEF ReachedBy, b
<1>6. ASSUME j > 0, Cell(d, i, j - 1) <= n - 1, n # 0 PROVE ReachedBy(v, i, j, n)
  <2>1. n - 1 \in 0..T /\ n \in 1..T
    BY <1>2, <1>6
  <2>2. PICK t \in Near[n - 1] : Mixed(t, v, b, i, j - 1)
    BY <1>6, <2>1 DEF ReachedIn, ReachedBy, T, b
  <2>3. i \in 0..Len(v) /\ j \in 1..Len(b)
    BY <1>3, <1>4, <1>6
  <2>4. PICK s \in OneEdit(t) : Mixed(s, v, b, i, j)
    BY <1>1, <2>2, <2>3, MixedRemove
  <2>5. s \in Near[n]
    BY <2>1, NearGrows DEF T
  <2>6. QED BY <2>4, <2>5 DEF ReachedBy, b
<1>7. ASSUME i > 0, j > 0, Cell(d, i - 1, j - 1) <= n - 1, n # 0 PROVE ReachedBy(v, i, j, n)
  <2>1. n - 1 \in 0..T /\ n \in 1..T
    BY <1>2, <1>7
  <2>2. PICK t \in Near[n - 1] : Mixed(t, v, b, i - 1, j - 1)
    BY <1>7, <2>1 DEF ReachedIn, ReachedBy, T, b
  <2>3. i \in 1..Len(v) /\ j \in 1..Len(b)
    BY <1>3, <1>4, <1>7
  <2>4. PICK s \in OneEdit(t) : Mixed(s, v, b, i, j)
    BY <1>1, <2>2, <2>3, MixedReplace
  <2>5. s \in Near[n]
    BY <2>1, NearGrows DEF T
  <2>6. QED BY <2>4, <2>5 DEF ReachedBy, b
<1>8. ASSUME i > 0, j > 0, Cell(d, i - 1, j - 1) <= n, b[j] = v[i] PROVE ReachedBy(v, i, j, n)
  <2>1. PICK t \in Near[n] : Mixed(t, v, b, i - 1, j - 1)
    BY <1>8 DEF ReachedIn, ReachedBy, T, b
  <2>2. i \in 1..Len(v) /\ j \in 1..Len(b)
    BY <1>3, <1>4, <1>8
  <2>3. Mixed(t, v, b, i, j)
    BY <1>1, <1>8, <2>1, <2>2, MixedReplace
  <2>4. QED BY <2>1, <2>3 DEF ReachedBy, b
<1>9. CASE i = 0 /\ j = 0
  <2>1. Mixed(b, v, b, 0, 0)
    BY <1>1, MixedEnds
  <2>2. b \in Near[n]
    BY NearHasWake DEF T, b
  <2>3. QED BY <1>9, <2>1, <2>2 DEF ReachedBy, b
<1>10. CASE i = 0 /\ j # 0
  <2>1. j - 1 \in 0..M /\ j > 0
    BY <1>4, <1>10
  <2>2. Cell(d, 0, j) = j /\ Cell(d, 0, j - 1) = j - 1
    BY <1>3, <1>4, <2>1 DEF Fills, b
  <2>3. j <= n
    BY <1>10, <2>2
  <2>4. j - 1 <= n - 1 /\ n # 0
    BY <1>2, <1>4, <2>1, <2>3
  <2>5. QED BY <1>6, <1>10, <2>1, <2>2, <2>4
<1>11. CASE i # 0 /\ j = 0
  <2>1. i - 1 \in 0..N /\ i > 0
    BY <1>4, <1>11
  <2>2. Cell(d, i, 0) = i /\ Cell(d, i - 1, 0) = i - 1
    BY <1>3, <1>4, <2>1 DEF Fills, b
  <2>3. i <= n
    BY <1>11, <2>2
  <2>4. i - 1 <= n - 1 /\ n # 0
    BY <1>2, <1>4, <2>1, <2>3
  <2>5. QED BY <1>5, <1>11, <2>1, <2>2, <2>4
<1>12. CASE i # 0 /\ j # 0
  <2>1. i \in 1..N /\ j \in 1..M /\ i - 1 \in 0..N /\ j - 1 \in 0..M /\ i > 0 /\ j > 0
    BY <1>4, <1>12
  <2>2. PICK c, x, y, z, u : /\ c = Cell(d, i, j) /\ x = Cell(d, i - 1, j) /\ y = Cell(d, i, j - 1)
                             /\ z = Cell(d, i - 1, j - 1) /\ u = Unlike(v, b, i, j)
    OBVIOUS
  <2>3. IsLeast(c, x + 1, y + 1, z + u)
    BY <1>3, <2>1, <2>2 DEF Fills, b
  <2>4. c \in Nat /\ x \in Nat /\ y \in Nat /\ z \in Nat /\ c <= n /\ n \in Nat
    <3>1. n \in Nat /\ c <= n
      BY <1>2, <2>2
    <3>2. c \in Nat /\ x \in Nat /\ y \in Nat /\ z \in Nat
      BY <1>3, <1>4, <2>1, <2>2 DEF Fills, b
    <3>3. QED BY <3>1, <3>2
  <2>5. CASE c = x + 1
    <3>1. x <= n - 1 /\ n # 0
      BY <2>4, <2>5
    <3>2. QED BY <1>5, <2>1, <2>2, <3>1
  <2>6. CASE c = y + 1
    <3>1. y <= n - 1 /\ n # 0
      BY <2>4, <2>6
    <3>2. QED BY <1>6, <2>1, <2>2, <3>1
  <2>7. CASE c = z + u
    <3>1. CASE b[j] = v[i]
      <4>1. u = 0
        BY <2>2, <3>1 DEF Unlike
      <4>2. z <= n
        BY <2>4, <2>7, <4>1
      <4>3. QED BY <1>8, <2>1, <2>2, <3>1, <4>2
    <3>2. CASE b[j] # v[i]
      <4>1. u = 1
        BY <2>2, <3>2 DEF Unlike
      <4>2. z <= n - 1 /\ n # 0
        BY <2>4, <2>7, <4>1
      <4>3. QED BY <1>7, <2>1, <2>2, <4>2
    <3>3. QED BY <3>1, <3>2
  <2>8. QED BY <2>3, <2>5, <2>6, <2>7 DEF IsLeast
<1>13. QED BY <1>9, <1>10, <1>11, <1>12

\* Recognised is what is near the wake word.
LEMMA HeardIsNear ==
  ASSUME NEW v \in Seq(Letters)
  PROVE  Levenshtein(v, WakeWord) <= fuzzyWakeThreshold <=> v \in HeardNear
<1> DEFINE T == fuzzyWakeThreshold
           b == WakeWord
           N == Len(v)
           M == Len(b)
<1>1. b \in Seq(Letters)
  BY WordsAssumption
<1>2. T \in 0..T
  BY DEF fuzzyWakeThreshold
<1>3. v \in HeardNear => Levenshtein(v, b) <= T
  BY <1>2, NearIsClose DEF HeardNear
<1>4. ASSUME Levenshtein(v, b) <= T PROVE v \in HeardNear
  <2>1. PICK d : Fills(v, b, d) /\ Levenshtein(v, b) = Cell(d, N, M)
    BY <1>1, TableIs
  <2> DEFINE S == {q \in (0..N) \X (0..M) : ReachedIn(v, d, q[1], q[2])}
  <2>2. \A i \in 0..N, j \in 0..M : In(S, i, j) <=> ReachedIn(v, d, i, j)
    BY DEF In
  <2>3. ASSUME NEW i \in 0..N, NEW j \in 0..M,
               i > 0 => In(S, i - 1, j), j > 0 => In(S, i, j - 1),
               i > 0 /\ j > 0 => In(S, i - 1, j - 1)
        PROVE  In(S, i, j)
    <3>1. /\ i > 0 => i - 1 \in 0..N
          /\ j > 0 => j - 1 \in 0..M
      BY <1>1
    <3> HIDE DEF S, N, M
    <3>2. /\ i > 0 => ReachedIn(v, d, i - 1, j)
          /\ j > 0 => ReachedIn(v, d, i, j - 1)
          /\ i > 0 /\ j > 0 => ReachedIn(v, d, i - 1, j - 1)
      BY <2>2, <2>3, <3>1
    <3>3. ReachedIn(v, d, i, j)
      BY <2>1, <3>2, ReachedStep DEF N, M
    <3>4. QED BY <2>2, <3>3
  <2>4. Closed(N, M, S)
    <3> HIDE DEF S, N, M
    <3>1. QED BY <2>3 DEF Closed
  <2>5. N \in Nat /\ M \in Nat /\ N \in 0..N /\ M \in 0..M
    BY <1>1
  <2>6. ReachedIn(v, d, N, M)
    <3> HIDE DEF S, N, M
    <3>1. In(S, N, M)
      BY <2>4, <2>5, Grid
    <3>2. QED BY <2>2, <2>5, <3>1
  <2>7. PICK t \in Near[T] : Mixed(t, v, b, N, M)
    <3> HIDE DEF N, M
    <3>1. QED BY <1>2, <1>4, <2>1, <2>6 DEF ReachedIn, ReachedBy
  <2>8. t = v
    BY <1>1, <2>7, MixedEnds
  <2>9. QED BY <2>7, <2>8 DEF HeardNear
<1>5. QED BY <1>3, <1>4

LEMMA WakesIs ==
  ASSUME NEW w \in Seq(Letters)
  PROVE  /\ Wakes(w) # "none" <=> w \in HeardNear \cup KnownVariants
         /\ Wakes(w) \in {"none", "exact", "fuzzy"}
<1>1. WakeWord \in HeardNear
  <2>1. fuzzyWakeThreshold \in 0..fuzzyWakeThreshold
    BY DEF fuzzyWakeThreshold
  <2>2. QED BY <2>1, NearHasWake DEF HeardNear
<1>2. CASE w = WakeWord
  BY <1>1, <1>2 DEF Wakes
<1>3. CASE w # WakeWord /\ (w \in KnownVariants \/ Levenshtein(w, WakeWord) <= fuzzyWakeThreshold)
  BY <1>3, HeardIsNear DEF Wakes
<1>4. CASE w # WakeWord /\ ~(w \in KnownVariants \/ Levenshtein(w, WakeWord) <= fuzzyWakeThreshold)
  BY <1>4, HeardIsNear DEF Wakes
<1>5. QED BY <1>2, <1>3, <1>4

-----------------------------------------------------------------------------
(* What the rules make of the words.                                        *)

\* A phrase of a rule that words are an instance of, and what is left of them.
Says(rule, t, words) == words = t \/ (rule.capture /\ IsPrefix(t, words))
Rest(t, words) == SubSeq(words, Len(t) + 1, Len(words))
FirstFits(rules, i, t, words) ==
  /\ i \in DOMAIN rules /\ t \in rules[i].triggers /\ Says(rules[i], t, words)
  /\ \A k \in DOMAIN rules : Fits(rules[k], words) => i <= k
Matched(m, rules, words) ==
  \/ m = Unknown /\ \A k \in DOMAIN rules : ~Fits(rules[k], words)
  \/ \E i, t : /\ FirstFits(rules, i, t, words)
               /\ m = [command |-> rules[i].command, confidence |-> "none", target |-> Rest(t, words)]

LEMMA MatchIs ==
  ASSUME NEW words \in Seq(VoiceWords), NEW rules \in Seq(Phrasings)
  PROVE  Matched(MatchRules(words, rules), rules, words)
<1> DEFINE fitting == {i \in DOMAIN rules : Fits(rules[i], words)}
<1>1. DOMAIN rules \subseteq Nat
  OBVIOUS
<1>2. CASE fitting = {}
  <2>1. MatchRules(words, rules) = Unknown
    BY <1>2 DEF MatchRules
  <2>2. QED BY <1>2, <2>1 DEF Matched
<1>3. CASE fitting # {}
  <2>1. PICK i : i = Min(fitting)
    OBVIOUS
  <2>2. i \in fitting /\ \A k \in fitting : i <= k
    <3>1. fitting \in SUBSET Nat
      BY <1>1
    <3> HIDE DEF fitting
    <3>2. \E m \in fitting : \A k \in fitting : m <= k
      BY <1>3, <3>1, Least
    <3>3. QED BY <2>1, <3>2 DEF Min
  <2>3. PICK t : t = CHOOSE u \in rules[i].triggers : Says(rules[i], u, words)
    OBVIOUS
  <2>4. t \in rules[i].triggers /\ Says(rules[i], t, words)
    <3>1. \E u \in rules[i].triggers : Says(rules[i], u, words)
      BY <2>2 DEF Fits, Says
    <3>2. QED BY <2>3, <3>1
  <2>5. MatchRules(words, rules)
          = [command |-> rules[i].command, confidence |-> "none", target |-> Rest(t, words)]
    BY <1>3, <2>1, <2>3, Zenon DEF MatchRules, Rest, Says
  <2>6. FirstFits(rules, i, t, words)
    BY <2>2, <2>4 DEF FirstFits
  <2>7. QED BY <2>5, <2>6 DEF Matched
<1>4. QED BY <1>2, <1>3

\* What is said without going on leaves nothing, what goes on leaves the rest.
LEMMA RestIs ==
  ASSUME NEW words \in Seq(VoiceWords), NEW t \in Seq(VoiceWords)
  PROVE  /\ words = t => Rest(t, words) = << >> /\ IsPrefix(t, words)
         /\ IsPrefix(t, words) => words = t \o Rest(t, words)
<1>1. Len(t) \in Nat /\ Len(words) \in Nat
  OBVIOUS
<1>2. ASSUME words = t PROVE Rest(t, words) = << >> /\ IsPrefix(t, words)
  <2>1. Rest(t, words) = << >>
    BY <1>1, <1>2, SubSeqEmpty DEF Rest
  <2>2. QED BY <1>2, <2>1 DEF IsPrefix
<1>3. ASSUME IsPrefix(t, words) PROVE words = t \o Rest(t, words)
  <2>1. Len(t) <= Len(words) /\ SubSeq(t, 1, Len(t)) = SubSeq(words, 1, Len(t))
    BY <1>3 DEF IsPrefix
  <2>2. \A i \in 1..Len(t) : t[i] = words[i]
    <3>1. PICK r : r = SubSeq(t, 1, Len(t))
      OBVIOUS
    <3>2. \A i \in 1..Len(t) : r[i] = t[i]
      BY <3>1
    <3>3. \A i \in 1..Len(t) : r[i] = words[i]
      BY <2>1, <3>1
    <3>4. QED BY <3>2, <3>3
  <2>3. PICK r : r = Rest(t, words)
    OBVIOUS
  <2>4. /\ r \in Seq(VoiceWords) /\ Len(r) = Len(words) - Len(t)
        /\ \A i \in 1..Len(words) - Len(t) : r[i] = words[Len(t) + i]
    BY <1>1, <2>1, <2>3 DEF Rest
  <2>5. PICK w : w = t \o r
    OBVIOUS
  <2>6. /\ w \in Seq(VoiceWords) /\ Len(w) = Len(t) + Len(r)
        /\ \A i \in 1..Len(t) : w[i] = t[i]
    BY <2>4, <2>5
  <2>7. \A i \in 1..Len(r) : w[Len(t) + i] = r[i]
    BY <2>4, <2>5
  <2>8. PICK T, R : T = Len(t) /\ R = Len(words)
    OBVIOUS
  <2>9. Len(w) = R /\ T \in Nat /\ R \in Nat /\ T <= R
    BY <1>1, <2>1, <2>4, <2>6, <2>8
  <2>10. ASSUME NEW n \in 1..R PROVE w[n] = words[n]
    <3>1. CASE n <= T
      <4>1. n \in 1..T
        BY <2>9, <3>1
      <4>2. QED BY <2>2, <2>6, <2>8, <4>1
    <3>2. CASE ~(n <= T)
      <4>1. n - T \in 1..R - T /\ T + (n - T) = n
        BY <2>9, <3>2
      <4>2. Len(r) = R - T
        BY <2>4, <2>8
      <4>3. w[T + (n - T)] = r[n - T] /\ r[n - T] = words[T + (n - T)]
        BY <2>4, <2>7, <2>8, <4>1, <4>2
      <4>4. QED BY <4>1, <4>3
    <3>3. QED BY <3>1, <3>2
  <2>11. w = [n \in 1..R |-> w[n]] /\ words = [n \in 1..R |-> words[n]]
    BY <2>6, <2>8, <2>9
  <2>12. w = words
    BY <2>10, <2>11
  <2>13. QED BY <2>3, <2>5, <2>12
<1>4. QED BY <1>2, <1>3

Whole(u) == u \in UNION {r.triggers : r \in {q \in Range(Rules) : q.capture = FALSE}}
GoesOn(t) == t \in UNION {r.triggers : r \in {q \in Range(Rules) : q.capture = TRUE}}

\* What the rules with the wake word make of the rest.
LEMMA SaidIs ==
  ASSUME NEW words \in Seq(VoiceWords), NEW m, Matched(m, Rules, words), m # Unknown
  PROVE  /\ Whole(words) =>
              /\ m.target = << >>
              /\ \E r \in Range(Rules) : words \in r.triggers /\ r.command = m.command
         /\ m.command = "document_file" =>
              /\ ~Whole(words)
              /\ \E t : GoesOn(t) /\ words = t \o m.target
<1>1. PICK i, t : /\ FirstFits(Rules, i, t, words)
                  /\ m = [command |-> Rules[i].command, confidence |-> "none", target |-> Rest(t, words)]
  BY DEF Matched
<1>2. /\ i \in DOMAIN Rules /\ t \in Rules[i].triggers /\ Says(Rules[i], t, words)
      /\ \A k \in DOMAIN Rules : Fits(Rules[k], words) => i <= k
  BY <1>1 DEF FirstFits
<1>3. /\ Rules \in Seq(Phrasings)
      /\ \A k, l \in DOMAIN Rules : Rules[k].capture /\ ~Rules[l].capture =>
           \A s \in Rules[k].triggers, u \in Rules[l].triggers : IsPrefix(s, u) => l < k
      /\ \A k \in DOMAIN Rules : Rules[k].command = "document_file" <=> Rules[k].capture
  BY RulesAssumption
<1>4. m.command = Rules[i].command /\ m.target = Rest(t, words)
  BY <1>1
<1>5. t \in Seq(VoiceWords) /\ Rules[i].capture \in BOOLEAN /\ Rules[i] \in Range(Rules)
  <2>1. Rules[i] \in Phrasings
    BY <1>2, <1>3
  <2>2. Rules[i].triggers \subseteq Seq(VoiceWords) /\ Rules[i].capture \in BOOLEAN
    BY <2>1 DEF Phrasings
  <2>3. Rules[i] \in Range(Rules)
    BY <1>2, Zenon DEF Range
  <2>4. QED BY <1>2, <2>2, <2>3
<1>6. words = t \/ (Rules[i].capture /\ IsPrefix(t, words))
  BY <1>2 DEF Says
<1>7. IsPrefix(t, words) /\ words = t \o Rest(t, words)
  BY <1>5, <1>6, RestIs
<1>8. ASSUME Whole(words) PROVE ~Rules[i].capture
  <2>1. PICK r \in Range(Rules) : r.capture = FALSE /\ words \in r.triggers
    BY <1>8 DEF Whole
  <2>2. PICK k \in DOMAIN Rules : r = Rules[k]
    BY <2>1, Zenon DEF Range
  <2>3. Fits(Rules[k], words)
    BY <2>1, <2>2 DEF Fits
  <2>4. k \in Nat /\ i \in Nat /\ i <= k
    BY <1>2, <1>3, <2>2, <2>3
  <2>5. SUFFICES ASSUME Rules[i].capture PROVE FALSE
    OBVIOUS
  <2>6. k < i
    BY <1>2, <1>3, <1>7, <2>1, <2>2, <2>5
  <2>7. QED BY <2>4, <2>6
<1>9. ASSUME Whole(words)
      PROVE  /\ m.target = << >>
             /\ \E r \in Range(Rules) : words \in r.triggers /\ r.command = m.command
  <2>1. words = t
    BY <1>6, <1>8, <1>9
  <2>2. m.target = << >>
    BY <1>4, <1>5, <2>1, RestIs
  <2>3. QED BY <1>2, <1>4, <1>5, <2>1, <2>2
<1>10. ASSUME m.command = "document_file"
       PROVE  ~Whole(words) /\ \E s : GoesOn(s) /\ words = s \o m.target
  <2>1. Rules[i].capture
    BY <1>2, <1>3, <1>4, <1>10
  <2>2. GoesOn(t)
    <3>1. Rules[i].capture = TRUE
      BY <1>5, <2>1
    <3>2. QED BY <1>2, <1>5, <3>1 DEF GoesOn
  <2>3. QED BY <1>4, <1>7, <1>8, <2>1, <2>2
<1>11. QED BY <1>9, <1>10

\* What nothing is said by is no phrase.
LEMMA UnsaidIs ==
  ASSUME NEW words \in Seq(VoiceWords), \A k \in DOMAIN Rules : ~Fits(Rules[k], words)
  PROVE  ~Whole(words)
<1> SUFFICES ASSUME Whole(words) PROVE FALSE
  OBVIOUS
<1>1. PICK r \in Range(Rules) : r.capture = FALSE /\ words \in r.triggers
  BY DEF Whole
<1>2. PICK k \in DOMAIN Rules : r = Rules[k]
  BY <1>1, Zenon DEF Range
<1>3. QED BY <1>1, <1>2 DEF Fits

\* What is said without the wake word documents no file, and to stop it begins with it.
LEMMA PartialIs ==
  ASSUME NEW words \in Seq(VoiceWords), NEW m, Matched(m, PartialRules, words)
  PROVE  /\ m.command # "document_file" /\ m.confidence = "none"
         /\ m.command = "stop" => words # << >> /\ words[1].letters = WakeWord
<1>1. CASE m = Unknown
  BY <1>1 DEF Unknown
<1>2. CASE m # Unknown
  <2>1. PICK i, t : /\ FirstFits(PartialRules, i, t, words)
                    /\ m = [command |-> PartialRules[i].command, confidence |-> "none",
                            target |-> Rest(t, words)]
    BY <1>2 DEF Matched
  <2>2. i \in DOMAIN PartialRules /\ t \in PartialRules[i].triggers /\ Says(PartialRules[i], t, words)
    BY <2>1 DEF FirstFits
  <2>3. /\ ~PartialRules[i].capture /\ PartialRules[i].command # "document_file"
        /\ PartialRules[i].command = "stop" => t # << >> /\ t[1].letters = WakeWord
    BY <2>2, RulesAssumption
  <2>4. words = t
    BY <2>2, <2>3 DEF Says
  <2>5. m.command = PartialRules[i].command /\ m.confidence = "none"
    BY <2>1
  <2>6. QED BY <2>3, <2>4, <2>5
<1>3. QED BY <1>1, <1>2

-----------------------------------------------------------------------------
(* The whole transcript.                                                   *)

IsHeard(w) == w \in HeardNear \cup KnownVariants
HeardOne(words) == words # << >> /\ IsHeard(words[1].letters)
HeardTwo(words) == Len(words) > 1 /\ IsHeard(words[1].letters \o words[2].letters)
RestOf(words) == IF HeardOne(words) THEN Tail(words) ELSE Tail(Tail(words))

LEMMA StripIs ==
  ASSUME NEW words \in Seq(VoiceWords)
  PROVE  /\ StripWakeWord(words).confidence # "none" <=> HeardOne(words) \/ HeardTwo(words)
         /\ HeardOne(words) \/ HeardTwo(words) =>
              /\ StripWakeWord(words).rest = RestOf(words)
              /\ StripWakeWord(words).rest \in Seq(VoiceWords)
<1> DEFINE first == IF words = << >> THEN "none" ELSE Wakes(words[1].letters)
           both == IF Len(words) < 2 THEN "none" ELSE Wakes(words[1].letters \o words[2].letters)
<1>1. Len(words) \in Nat /\ (words # << >> <=> Len(words) > 0)
  OBVIOUS
<1>2. words # << >> => words[1].letters \in Seq(Letters)
  <2>1. words # << >> => words[1] \in VoiceWords
    OBVIOUS
  <2>2. QED BY <2>1 DEF VoiceWords
<1>3. Len(words) > 1 => words[1].letters \o words[2].letters \in Seq(Letters)
  <2> SUFFICES ASSUME Len(words) > 1 PROVE words[1].letters \o words[2].letters \in Seq(Letters)
    OBVIOUS
  <2>1. words[2] \in VoiceWords
    OBVIOUS
  <2>2. words[2].letters \in Seq(Letters)
    BY <2>1 DEF VoiceWords
  <2>3. words[1].letters \in Seq(Letters)
    BY <1>1, <1>2
  <2>4. PICK s, t : s = words[1].letters /\ t = words[2].letters
    OBVIOUS
  <2>5. s \in Seq(Letters) /\ t \in Seq(Letters)
    BY <2>2, <2>3, <2>4
  <2>6. s \o t \in Seq(Letters)
    BY <2>5, JoinedIs
  <2>7. QED BY <2>4, <2>6
<1>4. first # "none" <=> HeardOne(words)
  BY <1>2, WakesIs DEF HeardOne, IsHeard
<1>5. both # "none" <=> HeardTwo(words)
  <2>1. CASE Len(words) < 2
    BY <1>1, <2>1 DEF HeardTwo
  <2>2. CASE ~(Len(words) < 2)
    <3>1. Len(words) > 1
      BY <1>1, <2>2
    <3>2. QED BY <1>3, <2>2, <3>1, WakesIs DEF HeardTwo, IsHeard
  <2>3. QED BY <2>1, <2>2
<1>6. StripWakeWord(words) =
        CASE first # "none" -> [rest |-> Tail(words), confidence |-> first]
          [] first = "none" /\ both # "none" -> [rest |-> Tail(Tail(words)), confidence |-> both]
          [] OTHER -> [rest |-> words, confidence |-> "none"]
  BY Zenon DEF StripWakeWord
<1>7. words # << >> => Tail(words) \in Seq(VoiceWords) /\ Len(Tail(words)) = Len(words) - 1
  OBVIOUS
<1>8. Len(words) > 1 => Tail(Tail(words)) \in Seq(VoiceWords)
  <2>1. SUFFICES ASSUME Len(words) > 1 PROVE Tail(Tail(words)) \in Seq(VoiceWords)
    OBVIOUS
  <2>2. PICK s : s = Tail(words)
    OBVIOUS
  <2>3. s \in Seq(VoiceWords) /\ Len(s) > 0
    BY <1>1, <1>7, <2>1, <2>2
  <2>4. Tail(s) \in Seq(VoiceWords)
    BY <2>3
  <2>5. QED BY <2>2, <2>4
<1> HIDE DEF first, both
<1>9. CASE HeardOne(words)
  <2>1. StripWakeWord(words) = [rest |-> Tail(words), confidence |-> first]
    BY <1>4, <1>6, <1>9
  <2>2. words # << >>
    BY <1>9 DEF HeardOne
  <2>3. QED BY <1>4, <1>7, <1>9, <2>1, <2>2 DEF RestOf
<1>10. CASE ~HeardOne(words) /\ HeardTwo(words)
  <2>1. StripWakeWord(words) = [rest |-> Tail(Tail(words)), confidence |-> both]
    BY <1>4, <1>5, <1>6, <1>10
  <2>2. Len(words) > 1
    BY <1>10 DEF HeardTwo
  <2>3. QED BY <1>5, <1>8, <1>10, <2>1, <2>2 DEF RestOf
<1>11. CASE ~HeardOne(words) /\ ~HeardTwo(words)
  <2>1. StripWakeWord(words) = [rest |-> words, confidence |-> "none"]
    BY <1>4, <1>5, <1>6, <1>11
  <2>2. QED BY <1>11, <2>1
<1>12. QED BY <1>9, <1>10, <1>11

\* What was made of the words is what they say.
IsRead(words, m) ==
  IF HeardOne(words) \/ HeardTwo(words)
    THEN /\ Whole(RestOf(words)) =>
              /\ m.target = << >>
              /\ \E r \in Range(Rules) : RestOf(words) \in r.triggers /\ r.command = m.command
         /\ m.command = "document_file" =>
              /\ ~Whole(RestOf(words))
              /\ \E t : GoesOn(t) /\ RestOf(words) = t \o m.target
    ELSE /\ m.confidence \in {"none", "partial"}
         /\ m.command \notin {"stop", "document_file"}

LEMMA RatedIs ==
  ASSUME NEW m, NEW rules, NEW words, Matched(m, rules, words), NEW c
  PROVE  /\ [m EXCEPT !.confidence = c].command = m.command
         /\ [m EXCEPT !.confidence = c].target = m.target
         /\ [m EXCEPT !.confidence = c].confidence = c
<1>1. PICK x, y : m = [command |-> x, confidence |-> "none", target |-> y]
  BY DEF Matched, Unknown
<1>2. QED BY <1>1

LEMMA ParsedIsRead ==
  ASSUME NEW words \in Seq(VoiceWords)
  PROVE  IsRead(words, ParseIntent(words))
<1>1. PICK wake, said, partial, m, c :
        /\ wake = StripWakeWord(words) /\ c = wake.confidence
        /\ said = MatchRules(wake.rest, Rules) /\ partial = MatchRules(words, PartialRules)
        /\ m = ParseIntent(words)
  OBVIOUS
<1>2. m = CASE c # "none" /\ said # Unknown -> [said EXCEPT !.confidence = c]
            [] (c = "none" \/ said = Unknown) /\ partial # Unknown ->
                 [partial EXCEPT !.confidence = "partial"]
            [] OTHER -> Unknown
  BY <1>1, Zenon DEF ParseIntent
<1>3. Matched(partial, PartialRules, words)
  BY <1>1, MatchIs, RulesAssumption
<1>4. c # "none" <=> HeardOne(words) \/ HeardTwo(words)
  BY <1>1, StripIs
<1>5. /\ partial.command # "document_file"
      /\ partial.command = "stop" => words # << >> /\ words[1].letters = WakeWord
  BY <1>3, PartialIs
<1>6. Unknown.command = "unknown" /\ Unknown.confidence = "none"
  BY DEF Unknown
<1>7. ASSUME c # "none", said # Unknown
      PROVE  IsRead(words, m)
  <2>1. HeardOne(words) \/ HeardTwo(words)
    BY <1>4, <1>7
  <2>2. wake.rest = RestOf(words) /\ RestOf(words) \in Seq(VoiceWords)
    BY <1>1, <2>1, StripIs
  <2>3. Matched(said, Rules, RestOf(words))
    BY <1>1, <2>2, MatchIs, RulesAssumption
  <2>4. m.command = said.command /\ m.target = said.target
    BY <1>2, <1>7, <2>3, RatedIs
  <2>5. /\ Whole(RestOf(words)) =>
              /\ said.target = << >>
              /\ \E r \in Range(Rules) : RestOf(words) \in r.triggers /\ r.command = said.command
        /\ said.command = "document_file" =>
              /\ ~Whole(RestOf(words))
              /\ \E t : GoesOn(t) /\ RestOf(words) = t \o said.target
    BY <1>7, <2>2, <2>3, SaidIs, Zenon
  <2>6. QED BY <2>1, <2>4, <2>5, Zenon DEF IsRead
<1>8. ASSUME c = "none" \/ said = Unknown
      PROVE  IsRead(words, m)
  <2>1. \/ m = [partial EXCEPT !.confidence = "partial"] \/ m = Unknown
    BY <1>2, <1>8
  <2>2. /\ m.command # "document_file" /\ m.confidence \in {"none", "partial"}
        /\ m.command = "stop" => words # << >> /\ words[1].letters = WakeWord
    <3>1. CASE m = [partial EXCEPT !.confidence = "partial"]
      BY <1>3, <1>5, <3>1, RatedIs
    <3>2. CASE m = Unknown
      BY <1>6, <3>2
    <3>3. QED BY <2>1, <3>1, <3>2
  <2>3. CASE c = "none"
    <3>1. ~(HeardOne(words) \/ HeardTwo(words))
      BY <1>4, <2>3
    <3>2. IsHeard(WakeWord)
      <4>1. fuzzyWakeThreshold \in 0..fuzzyWakeThreshold
        BY DEF fuzzyWakeThreshold
      <4>2. QED BY <4>1, NearHasWake DEF HeardNear, IsHeard
    <3>3. m.command # "stop"
      BY <2>2, <3>1, <3>2 DEF HeardOne
    <3>4. QED BY <2>2, <3>1, <3>3 DEF IsRead
  <2>4. CASE c # "none"
    <3>1. HeardOne(words) \/ HeardTwo(words)
      BY <1>4, <2>4
    <3>2. wake.rest = RestOf(words) /\ RestOf(words) \in Seq(VoiceWords)
      BY <1>1, <3>1, StripIs
    <3>3. Matched(said, Rules, RestOf(words))
      BY <1>1, <3>2, MatchIs, RulesAssumption
    <3>4. \A k \in DOMAIN Rules : ~Fits(Rules[k], RestOf(words))
      <4>1. said = Unknown
        BY <1>8, <2>4
      <4>2. ASSUME NEW i, NEW t, FirstFits(Rules, i, t, RestOf(words)),
                   said = [command |-> Rules[i].command, confidence |-> "none",
                           target |-> Rest(t, RestOf(words))]
            PROVE  FALSE
        <5>1. Rules[i] \in Phrasings
          BY <4>2, RulesAssumption DEF FirstFits
        <5>2. Rules[i].command # "unknown"
          BY <5>1 DEF Phrasings, Spoken
        <5>3. said.command = Rules[i].command
          BY <4>2
        <5>4. QED BY <1>6, <4>1, <5>2, <5>3
      <4>3. QED BY <3>3, <4>2 DEF Matched
    <3>5. ~Whole(RestOf(words))
      BY <3>2, <3>4, UnsaidIs
    <3>6. QED BY <2>2, <3>1, <3>5 DEF IsRead
  <2>5. QED BY <2>3, <2>4
<1>9. QED BY <1>1, <1>7, <1>8

-----------------------------------------------------------------------------
\* A transcript is read once, as it is.
SpeechInv ==
  transcript \in Transcripts /\ (intent = Unread \/ intent = ParseIntent(transcript))

LEMMA InitSpeechInv == SpeechInit => SpeechInv
BY DEF SpeechInit, SpeechInv

LEMMA StepSpeechInv == SpeechInv /\ [SpeechNext]_speechVars => SpeechInv'
BY DEF SpeechInv, SpeechNext, speechVars

\* The inductive invariant of the commands.
THEOREM SpeechInductive == SpeechSpec => []SpeechInv
BY InitSpeechInv, StepSpeechInv, PTL DEF SpeechSpec

LEMMA SpeechInvIsRead == SpeechInv => IntentIsRead
<1> SUFFICES ASSUME SpeechInv, intent # Unread PROVE IntentIsRead
  BY DEF IntentIsRead
<1>1. PICK words : words = transcript
  OBVIOUS
<1>2. words \in Seq(VoiceWords) /\ intent = ParseIntent(words)
  BY <1>1, WordsAssumption DEF SpeechInv
<1>3. IsRead(words, intent)
  BY <1>2, ParsedIsRead
<1>4. QED BY <1>1, <1>3, Zenon DEF IntentIsRead, IsRead, HeardOne, HeardTwo, IsHeard, RestOf, Whole, GoesOn

\* The wake word is recognised in what two edits or a known variant make of it, the most
\* special phrase counts, and without it nothing is stopped and no file documented.
THEOREM IntentRead == SpeechSpec => []IntentIsRead
BY SpeechInductive, SpeechInvIsRead, PTL

-----------------------------------------------------------------------------
(***************************************************************************)
(* A behaviour of the whole is one of each part: the part it follows takes *)
(* its steps, and every other stands still.                                *)
(***************************************************************************)

\* A behaviour of the server is one of each of the five parts.
THEOREM RequestsBehaveAsParts ==
  RequestsSpec => JobsSpec /\ BoardSpec /\ ConfigSpec /\ VoiceSpec /\ SpeechSpec
<1>1. RequestsInit => JobsInit /\ BoardInit /\ ConfigInit /\ VoiceInit /\ SpeechInit
  BY DEF RequestsInit
<1>2. ASSUME [RequestsNext]_requestVars
      PROVE  /\ [JobsNext]_jobVars /\ [BoardNext]_boardVars
             /\ [ConfigNext]_configVars /\ [VoiceNext]_voiceVars
             /\ [SpeechNext]_speechVars
  <2>1. CASE UNCHANGED requestVars
    BY <2>1 DEF requestVars
  <2>2. CASE FollowJobs
    BY <2>2 DEF FollowJobs
  <2>3. CASE FollowBoard
    BY <2>3 DEF FollowBoard
  <2>4. CASE FollowConfig
    BY <2>4 DEF FollowConfig
  <2>5. CASE FollowVoice
    BY <2>5 DEF FollowVoice
  <2>6. CASE FollowSpeech
    BY <2>6 DEF FollowSpeech
  <2>7. QED BY <1>2, <2>1, <2>2, <2>3, <2>4, <2>5, <2>6 DEF RequestsNext
<1>3. [][RequestsNext]_requestVars =>
        /\ [][JobsNext]_jobVars /\ [][BoardNext]_boardVars
        /\ [][ConfigNext]_configVars /\ [][VoiceNext]_voiceVars
        /\ [][SpeechNext]_speechVars
  BY <1>2, PTL
<1>4. QED BY <1>1, <1>3 DEF RequestsSpec, JobsSpec, BoardSpec, ConfigSpec, VoiceSpec, SpeechSpec

LEMMA TypesFollow ==
  /\ BoardInv => BoardTypeOK
  /\ ConfigInv => ConfigTypeOK
<1>1. BoardInv => BoardTypeOK
  BY DEF BoardInv, BoardTypeOK, CallInv, SentCalls
<1>2. ConfigInv => ConfigTypeOK
  BY DEF ConfigInv, ConfigTypeOK, PutInv, SentPuts
<1>3. QED BY <1>1, <1>2

ServedOK == served \in RequestsParts

\* Every part of every behaviour stays within its types.
THEOREM RequestsTyped == RequestsSpec => []RequestsTypeOK
<1>1. RequestsInit => ServedOK
  BY DEF RequestsInit, ServedOK
<1>2. ServedOK /\ [RequestsNext]_requestVars => ServedOK'
  BY DEF ServedOK, RequestsParts, RequestsNext, requestVars, FollowJobs, FollowBoard, FollowConfig, FollowVoice,
         FollowSpeech
<1>3. RequestsSpec => []ServedOK
  BY <1>1, <1>2, PTL DEF RequestsSpec
<1>4. JobsInv /\ BoardInv /\ ConfigInv /\ VoiceInv /\ ServedOK => RequestsTypeOK
  BY TypesFollow DEF JobsInv, VoiceInv, RequestsTypeOK, ServedOK
<1>5. QED BY <1>3, <1>4, RequestsBehaveAsParts, JobsInductive, BoardInductive,
             ConfigInductive, VoiceInductive, PTL

\* What each part promises holds in the server that has them all.
THEOREM RequestsSafe ==
  RequestsSpec => /\ []RegisteredListed /\ []MicFollowsKey /\ []IntentIsRead
                  /\ SectionsKept /\ MoveSettles
BY RequestsBehaveAsParts, ListsAreComplete, MicrophoneFollows, IntentRead, PanelsKeepSections,
   MovesSettle
=============================================================================
