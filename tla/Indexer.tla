------------------------------ MODULE Indexer ------------------------------
(***************************************************************************)
(* The file indexer of internal/indexer/indexer.go: fsnotify events are    *)
(* debounced per path by timers whose callbacks bring one row of the       *)
(* search index up to date; Start, Stop and a cancelled context race with  *)
(* the callbacks.                                                          *)
(*                                                                         *)
(* A file's content is the number of the edit that wrote it, 0 when there  *)
(* is no file (and no row, in the index).  Create and Write events are     *)
(* "write", Remove and Rename events are "remove", as processPath treats   *)
(* them; a rename is a removal and a creation.  Each critical section of   *)
(* ix.mu is one action.  Time is left out: an armed timer may expire at    *)
(* any moment.                                                             *)
(***************************************************************************)
EXTENDS Integers, Sequences, FiniteSets

CONSTANTS Paths,      \* Markdown files that are neither drafts nor hidden
          Nested,     \* those in a directory created while the indexer runs
          Key,        \* Key[p, n]: the (project, slug) that edit n gives p
          Workers,    \* bound on the callbacks that run at the same time
          Stoppers,   \* invocations of Stop
          MaxEdits,   \* bound on the changes made to the files
          MaxRestarts \* bound on the restarts of the process

ASSUME BoundsAssumption == MaxEdits \in Nat /\ MaxRestarts \in Nat
ASSUME PathsAssumption ==
  /\ IsFiniteSet(Paths) /\ "dir" \notin Paths
  /\ Nested \subseteq Paths /\ DOMAIN Key = Paths \X (1..MaxEdits)
ASSUME WorkersAssumption == IsFiniteSet(Workers)

VARIABLES
  disk, edits,      \* the files, and how many changes were made to them
  dir,              \* the nested directory: "absent", "created", "watched"
  fsq,              \* events the watcher has queued, as <<path or "dir", op>>
  run,              \* where Start and runLoop stand
  started, stopCh, ctxDone,
  pending,          \* pending[p]: the op the debounce will act on
  timer,            \* timer[p]: the entry of the map timers
  orphans,          \* orphans[p]: armed timers no longer in the map
  wg,               \* the counter of afterFuncWG
  worker,           \* the AfterFunc callbacks
  late,             \* the write whose COMMIT the cancellation came too late for
  index,            \* the documents table
  stopper,          \* where each invocation of Stop stands
  restarts,         \* how often the process was restarted
  missed,           \* history: <<p, why>> when a change of p was not followed up
  raced             \* history: a Reset hit a timer that had already expired

fsVars   == <<disk, edits, dir>>
lifeVars == <<run, started, stopCh, ctxDone, stopper>>
debVars  == <<pending, timer, orphans, wg>>
vars == <<fsVars, fsq, lifeVars, debVars, worker, late, index, restarts, missed,
          raced>>

Free == [at |-> "free", path |-> "none", doc |-> 0]
Live == {w \in Workers : worker[w].at # "free"}
Callback == [at : {"free", "start", "lock", "read", "upsert", "delete"},
             path : Paths \cup {"none"}, doc : 0..MaxEdits]

TypeOK ==
  /\ disk \in [Paths -> 0..MaxEdits] /\ edits \in 0..MaxEdits
  /\ dir \in {"absent", "created", "watched"}
  /\ fsq \in Seq((Paths \cup {"dir"}) \X {"write", "remove"})
  /\ run \in {"new", "setup", "loop", "drain", "wait", "done"}
  /\ started \in BOOLEAN /\ stopCh \in BOOLEAN /\ ctxDone \in BOOLEAN
  /\ pending \in [Paths -> {"none", "write", "remove"}]
  /\ timer \in [Paths -> {"none", "armed", "fired"}]
  /\ orphans \in [Paths -> Nat] /\ wg \in Int
  /\ worker \in [Workers -> Callback] /\ \A w \in Live : worker[w].path \in Paths
  /\ late \in {Free} \cup
       {c \in Callback : c.at \in {"upsert", "delete"} /\ c.path \in Paths}
  /\ index \in [Paths -> 0..MaxEdits]
  /\ stopper \in [Stoppers -> {"idle", "waiting", "returned"}]
  /\ restarts \in 0..MaxRestarts
  /\ missed \subseteq Paths \X {"unseen", "merged", "overlap", "taken", "lost",
                             "failed"}
  /\ raced \in BOOLEAN

\* The index agrees with the files when the indexer is made; New starts nothing.
Init ==
  /\ disk = [p \in Paths |-> 0] /\ edits = 0
  /\ dir = "absent"
  /\ fsq = <<>>
  /\ run = "new"
  /\ started = FALSE /\ stopCh = FALSE /\ ctxDone = FALSE
  /\ pending = [p \in Paths |-> "none"]
  /\ timer = [p \in Paths |-> "none"]
  /\ orphans = [p \in Paths |-> 0]
  /\ wg = 0
  /\ worker = [w \in Workers |-> Free] /\ late = Free
  /\ index = [p \in Paths |-> 0]
  /\ stopper = [s \in Stoppers |-> "idle"]
  /\ restarts = 0 /\ missed = {} /\ raced = FALSE

-----------------------------------------------------------------------------
(* The files.  Editors, git and the API change them at any time.           *)

WatcherOpen == run \in {"setup", "loop"}
Watched(p) == WatcherOpen /\ (p \in Nested => dir = "watched")

Change(p, content, op) ==
  /\ edits < MaxEdits
  /\ edits' = edits + 1
  /\ disk' = [disk EXCEPT ![p] = content]
  /\ IF Watched(p)
       THEN fsq' = Append(fsq, <<p, op>>) /\ UNCHANGED missed
       ELSE missed' = missed \cup {<<p, "unseen">>} /\ UNCHANGED fsq
  /\ UNCHANGED <<dir, lifeVars, debVars, worker, index, restarts, raced, late>>

WriteFile(p) ==
  /\ p \in Nested => dir # "absent"
  /\ Change(p, edits + 1, "write")

RemoveFile(p) ==
  /\ disk[p] # 0
  /\ Change(p, 0, "remove")

MakeDir ==
  /\ dir = "absent" /\ WatcherOpen
  /\ dir' = "created"
  /\ fsq' = Append(fsq, <<"dir", "write">>)
  /\ UNCHANGED <<disk, edits, lifeVars, debVars, worker, index, restarts,
                 missed, raced, late>>

-----------------------------------------------------------------------------
(* Start, runLoop and its deferred shutdown, Stop.                         *)

\* NewWatcher and the first addDirTree.
StartWatching ==
  /\ run = "new"
  /\ run' = "setup"
  /\ UNCHANGED <<fsVars, fsq, started, stopCh, ctxDone, stopper, debVars, worker,
                 index, restarts, missed, raced, late>>

StartLoop ==
  /\ run = "setup"
  /\ run' = "loop" /\ started' = TRUE
  /\ UNCHANGED <<fsVars, fsq, stopCh, ctxDone, stopper, debVars, worker, index,
                 restarts, missed, raced, late>>

\* The unique index on (project, slug): another row has the key of the document.
KeyTaken(p, doc) ==
  \E q \in Paths \ {p} : index[q] # 0 /\ Key[q, index[q]] = Key[p, doc]

\* The callbacks of which one may be in its COMMIT (WriterFunnel's InCommit).
Submitted ==
  {w \in Live : \/ worker[w].at = "delete"
                \/ /\ worker[w].at = "upsert"
                   /\ ~KeyTaken(worker[w].path, worker[w].doc)}

\* submit returns at once; the COMMIT it may have under way goes on.
CancelContext ==
  /\ ~ctxDone
  /\ ctxDone' = TRUE
  /\ late' \in {Free} \cup {worker[w] : w \in Submitted}
  /\ UNCHANGED <<fsVars, fsq, run, started, stopCh, stopper, debVars, worker,
                 index, restarts, missed, raced>>

LateCommit ==
  /\ late # Free
  /\ index' = [index EXCEPT ![late.path] =
                 IF late.at = "upsert" THEN late.doc ELSE 0]
  /\ late' = Free
  /\ UNCHANGED <<fsVars, fsq, lifeVars, debVars, worker, restarts, missed, raced>>

\* A change of p is on its way to the index.
Underway(p) == \/ pending[p] # "none"
               \/ \E i \in 1..Len(fsq) : fsq[i][1] \in {p, "dir"}
               \/ \E w \in Live : worker[w].path = p

\* The deferred function: close stopCh, then the watcher with its queue.
LoopExit ==
  /\ run = "loop"
  /\ stopCh \/ ctxDone
  /\ run' = "drain" /\ stopCh' = TRUE
  /\ fsq' = <<>>
  /\ missed' = missed \cup {<<p, "lost">> : p \in {q \in Paths : Underway(q)}}
  /\ UNCHANGED <<fsVars, started, ctxDone, stopper, debVars, worker, index,
                 restarts, raced, late>>

\* Mutant: every entry of the map counts as stopped, expired or not.
DrainCountsExpired ==
  /\ run = "drain"
  /\ run' = "wait"
  /\ wg' = wg - Cardinality({p \in Paths : timer[p] # "none"})
  /\ timer' = [p \in Paths |-> "none"]
  /\ pending' = [p \in Paths |-> "none"]
  /\ UNCHANGED <<fsVars, fsq, started, stopCh, ctxDone, stopper, orphans, worker,
                 index, restarts, missed, raced, late>>

\* Mutant: no Done for a timer that was stopped.
DrainWithoutDone ==
  /\ run = "drain"
  /\ run' = "wait"
  /\ timer' = [p \in Paths |-> "none"]
  /\ pending' = [p \in Paths |-> "none"]
  /\ UNCHANGED <<fsVars, fsq, started, stopCh, ctxDone, stopper, orphans, wg,
                 worker, index, restarts, missed, raced, late>>

\* A timer still armed is stopped and accounted for; one that has expired is
\* left to its callback.
DrainTimers ==
  /\ run = "drain"
  /\ run' = "wait"
  /\ wg' = wg - Cardinality({p \in Paths : timer[p] = "armed"})
  /\ timer' = [p \in Paths |-> "none"]
  /\ pending' = [p \in Paths |-> "none"]
  /\ UNCHANGED <<fsVars, fsq, started, stopCh, ctxDone, stopper, orphans, worker,
                 index, restarts, missed, raced, late>>

\* Mutant: the loop does not wait for the callbacks.
LoopReturnEarly ==
  /\ run = "wait"
  /\ run' = "done"
  /\ UNCHANGED <<fsVars, fsq, started, stopCh, ctxDone, stopper, debVars, worker,
                 index, restarts, missed, raced, late>>

LoopReturn ==
  /\ run = "wait"
  /\ wg = 0
  /\ run' = "done"
  /\ UNCHANGED <<fsVars, fsq, started, stopCh, ctxDone, stopper, debVars, worker,
                 index, restarts, missed, raced, late>>

Stop(s) ==
  /\ stopper[s] = "idle"
  /\ stopCh' = TRUE
  /\ stopper' = [stopper EXCEPT ![s] = IF started THEN "waiting" ELSE "returned"]
  /\ UNCHANGED <<fsVars, fsq, run, started, ctxDone, debVars, worker, index,
                 restarts, missed, raced, late>>

StopReturn(s) ==
  /\ stopper[s] = "waiting"
  /\ run = "done"
  /\ stopper' = [stopper EXCEPT ![s] = "returned"]
  /\ UNCHANGED <<fsVars, fsq, run, started, stopCh, ctxDone, debVars, worker,
                 index, restarts, missed, raced, late>>

\* The process is killed or exits, and `vedox dev` makes a new indexer on the
\* index it finds: runDev starts it without reindexing.
Restart ==
  /\ restarts < MaxRestarts
  /\ restarts' = restarts + 1
  /\ missed' = missed \cup {<<p, "lost">> : p \in {q \in Paths : Underway(q)}}
  /\ dir' = IF dir = "created" THEN "watched" ELSE dir  \* the new addDirTree walks it
  /\ run' = "new" /\ fsq' = <<>>
  /\ started' = FALSE /\ stopCh' = FALSE /\ ctxDone' = FALSE
  /\ stopper' = [s \in Stoppers |-> "idle"]
  /\ pending' = [p \in Paths |-> "none"]
  /\ timer' = [p \in Paths |-> "none"]
  /\ orphans' = [p \in Paths |-> 0]
  /\ wg' = 0
  /\ worker' = [w \in Workers |-> Free] /\ late' = Free
  /\ raced' = FALSE
  /\ UNCHANGED <<disk, edits, index>>

-----------------------------------------------------------------------------
(* handleEvent and scheduleDebounce.                                       *)

\* A new directory is watched at once, unless the watch limit is reached or
\* the watch fails; what was written in it before that is never seen.
HandleDirEvent ==
  /\ run = "loop" /\ fsq # <<>>
  /\ Head(fsq)[1] = "dir"
  /\ fsq' = Tail(fsq)
  /\ dir' \in {"watched", "created"}
  /\ UNCHANGED <<disk, edits, lifeVars, debVars, worker, index, restarts,
                 missed, raced, late>>

\* The op waiting for p, after op arrived: a destructive one is kept.
Merged(p, op) == IF pending[p] = "remove" THEN "remove" ELSE op

\* Mutant: the op of the first event of a burst is the one acted on.
HandleEventKeepsFirst ==
  /\ run = "loop" /\ fsq # <<>>
  /\ LET p  == Head(fsq)[1]
         op == Head(fsq)[2]
     IN /\ p \in Paths
        /\ fsq' = Tail(fsq)
        /\ pending' = [pending EXCEPT ![p] = IF @ = "none" THEN op ELSE @]
        /\ timer' = [timer EXCEPT ![p] = "armed"]
        /\ wg' = IF timer[p] = "none" THEN wg + 1 ELSE wg
        /\ raced' = (raced \/ timer[p] = "fired")
        /\ missed' = missed
             \cup (IF Merged(p, op) # op THEN {<<p, "merged">>} ELSE {})
             \cup (IF timer[p] = "fired" THEN {<<p, "overlap">>} ELSE {})
  /\ UNCHANGED <<fsVars, lifeVars, orphans, worker, index, restarts, late>>

HandleEvent ==
  /\ run = "loop" /\ fsq # <<>>
  /\ LET p  == Head(fsq)[1]
         op == Head(fsq)[2]
     IN /\ p \in Paths
        /\ fsq' = Tail(fsq)
        /\ pending' = [pending EXCEPT ![p] = Merged(p, op)]
        /\ timer' = [timer EXCEPT ![p] = "armed"]
        /\ wg' = IF timer[p] = "none" THEN wg + 1 ELSE wg
        /\ raced' = (raced \/ timer[p] = "fired")
        /\ missed' = missed
             \cup (IF Merged(p, op) # op THEN {<<p, "merged">>} ELSE {})
             \cup (IF timer[p] = "fired" THEN {<<p, "overlap">>} ELSE {})
  /\ UNCHANGED <<fsVars, lifeVars, orphans, worker, index, restarts, late>>

-----------------------------------------------------------------------------
(* The AfterFunc callback.                                                 *)

Spawn(p) ==
  LET w == CHOOSE x \in Workers : worker[x].at = "free"
  IN  /\ Live # Workers
      /\ worker' = [worker EXCEPT ![w] = [Free EXCEPT !.at = "start", !.path = p]]
      \* a callback for p still at work may overtake the new one
      /\ missed' = IF \E x \in Live : worker[x].path = p
                     THEN missed \cup {<<p, "overlap">>} ELSE missed

Fire(p) ==
  /\ Spawn(p)
  /\ \/ /\ timer[p] = "armed"
        /\ timer' = [timer EXCEPT ![p] = "fired"] /\ UNCHANGED orphans
     \/ /\ orphans[p] > 0
        /\ orphans' = [orphans EXCEPT ![p] = @ - 1] /\ UNCHANGED timer
  /\ UNCHANGED <<fsVars, fsq, lifeVars, pending, wg, index, restarts, raced, late>>

Move(w, at) == worker' = [worker EXCEPT ![w].at = at]
\* The callback returns; its deferred Done runs.
Exit(w) == worker' = [worker EXCEPT ![w] = Free] /\ wg' = wg - 1

CallbackStart(w) ==
  /\ worker[w].at = "start"
  /\ IF stopCh THEN Exit(w) ELSE Move(w, "lock") /\ UNCHANGED wg
  /\ UNCHANGED <<fsVars, fsq, lifeVars, pending, timer, orphans, index,
                 restarts, missed, raced, late>>

\* The map entry is deleted whatever timer it holds; one that a Reset has
\* re-armed goes on ticking outside the map.
CallbackTake(w) ==
  LET p == worker[w].path IN
  /\ worker[w].at = "lock"
  /\ pending' = [pending EXCEPT ![p] = "none"]
  /\ timer' = [timer EXCEPT ![p] = "none"]
  /\ orphans' = IF timer[p] = "armed" THEN [orphans EXCEPT ![p] = @ + 1] ELSE orphans
  /\ \/ pending[p] = "none" /\ Exit(w)
     \/ pending[p] = "remove" /\ Move(w, "delete") /\ UNCHANGED wg
     \/ pending[p] = "write" /\ Move(w, "read") /\ UNCHANGED wg
  /\ UNCHANGED <<fsVars, fsq, lifeVars, index, restarts, missed, raced, late>>

\* An error is logged and the change of p is forgotten.
Forget(p, why) == missed' = missed \cup {<<p, why>>} /\ UNCHANGED index

\* store.Read: a file that is gone, or that cannot be read or parsed, is skipped.
ReadFile(w) ==
  LET p == worker[w].path IN
  /\ worker[w].at = "read"
  /\ \/ /\ disk[p] # 0
        /\ worker' = [worker EXCEPT ![w].at = "upsert", ![w].doc = disk[p]]
        /\ UNCHANGED <<wg, missed, index>>
     \/ Exit(w) /\ disk[p] = 0 /\ UNCHANGED <<missed, index>>
     \/ Exit(w) /\ Forget(p, "failed")
  /\ UNCHANGED <<fsVars, fsq, lifeVars, pending, timer, orphans, restarts, raced, late>>

\* Why a write to the index that returned an error did: the cancelled context or
\* the unique index, if it is one of them, or any other error of the database.
Refusal(taken) == IF ctxDone THEN "lost" ELSE IF taken THEN "taken" ELSE "failed"

\* UpsertDoc, one transaction of the writer funnel, which any error rolls back.
Upsert(w) ==
  LET p == worker[w].path
      taken == KeyTaken(p, worker[w].doc)
  IN /\ worker[w].at = "upsert"
     /\ \/ /\ ~ctxDone /\ ~taken
           /\ index' = [index EXCEPT ![p] = worker[w].doc]
           /\ UNCHANGED missed
        \/ Forget(p, Refusal(taken))
     /\ Exit(w)
     /\ UNCHANGED <<fsVars, fsq, lifeVars, pending, timer, orphans, restarts,
                    raced, late>>

Delete(w) ==
  LET p == worker[w].path IN
  /\ worker[w].at = "delete"
  /\ \/ ~ctxDone /\ index' = [index EXCEPT ![p] = 0] /\ UNCHANGED missed
     \/ Forget(p, Refusal(FALSE))
  /\ Exit(w)
  /\ UNCHANGED <<fsVars, fsq, lifeVars, pending, timer, orphans, restarts,
                 raced, late>>

-----------------------------------------------------------------------------
FileNext == MakeDir \/ \E p \in Paths : WriteFile(p) \/ RemoveFile(p)

LifeNext ==
  \/ StartWatching \/ StartLoop \/ CancelContext
  \/ LoopExit \/ DrainTimers \/ LoopReturn
  \/ \E s \in Stoppers : Stop(s) \/ StopReturn(s)

CallbackNext(w) ==
  CallbackStart(w) \/ CallbackTake(w) \/ ReadFile(w) \/ Upsert(w) \/ Delete(w)

\* A negative WaitGroup counter is a panic: the process is gone.
Next ==
  \/ /\ wg >= 0
     /\ \/ FileNext \/ LifeNext \/ LateCommit \/ HandleDirEvent \/ HandleEvent
        \/ \E p \in Paths : Fire(p)
        \/ \E w \in Workers : CallbackNext(w)
  \/ Restart

Spec == Init /\ [][Next]_vars

(* The goroutines run, and an armed timer expires.  Nothing obliges anyone *)
(* to edit a file, to stop the indexer or to cancel its context.           *)
Fairness ==
  /\ WF_vars(wg >= 0 /\ (StartWatching \/ StartLoop))
  /\ WF_vars(wg >= 0 /\ LoopExit) /\ WF_vars(wg >= 0 /\ (DrainTimers \/ LoopReturn))
  /\ WF_vars(wg >= 0 /\ (HandleDirEvent \/ HandleEvent))
  /\ \A p \in Paths : WF_vars(wg >= 0 /\ Fire(p))
  /\ \A w \in Workers : WF_vars(wg >= 0 /\ CallbackNext(w))
  /\ \A s \in Stoppers : WF_vars(wg >= 0 /\ StopReturn(s))

FairSpec == Spec /\ Fairness

-----------------------------------------------------------------------------
\* Nothing is left to do: every event was handled and every callback returned.
Settled ==
  /\ run = "loop" /\ fsq = <<>> /\ ~stopCh /\ ~ctxDone
  /\ \A p \in Paths : timer[p] = "none" /\ orphans[p] = 0
  /\ Live = {}

\* The changes of p that were not followed up are all of kind why.
OnlyMissed(p, why) == \A m \in missed : m[1] = p => m[2] \in why

\* Debouncing loses nothing by itself: once things settle, the row of a path
\* agrees with its file, unless a change of that path was made while nobody
\* watched or the process went down, was merged into a removal, overlapped with
\* a callback still at work, was refused for the slug of another file, or met an
\* error of the store or of the database, which is logged and forgotten.
SettledInSync ==
  Settled => \A p \in Paths : OnlyMissed(p, {}) => index[p] = disk[p]

\* "Remove/Rename wins over Write/Create (last-write-wins is wrong if file is
\* gone)" (indexer.go:256) should still keep "the SQLite FTS5 index in sync"
\* (indexer.go:1-2).  A file that is removed and written again within the
\* debounce window, as git checkout does, loses its row.
MergedInSync ==
  Settled => \A p \in Paths : OnlyMissed(p, {"merged"}) => index[p] = disk[p]

\* Stop "blocks until every goroutine it spawned (the runLoop and every
\* in-flight debounce callback) has exited" (indexer.go:161-162): after it no
\* callback touches the index, even when Stop ran before Start had finished;
\* unless a Reset had hit an expired timer.  What may still land is a COMMIT that
\* the cancelled context has left to itself.
NoWriteAfterStop ==
  [][(\E s \in Stoppers : stopper[s] = "returned") /\ ~raced
       => index' = index \/ LateCommit]_vars

\* Every Add of afterFuncWG is balanced by one Done (indexer.go:471-475), so
\* that the counter is what is still to finish, and never negative; and every
\* variable has its type.
WaitGroupBalanced ==
  TypeOK /\ (~raced => wg = Cardinality({p \in Paths : timer[p] = "armed"}) + Cardinality(Live))

\* The same, without the exception: the panic that the race leads to.
NoWaitGroupPanic == wg >= 0

\* Stop returns, whatever the callbacks are doing, unless the counter is off or
\* the process is killed under it.
StopTerminates ==
  \A s \in Stoppers : (stopper[s] = "waiting") ~> (stopper[s] # "waiting" \/ raced)
=============================================================================
