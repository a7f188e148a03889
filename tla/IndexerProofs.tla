-------------------------- MODULE IndexerProofs ---------------------------
(***************************************************************************)
(* What the indexer guarantees for all files, callbacks and invocations of *)
(* Stop, and any number of edits and restarts: the WaitGroup counts what   *)
(* is still to finish, nothing is written after Stop, and an index that    *)
(* has settled agrees with every file whose changes were all followed up.  *)
(***************************************************************************)
EXTENDS Indexer, FiniteSetTheorems, TLAPS

Armed == {p \in Paths : timer[p] = "armed"}

\* Where runLoop stands says what may still be running.
RunInv ==
  /\ ~started <=> run \in {"new", "setup"}
  /\ run \in {"new", "setup"} =>
       Live = {} /\ \A p \in Paths : timer[p] = "none" /\ orphans[p] = 0
  /\ run \in {"drain", "wait", "done"} => stopCh
  /\ run \in {"wait", "done"} => \A p \in Paths : timer[p] = "none"
  /\ run = "done" /\ ~raced => wg = 0

\* A callback that has not yet taken its op is the only one of its path, and its timer has
\* expired: no Reset has hit it, or the history says so of the path and of the process.
Waiting(w, p) == worker[w].at \in {"start", "lock"} /\ worker[w].path = p
Followed(p) == \A m \in missed : m[1] # p
Unraced(p) == ~raced \/ Followed(p)
TimerInv ==
  \A p \in Paths : Unraced(p) =>
    /\ orphans[p] = 0
    /\ \A w \in Workers : Waiting(w, p) =>
         timer[p] = "fired" \/ (run \in {"wait", "done"} /\ timer[p] = "none")
    /\ \A w, x \in Workers : Waiting(w, p) /\ Waiting(x, p) => w = x

CountInv == ~raced => wg = Cardinality(Armed) + Cardinality(Live)

\* Once an invocation of Stop has returned, a callback that starts ends there.
StopInv ==
  (\E s \in Stoppers : stopper[s] = "returned") =>
    stopCh /\ (~raced => \A w \in Live : worker[w].at = "start")

\* The latest change of a path that was followed up is in the queue, or is what the debounce
\* will act on, or is what a callback has in hand, or is in the index.
Queued(p) == \E i \in 1 .. Len(fsq) : fsq[i][1] = p
LastOf(i, p) == fsq[i][1] = p /\ \A j \in (i + 1) .. Len(fsq) : fsq[j][1] # p
Fits(op, p) == op = "write" <=> disk[p] # 0
Working(w, p) == worker[w].at \in {"read", "upsert", "delete"} /\ worker[w].path = p
InHand(w, p) ==
  \/ worker[w].at = "read" /\ disk[p] # 0
  \/ worker[w].at = "upsert" /\ worker[w].doc = disk[p]
  \/ worker[w].at = "delete" /\ disk[p] = 0
Ending == {"drain", "wait", "done"}

OneCallback(p) ==
  \A w, x \in Live : worker[w].path = p /\ worker[x].path = p => w = x
QueueFits(p) == \A i \in 1 .. Len(fsq) : LastOf(i, p) => Fits(fsq[i][2], p)
OpFits(p) == pending[p] # "none" /\ ~Queued(p) => Fits(pending[p], p)
OpDue(p) ==
  pending[p] # "none" =>
    /\ run \notin Ending
    /\ ~stopCh => timer[p] = "armed" \/ \E w \in Workers : Waiting(w, p)
RowFits(p) ==
  pending[p] = "none" /\ ~Queued(p) =>
    /\ \A w \in Workers : Working(w, p) => InHand(w, p)
    /\ index[p] = disk[p] \/ \E w \in Workers : Working(w, p)
PathSync(p) == OneCallback(p) /\ QueueFits(p) /\ OpFits(p) /\ OpDue(p) /\ RowFits(p)
SyncInv == \A p \in Paths : Followed(p) => PathSync(p)

\* A COMMIT left to itself is of a callback that has still to see the cancelled context.
LateInv ==
  late # Free =>
    /\ ctxDone
    /\ Followed(late.path) =>
         \E w \in Workers : /\ worker[w].at \in {"upsert", "delete"}
                            /\ worker[w].path = late.path

IInv == TypeOK /\ RunInv /\ TimerInv /\ CountInv /\ StopInv /\ SyncInv /\ LateInv

-----------------------------------------------------------------------------
(* Lemmas: callbacks that start, move on and return.                       *)

LEMMA FreeTyped ==
  Free \in Callback /\ Free.at = "free" /\ Free.path = "none"
BY BoundsAssumption DEF Free, Callback

LEMMA Finite ==
  /\ IsFiniteSet(Live) /\ Cardinality(Live) \in Nat
  /\ IsFiniteSet(Armed) /\ Cardinality(Armed) \in Nat
<1>1. Live \subseteq Workers /\ Armed \subseteq Paths
  BY DEF Live, Armed
<1>2. IsFiniteSet(Live) /\ IsFiniteSet(Armed)
  BY <1>1, FS_Subset, PathsAssumption, WorkersAssumption
<1>3. QED BY <1>2, FS_CardinalityType

LEMMA ExitFacts ==
  ASSUME TypeOK, NEW w \in Live, Exit(w)
  PROVE  /\ worker' \in [Workers -> Callback] /\ worker'[w] = Free
         /\ \A x \in Workers \ {w} : worker'[x] = worker[x]
         /\ Live' = Live \ {w} /\ Cardinality(Live') = Cardinality(Live) - 1
         /\ \A x \in Live' : worker'[x].path \in Paths
         /\ wg' = wg - 1 /\ wg' \in Int
<1>1. /\ worker' \in [Workers -> Callback] /\ worker'[w] = Free
      /\ \A x \in Workers \ {w} : worker'[x] = worker[x]
  BY FreeTyped DEF TypeOK, Exit, Live
<1>2. Live' = Live \ {w}
  BY <1>1, FreeTyped DEF Live
<1>3. Cardinality(Live') = Cardinality(Live) - 1
  BY <1>2, Finite, FS_RemoveElement
<1>4. \A x \in Live' : worker'[x].path \in Paths
  BY <1>1, <1>2 DEF TypeOK, Live
<1>5. wg' = wg - 1 /\ wg' \in Int
  BY DEF Exit, TypeOK
<1>6. QED BY <1>1, <1>2, <1>3, <1>4, <1>5

LEMMA MoveFacts ==
  ASSUME TypeOK, NEW w \in Live, NEW at \in {"lock", "read", "delete"}, Move(w, at)
  PROVE  /\ worker' \in [Workers -> Callback] /\ worker'[w].at = at
         /\ worker'[w].path = worker[w].path
         /\ \A x \in Workers \ {w} : worker'[x] = worker[x]
         /\ Live' = Live /\ \A x \in Live' : worker'[x].path \in Paths
<1> DEFINE c == [worker[w] EXCEPT !.at = at]
<1>1. c \in Callback /\ c.at = at /\ c.path = worker[w].path /\ w \in Workers
  BY DEF TypeOK, Live, Callback
<1>2. worker' = [worker EXCEPT ![w] = c]
  BY DEF Move
<1> HIDE DEF c
<1>3. /\ worker' \in [Workers -> Callback] /\ worker'[w] = c
      /\ \A x \in Workers \ {w} : worker'[x] = worker[x]
  BY <1>1, <1>2 DEF TypeOK
<1>4. Live' = Live
  BY <1>1, <1>3 DEF Live
<1>5. \A x \in Live' : worker'[x].path \in Paths
  BY <1>1, <1>3, <1>4 DEF TypeOK, Live
<1>6. QED BY <1>1, <1>3, <1>4, <1>5

LEMMA SpawnFacts ==
  ASSUME TypeOK, NEW p \in Paths, Spawn(p)
  PROVE  \E w \in Workers \ Live :
           /\ worker' \in [Workers -> Callback]
           /\ worker'[w].at = "start" /\ worker'[w].path = p
           /\ \A x \in Workers \ {w} : worker'[x] = worker[x]
           /\ Live' = Live \cup {w} /\ Cardinality(Live') = Cardinality(Live) + 1
           /\ \A x \in Live' : worker'[x].path \in Paths
<1> DEFINE w == CHOOSE x \in Workers : worker[x].at = "free"
           c == [Free EXCEPT !.at = "start", !.path = p]
<1>1. w \in Workers /\ worker[w].at = "free"
  BY DEF Spawn, Live
<1>2. c \in Callback /\ c.at = "start" /\ c.path = p
  BY FreeTyped DEF Callback
<1>3. worker' = [worker EXCEPT ![w] = c]
  BY DEF Spawn
<1> HIDE DEF w, c
<1>4. /\ worker' \in [Workers -> Callback] /\ worker'[w] = c
      /\ \A x \in Workers \ {w} : worker'[x] = worker[x]
  BY <1>1, <1>2, <1>3 DEF TypeOK
<1>5. w \notin Live /\ Live' = Live \cup {w}
  BY <1>1, <1>2, <1>4 DEF Live
<1>6. Cardinality(Live') = Cardinality(Live) + 1
  BY <1>5, Finite, FS_AddElement
<1>7. \A x \in Live' : worker'[x].path \in Paths
  BY <1>2, <1>4, <1>5 DEF TypeOK, Live
<1>8. QED BY <1>1, <1>2, <1>4, <1>5, <1>6, <1>7

\* When the loop has returned and no Reset came too late, nothing is left running.
LEMMA DoneQuiet ==
  ASSUME IInv, run = "done", ~raced
  PROVE  Live = {}
<1>1. Cardinality(Live) = 0
  BY Finite DEF IInv, RunInv, CountInv
<1>2. QED BY <1>1, Finite, FS_EmptySet

-----------------------------------------------------------------------------
(* Lemmas: the queue of events.                                            *)

Event == (Paths \cup {"dir"}) \X {"write", "remove"}

LEMMA Appended ==
  ASSUME TypeOK, NEW e \in Event, fsq' = Append(fsq, e), NEW p
  PROVE  /\ fsq' \in Seq(Event)
         /\ Queued(p)' <=> Queued(p) \/ e[1] = p
         /\ e[1] # p /\ QueueFits(p) /\ disk'[p] = disk[p] => QueueFits(p)'
         /\ e[1] = p /\ Fits(e[2], p)' => QueueFits(p)'
<1>1. fsq \in Seq(Event)
  BY DEF TypeOK, Event
<1>2. /\ fsq' \in Seq(Event) /\ Len(fsq') = Len(fsq) + 1 /\ Len(fsq) \in Nat
      /\ fsq'[Len(fsq) + 1] = e
      /\ \A i \in 1 .. Len(fsq) : fsq'[i] = fsq[i]
  BY <1>1
<1>3. Queued(p)' <=> Queued(p) \/ e[1] = p
  BY <1>2 DEF Queued
<1>4. ASSUME e[1] # p, QueueFits(p), disk'[p] = disk[p]
      PROVE  QueueFits(p)'
  <2>1. ASSUME NEW i, i \in 1 .. Len(fsq'), LastOf(i, p)'
        PROVE  Fits(fsq[i][2], p)'
    <3>1. i \in 1 .. Len(fsq)
      BY <1>2, <1>4, <2>1 DEF LastOf
    <3>2. LastOf(i, p)
      BY <1>2, <2>1, <3>1 DEF LastOf
    <3>3. QED BY <1>2, <1>4, <3>1, <3>2 DEF QueueFits, Fits
  <2>2. QED BY <2>1 DEF QueueFits
<1>5. ASSUME e[1] = p, Fits(e[2], p)'
      PROVE  QueueFits(p)'
  <2>1. ASSUME NEW i, i \in 1 .. Len(fsq'), LastOf(i, p)'
        PROVE  Fits(fsq[i][2], p)'
    <3>1. i = Len(fsq) + 1
      BY <1>2, <1>5, <2>1 DEF LastOf
    <3>2. QED BY <1>2, <1>5, <3>1
  <2>2. QED BY <2>1 DEF QueueFits
<1>6. QED BY <1>2, <1>3, <1>4, <1>5

LEMMA Popped ==
  ASSUME TypeOK, fsq # <<>>, fsq' = Tail(fsq), NEW p, disk'[p] = disk[p]
  PROVE  /\ fsq' \in Seq(Event) /\ Head(fsq) \in Event
         /\ Queued(p) <=> Queued(p)' \/ Head(fsq)[1] = p
         /\ QueueFits(p) => QueueFits(p)'
         /\ Head(fsq)[1] = p /\ ~Queued(p)' /\ QueueFits(p) => Fits(Head(fsq)[2], p)
<1>1. fsq \in Seq(Event)
  BY DEF TypeOK, Event
<1>2. /\ fsq' \in Seq(Event) /\ Len(fsq') = Len(fsq) - 1 /\ Len(fsq) \in Nat \ {0}
      /\ Head(fsq) = fsq[1] /\ Head(fsq) \in Event
      /\ \A i \in 1 .. Len(fsq') : fsq'[i] = fsq[i + 1]
  BY <1>1
<1>3. \A i \in 2 .. Len(fsq) : i - 1 \in 1 .. Len(fsq') /\ fsq[i] = fsq'[i - 1]
  BY <1>2
<1>4. Queued(p) <=> Queued(p)' \/ Head(fsq)[1] = p
  <2>1. Queued(p)' \/ Head(fsq)[1] = p => Queued(p)
    BY <1>2 DEF Queued
  <2>2. ASSUME NEW i \in 1 .. Len(fsq), fsq[i][1] = p, Head(fsq)[1] # p
        PROVE  Queued(p)'
    <3>1. i \in 2 .. Len(fsq)
      BY <1>2, <2>2
    <3>2. QED BY <1>3, <2>2, <3>1 DEF Queued
  <2>3. QED BY <2>1, <2>2 DEF Queued
<1>5. ASSUME QueueFits(p)
      PROVE  QueueFits(p)'
  <2>1. ASSUME NEW i, i \in 1 .. Len(fsq'), LastOf(i, p)'
        PROVE  Fits(fsq[i][2], p)'
    <3>1. i + 1 \in 1 .. Len(fsq) /\ fsq'[i] = fsq[i + 1]
      BY <1>2, <2>1
    <3>2. ASSUME NEW j \in (i + 1 + 1) .. Len(fsq)
          PROVE  fsq[j][1] # p
      <4>1. j - 1 \in (i + 1) .. Len(fsq') /\ fsq[j] = fsq'[j - 1]
        BY <1>2, <1>3, <2>1
      <4>2. QED BY <2>1, <4>1 DEF LastOf
    <3>3. LastOf(i + 1, p)
      BY <2>1, <3>1, <3>2 DEF LastOf
    <3>4. QED BY <1>5, <3>1, <3>3 DEF QueueFits, Fits
  <2>2. QED BY <2>1 DEF QueueFits
<1>6. ASSUME Head(fsq)[1] = p, ~Queued(p)', QueueFits(p)
      PROVE  Fits(Head(fsq)[2], p)
  <2>1. ASSUME NEW j \in (1 + 1) .. Len(fsq)
        PROVE  fsq[j][1] # p
    <3>1. j \in 2 .. Len(fsq)
      OBVIOUS
    <3>2. QED BY <1>3, <1>6, <3>1 DEF Queued
  <2>2. LastOf(1, p) /\ 1 \in 1 .. Len(fsq)
    BY <1>2, <1>6, <2>1 DEF LastOf
  <2>3. QED BY <1>2, <1>6, <2>2 DEF QueueFits
<1>7. QED BY <1>2, <1>4, <1>5, <1>6

-----------------------------------------------------------------------------
(* Lemmas: what a step leaves as it was.                                   *)

LEMMA FollowedBefore ==
  ASSUME missed \subseteq missed', NEW p, Followed(p)'
  PROVE  Followed(p)
BY DEF Followed

\* Nothing is said to start, to end, to expire or to return.
LEMMA Untouched ==
  ASSUME IInv, missed \subseteq missed',
         UNCHANGED <<run, started, stopCh, ctxDone, stopper, timer, orphans, wg, worker,
                     raced, late>>
  PROVE  RunInv' /\ TimerInv' /\ CountInv' /\ StopInv' /\ LateInv'
<1>1. RunInv' /\ CountInv' /\ StopInv'
  BY DEF IInv, RunInv, CountInv, StopInv, Live, Armed
<1>2. TimerInv'
  BY DEF IInv, TimerInv, Unraced, Followed, Waiting
<1>3. LateInv'
  BY DEF IInv, LateInv, Followed
<1>4. QED BY <1>1, <1>2, <1>3

\* No timer changes, and no callback comes before the lock.
LEMMA TimerStays ==
  ASSUME IInv, missed \subseteq missed', raced => raced', UNCHANGED <<timer, orphans>>,
         run \in {"wait", "done"} => run' \in {"wait", "done"},
         \A w \in Workers, p \in Paths : Waiting(w, p)' => Waiting(w, p)
  PROVE  TimerInv'
<1> SUFFICES ASSUME NEW p \in Paths, Unraced(p)'
             PROVE  /\ orphans'[p] = 0
                    /\ \A w \in Workers : Waiting(w, p)' =>
                         timer'[p] = "fired" \/ (run' \in {"wait", "done"} /\ timer'[p] = "none")
                    /\ \A w, x \in Workers : Waiting(w, p)' /\ Waiting(x, p)' => w = x
  BY DEF TimerInv
<1>1. Unraced(p)
  BY DEF Unraced, Followed
<1>2. QED BY <1>1 DEF IInv, TimerInv

\* Nothing of p changes.
LEMMA PathStays ==
  ASSUME NEW p, PathSync(p), disk'[p] = disk[p], index'[p] = index[p],
         pending'[p] = pending[p], timer'[p] = timer[p], stopCh => stopCh',
         run' \in Ending => run \in Ending, Queued(p)' <=> Queued(p), QueueFits(p)',
         \A w \in Workers : \/ worker'[w] = worker[w]
                            \/ /\ worker[w].at # "free" => worker[w].path # p
                               /\ worker'[w].at # "free" => worker'[w].path # p
  PROVE  PathSync(p)'
<1>1. OneCallback(p)'
  BY DEF PathSync, OneCallback, Live
<1>2. OpFits(p)'
  BY DEF PathSync, OpFits, Fits
<1>3. \A w \in Workers : /\ Waiting(w, p)' <=> Waiting(w, p)
                         /\ Working(w, p)' <=> Working(w, p)
                         /\ Working(w, p) => (InHand(w, p)' <=> InHand(w, p))
  BY DEF Waiting, Working, InHand
<1>4. OpDue(p)'
  BY <1>3 DEF PathSync, OpDue
<1>5. RowFits(p)'
  BY <1>3 DEF PathSync, RowFits
<1>6. QED BY <1>1, <1>2, <1>4, <1>5 DEF PathSync

\* Nothing of any path changes.
LEMMA SyncStays ==
  ASSUME IInv, missed \subseteq missed', stopCh => stopCh',
         run' \in Ending => run \in Ending,
         UNCHANGED <<disk, index, pending, timer, fsq, worker>>
  PROVE  SyncInv'
<1> SUFFICES ASSUME NEW p \in Paths, Followed(p)' PROVE PathSync(p)'
  BY DEF SyncInv
<1>1. PathSync(p)
  BY FollowedBefore DEF IInv, SyncInv
<1>2. (Queued(p)' <=> Queued(p)) /\ QueueFits(p)'
  BY <1>1 DEF PathSync, Queued, QueueFits, LastOf, Fits
<1>3. QED BY <1>1, <1>2, PathStays

-----------------------------------------------------------------------------
(* The files.                                                              *)

LEMMA ChangeStep ==
  ASSUME IInv, NEW p \in Paths, NEW content \in 0 .. MaxEdits, NEW op \in {"write", "remove"},
         op = "write" <=> content # 0, Change(p, content, op)
  PROVE  IInv'
<1>1. /\ UNCHANGED <<dir, run, started, stopCh, ctxDone, stopper, pending, timer, orphans, wg,
                     worker, index, restarts, raced, late>>
      /\ edits' \in 0 .. MaxEdits /\ disk' \in [Paths -> 0 .. MaxEdits] /\ disk'[p] = content
      /\ \A q \in Paths \ {p} : disk'[q] = disk[q]
  BY BoundsAssumption DEF Change, lifeVars, debVars, IInv, TypeOK
<1>2. /\ missed' \in {missed, missed \cup {<<p, "unseen">>}}
      /\ missed \subseteq missed'
  BY DEF Change
<1>3. missed' \subseteq Paths \X {"unseen", "merged", "overlap", "taken", "lost", "failed"}
  BY <1>2 DEF IInv, TypeOK
<1>4. RunInv' /\ TimerInv' /\ CountInv' /\ StopInv' /\ LateInv'
  BY <1>1, <1>2, Untouched
<1>5. CASE Watched(p)
  <2>1. /\ fsq' = Append(fsq, <<p, op>>) /\ missed' = missed
        /\ <<p, op>> \in Event
    BY <1>5 DEF Change, Event
  <2>2. fsq' \in Seq(Event)
    BY <2>1, Appended DEF IInv
  <2>3. TypeOK'
    BY <1>1, <1>3, <2>2 DEF IInv, TypeOK, Event, Live
  <2>4. ASSUME NEW q \in Paths, Followed(q)'
        PROVE  PathSync(q)'
    <3>1. PathSync(q)
      BY <1>2, <2>4, FollowedBefore DEF IInv, SyncInv
    <3>2. CASE q = p
      <4>1. Queued(p)' /\ QueueFits(p)'
        BY <1>1, <2>1, Appended DEF IInv, Fits
      <4>2. OneCallback(p)' /\ OpDue(p)'
        BY <1>1, <3>1, <3>2 DEF PathSync, OneCallback, OpDue, Waiting, Live
      <4>3. QED BY <3>2, <4>1, <4>2 DEF PathSync, OpFits, RowFits
    <3>3. CASE q # p
      <4>1. (Queued(q)' <=> Queued(q)) /\ QueueFits(q)'
        BY <1>1, <2>1, <3>1, <3>3, Appended DEF IInv, PathSync
      <4>2. QED BY <1>1, <3>1, <3>3, <4>1, PathStays
    <3>4. QED BY <3>2, <3>3
  <2>5. QED BY <1>4, <2>3, <2>4 DEF IInv, SyncInv
<1>6. CASE ~Watched(p)
  <2>1. fsq' = fsq /\ missed' = missed \cup {<<p, "unseen">>}
    BY <1>6 DEF Change
  <2>2. TypeOK'
    BY <1>1, <1>3, <2>1 DEF IInv, TypeOK, Live
  <2>3. ASSUME NEW q \in Paths, Followed(q)'
        PROVE  PathSync(q)'
    <3>1. PathSync(q) /\ q # p
      <4>1. PathSync(q)
        BY <1>2, <2>3, FollowedBefore DEF IInv, SyncInv
      <4>2. <<p, "unseen">>[1] # q
        BY <2>1, <2>3 DEF Followed
      <4>3. QED BY <4>1, <4>2
    <3>2. (Queued(q)' <=> Queued(q)) /\ QueueFits(q)'
      BY <1>1, <2>1, <3>1 DEF PathSync, Queued, QueueFits, LastOf, Fits
    <3>3. QED BY <1>1, <3>1, <3>2, PathStays
  <2>4. QED BY <1>4, <2>2, <2>3 DEF IInv, SyncInv
<1>7. QED BY <1>5, <1>6

LEMMA WriteFileStep ==
  ASSUME IInv, NEW p \in Paths, WriteFile(p)
  PROVE  IInv'
<1>1. edits + 1 \in 0 .. MaxEdits /\ edits + 1 # 0 /\ Change(p, edits + 1, "write")
  BY BoundsAssumption DEF WriteFile, Change, IInv, TypeOK
<1>2. QED BY <1>1, ChangeStep

LEMMA RemoveFileStep ==
  ASSUME IInv, NEW p \in Paths, RemoveFile(p)
  PROVE  IInv'
<1>1. 0 \in 0 .. MaxEdits /\ Change(p, 0, "remove")
  BY BoundsAssumption DEF RemoveFile
<1>2. QED BY <1>1, ChangeStep

\* An event of the directory comes into the queue, or leaves it.
LEMMA DirEventStep ==
  ASSUME IInv, dir' \in {"absent", "created", "watched"},
         UNCHANGED <<disk, edits, lifeVars, debVars, worker, index, restarts, missed, raced,
                     late>>,
         \/ fsq' = Append(fsq, <<"dir", "write">>)
         \/ fsq # <<>> /\ Head(fsq)[1] = "dir" /\ fsq' = Tail(fsq)
  PROVE  IInv'
<1>1. UNCHANGED <<run, started, stopCh, ctxDone, stopper, pending, timer, orphans, wg>>
  BY DEF lifeVars, debVars
<1>2. /\ fsq' \in Seq(Event)
      /\ \A p \in Paths : /\ Queued(p)' <=> Queued(p)
                          /\ QueueFits(p) => QueueFits(p)'
  <2>1. CASE fsq' = Append(fsq, <<"dir", "write">>)
    <3>1. <<"dir", "write">> \in Event /\ \A p \in Paths : <<"dir", "write">>[1] # p
      BY PathsAssumption DEF Event
    <3>2. fsq' \in Seq(Event)
      BY <2>1, <3>1, Appended DEF IInv
    <3>3. ASSUME NEW p \in Paths
          PROVE  (Queued(p)' <=> Queued(p)) /\ (QueueFits(p) => QueueFits(p)')
      BY <2>1, <3>1, Appended DEF IInv
    <3>4. QED BY <3>2, <3>3
  <2>2. CASE fsq # <<>> /\ Head(fsq)[1] = "dir" /\ fsq' = Tail(fsq)
    <3>1. fsq' \in Seq(Event)
      BY <2>2, Popped DEF IInv
    <3>2. ASSUME NEW p \in Paths
          PROVE  (Queued(p)' <=> Queued(p)) /\ (QueueFits(p) => QueueFits(p)')
      BY <2>2, Popped, PathsAssumption DEF IInv
    <3>3. QED BY <3>1, <3>2
  <2>3. QED BY <2>1, <2>2
<1>3. TypeOK'
  BY <1>1, <1>2 DEF IInv, TypeOK, Event, Live
<1>4. RunInv' /\ TimerInv' /\ CountInv' /\ StopInv' /\ LateInv'
  BY <1>1, Untouched
<1>5. ASSUME NEW p \in Paths, Followed(p)'
      PROVE  PathSync(p)'
  <2>1. PathSync(p)
    BY <1>5 DEF IInv, SyncInv, Followed
  <2>2. (Queued(p)' <=> Queued(p)) /\ QueueFits(p)'
    BY <1>2, <2>1 DEF PathSync
  <2>3. QED BY <1>1, <2>1, <2>2, PathStays
<1>6. QED BY <1>3, <1>4, <1>5 DEF IInv, SyncInv

LEMMA MakeDirStep ==
  ASSUME IInv, MakeDir
  PROVE  IInv'
BY DirEventStep DEF MakeDir

LEMMA HandleDirEventStep ==
  ASSUME IInv, HandleDirEvent
  PROVE  IInv'
BY DirEventStep DEF HandleDirEvent

-----------------------------------------------------------------------------
(* Start, Stop and the end of the loop.                                    *)

\* The loop and the invocations of Stop move on; timers and callbacks do not.
LEMMA LifeStep ==
  ASSUME IInv, UNCHANGED <<fsVars, fsq, ctxDone, debVars, worker, index, restarts, missed,
                           raced, late>>,
         started' \in BOOLEAN, stopCh' \in BOOLEAN, stopCh => stopCh',
         run' \in {"new", "setup", "loop", "drain", "wait", "done"},
         run' \in Ending => run \in Ending, run \in {"wait", "done"} => run' \in {"wait", "done"},
         stopper' \in [Stoppers -> {"idle", "waiting", "returned"}],
         RunInv', StopInv'
  PROVE  IInv'
<1>1. UNCHANGED <<disk, edits, dir, pending, timer, orphans, wg>>
  BY DEF fsVars, debVars
<1>2. TypeOK'
  BY <1>1 DEF IInv, TypeOK, Live
<1>3. TimerInv'
  BY <1>1, TimerStays DEF Waiting
<1>4. CountInv' /\ LateInv'
  BY <1>1 DEF IInv, CountInv, LateInv, Live, Armed, Followed
<1>5. SyncInv'
  BY <1>1, SyncStays
<1>6. QED BY <1>2, <1>3, <1>4, <1>5 DEF IInv

LEMMA StartWatchingStep ==
  ASSUME IInv, StartWatching
  PROVE  IInv'
<1>1. /\ run = "new" /\ run' = "setup"
      /\ UNCHANGED <<started, stopCh, ctxDone, stopper, timer, orphans, worker, raced>>
  BY DEF StartWatching, debVars
<1>2. RunInv' /\ StopInv'
  BY <1>1 DEF IInv, RunInv, StopInv, Live
<1>3. /\ started' \in BOOLEAN /\ stopCh' \in BOOLEAN
      /\ stopper' \in [Stoppers -> {"idle", "waiting", "returned"}]
  BY <1>1 DEF IInv, TypeOK
<1>4. QED BY <1>1, <1>2, <1>3, LifeStep DEF StartWatching, Ending

LEMMA StartLoopStep ==
  ASSUME IInv, StartLoop
  PROVE  IInv'
<1>1. /\ run = "setup" /\ run' = "loop" /\ started' = TRUE
      /\ UNCHANGED <<stopCh, ctxDone, stopper, timer, orphans, worker, raced>>
  BY DEF StartLoop, debVars
<1>2. RunInv' /\ StopInv'
  BY <1>1 DEF IInv, RunInv, StopInv, Live
<1>3. /\ started' \in BOOLEAN /\ stopCh' \in BOOLEAN
      /\ stopper' \in [Stoppers -> {"idle", "waiting", "returned"}]
  BY <1>1 DEF IInv, TypeOK
<1>4. QED BY <1>1, <1>2, <1>3, LifeStep DEF StartLoop, Ending

LEMMA LoopReturnStep ==
  ASSUME IInv, LoopReturn
  PROVE  IInv'
<1>1. /\ run = "wait" /\ run' = "done" /\ wg = 0
      /\ UNCHANGED <<started, stopCh, ctxDone, stopper, timer, orphans, wg, worker, raced>>
  BY DEF LoopReturn, debVars
<1>2. RunInv' /\ StopInv'
  BY <1>1 DEF IInv, RunInv, StopInv, Live
<1>3. /\ started' \in BOOLEAN /\ stopCh' \in BOOLEAN
      /\ stopper' \in [Stoppers -> {"idle", "waiting", "returned"}]
  BY <1>1 DEF IInv, TypeOK
<1>4. QED BY <1>1, <1>2, <1>3, LifeStep DEF LoopReturn, Ending

LEMMA StopStep ==
  ASSUME IInv, NEW s \in Stoppers, Stop(s)
  PROVE  IInv'
<1>1. /\ stopCh' = TRUE /\ UNCHANGED <<run, started, ctxDone, timer, orphans, wg, worker, raced>>
      /\ stopper' = [stopper EXCEPT ![s] = IF started THEN "waiting" ELSE "returned"]
  BY DEF Stop, debVars
<1>2. RunInv'
  BY <1>1 DEF IInv, RunInv, Live
<1>3. StopInv'
  <2>1. CASE started
    BY <1>1, <2>1 DEF IInv, TypeOK, StopInv, Live
  <2>2. CASE ~started
    <3>1. Live = {} /\ Live' = Live
      BY <1>1, <2>2 DEF IInv, RunInv, Live
    <3>2. QED BY <1>1, <3>1 DEF StopInv
  <2>3. QED BY <2>1, <2>2
<1>4. /\ started' \in BOOLEAN /\ stopCh' \in BOOLEAN
      /\ stopper' \in [Stoppers -> {"idle", "waiting", "returned"}]
      /\ run' \in {"new", "setup", "loop", "drain", "wait", "done"}
  BY <1>1 DEF IInv, TypeOK
<1>5. QED BY <1>1, <1>2, <1>3, <1>4, LifeStep DEF Stop

LEMMA StopReturnStep ==
  ASSUME IInv, NEW s \in Stoppers, StopReturn(s)
  PROVE  IInv'
<1>1. /\ run = "done" /\ stopper' = [stopper EXCEPT ![s] = "returned"]
      /\ UNCHANGED <<run, started, stopCh, ctxDone, timer, orphans, wg, worker, raced>>
  BY DEF StopReturn, debVars
<1>2. RunInv'
  BY <1>1 DEF IInv, RunInv, Live
<1>3. StopInv'
  <2>1. stopCh /\ (~raced => Live = {}) /\ Live' = Live
    BY <1>1, DoneQuiet DEF IInv, RunInv, Live
  <2>2. QED BY <1>1, <2>1 DEF StopInv
<1>4. /\ started' \in BOOLEAN /\ stopCh' \in BOOLEAN
      /\ stopper' \in [Stoppers -> {"idle", "waiting", "returned"}]
      /\ run' \in {"new", "setup", "loop", "drain", "wait", "done"}
  BY <1>1 DEF IInv, TypeOK
<1>5. QED BY <1>1, <1>2, <1>3, <1>4, LifeStep DEF StopReturn

\* A callback that has something to commit is left to itself.
LEMMA CancelContextStep ==
  ASSUME IInv, CancelContext
  PROVE  IInv'
<1>1. /\ UNCHANGED <<disk, edits, dir, fsq, run, started, stopCh, stopper, pending, timer,
                     orphans, wg, worker, index, restarts, missed, raced>>
      /\ ctxDone' = TRUE
  BY DEF CancelContext, fsVars, debVars
<1>2. late' = Free \/ \E w \in Live : late' = worker[w] /\ worker[w].at \in {"upsert", "delete"}
  BY DEF CancelContext, Submitted
<1>3. TypeOK'
  <2>1. late' \in {Free} \cup {c \in Callback : c.at \in {"upsert", "delete"} /\ c.path \in Paths}
    BY <1>2 DEF IInv, TypeOK, Live
  <2>2. QED BY <1>1, <2>1 DEF IInv, TypeOK, Live
<1>4. RunInv' /\ CountInv' /\ StopInv'
  BY <1>1 DEF IInv, RunInv, CountInv, StopInv, Live, Armed
<1>5. TimerInv'
  BY <1>1, TimerStays DEF Waiting
<1>6. SyncInv'
  BY <1>1, SyncStays
<1>7. LateInv'
  BY <1>1, <1>2 DEF LateInv, Live
<1>8. QED BY <1>3, <1>4, <1>5, <1>6, <1>7 DEF IInv

\* The index may get what the callback had, which has still to see the cancelled context.
LEMMA LateCommitStep ==
  ASSUME IInv, LateCommit
  PROVE  IInv'
<1>1. /\ UNCHANGED <<disk, edits, dir, fsq, run, started, stopCh, ctxDone, stopper, pending,
                     timer, orphans, wg, worker, restarts, missed, raced>>
      /\ late # Free /\ late' = Free /\ late.path \in Paths
      /\ index' = [index EXCEPT ![late.path] = IF late.at = "upsert" THEN late.doc ELSE 0]
  BY DEF LateCommit, fsVars, lifeVars, debVars, IInv, TypeOK
<1>2. index' \in [Paths -> 0 .. MaxEdits] /\ \A p \in Paths \ {late.path} : index'[p] = index[p]
  BY <1>1, BoundsAssumption DEF IInv, TypeOK, Callback
<1>3. TypeOK'
  BY <1>1, <1>2 DEF IInv, TypeOK, Live
<1>4. RunInv' /\ CountInv' /\ StopInv' /\ LateInv'
  BY <1>1 DEF IInv, RunInv, CountInv, StopInv, LateInv, Live, Armed
<1>5. TimerInv'
  BY <1>1, TimerStays DEF Waiting
<1>6. ASSUME NEW p \in Paths, Followed(p)'
      PROVE  PathSync(p)'
  <2>1. PathSync(p) /\ Followed(p)
    BY <1>1, <1>6 DEF IInv, SyncInv, Followed
  <2>2. (Queued(p)' <=> Queued(p)) /\ QueueFits(p)'
    BY <1>1, <2>1 DEF PathSync, Queued, QueueFits, LastOf, Fits
  <2>3. CASE p # late.path
    BY <1>1, <1>2, <2>1, <2>2, <2>3, PathStays
  <2>4. CASE p = late.path
    <3>1. \E w \in Workers : Working(w, p)
      BY <1>1, <2>1, <2>4 DEF IInv, LateInv, Working
    <3>2. \A w \in Workers : /\ (Working(w, p)' <=> Working(w, p))
                             /\ (InHand(w, p)' <=> InHand(w, p))
      BY <1>1 DEF Working, InHand
    <3>3. RowFits(p)'
      BY <1>1, <2>1, <2>2, <3>1, <3>2 DEF PathSync, RowFits
    <3>4. OneCallback(p)' /\ OpFits(p)' /\ OpDue(p)'
      BY <1>1, <2>1, <2>2 DEF PathSync, OneCallback, OpFits, OpDue, Fits, Waiting, Live
    <3>5. QED BY <2>2, <3>3, <3>4 DEF PathSync
  <2>5. QED BY <2>3, <2>4
<1>7. QED BY <1>3, <1>4, <1>5, <1>6 DEF IInv, SyncInv

\* A path of which something was under way is remembered; any other is up to date.
LEMMA NotUnderway ==
  ASSUME IInv, NEW p \in Paths, Followed(p),
         ~Underway(p)
  PROVE  /\ index[p] = disk[p] /\ pending[p] = "none"
         /\ \A w \in Live : worker[w].path # p
<1>1. pending[p] = "none" /\ ~Queued(p) /\ \A w \in Live : worker[w].path # p
  BY DEF Underway, Queued
<1>2. \A w \in Workers : ~Working(w, p)
  BY <1>1 DEF Working, Live
<1>3. QED BY <1>1, <1>2 DEF IInv, SyncInv, PathSync, RowFits

LEMMA LoopExitStep ==
  ASSUME IInv, LoopExit
  PROVE  IInv'
<1>1. /\ UNCHANGED <<disk, edits, dir, started, ctxDone, stopper, pending, timer, orphans, wg,
                     worker, index, restarts, raced, late>>
      /\ run = "loop" /\ run' = "drain" /\ stopCh' = TRUE /\ fsq' = <<>>
      /\ missed' = missed \cup {<<p, "lost">> : p \in {q \in Paths : Underway(q)}}
  BY DEF LoopExit, fsVars, debVars
<1>2. /\ missed \subseteq missed'
      /\ missed' \subseteq Paths \X {"unseen", "merged", "overlap", "taken", "lost", "failed"}
  BY <1>1 DEF IInv, TypeOK
<1>3. fsq' \in Seq((Paths \cup {"dir"}) \X {"write", "remove"})
  BY <1>1
<1>4. TypeOK'
  BY <1>1, <1>2, <1>3 DEF IInv, TypeOK, Live
<1>5. RunInv' /\ CountInv' /\ StopInv'
  BY <1>1 DEF IInv, RunInv, CountInv, StopInv, Live, Armed
<1>6. TimerInv'
  BY <1>1, <1>2, TimerStays DEF Waiting
<1>7. LateInv'
  BY <1>1, <1>2 DEF IInv, LateInv, Followed
<1>8. ASSUME NEW p \in Paths, Followed(p)'
      PROVE  PathSync(p)'
  <2>1. Followed(p) /\ ~Underway(p)
    <3>1. Followed(p)
      BY <1>2, <1>8, FollowedBefore
    <3>2. Underway(p) => <<p, "lost">> \in missed'
      BY <1>1
    <3>3. <<p, "lost">>[1] = p
      OBVIOUS
    <3>4. QED BY <1>8, <3>1, <3>2, <3>3 DEF Followed
  <2>2. /\ index[p] = disk[p] /\ pending[p] = "none"
        /\ \A w \in Live : worker[w].path # p
    BY <2>1, NotUnderway
  <2>3. ~Queued(p)' /\ QueueFits(p)'
    BY <1>1 DEF Queued, QueueFits
  <2>4. \A w \in Workers : ~Working(w, p)'
    BY <1>1, <2>2 DEF Working, Live
  <2>5. QED BY <1>1, <2>2, <2>3, <2>4
        DEF PathSync, OneCallback, OpFits, OpDue, RowFits, Live
<1>9. QED BY <1>4, <1>5, <1>6, <1>7, <1>8 DEF IInv, SyncInv

LEMMA DrainTimersStep ==
  ASSUME IInv, DrainTimers
  PROVE  IInv'
<1>1. /\ UNCHANGED <<disk, edits, dir, fsq, started, stopCh, ctxDone, stopper, orphans, worker,
                     index, restarts, missed, raced, late>>
      /\ run = "drain" /\ run' = "wait" /\ wg' = wg - Cardinality(Armed)
      /\ timer' = [p \in Paths |-> "none"] /\ pending' = [p \in Paths |-> "none"]
  BY DEF DrainTimers, fsVars, Armed
<1>2. TypeOK'
  <2>1. wg' \in Int
    BY <1>1, Finite DEF IInv, TypeOK
  <2>2. QED BY <1>1, <2>1 DEF IInv, TypeOK, Live
<1>3. RunInv' /\ StopInv' /\ LateInv'
  BY <1>1 DEF IInv, RunInv, StopInv, LateInv, Live, Followed
<1>4. TimerInv'
  BY <1>1 DEF IInv, TimerInv, Unraced, Followed, Waiting
<1>5. CountInv'
  <2>1. Armed' = {} /\ Live' = Live
    BY <1>1 DEF Armed, Live
  <2>2. Cardinality(Armed') = 0
    BY <2>1, FS_EmptySet
  <2>3. QED BY <1>1, <2>1, <2>2, Finite DEF IInv, CountInv, TypeOK
<1>6. ASSUME NEW p \in Paths, Followed(p)'
      PROVE  PathSync(p)'
  <2>1. PathSync(p)
    BY <1>1, <1>6 DEF IInv, SyncInv, Followed
  <2>2. pending[p] = "none" /\ pending'[p] = "none"
    BY <1>1, <2>1 DEF PathSync, OpDue, Ending
  <2>3. (Queued(p)' <=> Queued(p)) /\ QueueFits(p)'
    BY <1>1, <2>1 DEF PathSync, Queued, QueueFits, LastOf, Fits
  <2>4. \A w \in Workers : /\ (Working(w, p)' <=> Working(w, p))
                           /\ (InHand(w, p)' <=> InHand(w, p))
    BY <1>1 DEF Working, InHand
  <2>5. OneCallback(p)' /\ RowFits(p)'
    BY <1>1, <2>1, <2>2, <2>3, <2>4 DEF PathSync, OneCallback, RowFits, Live
  <2>6. QED BY <2>2, <2>3, <2>5 DEF PathSync, OpFits, OpDue
<1>7. QED BY <1>2, <1>3, <1>4, <1>5, <1>6 DEF IInv, SyncInv

-----------------------------------------------------------------------------
(* Events and timers.                                                      *)

LEMMA HandleEventStep ==
  ASSUME IInv, HandleEvent
  PROVE  IInv'
<1>0. PICK p, op : p = Head(fsq)[1] /\ op = Head(fsq)[2]
  OBVIOUS
<1>1. /\ UNCHANGED <<disk, edits, dir, run, started, stopCh, ctxDone, stopper, orphans, worker,
                     index, restarts, late>>
      /\ run = "loop" /\ fsq # <<>> /\ fsq' = Tail(fsq) /\ p \in Paths
      /\ pending' = [pending EXCEPT ![p] = Merged(p, op)]
      /\ timer' = [timer EXCEPT ![p] = "armed"]
      /\ wg' = IF timer[p] = "none" THEN wg + 1 ELSE wg
      /\ raced' = (raced \/ timer[p] = "fired")
  BY <1>0 DEF HandleEvent, fsVars, lifeVars
<1>2. missed' = missed \cup (IF Merged(p, op) # op THEN {<<p, "merged">>} ELSE {})
                       \cup (IF timer[p] = "fired" THEN {<<p, "overlap">>} ELSE {})
  BY <1>0 DEF HandleEvent
<1>3. /\ missed \subseteq missed'
      /\ missed' \subseteq Paths \X {"unseen", "merged", "overlap", "taken", "lost", "failed"}
  BY <1>1, <1>2 DEF IInv, TypeOK
<1>4. Followed(p)' => Merged(p, op) = op /\ timer[p] # "fired"
  <2>1. ASSUME Followed(p)', Merged(p, op) # op
        PROVE  FALSE
    <3>1. <<p, "merged">> \in missed' /\ <<p, "merged">>[1] = p
      BY <1>2, <2>1
    <3>2. QED BY <2>1, <3>1 DEF Followed
  <2>2. ASSUME Followed(p)', timer[p] = "fired"
        PROVE  FALSE
    <3>1. <<p, "overlap">> \in missed' /\ <<p, "overlap">>[1] = p
      BY <1>2, <2>2
    <3>2. QED BY <2>2, <3>1 DEF Followed
  <2>3. QED BY <2>1, <2>2
<1>5. /\ fsq' \in Seq(Event) /\ op \in {"write", "remove"}
      /\ \A q : /\ Queued(q) <=> Queued(q)' \/ p = q
                /\ QueueFits(q) => QueueFits(q)'
                /\ p = q /\ ~Queued(q)' /\ QueueFits(q) => Fits(op, q)
  <2>1. fsq' \in Seq(Event) /\ Head(fsq) \in Event
    BY <1>1, Popped DEF IInv
  <2>2. op \in {"write", "remove"}
    BY <1>0, <2>1 DEF Event
  <2>3. ASSUME NEW q
        PROVE  /\ Queued(q) <=> Queued(q)' \/ p = q
               /\ QueueFits(q) => QueueFits(q)'
               /\ p = q /\ ~Queued(q)' /\ QueueFits(q) => Fits(op, q)
    BY <1>0, <1>1, Popped DEF IInv
  <2>4. QED BY <2>1, <2>2, <2>3
<1>6. /\ pending' \in [Paths -> {"none", "write", "remove"}] /\ pending'[p] = Merged(p, op)
      /\ timer' \in [Paths -> {"none", "armed", "fired"}] /\ timer'[p] = "armed"
      /\ \A q \in Paths \ {p} : pending'[q] = pending[q] /\ timer'[q] = timer[q]
      /\ raced' \in BOOLEAN /\ wg' \in Int
  BY <1>1, <1>5 DEF IInv, TypeOK, Merged
<1>7. TypeOK'
  BY <1>1, <1>3, <1>5, <1>6 DEF IInv, TypeOK, Event, Live
<1>8. RunInv' /\ StopInv' /\ LateInv'
  BY <1>1, <1>3 DEF IInv, RunInv, StopInv, LateInv, Live, Followed
<1>9. TimerInv'
  <2> SUFFICES ASSUME NEW q \in Paths, Unraced(q)'
               PROVE  /\ orphans[q] = 0
                      /\ \A w \in Workers : Waiting(w, q) => timer'[q] = "fired"
                      /\ \A w, x \in Workers : Waiting(w, q) /\ Waiting(x, q) => w = x
    BY <1>1 DEF TimerInv, Waiting
  <2>1. Unraced(q)
    BY <1>1, <1>3 DEF Unraced, Followed
  <2>2. /\ orphans[q] = 0
        /\ \A w \in Workers : Waiting(w, q) => timer[q] = "fired"
        /\ \A w, x \in Workers : Waiting(w, q) /\ Waiting(x, q) => w = x
    BY <1>1, <2>1 DEF IInv, TimerInv
  <2>3. CASE q = p
    <3>1. timer[p] # "fired"
      BY <1>1, <1>4, <2>3 DEF Unraced
    <3>2. QED BY <2>2, <2>3, <3>1
  <2>4. CASE q # p
    BY <1>6, <2>2, <2>4
  <2>5. QED BY <2>3, <2>4
<1>10. CountInv'
  <2> SUFFICES ASSUME ~raced'
               PROVE  wg' = Cardinality(Armed') + Cardinality(Live')
    BY DEF CountInv
  <2>1. /\ wg = Cardinality(Armed) + Cardinality(Live) /\ timer[p] # "fired"
        /\ Live' = Live
    BY <1>1 DEF IInv, CountInv, Live
  <2>2. CASE timer[p] = "none"
    <3>1. p \notin Armed /\ Armed' = Armed \cup {p}
      BY <1>1, <1>6, <2>2 DEF Armed
    <3>2. Cardinality(Armed') = Cardinality(Armed) + 1
      BY <3>1, Finite, FS_AddElement
    <3>3. QED BY <1>1, <2>1, <2>2, <3>2, Finite
  <2>3. CASE timer[p] = "armed"
    <3>1. Armed' = Armed
      BY <1>1, <1>6, <2>3 DEF Armed
    <3>2. QED BY <1>1, <2>1, <2>3, <3>1
  <2>4. QED BY <1>1, <2>1, <2>2, <2>3 DEF IInv, TypeOK
<1>11. ASSUME NEW q \in Paths, Followed(q)'
       PROVE  PathSync(q)'
  <2>1. PathSync(q)
    BY <1>3, <1>11, FollowedBefore DEF IInv, SyncInv
  <2>2. QueueFits(q)'
    BY <1>5, <2>1 DEF PathSync
  <2>3. CASE q # p
    <3>1. Queued(q)' <=> Queued(q)
      BY <1>5, <2>3
    <3>2. QED BY <1>1, <1>6, <2>1, <2>2, <2>3, <3>1, PathStays
  <2>4. CASE q = p
    <3>1. pending'[p] = op /\ op # "none"
      BY <1>4, <1>5, <1>6, <1>11, <2>4
    <3>2. OpFits(p)'
      BY <1>1, <1>5, <2>1, <2>4, <3>1 DEF PathSync, OpFits, Fits
    <3>3. OpDue(p)' /\ RowFits(p)'
      BY <1>1, <1>6, <3>1 DEF OpDue, RowFits, Ending
    <3>4. OneCallback(p)'
      BY <1>1, <2>1, <2>4 DEF PathSync, OneCallback, Live
    <3>5. QED BY <2>2, <2>4, <3>2, <3>3, <3>4 DEF PathSync
  <2>5. QED BY <2>3, <2>4
<1>12. QED BY <1>7, <1>8, <1>9, <1>10, <1>11 DEF IInv, SyncInv

LEMMA FireStep ==
  ASSUME IInv, NEW p \in Paths, Fire(p)
  PROVE  IInv'
<1>1. /\ UNCHANGED <<disk, edits, dir, fsq, run, started, stopCh, ctxDone, stopper, pending,
                     wg, index, restarts, raced, late>>
      /\ Spawn(p)
  BY DEF Fire, fsVars, lifeVars
<1>2. PICK w \in Workers \ Live :
           /\ worker' \in [Workers -> Callback]
           /\ worker'[w].at = "start" /\ worker'[w].path = p
           /\ \A x \in Workers \ {w} : worker'[x] = worker[x]
           /\ Live' = Live \cup {w} /\ Cardinality(Live') = Cardinality(Live) + 1
           /\ \A x \in Live' : worker'[x].path \in Paths
  BY <1>1, SpawnFacts DEF IInv
<1>3. /\ missed' \in {missed, missed \cup {<<p, "overlap">>}} /\ missed \subseteq missed'
      /\ Followed(p)' => \A x \in Live : worker[x].path # p
  <2>1. CASE \E x \in Live : worker[x].path = p
    <3>1. missed' = missed \cup {<<p, "overlap">>} /\ <<p, "overlap">>[1] = p
      BY <1>1, <2>1 DEF Spawn
    <3>2. ~Followed(p)'
      BY <3>1 DEF Followed
    <3>3. QED BY <3>1, <3>2
  <2>2. CASE ~\E x \in Live : worker[x].path = p
    BY <1>1, <2>2 DEF Spawn
  <2>3. QED BY <2>1, <2>2
<1>4. missed' \subseteq Paths \X {"unseen", "merged", "overlap", "taken", "lost", "failed"}
  BY <1>3 DEF IInv, TypeOK
<1>5. \/ /\ timer[p] = "armed" /\ timer' = [timer EXCEPT ![p] = "fired"] /\ UNCHANGED orphans
      \/ /\ orphans[p] > 0 /\ orphans' = [orphans EXCEPT ![p] = @ - 1] /\ UNCHANGED timer
  BY DEF Fire
<1>6. /\ timer' \in [Paths -> {"none", "armed", "fired"}] /\ orphans' \in [Paths -> Nat]
      /\ \A q \in Paths \ {p} : timer'[q] = timer[q] /\ orphans'[q] = orphans[q]
  <2>1. timer \in [Paths -> {"none", "armed", "fired"}] /\ orphans \in [Paths -> Nat]
    BY DEF IInv, TypeOK
  <2>2. QED BY <1>5, <2>1
<1>7. TypeOK'
  BY <1>1, <1>2, <1>4, <1>6 DEF IInv, TypeOK
<1>8. RunInv' /\ StopInv' /\ LateInv'
  <2>1. run \notin {"new", "setup"} /\ (run \in {"wait", "done"} => timer' = timer)
    BY <1>5 DEF IInv, TypeOK, RunInv
  <2>2. RunInv'
    BY <1>1, <2>1 DEF IInv, RunInv
  <2>3. StopInv'
    BY <1>1, <1>2 DEF IInv, StopInv, Live
  <2>4. LateInv'
    BY <1>1, <1>2, <1>3 DEF IInv, LateInv, Live, Followed
  <2>5. QED BY <2>2, <2>3, <2>4
<1>9. Unraced(p) => timer[p] = "armed" /\ timer'[p] = "fired" /\ orphans' = orphans
                    /\ \A x \in Workers : ~Waiting(x, p)
  <2> SUFFICES ASSUME Unraced(p)
               PROVE  timer[p] = "armed" /\ timer'[p] = "fired" /\ orphans' = orphans
                      /\ \A x \in Workers : ~Waiting(x, p)
    OBVIOUS
  <2>1. /\ orphans[p] = 0
        /\ \A x \in Workers : Waiting(x, p) => timer[p] \in {"fired", "none"}
    BY DEF IInv, TimerInv
  <2>2. timer[p] = "armed" /\ timer'[p] = "fired" /\ orphans' = orphans
    BY <1>5, <2>1 DEF IInv, TypeOK
  <2>3. QED BY <2>1, <2>2
<1>10. TimerInv'
  <2> SUFFICES ASSUME NEW q \in Paths, Unraced(q)'
               PROVE  /\ orphans'[q] = 0
                      /\ \A x \in Workers : Waiting(x, q)' =>
                           timer'[q] = "fired" \/ (run \in {"wait", "done"} /\ timer'[q] = "none")
                      /\ \A x, y \in Workers : Waiting(x, q)' /\ Waiting(y, q)' => x = y
    BY <1>1 DEF TimerInv
  <2>1. Unraced(q)
    BY <1>1, <1>3 DEF Unraced, Followed
  <2>2. /\ orphans[q] = 0
        /\ \A x \in Workers : Waiting(x, q) =>
             timer[q] = "fired" \/ (run \in {"wait", "done"} /\ timer[q] = "none")
        /\ \A x, y \in Workers : Waiting(x, q) /\ Waiting(y, q) => x = y
    BY <2>1 DEF IInv, TimerInv
  <2>3. \A x \in Workers : Waiting(x, q)' <=> Waiting(x, q) \/ (x = w /\ q = p)
    BY <1>2 DEF Waiting, Live
  <2>4. CASE q = p
    BY <1>9, <2>1, <2>2, <2>3, <2>4
  <2>5. CASE q # p
    BY <1>6, <2>2, <2>3, <2>5
  <2>6. QED BY <2>4, <2>5
<1>11. CountInv'
  <2> SUFFICES ASSUME ~raced
               PROVE  wg' = Cardinality(Armed') + Cardinality(Live')
    BY <1>1 DEF CountInv
  <2>1. wg = Cardinality(Armed) + Cardinality(Live) /\ timer[p] = "armed" /\ timer'[p] = "fired"
    BY <1>9 DEF IInv, CountInv, Unraced
  <2>2. p \in Armed /\ Armed' = Armed \ {p}
    BY <1>6, <2>1 DEF Armed
  <2>3. Cardinality(Armed') = Cardinality(Armed) - 1
    BY <2>2, Finite, FS_RemoveElement
  <2>4. QED BY <1>1, <1>2, <2>1, <2>3, Finite
<1>12. ASSUME NEW q \in Paths, Followed(q)'
       PROVE  PathSync(q)'
  <2>1. PathSync(q) /\ Followed(q)
    BY <1>3, <1>12, FollowedBefore DEF IInv, SyncInv
  <2>2. (Queued(q)' <=> Queued(q)) /\ QueueFits(q)'
    BY <1>1, <2>1 DEF PathSync, Queued, QueueFits, LastOf, Fits
  <2>3. CASE q # p
    <3>1. worker[w].at = "free"
      BY <1>2 DEF Live
    <3>2. QED BY <1>1, <1>2, <1>6, <2>1, <2>2, <2>3, <3>1, PathStays
  <2>4. CASE q = p
    <3>1. \A x \in Live : worker[x].path # p
      BY <1>3, <1>12, <2>4
    <3>2. OneCallback(p)'
      BY <1>2, <3>1 DEF OneCallback, Live
    <3>3. OpFits(p)'
      BY <1>1, <2>1, <2>2, <2>4 DEF PathSync, OpFits, Fits
    <3>4. OpDue(p)'
      BY <1>1, <1>2, <2>1, <2>4 DEF PathSync, OpDue, Waiting
    <3>5. \A x \in Workers : ~Working(x, p) /\ ~Working(x, p)'
      BY <1>2, <3>1 DEF Working, Live
    <3>6. RowFits(p)'
      BY <1>1, <2>1, <2>2, <2>4, <3>5 DEF PathSync, RowFits
    <3>7. QED BY <2>2, <2>4, <3>2, <3>3, <3>4, <3>6 DEF PathSync
  <2>5. QED BY <2>3, <2>4
<1>13. QED BY <1>7, <1>8, <1>10, <1>11, <1>12 DEF IInv, SyncInv

-----------------------------------------------------------------------------
(* The callbacks.                                                          *)

\* What a callback leaves in order when it moves on or returns.
LEMMA CallbackLife ==
  ASSUME IInv, NEW w \in Live, missed \subseteq missed',
         UNCHANGED <<run, started, stopCh, ctxDone, stopper, raced, late>>,
         \A x \in Workers \ {w} : worker'[x] = worker[x],
         \/ Live' = Live \ {w}
         \/ Live' = Live /\ worker[w].at # "start"
         \/ Live' = Live /\ ~stopCh,
         \A p \in Paths : timer'[p] \in {timer[p], "none"},
         worker[w].at \in {"upsert", "delete"} /\ ctxDone =>
           \E m \in missed' : m[1] = worker[w].path
  PROVE  RunInv' /\ StopInv' /\ LateInv'
<1>1. RunInv'
  <2>1. run \notin {"new", "setup"} /\ ~(run = "done" /\ ~raced)
    BY DoneQuiet DEF IInv, RunInv
  <2>2. QED BY <2>1 DEF IInv, RunInv, TypeOK
<1>2. StopInv'
  BY DEF IInv, StopInv, Live
<1>3. LateInv'
  <2> SUFFICES ASSUME late # Free, \A m \in missed' : m[1] # late.path
               PROVE  \E x \in Workers : /\ worker'[x].at \in {"upsert", "delete"}
                                         /\ worker'[x].path = late.path
    BY DEF IInv, LateInv, Followed
  <2>1. Followed(late.path) /\ ctxDone
    BY DEF IInv, LateInv, Followed
  <2>2. PICK x \in Workers : /\ worker[x].at \in {"upsert", "delete"}
                             /\ worker[x].path = late.path
    BY <2>1 DEF IInv, LateInv
  <2>3. x # w
    BY <2>1, <2>2
  <2>4. QED BY <2>2, <2>3
<1>4. QED BY <1>1, <1>2, <1>3

\* The paths of other callbacks.
LEMMA OtherPath ==
  ASSUME IInv, NEW w \in Live, NEW q \in Paths, q # worker[w].path, Followed(q),
         UNCHANGED <<disk, fsq, run, stopCh>>, index'[q] = index[q],
         pending'[q] = pending[q], timer'[q] = timer[q],
         \A x \in Workers \ {w} : worker'[x] = worker[x],
         worker'[w] = Free \/ worker'[w].path = worker[w].path
  PROVE  PathSync(q)'
<1>1. PathSync(q)
  BY DEF IInv, SyncInv
<1>2. (Queued(q)' <=> Queued(q)) /\ QueueFits(q)'
  BY <1>1 DEF PathSync, Queued, QueueFits, LastOf, Fits
<1>3. worker'[w].at # "free" => worker'[w].path # q
  BY FreeTyped
<1>4. QED BY <1>1, <1>2, <1>3, PathStays DEF Ending

LEMMA CallbackStartStep ==
  ASSUME IInv, NEW w \in Workers, CallbackStart(w)
  PROVE  IInv'
<1>1. /\ UNCHANGED <<disk, edits, dir, fsq, run, started, stopCh, ctxDone, stopper, pending,
                     timer, orphans, index, restarts, missed, raced, late>>
      /\ worker[w].at = "start" /\ w \in Live
  BY DEF CallbackStart, fsVars, lifeVars, Live
<1>2. PICK p \in Paths : p = worker[w].path
  BY <1>1 DEF IInv, TypeOK
<1>3. CASE stopCh
  <2>1. Exit(w)
    BY <1>3 DEF CallbackStart
  <2>2. /\ worker' \in [Workers -> Callback] /\ worker'[w] = Free
        /\ \A x \in Workers \ {w} : worker'[x] = worker[x]
        /\ Live' = Live \ {w} /\ Cardinality(Live') = Cardinality(Live) - 1
        /\ \A x \in Live' : worker'[x].path \in Paths
        /\ wg' = wg - 1 /\ wg' \in Int
    BY <1>1, <2>1, ExitFacts DEF IInv
  <2>3. TypeOK'
    BY <1>1, <2>2 DEF IInv, TypeOK
  <2>4. RunInv' /\ StopInv' /\ LateInv'
    BY <1>1, <2>2, CallbackLife
  <2>5. TimerInv'
    <3>1. \A x \in Workers, q \in Paths : Waiting(x, q)' => Waiting(x, q)
      BY <2>2, FreeTyped DEF Waiting
    <3>2. QED BY <1>1, <3>1, TimerStays
  <2>6. CountInv'
    BY <1>1, <2>2, Finite DEF IInv, CountInv, Armed, TypeOK
  <2>7. ASSUME NEW q \in Paths, Followed(q)'
        PROVE  PathSync(q)'
    <3>1. Followed(q) /\ PathSync(q)
      BY <1>1, <2>7 DEF IInv, SyncInv, Followed
    <3>2. CASE q # p
      BY <1>1, <1>2, <2>2, <3>1, <3>2, OtherPath
    <3>3. CASE q = p
      <4>1. (Queued(p)' <=> Queued(p)) /\ QueueFits(p)'
        BY <1>1, <3>1, <3>3 DEF PathSync, Queued, QueueFits, LastOf, Fits
      <4>2. OneCallback(p)'
        BY <2>2, <3>1, <3>3 DEF PathSync, OneCallback, Live
      <4>3. OpFits(p)' /\ OpDue(p)'
        BY <1>1, <1>3, <3>1, <3>3, <4>1 DEF PathSync, OpFits, OpDue, Fits
      <4>4. \A x \in Workers : /\ Working(x, p)' <=> Working(x, p)
                               /\ Working(x, p) => (InHand(x, p)' <=> InHand(x, p))
        BY <1>1, <2>2, FreeTyped DEF Working, InHand
      <4>5. RowFits(p)'
        BY <1>1, <3>1, <3>3, <4>1, <4>4 DEF PathSync, RowFits
      <4>6. QED BY <3>3, <4>1, <4>2, <4>3, <4>5 DEF PathSync
    <3>4. QED BY <3>2, <3>3
  <2>8. QED BY <2>3, <2>4, <2>5, <2>6, <2>7 DEF IInv, SyncInv
<1>4. CASE ~stopCh
  <2>1. Move(w, "lock") /\ wg' = wg
    BY <1>4 DEF CallbackStart
  <2>2. /\ worker' \in [Workers -> Callback] /\ worker'[w].at = "lock"
        /\ worker'[w].path = worker[w].path
        /\ \A x \in Workers \ {w} : worker'[x] = worker[x]
        /\ Live' = Live /\ \A x \in Live' : worker'[x].path \in Paths
    BY <1>1, <2>1, MoveFacts DEF IInv
  <2>3. TypeOK'
    BY <1>1, <2>1, <2>2 DEF IInv, TypeOK
  <2>4. RunInv' /\ StopInv' /\ LateInv'
    BY <1>1, <1>4, <2>2, CallbackLife
  <2>5. \A x \in Workers, q \in Paths : Waiting(x, q)' <=> Waiting(x, q)
    BY <1>1, <2>2 DEF Waiting
  <2>6. TimerInv'
    BY <1>1, <2>5, TimerStays
  <2>7. CountInv'
    BY <1>1, <2>1, <2>2 DEF IInv, CountInv, Armed
  <2>8. ASSUME NEW q \in Paths, Followed(q)'
        PROVE  PathSync(q)'
    <3>1. Followed(q) /\ PathSync(q)
      BY <1>1, <2>8 DEF IInv, SyncInv, Followed
    <3>2. CASE q # p
      BY <1>1, <1>2, <2>2, <3>1, <3>2, OtherPath
    <3>3. CASE q = p
      <4>1. (Queued(p)' <=> Queued(p)) /\ QueueFits(p)'
        BY <1>1, <3>1, <3>3 DEF PathSync, Queued, QueueFits, LastOf, Fits
      <4>2. OneCallback(p)'
        BY <2>2, <3>1, <3>3 DEF PathSync, OneCallback, Live
      <4>3. OpFits(p)' /\ OpDue(p)'
        BY <1>1, <2>5, <3>1, <3>3, <4>1 DEF PathSync, OpFits, OpDue, Fits
      <4>4. \A x \in Workers : /\ Working(x, p)' <=> Working(x, p)
                               /\ Working(x, p) => (InHand(x, p)' <=> InHand(x, p))
        BY <1>1, <2>2 DEF Working, InHand
      <4>5. RowFits(p)'
        BY <1>1, <3>1, <3>3, <4>1, <4>4 DEF PathSync, RowFits
      <4>6. QED BY <3>3, <4>1, <4>2, <4>3, <4>5 DEF PathSync
    <3>4. QED BY <3>2, <3>3
  <2>9. QED BY <2>3, <2>4, <2>6, <2>7, <2>8 DEF IInv, SyncInv
<1>5. QED BY <1>3, <1>4

LEMMA CallbackTakeStep ==
  ASSUME IInv, NEW w \in Workers, CallbackTake(w)
  PROVE  IInv'
<1>1. /\ UNCHANGED <<disk, edits, dir, fsq, run, started, stopCh, ctxDone, stopper, index,
                     restarts, missed, raced, late>>
      /\ worker[w].at = "lock" /\ w \in Live
  BY DEF CallbackTake, fsVars, lifeVars, Live
<1>2. PICK p \in Paths : p = worker[w].path
  BY <1>1 DEF IInv, TypeOK
<1>3. /\ pending' = [pending EXCEPT ![p] = "none"] /\ timer' = [timer EXCEPT ![p] = "none"]
      /\ orphans' = IF timer[p] = "armed" THEN [orphans EXCEPT ![p] = @ + 1] ELSE orphans
  BY <1>2 DEF CallbackTake
<1>4. /\ pending' \in [Paths -> {"none", "write", "remove"}] /\ pending'[p] = "none"
      /\ timer' \in [Paths -> {"none", "armed", "fired"}] /\ timer'[p] = "none"
      /\ orphans' \in [Paths -> Nat]
      /\ \A q \in Paths \ {p} : /\ pending'[q] = pending[q] /\ timer'[q] = timer[q]
                                /\ orphans'[q] = orphans[q]
  BY <1>3 DEF IInv, TypeOK
<1>5. /\ worker' \in [Workers -> Callback]
      /\ \A x \in Workers \ {w} : worker'[x] = worker[x]
      /\ \A x \in Live' : worker'[x].path \in Paths
      /\ \/ /\ pending[p] = "none" /\ worker'[w] = Free
            /\ Live' = Live \ {w} /\ Cardinality(Live') = Cardinality(Live) - 1
            /\ wg' = wg - 1
         \/ /\ worker'[w].path = p /\ Live' = Live /\ wg' = wg
            /\ \/ pending[p] = "remove" /\ worker'[w].at = "delete"
               \/ pending[p] = "write" /\ worker'[w].at = "read"
      /\ wg' \in Int
  <2>1. CASE pending[p] = "none" /\ Exit(w)
    BY <1>1, <2>1, ExitFacts DEF IInv
  <2>2. CASE pending[p] = "remove" /\ Move(w, "delete") /\ UNCHANGED wg
    BY <1>1, <1>2, <2>2, MoveFacts DEF IInv, TypeOK
  <2>3. CASE pending[p] = "write" /\ Move(w, "read") /\ UNCHANGED wg
    BY <1>1, <1>2, <2>3, MoveFacts DEF IInv, TypeOK
  <2>4. QED BY <1>2, <2>1, <2>2, <2>3 DEF CallbackTake
<1>6. TypeOK'
  BY <1>1, <1>4, <1>5 DEF IInv, TypeOK
<1>7. RunInv' /\ StopInv' /\ LateInv'
  <2>1. \A q \in Paths : timer'[q] \in {timer[q], "none"}
    BY <1>4
  <2>2. QED BY <1>1, <1>5, <2>1, CallbackLife
<1>8. \A x \in Workers, q \in Paths : Waiting(x, q)' <=> Waiting(x, q) /\ x # w
  BY <1>1, <1>5, FreeTyped DEF Waiting
<1>9. Waiting(w, p)
  BY <1>1, <1>2 DEF Waiting
<1>10. Unraced(p) => timer[p] # "armed" /\ \A x \in Workers : Waiting(x, p) => x = w
  BY <1>9 DEF IInv, TimerInv
<1>11. TimerInv'
  <2> SUFFICES ASSUME NEW q \in Paths, Unraced(q)'
               PROVE  /\ orphans'[q] = 0
                      /\ \A x \in Workers : Waiting(x, q)' =>
                           timer'[q] = "fired" \/ (run \in {"wait", "done"} /\ timer'[q] = "none")
                      /\ \A x, y \in Workers : Waiting(x, q)' /\ Waiting(y, q)' => x = y
    BY <1>1 DEF TimerInv
  <2>1. Unraced(q)
    BY <1>1 DEF Unraced, Followed
  <2>2. /\ orphans[q] = 0
        /\ \A x \in Workers : Waiting(x, q) =>
             timer[q] = "fired" \/ (run \in {"wait", "done"} /\ timer[q] = "none")
        /\ \A x, y \in Workers : Waiting(x, q) /\ Waiting(y, q) => x = y
    BY <2>1 DEF IInv, TimerInv
  <2>3. CASE q = p
    BY <1>3, <1>8, <1>10, <2>1, <2>2, <2>3
  <2>4. CASE q # p
    BY <1>4, <1>8, <2>2, <2>4
  <2>5. QED BY <2>3, <2>4
<1>12. CountInv'
  <2> SUFFICES ASSUME ~raced
               PROVE  wg' = Cardinality(Armed') + Cardinality(Live')
    BY <1>1 DEF CountInv
  <2>1. Armed' = Armed
    BY <1>4, <1>10 DEF Armed, Unraced
  <2>2. wg = Cardinality(Armed) + Cardinality(Live)
    BY DEF IInv, CountInv
  <2>3. QED BY <1>5, <2>1, <2>2, Finite
<1>13. ASSUME NEW q \in Paths, Followed(q)'
       PROVE  PathSync(q)'
  <2>1. Followed(q) /\ PathSync(q)
    BY <1>1, <1>13 DEF IInv, SyncInv, Followed
  <2>2. CASE q # p
    BY <1>1, <1>2, <1>4, <1>5, <2>1, <2>2, OtherPath
  <2>3. CASE q = p
    <3>1. (Queued(p)' <=> Queued(p)) /\ QueueFits(p)'
      BY <1>1, <2>1, <2>3 DEF PathSync, Queued, QueueFits, LastOf, Fits
    <3>2. OneCallback(p)'
      BY <1>2, <1>5, <2>1, <2>3 DEF PathSync, OneCallback, Live
    <3>3. OpFits(p)' /\ OpDue(p)'
      BY <1>4 DEF OpFits, OpDue
    <3>4. \A x \in Workers : Working(x, p) => FALSE
      BY <1>1, <1>2, <2>1, <2>3 DEF PathSync, OneCallback, Working, Live
    <3>5. \A x \in Workers \ {w} : ~Working(x, p)'
      BY <1>5, <3>4 DEF Working
    <3>6. RowFits(p)'
      <4>1. CASE pending[p] = "none"
        <5>1. worker'[w].at = "free"
          BY <1>5, <4>1, FreeTyped
        <5>2. \A x \in Workers : ~Working(x, p)'
          BY <3>5, <5>1 DEF Working
        <5>3. ~Queued(p) => index[p] = disk[p]
          BY <2>1, <2>3, <3>4, <4>1 DEF PathSync, RowFits
        <5>4. QED BY <1>1, <3>1, <5>2, <5>3 DEF RowFits
      <4>2. CASE pending[p] # "none"
        <5>1. ~Queued(p) => Fits(pending[p], p)
          BY <2>1, <2>3, <4>2 DEF PathSync, OpFits
        <5>2. Working(w, p)' /\ (~Queued(p) => InHand(w, p)')
          BY <1>1, <1>5, <4>2, <5>1 DEF Working, InHand, Fits
        <5>3. QED BY <3>1, <3>5, <5>2 DEF RowFits
      <4>3. QED BY <4>1, <4>2
    <3>7. QED BY <2>3, <3>1, <3>2, <3>3, <3>6 DEF PathSync
  <2>4. QED BY <2>2, <2>3
<1>14. QED BY <1>6, <1>7, <1>11, <1>12, <1>13 DEF IInv, SyncInv

\* A callback returns, having brought the row of its path to what it had in hand.
LEMMA ReturnStep ==
  ASSUME IInv, NEW w \in Live, NEW p \in Paths, p = worker[w].path, Working(w, p), Exit(w),
         UNCHANGED <<disk, edits, dir, fsq, run, started, stopCh, ctxDone, stopper, pending,
                     timer, orphans, restarts, raced, late>>,
         missed \subseteq missed',
         missed' \subseteq Paths \X {"unseen", "merged", "overlap", "taken", "lost", "failed"},
         index' \in [Paths -> 0 .. MaxEdits], \A q \in Paths \ {p} : index'[q] = index[q],
         worker[w].at \in {"upsert", "delete"} /\ ctxDone => \E m \in missed' : m[1] = p,
         Followed(p)' /\ InHand(w, p) => index'[p] = disk[p]
  PROVE  IInv'
<1>1. /\ worker' \in [Workers -> Callback] /\ worker'[w] = Free
      /\ \A x \in Workers \ {w} : worker'[x] = worker[x]
      /\ Live' = Live \ {w} /\ Cardinality(Live') = Cardinality(Live) - 1
      /\ \A x \in Live' : worker'[x].path \in Paths
      /\ wg' = wg - 1 /\ wg' \in Int
  BY ExitFacts DEF IInv
<1>2. TypeOK'
  BY <1>1 DEF IInv, TypeOK
<1>3. RunInv' /\ StopInv' /\ LateInv'
  BY <1>1, CallbackLife
<1>4. \A x \in Workers, q \in Paths : Waiting(x, q)' <=> Waiting(x, q)
  BY <1>1, FreeTyped DEF Waiting, Working
<1>5. TimerInv'
  BY <1>4, TimerStays
<1>6. CountInv'
  BY <1>1, Finite DEF IInv, CountInv, Armed, TypeOK
<1>7. ASSUME NEW q \in Paths, Followed(q)'
      PROVE  PathSync(q)'
  <2>1. Followed(q) /\ PathSync(q)
    BY <1>7, FollowedBefore DEF IInv, SyncInv
  <2>2. CASE q # p
    BY <1>1, <2>1, <2>2, OtherPath
  <2>3. CASE q = p
    <3>1. (Queued(p)' <=> Queued(p)) /\ QueueFits(p)'
      BY <2>1, <2>3 DEF PathSync, Queued, QueueFits, LastOf, Fits
    <3>2. OneCallback(p)'
      BY <1>1, <2>1, <2>3 DEF PathSync, OneCallback, Live
    <3>3. OpFits(p)' /\ OpDue(p)'
      BY <1>4, <2>1, <2>3, <3>1 DEF PathSync, OpFits, OpDue, Fits
    <3>4. \A x \in Workers \ {w} : ~Working(x, p)
      BY <2>1, <2>3 DEF PathSync, OneCallback, Working, Live
    <3>5. \A x \in Workers : ~Working(x, p)'
      BY <1>1, <3>4, FreeTyped DEF Working
    <3>6. RowFits(p)'
      BY <1>7, <2>1, <2>3, <3>1, <3>5 DEF PathSync, RowFits, Live
    <3>7. QED BY <2>3, <3>1, <3>2, <3>3, <3>6 DEF PathSync
  <2>4. QED BY <2>2, <2>3
<1>8. QED BY <1>2, <1>3, <1>5, <1>6, <1>7 DEF IInv, SyncInv

\* A callback returns, and the history says that its change is forgotten.
LEMMA ForgetStep ==
  ASSUME IInv, NEW w \in Live, NEW p \in Paths, p = worker[w].path, Working(w, p), Exit(w),
         UNCHANGED <<disk, edits, dir, fsq, run, started, stopCh, ctxDone, stopper, pending,
                     timer, orphans, restarts, raced, late>>,
         NEW why \in {"taken", "lost", "failed"}, Forget(p, why)
  PROVE  IInv'
<1>1. missed' = missed \cup {<<p, why>>} /\ index' = index
  BY DEF Forget
<1>2. /\ <<p, why>>[1] = p /\ <<p, why>> \in missed'
      /\ <<p, why>> \in Paths \X {"unseen", "merged", "overlap", "taken", "lost", "failed"}
  BY <1>1
<1>3. \E m \in missed' : m[1] = p
  BY <1>2
<1>4. /\ missed \subseteq missed'
      /\ missed' \subseteq Paths \X {"unseen", "merged", "overlap", "taken", "lost", "failed"}
  BY <1>1, <1>2 DEF IInv, TypeOK
<1>5. ~Followed(p)'
  BY <1>3 DEF Followed
<1>6. index' \in [Paths -> 0 .. MaxEdits]
  BY <1>1 DEF IInv, TypeOK
<1>7. QED BY <1>1, <1>3, <1>4, <1>5, <1>6, ReturnStep

LEMMA ReadFileStep ==
  ASSUME IInv, NEW w \in Workers, ReadFile(w)
  PROVE  IInv'
<1>1. /\ UNCHANGED <<disk, edits, dir, fsq, run, started, stopCh, ctxDone, stopper, pending,
                     timer, orphans, restarts, raced, late>>
      /\ worker[w].at = "read" /\ w \in Live
  BY DEF ReadFile, fsVars, lifeVars, Live
<1>2. PICK p \in Paths : p = worker[w].path
  BY <1>1 DEF IInv, TypeOK
<1>3. Working(w, p)
  BY <1>1, <1>2 DEF Working
<1>4. \/ Exit(w) /\ disk[p] = 0 /\ UNCHANGED <<missed, index>>
      \/ Exit(w) /\ Forget(p, "failed")
      \/ /\ disk[p] # 0 /\ UNCHANGED <<wg, missed, index>>
         /\ worker' = [worker EXCEPT ![w].at = "upsert", ![w].doc = disk[p]]
  BY <1>2 DEF ReadFile
<1>5. CASE Exit(w) /\ disk[p] = 0 /\ UNCHANGED <<missed, index>>
  <2>1. ~InHand(w, p)
    BY <1>1, <1>5 DEF InHand
  <2>2. QED BY <1>1, <1>2, <1>3, <1>5, <2>1, ReturnStep DEF IInv, TypeOK
<1>6. CASE Exit(w) /\ Forget(p, "failed")
  BY <1>1, <1>2, <1>3, <1>6, ForgetStep
<1>7. CASE /\ disk[p] # 0 /\ UNCHANGED <<wg, missed, index>>
           /\ worker' = [worker EXCEPT ![w].at = "upsert", ![w].doc = disk[p]]
  <2> DEFINE c == [worker[w] EXCEPT !.at = "upsert", !.doc = disk[p]]
  <2>1. c \in Callback /\ c.at = "upsert" /\ c.path = p /\ c.doc = disk[p]
    <3>1. worker[w] \in Callback /\ disk[p] \in 0 .. MaxEdits
      BY DEF IInv, TypeOK
    <3>2. QED BY <1>2, <3>1 DEF Callback
  <2>2. worker' = [worker EXCEPT ![w] = c] /\ wg' = wg
    BY <1>2, <1>7
  <2> HIDE DEF c
  <2>3. /\ worker' \in [Workers -> Callback] /\ worker'[w] = c
        /\ \A x \in Workers \ {w} : worker'[x] = worker[x]
    BY <2>1, <2>2 DEF IInv, TypeOK
  <2>4. Live' = Live /\ \A x \in Live' : worker'[x].path \in Paths
    <3>1. Live' = Live
      BY <1>1, <1>7, <2>1, <2>3 DEF Live
    <3>2. \A x \in Live : worker[x].path \in Paths /\ x \in Workers
      BY DEF IInv, TypeOK, Live
    <3>3. QED BY <1>2, <2>1, <2>3, <3>1, <3>2
  <2>5. TypeOK'
    BY <1>1, <1>7, <2>2, <2>3, <2>4 DEF IInv, TypeOK
  <2>6. RunInv' /\ StopInv' /\ LateInv'
    BY <1>1, <1>7, <2>3, <2>4, CallbackLife
  <2>7. \A x \in Workers, q \in Paths : Waiting(x, q)' <=> Waiting(x, q)
    BY <1>1, <1>7, <2>1, <2>3 DEF Waiting
  <2>8. TimerInv'
    BY <1>1, <1>7, <2>7, TimerStays
  <2>9. CountInv'
    BY <1>1, <1>7, <2>2, <2>4 DEF IInv, CountInv, Armed
  <2>10. ASSUME NEW q \in Paths, Followed(q)'
         PROVE  PathSync(q)'
    <3>1. Followed(q) /\ PathSync(q)
      BY <1>1, <1>7, <2>10 DEF IInv, SyncInv, Followed
    <3>2. CASE q # p
      BY <1>1, <1>7, <1>2, <2>1, <2>3, <3>1, <3>2, OtherPath
    <3>3. CASE q = p
      <4>1. (Queued(p)' <=> Queued(p)) /\ QueueFits(p)'
        BY <1>1, <1>7, <3>1, <3>3 DEF PathSync, Queued, QueueFits, LastOf, Fits
      <4>2. OneCallback(p)'
        <5>1. \A x \in Live : worker'[x].path = worker[x].path
          BY <1>2, <2>1, <2>3 DEF Live
        <5>2. QED BY <2>4, <3>1, <3>3, <5>1 DEF PathSync, OneCallback
      <4>3. OpFits(p)' /\ OpDue(p)'
        BY <1>1, <1>7, <2>7, <3>1, <3>3, <4>1 DEF PathSync, OpFits, OpDue, Fits
      <4>4. \A x \in Workers \ {w} : Working(x, p)' => FALSE
        BY <1>1, <1>7, <1>2, <2>3, <3>1, <3>3 DEF PathSync, OneCallback, Working, Live
      <4>5. Working(w, p)' /\ InHand(w, p)'
        BY <1>1, <1>7, <2>1, <2>3 DEF Working, InHand
      <4>6. RowFits(p)'
        BY <4>4, <4>5 DEF RowFits
      <4>7. QED BY <3>3, <4>1, <4>2, <4>3, <4>6 DEF PathSync
    <3>4. QED BY <3>2, <3>3
  <2>11. QED BY <2>5, <2>6, <2>8, <2>9, <2>10 DEF IInv, SyncInv
<1>8. QED BY <1>4, <1>5, <1>6, <1>7

LEMMA UpsertStep ==
  ASSUME IInv, NEW w \in Workers, Upsert(w)
  PROVE  IInv'
<1>1. /\ UNCHANGED <<disk, edits, dir, fsq, run, started, stopCh, ctxDone, stopper, pending,
                     timer, orphans, restarts, raced, late>>
      /\ worker[w].at = "upsert" /\ w \in Live /\ Exit(w)
  BY DEF Upsert, fsVars, lifeVars, Live
<1>2. PICK p \in Paths : p = worker[w].path
  BY <1>1 DEF IInv, TypeOK
<1>3. Working(w, p) /\ worker[w].doc \in 0 .. MaxEdits
  BY <1>1, <1>2 DEF Working, IInv, TypeOK, Callback
<1>4. CASE Forget(p, Refusal(KeyTaken(p, worker[w].doc)))
  <2>1. Refusal(KeyTaken(p, worker[w].doc)) \in {"taken", "lost", "failed"}
    BY DEF Refusal
  <2>2. QED BY <1>1, <1>2, <1>3, <1>4, <2>1, ForgetStep
<1>5. CASE ~ctxDone /\ index' = [index EXCEPT ![p] = worker[w].doc] /\ missed' = missed
  <2>1. /\ index' \in [Paths -> 0 .. MaxEdits] /\ index'[p] = worker[w].doc
        /\ \A q \in Paths \ {p} : index'[q] = index[q]
    BY <1>3, <1>5 DEF IInv, TypeOK
  <2>2. InHand(w, p) => index'[p] = disk[p]
    BY <1>1, <2>1 DEF InHand
  <2>3. missed' \subseteq Paths \X {"unseen", "merged", "overlap", "taken", "lost", "failed"}
    BY <1>5 DEF IInv, TypeOK
  <2>4. QED BY <1>1, <1>2, <1>3, <1>5, <2>1, <2>2, <2>3, ReturnStep
<1>6. QED BY <1>2, <1>4, <1>5 DEF Upsert

LEMMA DeleteStep ==
  ASSUME IInv, NEW w \in Workers, Delete(w)
  PROVE  IInv'
<1>1. /\ UNCHANGED <<disk, edits, dir, fsq, run, started, stopCh, ctxDone, stopper, pending,
                     timer, orphans, restarts, raced, late>>
      /\ worker[w].at = "delete" /\ w \in Live /\ Exit(w)
  BY DEF Delete, fsVars, lifeVars, Live
<1>2. PICK p \in Paths : p = worker[w].path
  BY <1>1 DEF IInv, TypeOK
<1>3. Working(w, p)
  BY <1>1, <1>2 DEF Working
<1>4. CASE Forget(p, Refusal(FALSE))
  <2>1. Refusal(FALSE) \in {"taken", "lost", "failed"}
    BY DEF Refusal
  <2>2. QED BY <1>1, <1>2, <1>3, <1>4, <2>1, ForgetStep
<1>5. CASE ~ctxDone /\ index' = [index EXCEPT ![p] = 0] /\ missed' = missed
  <2>1. /\ index' \in [Paths -> 0 .. MaxEdits] /\ index'[p] = 0
        /\ \A q \in Paths \ {p} : index'[q] = index[q]
    BY <1>5, BoundsAssumption DEF IInv, TypeOK
  <2>2. InHand(w, p) => index'[p] = disk[p]
    BY <1>1, <2>1 DEF InHand
  <2>3. missed' \subseteq Paths \X {"unseen", "merged", "overlap", "taken", "lost", "failed"}
    BY <1>5 DEF IInv, TypeOK
  <2>4. QED BY <1>1, <1>2, <1>3, <1>5, <2>1, <2>2, <2>3, ReturnStep
<1>6. QED BY <1>2, <1>4, <1>5 DEF Delete

\* A new process finds the index as it was; the history says what it will not hear of.
LEMMA RestartStep ==
  ASSUME IInv, Restart
  PROVE  IInv'
<1>1. /\ UNCHANGED <<disk, edits, index>> /\ restarts' \in 0 .. MaxRestarts
      /\ dir' \in {"absent", "created", "watched"} /\ run' = "new" /\ fsq' = <<>>
      /\ started' = FALSE /\ stopCh' = FALSE /\ ctxDone' = FALSE
      /\ stopper' = [s \in Stoppers |-> "idle"]
      /\ pending' = [p \in Paths |-> "none"] /\ timer' = [p \in Paths |-> "none"]
      /\ orphans' = [p \in Paths |-> 0] /\ wg' = 0
      /\ worker' = [w \in Workers |-> Free] /\ late' = Free /\ raced' = FALSE
      /\ missed' = missed \cup {<<p, "lost">> : p \in {q \in Paths : Underway(q)}}
  BY BoundsAssumption DEF Restart, IInv, TypeOK
<1>2. /\ missed \subseteq missed'
      /\ missed' \subseteq Paths \X {"unseen", "merged", "overlap", "taken", "lost", "failed"}
  BY <1>1 DEF IInv, TypeOK
<1>3. Live' = {} /\ Armed' = {} /\ \A w \in Workers : worker'[w].at = "free"
  BY <1>1, FreeTyped DEF Live, Armed
<1>4. TypeOK'
  <2>1. fsq' \in Seq((Paths \cup {"dir"}) \X {"write", "remove"})
    BY <1>1
  <2>2. worker' \in [Workers -> Callback]
    BY <1>1, FreeTyped
  <2>3. /\ pending' \in [Paths -> {"none", "write", "remove"}]
        /\ timer' \in [Paths -> {"none", "armed", "fired"}] /\ orphans' \in [Paths -> Nat]
        /\ stopper' \in [Stoppers -> {"idle", "waiting", "returned"}] /\ wg' \in Int
    BY <1>1
  <2>4. QED BY <1>1, <1>2, <1>3, <2>1, <2>2, <2>3 DEF IInv, TypeOK
<1>5. RunInv' /\ TimerInv' /\ StopInv' /\ LateInv'
  BY <1>1, <1>3 DEF RunInv, TimerInv, StopInv, LateInv, Waiting
<1>6. CountInv'
  BY <1>1, <1>3, FS_EmptySet DEF CountInv
<1>7. ASSUME NEW p \in Paths, Followed(p)'
      PROVE  PathSync(p)'
  <2>1. Followed(p) /\ ~Underway(p)
    <3>1. Followed(p)
      BY <1>2, <1>7, FollowedBefore
    <3>2. Underway(p) => <<p, "lost">> \in missed'
      BY <1>1
    <3>3. <<p, "lost">>[1] = p
      OBVIOUS
    <3>4. QED BY <1>7, <3>1, <3>2, <3>3 DEF Followed
  <2>2. index'[p] = disk'[p] /\ pending'[p] = "none"
    BY <1>1, <2>1, NotUnderway
  <2>3. QueueFits(p)' /\ \A w \in Workers : ~Working(w, p)'
    BY <1>1, <1>3 DEF QueueFits, Working
  <2>4. QED BY <1>3, <2>2, <2>3 DEF PathSync, OneCallback, OpFits, OpDue, RowFits
<1>8. QED BY <1>4, <1>5, <1>6, <1>7 DEF IInv, SyncInv

-----------------------------------------------------------------------------
(* The theorems.                                                           *)

LEMMA InitInv ==
  Init => IInv
<1> SUFFICES ASSUME Init PROVE IInv
  OBVIOUS
<1>1. Live = {} /\ Armed = {} /\ \A w \in Workers : worker[w].at = "free"
  BY FreeTyped DEF Init, Live, Armed
<1>2. TypeOK
  <2>1. fsq \in Seq((Paths \cup {"dir"}) \X {"write", "remove"})
    BY DEF Init
  <2>2. worker \in [Workers -> Callback]
    BY FreeTyped DEF Init
  <2>3. /\ pending \in [Paths -> {"none", "write", "remove"}]
        /\ timer \in [Paths -> {"none", "armed", "fired"}] /\ orphans \in [Paths -> Nat]
        /\ stopper \in [Stoppers -> {"idle", "waiting", "returned"}] /\ wg \in Int
    BY DEF Init
  <2>4. /\ disk \in [Paths -> 0 .. MaxEdits] /\ index \in [Paths -> 0 .. MaxEdits]
        /\ edits \in 0 .. MaxEdits /\ restarts \in 0 .. MaxRestarts
    BY BoundsAssumption DEF Init
  <2>5. QED BY <1>1, <2>1, <2>2, <2>3, <2>4 DEF Init, TypeOK
<1>3. RunInv /\ TimerInv /\ StopInv /\ LateInv
  BY <1>1 DEF Init, RunInv, TimerInv, StopInv, LateInv, Waiting
<1>4. CountInv
  BY <1>1, FS_EmptySet DEF Init, CountInv
<1>5. SyncInv
  BY <1>1 DEF Init, SyncInv, PathSync, OneCallback, QueueFits, OpFits, OpDue, RowFits, Working
<1>6. QED BY <1>2, <1>3, <1>4, <1>5 DEF IInv

LEMMA NextInv ==
  IInv /\ [Next]_vars => IInv'
<1> SUFFICES ASSUME IInv, [Next]_vars PROVE IInv'
  OBVIOUS
<1>1. CASE UNCHANGED vars
  <2>1. UNCHANGED <<disk, edits, dir, fsq, run, started, stopCh, ctxDone, stopper, pending,
                    timer, orphans, wg, worker, late, index, restarts, missed, raced>>
    BY <1>1 DEF vars, fsVars, lifeVars, debVars
  <2>2. TypeOK'
    BY <2>1 DEF IInv, TypeOK, Live
  <2>3. RunInv' /\ TimerInv' /\ CountInv' /\ StopInv' /\ LateInv'
    BY <2>1, Untouched
  <2>4. SyncInv'
    BY <2>1, SyncStays
  <2>5. QED BY <2>2, <2>3, <2>4 DEF IInv
<1>2. CASE FileNext
  BY <1>2, MakeDirStep, WriteFileStep, RemoveFileStep DEF FileNext
<1>3. CASE LifeNext
  BY <1>3, StartWatchingStep, StartLoopStep, CancelContextStep, LoopExitStep,
     DrainTimersStep, LoopReturnStep, StopStep, StopReturnStep DEF LifeNext
<1>4. ASSUME NEW w \in Workers, CallbackNext(w)
      PROVE  IInv'
  BY <1>4, CallbackStartStep, CallbackTakeStep, ReadFileStep, UpsertStep, DeleteStep
  DEF CallbackNext
<1>5. QED BY <1>1, <1>2, <1>3, <1>4, LateCommitStep, HandleDirEventStep, HandleEventStep,
             FireStep, RestartStep DEF Next

\* The inductive invariant holds in every reachable state.
THEOREM Inductive ==
  Spec => []IInv
BY InitInv, NextInv, PTL DEF Spec

\* afterFuncWG counts the armed timers and the callbacks at work, whatever the number of
\* files and of callbacks, until a Reset hits a timer that has already expired.
THEOREM WaitGroup ==
  Spec => []WaitGroupBalanced
<1>1. IInv => WaitGroupBalanced
  BY DEF IInv, CountInv, Armed, WaitGroupBalanced
<1>2. QED BY <1>1, Inductive, PTL

\* Whenever the indexer has nothing left to do, the row of every file whose changes were all
\* followed up is what the file holds: no order of events, expiries and callbacks of any
\* number of files makes the debounce act on an older change last.
THEOREM DebounceKeepsUp ==
  Spec => []SettledInSync
<1>1. IInv => SettledInSync
  <2> SUFFICES ASSUME IInv, Settled, NEW p \in Paths, OnlyMissed(p, {})
               PROVE  index[p] = disk[p]
    BY DEF SettledInSync
  <2>1. PathSync(p)
    BY DEF OnlyMissed, IInv, SyncInv, Followed
  <2>2. \A w \in Workers : ~Waiting(w, p) /\ ~Working(w, p)
    BY DEF Settled, Live, Waiting, Working
  <2>3. pending[p] = "none" /\ ~Queued(p)
    BY <2>1, <2>2 DEF Settled, PathSync, OpDue, Queued
  <2>4. QED BY <2>1, <2>2, <2>3 DEF PathSync, RowFits
<1>2. QED BY <1>1, Inductive, PTL

\* Once Stop has returned no callback touches the index any more, also when Stop overtakes
\* Start; only a COMMIT that was left to itself may still land.
THEOREM StopIsFinal ==
  Spec => NoWriteAfterStop
<1>1. IInv /\ [Next]_vars =>
        [(\E s \in Stoppers : stopper[s] = "returned") /\ ~raced
           => index' = index \/ LateCommit]_vars
  <2> SUFFICES ASSUME IInv, Next, \E s \in Stoppers : stopper[s] = "returned", ~raced,
                      ~LateCommit
               PROVE  index' = index
    BY Zenon
  <2>1. \A w \in Live : worker[w].at = "start"
    BY DEF IInv, StopInv
  <2>2. \A w \in Workers : ~ReadFile(w) /\ ~Upsert(w) /\ ~Delete(w)
    BY <2>1 DEF ReadFile, Upsert, Delete, Live
  <2>3. CASE FileNext
    BY <2>3 DEF FileNext, MakeDir, WriteFile, RemoveFile, Change
  <2>4. CASE LifeNext
    BY <2>4 DEF LifeNext, StartWatching, StartLoop, CancelContext, LoopExit, DrainTimers,
                LoopReturn, Stop, StopReturn
  <2>5. ASSUME NEW w \in Workers, CallbackNext(w)
        PROVE  index' = index
    BY <2>2, <2>5 DEF CallbackNext, CallbackStart, CallbackTake
  <2>6. CASE HandleDirEvent \/ HandleEvent \/ \E p \in Paths : Fire(p)
    BY <2>6 DEF HandleDirEvent, HandleEvent, Fire
  <2>7. CASE Restart
    BY <2>7 DEF Restart
  <2>8. QED BY <2>3, <2>4, <2>5, <2>6, <2>7 DEF Next
<1>2. QED BY <1>1, Inductive, PTL DEF Spec, NoWriteAfterStop
=============================================================================
