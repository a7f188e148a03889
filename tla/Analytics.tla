----------------------------- MODULE Analytics -----------------------------
(***************************************************************************)
(* The analytics pipeline of the daemon (internal/analytics and its wiring *)
(* in cmd/server.go): Emit puts an event on a buffered channel, the        *)
(* Collector flushes the channel in batches into the workspace table       *)
(* events, and the Aggregator tails that table with a cursor and adds what *)
(* is new to the daily counts of the global database.                      *)
(*                                                                         *)
(* A write is a call of the writer funnel and has the outcomes of WriteLog: *)
(* it commits and returns nil, it fails without effect, or, when its       *)
(* context ends meanwhile, it returns an error though it committed.  The   *)
(* effect is placed before the return of the call: a COMMIT that outlives  *)
(* its cancelled call only adds rows or counts that are already excused or *)
(* suspect below.  All events are of one day and their properties are left *)
(* out.  Of the retention Pruner, which the Collector owns, the goroutine  *)
(* is modelled and the wait for it, not the rows of a year ago it deletes. *)
(***************************************************************************)
EXTENDS Naturals, Sequences, FiniteSets

CONSTANTS Events,       \* events that handlers emit, each once
          KindOf,       \* KindOf[e]: the kind of event e
          Buffer,       \* collectorBufferSize (256 in the code)
          MaxFaults,    \* bound on the database errors
          MaxRestarts   \* bound on the restarts of the daemon

Kinds == {KindOf[e] : e \in Events}
ASSUME BoundsAssumption ==
  Buffer \in Nat \ {0} /\ MaxFaults \in Nat /\ MaxRestarts \in Nat

VARIABLES
  phase,      \* of the daemon: "up", "drain", "collector", "aggregator", "down"
  ctxDone,    \* the root context is cancelled
  emitted,    \* the events handed to Emit
  ch,         \* the Collector's channel
  col, batch, \* where the Collector's goroutine stands, and the events it drained
  rows,       \* the table events: row i has id i
  pruner,     \* the retention pruner: in its first DELETE, which Start waits for; in
              \* its loop, waiting for a tick or in a DELETE; or stopped
  agg,        \* where the Aggregator's goroutine stands
  cycle,      \* what its current or latest cycle is: of a tick, of a tick served
              \* after the cancellation (one at most is modelled), or the final one
  lastID,     \* the Aggregator's cursor
  readTo,     \* the last id its current cycle has read
  todo,       \* kinds whose count the cycle has still to add
  counts,     \* events_daily, in the global database
  cache,      \* analytics_cache
  faults, restarts,
  excused,    \* history: events not promised to be stored
  suspect     \* history: the counts may be off

cVars == <<ch, col, batch, rows, pruner>>
aVars == <<agg, cycle, lastID, readTo, todo, counts, cache>>
vars  == <<phase, ctxDone, emitted, cVars, aVars, faults, restarts, excused, suspect>>

RangeOf(s) == {s[i] : i \in 1..Len(s)}
\* How many of the rows with from < id <= to are of kind k.
RowsOf(k, from, to) == Cardinality({i \in from+1..to : KindOf[rows[i]] = k})

TypeOK ==
  /\ phase \in {"up", "drain", "collector", "aggregator", "down"}
  /\ ctxDone \in BOOLEAN /\ emitted \subseteq Events
  /\ ch \in Seq(Events) /\ Len(ch) <= Buffer
  /\ col \in {"wait", "flush", "last", "stopped"} /\ batch \in Seq(Events)
  /\ rows \in Seq(Events)
  /\ pruner \in {"first", "run", "stopped"}
  /\ agg \in {"start", "wait", "read", "add", "cache", "stopped"}
  /\ cycle \in {"tick", "late", "final"}
  /\ lastID \in 0..Len(rows) /\ readTo \in 0..Len(rows)
  /\ todo \subseteq Kinds
  /\ counts \in [Kinds -> Nat] /\ cache \in [Kinds -> Nat]
  /\ faults \in 0..MaxFaults /\ restarts \in 0..MaxRestarts
  /\ excused \subseteq Events /\ suspect \in BOOLEAN

Init ==
  /\ phase = "up" /\ ctxDone = FALSE
  /\ ch = <<>> /\ col = "wait" /\ batch = <<>>
  /\ pruner = "first"
  /\ agg = "start" /\ cycle = "tick" /\ lastID = 0 /\ readTo = 0 /\ todo = {}
  /\ emitted = {} /\ rows = <<>>
  /\ counts = [k \in Kinds |-> 0] /\ cache = [k \in Kinds |-> 0]
  /\ faults = 0 /\ restarts = 0 /\ excused = {} /\ suspect = FALSE

\* The outcomes of a write or a query: whether it took effect and returned an
\* error, and what that costs of the fault budget.  Only a call that carries
\* the root context suffers when that is cancelled.
Outcome(done, err, background) ==
  \/ done /\ ~err /\ UNCHANGED faults
  \/ ~done /\ err /\ faults < MaxFaults /\ faults' = faults + 1
  \/ err /\ ctxDone /\ ~background /\ UNCHANGED faults

\* Collector.Start and Aggregator.Start have returned: the goroutines run, and
\* with them the HTTP server.
Running == phase # "down" /\ pruner # "first"

-----------------------------------------------------------------------------
(* Collector                                                               *)

\* A full channel drops the event.
Emit(e) ==
  /\ Running /\ phase \in {"up", "drain"}
  /\ e \notin emitted
  /\ emitted' = emitted \cup {e}
  /\ IF Len(ch) < Buffer
       THEN /\ ch' = Append(ch, e)
            /\ excused' = IF ctxDone THEN excused \cup {e} ELSE excused
       ELSE excused' = excused \cup {e} /\ UNCHANGED ch
  /\ UNCHANGED <<phase, ctxDone, col, batch, rows, pruner, aVars, faults, restarts, suspect>>

Drain(next) ==
  /\ batch' = ch
  /\ ch' = <<>>
  /\ col' = next

\* The ticker fires; an empty channel is not written.
Flush ==
  /\ Running /\ col = "wait" /\ ch # <<>>
  /\ Drain("flush")
  /\ UNCHANGED <<phase, ctxDone, emitted, rows, pruner, aVars, faults, restarts, excused,
                 suspect>>

\* Mutant: the goroutine returns without the last flush.
LastFlushSkipped ==
  /\ Running /\ col = "wait" /\ ctxDone
  /\ col' = "stopped"
  /\ UNCHANGED <<phase, ctxDone, emitted, ch, batch, rows, pruner, aVars, faults, restarts,
                 excused, suspect>>

\* Mutant: an empty channel is skipped, the return with it.
LastFlushOfSome ==
  /\ Running /\ col = "wait" /\ ctxDone /\ ch # <<>>
  /\ Drain("last")
  /\ UNCHANGED <<phase, ctxDone, emitted, rows, pruner, aVars, faults, restarts, excused,
                 suspect>>

\* The context is cancelled (Stop comes later, from the same shutdown).
LastFlush ==
  /\ Running /\ col = "wait" /\ ctxDone
  /\ Drain(IF ch = <<>> THEN "stopped" ELSE "last")
  /\ UNCHANGED <<phase, ctxDone, emitted, rows, pruner, aVars, faults, restarts, excused,
                 suspect>>

\* Mutant: a batch whose write returned an error is written again.
WriteBatchRetried ==
  /\ Running /\ col \in {"flush", "last"}
  /\ \E done, err \in BOOLEAN :
       /\ Outcome(done, err, col = "last")
       /\ rows' = IF done THEN rows \o batch ELSE rows
       /\ IF err THEN UNCHANGED <<batch, col>>
          ELSE batch' = <<>> /\ col' = IF col = "last" THEN "stopped" ELSE "wait"
  /\ UNCHANGED <<phase, ctxDone, emitted, ch, pruner, aVars, restarts, excused, suspect>>

\* One transaction inserts the batch; an error is logged and the batch is gone.
\* The last flush has a context of its own.
WriteBatch ==
  /\ Running /\ col \in {"flush", "last"}
  /\ \E done, err \in BOOLEAN :
       /\ Outcome(done, err, col = "last")
       /\ rows' = IF done THEN rows \o batch ELSE rows
       /\ excused' = IF err THEN excused \cup RangeOf(batch) ELSE excused
  /\ batch' = <<>>
  /\ col' = IF col = "last" THEN "stopped" ELSE "wait"
  /\ UNCHANGED <<phase, ctxDone, emitted, ch, pruner, aVars, restarts, suspect>>

-----------------------------------------------------------------------------
(* Pruner.  Its DELETE goes through the funnel and its error is forgotten. *)

MovePruner(from, to) ==
  /\ pruner = from /\ pruner' = to
  /\ UNCHANGED <<phase, ctxDone, emitted, ch, col, batch, rows, aVars, faults, restarts,
                 excused, suspect>>

\* The first DELETE ends, and Collector.Start goes on.
FirstPrune == MovePruner("first", "run")

\* The goroutine returns when the context is cancelled (Pruner.Stop comes later, from
\* Collector.Stop), after the DELETE of a tick if one is under way or wins the select.
PrunerExit == ctxDone /\ MovePruner("run", "stopped")

-----------------------------------------------------------------------------
(* Aggregator                                                              *)

Final == cycle = "final"

\* A cycle has ended; what it had read is forgotten.
CycleEnd ==
  /\ agg' = IF Final THEN "stopped" ELSE "wait"
  /\ readTo' = lastID
  /\ todo' = {}

\* A cycle starts at once, then on the ticker, and once more when the context
\* is cancelled.
StartCycle ==
  /\ Running /\ agg \in {"start", "wait"}
  /\ cycle' \in CASE agg = "start" \/ ~ctxDone -> {"tick"}
                   [] cycle = "tick"           -> {"late", "final"}
                   [] OTHER                    -> {"final"}
  /\ agg' = "read"
  /\ UNCHANGED <<phase, ctxDone, emitted, cVars, lastID, readTo, todo, counts, cache,
                 faults, restarts, excused, suspect>>

\* tailAndRollup reads the rows beyond the cursor and counts them by kind.
ReadTail ==
  /\ Running /\ agg = "read"
  /\ \/ /\ Outcome(TRUE, FALSE, Final)
        /\ readTo' = Len(rows)
        /\ todo' = {k \in Kinds : RowsOf(k, lastID, Len(rows)) > 0}
        /\ agg' = IF todo' = {} THEN "cache" ELSE "add"
     \/ Outcome(FALSE, TRUE, Final) /\ CycleEnd
  /\ UNCHANGED <<phase, ctxDone, emitted, cVars, cycle, lastID, counts, cache, restarts,
                 excused, suspect>>

\* IncrementDailyEvent, once per kind, in the order of a Go map; an error ends
\* the cycle with the cursor where it was.
AddCount ==
  /\ Running /\ agg = "add" /\ todo # {}
  /\ \E k \in todo, done, err \in BOOLEAN :
       /\ Outcome(done, err, Final)
       /\ counts' = IF done THEN [counts EXCEPT ![k] = @ + RowsOf(k, lastID, readTo)]
                    ELSE counts
       /\ IF err THEN CycleEnd ELSE todo' = todo \ {k} /\ UNCHANGED <<agg, readTo>>
       /\ suspect' = (suspect \/ err)
  /\ UNCHANGED <<phase, ctxDone, emitted, cVars, cycle, lastID, cache, restarts, excused>>

\* Mutant: the cursor moves to the end of the table.
AdvanceToEnd ==
  /\ Running /\ agg = "add" /\ todo = {}
  /\ lastID' = Len(rows)
  /\ agg' = "cache"
  /\ UNCHANGED <<phase, ctxDone, emitted, cVars, cycle, readTo, todo, counts, cache,
                 faults, restarts, excused, suspect>>

\* The cursor moves when every kind has been added.
Advance ==
  /\ Running /\ agg = "add" /\ todo = {}
  /\ lastID' = readTo
  /\ agg' = "cache"
  /\ UNCHANGED <<phase, ctxDone, emitted, cVars, cycle, readTo, todo, counts, cache,
                 faults, restarts, excused, suspect>>

RefreshCache ==
  /\ Running /\ agg = "cache"
  /\ \E done, err \in BOOLEAN :
       /\ Outcome(done, err, Final)
       /\ cache' = IF done THEN counts ELSE cache
       /\ suspect' = (suspect \/ err)
  /\ CycleEnd
  /\ UNCHANGED <<phase, ctxDone, emitted, cVars, cycle, lastID, counts, restarts, excused>>

-----------------------------------------------------------------------------
(* The daemon: SIGTERM cancels the context, the HTTP server drains, then    *)
(* collector.Stop (for its goroutine, then for the pruner's) and            *)
(* aggregator.Stop wait, then the databases close.                          *)

Sigterm ==
  /\ phase = "up" /\ ctxDone' = TRUE /\ phase' = "drain"
  /\ UNCHANGED <<emitted, cVars, aVars, faults, restarts, excused, suspect>>

\* srv.Shutdown returns; collector.Stop and aggregator.Stop return.
StopStep ==
  /\ \/ Running /\ phase = "drain" /\ phase' = "collector"
     \/ phase = "collector" /\ col = "stopped" /\ pruner = "stopped" /\ phase' = "aggregator"
     \/ phase = "aggregator" /\ agg = "stopped" /\ phase' = "down"
  /\ UNCHANGED <<ctxDone, emitted, cVars, aVars, faults, restarts, excused, suspect>>

\* The process dies at any moment, or returns at once because the HTTP server
\* failed: what is in memory is lost, the cursor with it.
Crash ==
  /\ phase # "down"
  /\ phase' = "down"
  /\ excused' = excused \cup RangeOf(ch) \cup RangeOf(batch)
  /\ suspect' = TRUE
  /\ ch' = <<>> /\ col' = "stopped" /\ batch' = <<>> /\ pruner' = "stopped"
  /\ agg' = "stopped" /\ cycle' = "tick" /\ lastID' = 0 /\ readTo' = 0 /\ todo' = {}
  /\ UNCHANGED <<ctxDone, emitted, rows, counts, cache, faults, restarts>>

\* A new process; the cursor starts from the beginning of the table.
Restart ==
  /\ phase = "down" /\ restarts < MaxRestarts
  /\ restarts' = restarts + 1
  /\ suspect' = TRUE
  /\ phase' = "up" /\ ctxDone' = FALSE
  /\ ch' = <<>> /\ col' = "wait" /\ batch' = <<>> /\ pruner' = "first"
  /\ agg' = "start" /\ cycle' = "tick" /\ lastID' = 0 /\ readTo' = 0 /\ todo' = {}
  /\ UNCHANGED <<emitted, rows, counts, cache, faults, excused>>

CollectorNext  == Flush \/ LastFlush \/ WriteBatch
PrunerNext     == FirstPrune \/ PrunerExit
AggregatorNext == StartCycle \/ ReadTail \/ AddCount \/ Advance \/ RefreshCache

Next ==
  \/ \E e \in Events : Emit(e)
  \/ CollectorNext \/ PrunerNext \/ AggregatorNext
  \/ Sigterm \/ StopStep \/ Crash \/ Restart

Spec == Init /\ [][Next]_vars

(* The goroutines run and their tickers fire; when the context is done the *)
(* select takes that branch sooner or later (Go picks among ready branches *)
(* at random, and the ticker is not ready most of the time).               *)
Fairness ==
  /\ WF_vars(CollectorNext) /\ SF_vars(LastFlush)
  /\ WF_vars(AggregatorNext) /\ SF_vars(StartCycle /\ Final')
  /\ WF_vars(PrunerNext \/ StopStep)

FairSpec == Spec /\ Fairness

-----------------------------------------------------------------------------
Stored == RangeOf(rows)

\* No event becomes two rows, though a batch may be committed and reported as
\* failed.  Every variable has its type.
StoredOnce == TypeOK /\ \A i, j \in 1..Len(rows) : rows[i] = rows[j] => i = j

\* An orderly shutdown loses no event that was emitted before the signal and
\* whose batch was written without an error.
ShutdownKeepsEvents ==
  phase = "down" => emitted \ excused \subseteq Stored

\* As long as no call has failed and the process was not restarted, the daily
\* counts are those of the rows up to the cursor, each counted once, and the
\* cache shows them when a cycle is over.
CountsMatchCursor ==
  ~suspect /\ agg # "add" =>
    \A k \in Kinds : /\ counts[k] = RowsOf(k, 0, lastID)
                     /\ agg \in {"wait", "stopped"} /\ lastID > 0 => cache[k] = counts[k]

\* The rows get counted while the daemon stays up.
RowsAreCounted ==
  (phase = "up" /\ lastID < Len(rows)) ~> (lastID = Len(rows) \/ phase # "up")

\* A SIGTERM ends the process, also while a DELETE of the pruner is under way.
ShutdownCompletes == (phase = "drain") ~> (phase = "down")

\* Neither pipeline gets stuck, not while the daemon runs and not when it ends.
PipelinesGoOn == RowsAreCounted /\ ShutdownCompletes

\* "Each row is processed exactly once" and "aggregator restarts do not
\* double-count" (aggregator.go:6-10).  The cursor lives in memory only.
RestartsDoNotDoubleCount ==
  faults = 0 /\ ~ctxDone => \A k \in Kinds : counts[k] <= RowsOf(k, 0, Len(rows))

\* Collector and Aggregator "flush their buffers before exiting" (server.go:416-417)
\* "so in-flight events are flushed" (server.go:518-519): with no database error,
\* no full channel and no crash, every emitted event is stored.  The Collector
\* has already returned while the HTTP server still drains.
ShutdownFlushesAll ==
  phase = "aggregator" /\ faults = 0 /\ Cardinality(emitted) <= Buffer
    => emitted \subseteq Stored
=============================================================================
