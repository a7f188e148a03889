---------------------------- MODULE WriterFunnel ----------------------------
(***************************************************************************)
(* The writer funnel of internal/db/writer.go.  Every mutating statement   *)
(* of a workspace Store and of the GlobalDB goes through one goroutine:    *)
(* callers of submit put a writeOp on the buffered channel jobs and wait   *)
(* for its one-slot response channel; the loop executes one write          *)
(* transaction at a time; close tells the loop to drain and waits for it.  *)
(*                                                                         *)
(* A member of Calls is one invocation of submit.  What its function       *)
(* writes is abstracted to its place in the commit log.  A call in         *)
(* Background carries context.Background(), which is never cancelled       *)
(* (the collector's and the aggregator's flushes); any other context may   *)
(* be cancelled, or time out, at any moment.                               *)
(***************************************************************************)
EXTENDS Naturals, Sequences, FiniteSets

CONSTANTS Calls,        \* invocations of submit
          Background,   \* those whose context is never cancelled
          Closers,      \* invocations of close
          Cap,          \* capacity of the channel jobs (128 in the code)
          NoCall        \* the loop executes nothing

ASSUME CapAssumption        == Cap \in Nat \ {0}
ASSUME BackgroundAssumption == Background \subseteq Calls
ASSUME NoCallAssumption     == NoCall \notin Calls

VARIABLES
  pc,         \* pc[c]: where the goroutine of call c stands in submit
  cancelled,  \* the calls whose context is done
  resp,       \* resp[c]: the response channel of c, "none" while empty
  jobs,       \* the channel jobs
  quit,       \* the channel quit is closed
  loop,       \* where the writer goroutine stands
  cur,        \* the job it executes
  verdict,    \* the value exec is about to return
  committed,  \* history: the calls whose transaction committed, in order
  closer      \* closer[k]: where invocation k of close stands

vars == <<pc, cancelled, resp, jobs, quit, loop, cur, verdict, committed, closer>>

Returned == {"ok", "failed", "closed", "cancelled"}
LoopAt   == {"select", "begin", "fn", "commit", "committing", "reply", "drain", "stopped"}

TypeOK ==
  /\ pc \in [Calls -> {"idle", "enqueue", "await"} \cup Returned]
  /\ cancelled \subseteq Calls \ Background
  /\ resp \in [Calls -> {"none", "ok", "failed"}]
  /\ jobs \in Seq(Calls) /\ Len(jobs) <= Cap
  /\ quit \in BOOLEAN
  /\ loop \in LoopAt
  /\ cur \in Calls \cup {NoCall}
  /\ verdict \in {"none", "ok", "failed"}
  /\ committed \in Seq(Calls)
  /\ closer \in [Closers -> {"idle", "closing", "waiting", "closed"}]

Init ==
  /\ pc = [c \in Calls |-> "idle"]
  /\ cancelled = {}
  /\ resp = [c \in Calls |-> "none"]
  /\ jobs = <<>>
  /\ quit = FALSE
  /\ loop = "select"
  /\ cur = NoCall
  /\ verdict = "none"
  /\ committed = <<>>
  /\ closer = [k \in Closers |-> "idle"]

-----------------------------------------------------------------------------
(* submit: two selects, each of which takes any branch that is ready.      *)

Goto(c, l) == pc' = [pc EXCEPT ![c] = l]

Submit(c) ==
  /\ pc[c] = "idle"
  /\ Goto(c, "enqueue")
  /\ UNCHANGED <<cancelled, resp, jobs, quit, loop, cur, verdict, committed, closer>>

SubmitRefused(c) ==
  /\ pc[c] = "enqueue"
  /\ quit
  /\ Goto(c, "closed")
  /\ UNCHANGED <<cancelled, resp, jobs, quit, loop, cur, verdict, committed, closer>>

\* Mutant: an append that does not wait for a free slot.
SubmitEnqueueUnbounded(c) ==
  /\ pc[c] = "enqueue"
  /\ jobs' = Append(jobs, c)
  /\ Goto(c, "await")
  /\ UNCHANGED <<cancelled, resp, quit, loop, cur, verdict, committed, closer>>

SubmitEnqueue(c) ==
  /\ pc[c] = "enqueue"
  /\ Len(jobs) < Cap
  /\ jobs' = Append(jobs, c)
  /\ Goto(c, "await")
  /\ UNCHANGED <<cancelled, resp, quit, loop, cur, verdict, committed, closer>>

SubmitAnswered(c) ==
  /\ pc[c] = "await"
  /\ resp[c] # "none"
  /\ Goto(c, resp[c])
  /\ UNCHANGED <<cancelled, resp, jobs, quit, loop, cur, verdict, committed, closer>>

\* Either select returns ctx.Err() once the context is done.
SubmitCancelled(c) ==
  /\ pc[c] \in {"enqueue", "await"}
  /\ c \in cancelled
  /\ Goto(c, "cancelled")
  /\ UNCHANGED <<cancelled, resp, jobs, quit, loop, cur, verdict, committed, closer>>

\* The caller's context is cancelled or times out.
Cancel(c) ==
  /\ c \notin Background \cup cancelled
  /\ cancelled' = cancelled \cup {c}
  /\ UNCHANGED <<pc, resp, jobs, quit, loop, cur, verdict, committed, closer>>

-----------------------------------------------------------------------------
(* loop and exec.  The select between quit and jobs is not ordered: a      *)
(* closed quit does not keep the loop from taking another job.             *)

\* Mutant: the job is read and left in the queue.
TakePeeks ==
  /\ loop = "select"
  /\ jobs # <<>>
  /\ cur' = Head(jobs)
  /\ loop' = "begin"
  /\ UNCHANGED <<pc, cancelled, resp, jobs, quit, verdict, committed, closer>>

Take ==
  /\ loop = "select"
  /\ jobs # <<>>
  /\ cur' = Head(jobs)
  /\ jobs' = Tail(jobs)
  /\ loop' = "begin"
  /\ UNCHANGED <<pc, cancelled, resp, quit, verdict, committed, closer>>

Answer(v) ==
  /\ verdict' = v
  /\ loop' = "reply"

\* ctx.Err() first; BeginTx itself may fail.
Begin ==
  /\ loop = "begin"
  /\ \/ cur \notin cancelled /\ loop' = "fn" /\ UNCHANGED verdict
     \/ Answer("failed")
  /\ UNCHANGED <<pc, cancelled, resp, jobs, quit, cur, committed, closer>>

\* The caller's function; an error rolls the transaction back.
RunFn ==
  /\ loop = "fn"
  /\ \/ loop' = "commit" /\ UNCHANGED verdict
     \/ Answer("failed")
  /\ UNCHANGED <<pc, cancelled, resp, jobs, quit, cur, committed, closer>>

\* Mutant: the transaction is begun with a context of its own.
BeginCommitDetached ==
  /\ loop = "commit"
  /\ \/ loop' = "committing" /\ UNCHANGED verdict
     \/ Answer("failed")
  /\ UNCHANGED <<pc, cancelled, resp, jobs, quit, cur, committed, closer>>

\* The transaction was begun with the caller's context: tx.Commit looks at it
\* once, and database/sql rolls back what a done context finds before that.
BeginCommit ==
  /\ loop = "commit"
  /\ \/ cur \notin cancelled /\ loop' = "committing" /\ UNCHANGED verdict
     \/ Answer("failed")
  /\ UNCHANGED <<pc, cancelled, resp, jobs, quit, cur, committed, closer>>

\* Mutant: the error of tx.Commit() is not looked at.
CommitErrorIgnored ==
  /\ loop = "committing"
  /\ \/ committed' = Append(committed, cur)
     \/ UNCHANGED committed
  /\ Answer("ok")
  /\ UNCHANGED <<pc, cancelled, resp, jobs, quit, cur, closer>>

\* SQLite's COMMIT, which no context interrupts any more.
Commit ==
  /\ loop = "committing"
  /\ \/ committed' = Append(committed, cur) /\ Answer("ok")
     \/ Answer("failed") /\ UNCHANGED committed
  /\ UNCHANGED <<pc, cancelled, resp, jobs, quit, cur, closer>>

\* Mutant: the loop answers nil whatever exec returned.
ReplyAlwaysNil ==
  /\ loop = "reply"
  /\ resp' = [resp EXCEPT ![cur] = "ok"]
  /\ cur' = NoCall
  /\ verdict' = "none"
  /\ loop' = "select"
  /\ UNCHANGED <<pc, cancelled, jobs, quit, committed, closer>>

Reply ==
  /\ loop = "reply"
  /\ resp' = [resp EXCEPT ![cur] = verdict]
  /\ cur' = NoCall
  /\ verdict' = "none"
  /\ loop' = "select"
  /\ UNCHANGED <<pc, cancelled, jobs, quit, committed, closer>>

SeeQuit ==
  /\ loop = "select"
  /\ quit
  /\ loop' = "drain"
  /\ UNCHANGED <<pc, cancelled, resp, jobs, quit, cur, verdict, committed, closer>>

\* Mutant: the job is discarded without an answer.
DrainSilently ==
  /\ loop = "drain"
  /\ jobs # <<>>
  /\ jobs' = Tail(jobs)
  /\ UNCHANGED <<pc, cancelled, resp, quit, loop, cur, verdict, committed, closer>>

DrainOne ==
  /\ loop = "drain"
  /\ jobs # <<>>
  /\ resp' = [resp EXCEPT ![Head(jobs)] = "failed"]
  /\ jobs' = Tail(jobs)
  /\ UNCHANGED <<pc, cancelled, quit, loop, cur, verdict, committed, closer>>

LoopReturn ==
  /\ loop = "drain"
  /\ jobs = <<>>
  /\ loop' = "stopped"
  /\ UNCHANGED <<pc, cancelled, resp, jobs, quit, cur, verdict, committed, closer>>

-----------------------------------------------------------------------------
(* close: sync.Once lets the first invocation close quit and wait for the  *)
(* loop; the others block until that one has finished.                     *)

CloseFirst(k) ==
  /\ closer[k] = "idle"
  /\ ~quit
  /\ quit' = TRUE
  /\ closer' = [closer EXCEPT ![k] = "closing"]
  /\ UNCHANGED <<pc, cancelled, resp, jobs, loop, cur, verdict, committed>>

CloseAgain(k) ==
  /\ closer[k] = "idle"
  /\ quit
  /\ closer' = [closer EXCEPT ![k] = "waiting"]
  /\ UNCHANGED <<pc, cancelled, resp, jobs, quit, loop, cur, verdict, committed>>

\* Mutant: a flag instead of sync.Once; later invocations return at once.
CloseAgainNotBlocking(k) ==
  /\ \/ closer[k] = "closing" /\ loop = "stopped"
     \/ closer[k] = "waiting"
  /\ closer' = [closer EXCEPT ![k] = "closed"]
  /\ UNCHANGED <<pc, cancelled, resp, jobs, quit, loop, cur, verdict, committed>>

CloseReturn(k) ==
  /\ \/ closer[k] = "closing" /\ loop = "stopped"
     \/ closer[k] = "waiting" /\ \E j \in Closers : closer[j] = "closed"
  /\ closer' = [closer EXCEPT ![k] = "closed"]
  /\ UNCHANGED <<pc, cancelled, resp, jobs, quit, loop, cur, verdict, committed>>

-----------------------------------------------------------------------------
SubmitNext(c) ==
  \/ Submit(c) \/ SubmitRefused(c) \/ SubmitEnqueue(c)
  \/ SubmitAnswered(c) \/ SubmitCancelled(c) \/ Cancel(c)

LoopNext ==
  \/ Take \/ Begin \/ RunFn \/ BeginCommit \/ Commit \/ Reply
  \/ SeeQuit \/ DrainOne \/ LoopReturn

CloseNext(k) == CloseFirst(k) \/ CloseAgain(k) \/ CloseReturn(k)

Next ==
  \/ \E c \in Calls : SubmitNext(c)
  \/ LoopNext
  \/ \E k \in Closers : CloseNext(k)

Spec == Init /\ [][Next]_vars

(* The Go scheduler runs every goroutine that can run, and a transaction   *)
(* function returns (SQLite's busy timeout bounds it).  Nothing obliges a  *)
(* caller to call submit or close, or a context to be cancelled.           *)
Fairness ==
  /\ WF_vars(LoopNext)
  /\ \A c \in Calls : WF_vars(SubmitRefused(c) \/ SubmitEnqueue(c)
                              \/ SubmitAnswered(c) \/ SubmitCancelled(c))
  /\ \A k \in Closers : WF_vars(CloseReturn(k))

FairSpec == Spec /\ Fairness

-----------------------------------------------------------------------------
CommittedCalls == {committed[i] : i \in 1..Len(committed)}

\* The error a caller gets tells the truth: after nil its write is durable,
\* after a shutdown, closed or transaction error it is not, in spite of the
\* queueing, draining and cancelling in between.
TruthfulReturn ==
  \A c \in Calls :
    /\ pc[c] = "ok" => c \in CommittedCalls
    /\ pc[c] \in {"failed", "closed"} => c \notin CommittedCalls

\* No write is applied twice, whatever mix of executing and draining met it.
AtMostOnce ==
  \A i, j \in 1..Len(committed) : committed[i] = committed[j] => i = j

\* The transaction of c is past the point where its context can stop it.
InCommit(c) == loop = "committing" /\ cur = c

\* Once submit has returned, for whatever reason, the fate of the write is in
\* SQLite's hands or sealed: a job that a cancelled caller left behind, in the
\* queue or in its transaction, does not start to commit behind the caller's back.
NoLateCommit ==
  [][\A c \in Calls : pc[c] \in Returned /\ c \notin CommittedCalls /\ ~InCommit(c)
                        => c \notin CommittedCalls' /\ ~InCommit(c)']_vars

\* When close has returned to anyone, the connection may be closed: no
\* transaction is open and the loop will not begin another.
CloseIsQuiescent ==
  (\E k \in Closers : closer[k] = "closed") => loop = "stopped" /\ cur = NoCall

\* close terminates, for the first caller and for those that wait on sync.Once,
\* whatever is queued and executing when it begins.
CloseTerminates ==
  \A k \in Closers : (closer[k] \in {"closing", "waiting"}) ~> (closer[k] = "closed")

\* A call that was queued before close began is answered, even if its own
\* context never ends: it is executed or drained.
QueuedIsAnswered ==
  \A c \in Calls : (pc[c] = "await" /\ ~quit) ~> (pc[c] \in Returned)

\* Whatever the loop drains it answers, so neither a caller nor a closer waits
\* for the other for ever.
EveryoneIsServed == CloseTerminates /\ QueuedIsAnswered

\* Every call of submit returns: the loop drains "so submitters don't block
\* forever on resp" (writer.go:50-51).  The code does not keep this promise
\* for a job queued after the loop has finished draining.
EverySubmitReturns ==
  \A c \in Calls : (pc[c] = "await") ~> (pc[c] \in Returned)

-----------------------------------------------------------------------------
(* The funnel implements the WriteLog: what a caller may observe of a      *)
(* write, without the queue, the loop and the shutdown.                    *)

AbstractStatus ==
  [c \in Calls |-> CASE pc[c] = "idle"                  -> "idle"
                     [] pc[c] \in {"enqueue", "await"}   -> "pending"
                     [] pc[c] = "ok"                     -> "ok"
                     [] pc[c] \in {"failed", "closed"}   -> "refused"
                     [] OTHER                            -> "unknown"]

Deciding == IF loop = "committing" THEN cur ELSE NoCall

WL == INSTANCE WriteLog WITH status <- AbstractStatus, deciding <- Deciding,
                             log <- committed

\* Every behaviour of the funnel is one of the write log: writes are decided one
\* at a time, each at most once and never before its call; the decision begins
\* before submit returns, and has ended when submit returns anything else than
\* the context's error.
WriteLogSpec == WL!Spec
=============================================================================
