------------------------- MODULE WriterFunnelProofs -------------------------
(***************************************************************************)
(* What the writer funnel guarantees for every set of calls, every channel *)
(* capacity and every number of closers.  Everything follows from one      *)
(* inductive invariant, IInv, which says where a call can be: nowhere yet, *)
(* in the queue, in the loop's hands, answered, or refused.                *)
(***************************************************************************)
EXTENDS WriterFunnel, TLAPS

Executing == {"begin", "fn", "commit", "committing"}

\* A queued call is undecided: not answered, not executing, not committed,
\* queued once, and its caller waits or has left because of its context.
QueueInv ==
  /\ \A i \in 1..Len(jobs) :
       /\ pc[jobs[i]] \in {"await", "cancelled"}
       /\ resp[jobs[i]] = "none"
       /\ jobs[i] # cur
       /\ jobs[i] \notin CommittedCalls
  /\ \A i, j \in 1..Len(jobs) : jobs[i] = jobs[j] => i = j

\* The call in the loop's hands is undecided until exec has a verdict, and
\* the verdict is true.
LoopInv ==
  /\ cur = NoCall <=> loop \notin Executing \cup {"reply"}
  /\ cur # NoCall => pc[cur] \in {"await", "cancelled"} /\ resp[cur] = "none"
  /\ loop \in Executing => cur \notin CommittedCalls
  /\ loop = "reply" => \/ verdict = "ok" /\ cur \in CommittedCalls
                       \/ verdict = "failed" /\ cur \notin CommittedCalls

\* A call that never got past the first select, or has an answer.
CallInv ==
  \A c \in Calls :
    /\ pc[c] \in {"idle", "enqueue", "closed"} =>
         c \notin CommittedCalls /\ resp[c] = "none"
    /\ resp[c] = "ok" => c \in CommittedCalls
    /\ resp[c] = "failed" => c \notin CommittedCalls
    /\ pc[c] \in {"ok", "failed"} => resp[c] = pc[c]
    /\ pc[c] = "cancelled" => c \in cancelled

CloseInv ==
  \A k \in Closers : closer[k] = "closed" => loop = "stopped"

IInv == TypeOK /\ QueueInv /\ LoopInv /\ CallInv /\ CloseInv /\ AtMostOnce

LEMMA CommittedGrows ==
  ASSUME committed \in Seq(Calls), NEW c \in Calls, committed' = Append(committed, c)
  PROVE  CommittedCalls' = CommittedCalls \cup {c}
BY DEF CommittedCalls

LEMMA InitInv == Init => IInv
<1> SUFFICES ASSUME Init PROVE IInv
  OBVIOUS
<1> USE CapAssumption, NoCallAssumption DEF Init
<1>1. TypeOK
  <2>1. /\ pc \in [Calls -> {"idle", "enqueue", "await"} \cup Returned]
        /\ resp \in [Calls -> {"none", "ok", "failed"}]
        /\ closer \in [Closers -> {"idle", "closing", "waiting", "closed"}]
    OBVIOUS
  <2>2. jobs \in Seq(Calls) /\ Len(jobs) <= Cap /\ committed \in Seq(Calls)
    OBVIOUS
  <2>3. QED
    BY <2>1, <2>2 DEF TypeOK, LoopAt
<1>2. CommittedCalls = {}
  BY DEF CommittedCalls
<1>3. QueueInv /\ LoopInv
  BY <1>2 DEF QueueInv, LoopInv, Executing
<1>4. CallInv /\ CloseInv /\ AtMostOnce
  BY <1>2 DEF CallInv, CloseInv, AtMostOnce
<1>5. QED
  BY <1>1, <1>3, <1>4 DEF IInv

LEMMA StepInv == IInv /\ [Next]_vars => IInv'
<1> SUFFICES ASSUME IInv, [Next]_vars PROVE IInv'
  OBVIOUS
<1> USE CapAssumption, NoCallAssumption, BackgroundAssumption
<1> USE DEF IInv, TypeOK, QueueInv, LoopInv, CallInv, CloseInv, AtMostOnce,
        CommittedCalls, Returned, LoopAt, Executing, Goto, Answer
<1>1. ASSUME NEW c \in Calls, Submit(c) PROVE IInv'
  BY <1>1 DEF Submit
<1>2. ASSUME NEW c \in Calls, SubmitRefused(c) PROVE IInv'
  BY <1>2 DEF SubmitRefused
<1>3. ASSUME NEW c \in Calls, SubmitEnqueue(c) PROVE IInv'
  BY <1>3 DEF SubmitEnqueue
<1>4. ASSUME NEW c \in Calls, SubmitAnswered(c) PROVE IInv'
  BY <1>4 DEF SubmitAnswered
<1>5. ASSUME NEW c \in Calls, SubmitCancelled(c) PROVE IInv'
  BY <1>5 DEF SubmitCancelled
<1>6. ASSUME NEW c \in Calls, Cancel(c) PROVE IInv'
  BY <1>6 DEF Cancel
<1>7. CASE Take
  BY <1>7 DEF Take
<1>8. CASE Begin
  BY <1>8 DEF Begin
<1>9. CASE RunFn
  BY <1>9 DEF RunFn
<1>10. CASE BeginCommit
  BY <1>10 DEF BeginCommit
<1>11. CASE Commit
  <2>1. CASE /\ committed' = Append(committed, cur)
             /\ Answer("ok")
    <3>1. cur \in Calls /\ cur \notin CommittedCalls
      BY <1>11 DEF Commit
    <3>2. CommittedCalls' = CommittedCalls \cup {cur}
      BY <2>1, <3>1, CommittedGrows
    <3>3. TypeOK' /\ AtMostOnce'
      BY <1>11, <2>1, <3>1 DEF Commit
    <3>4. QueueInv' /\ LoopInv' /\ CallInv' /\ CloseInv'
      <4> HIDE DEF CommittedCalls
      <4> QED BY <1>11, <2>1, <3>1, <3>2 DEF Commit
    <3>5. QED
      BY <3>3, <3>4
  <2>2. CASE Answer("failed") /\ UNCHANGED committed
    BY <1>11, <2>2 DEF Commit
  <2>3. QED
    BY <1>11, <2>1, <2>2 DEF Commit
<1>12. CASE Reply
  BY <1>12 DEF Reply
<1>13. CASE SeeQuit
  BY <1>13 DEF SeeQuit
<1>14. CASE DrainOne
  BY <1>14 DEF DrainOne
<1>15. CASE LoopReturn
  BY <1>15 DEF LoopReturn
<1>16. ASSUME NEW k \in Closers, CloseFirst(k) PROVE IInv'
  BY <1>16 DEF CloseFirst
<1>17. ASSUME NEW k \in Closers, CloseAgain(k) PROVE IInv'
  BY <1>17 DEF CloseAgain
<1>18. ASSUME NEW k \in Closers, CloseReturn(k) PROVE IInv'
  BY <1>18 DEF CloseReturn
<1>19. CASE UNCHANGED vars
  BY <1>19 DEF vars
<1>20. QED
  BY <1>1, <1>2, <1>3, <1>4, <1>5, <1>6, <1>7, <1>8, <1>9, <1>10, <1>11, <1>12, <1>13, <1>14, <1>15, <1>16, <1>17, <1>18, <1>19 DEF Next, SubmitNext, LoopNext, CloseNext

\* The types of the variables, and the capacity of the channel.
THEOREM TypeCorrect == Spec => []TypeOK
<1>1. IInv => TypeOK
  BY DEF IInv
<1>2. QED
  BY InitInv, StepInv, <1>1, PTL DEF Spec

\* What submit returns is true of the write it was about (exec, loop, submit).
THEOREM Truthful == Spec => []TruthfulReturn
<1>1. IInv => TruthfulReturn
  BY DEF IInv, CallInv, TruthfulReturn
<1>2. QED
  BY InitInv, StepInv, <1>1, PTL DEF Spec

\* No write is applied twice, however it went through the queue.
THEOREM NoDuplicateCommit == Spec => []AtMostOnce
<1>1. IInv => AtMostOnce
  BY DEF IInv
<1>2. QED
  BY InitInv, StepInv, <1>1, PTL DEF Spec

\* Store.Close may close the connection as soon as close has returned.
THEOREM QuiescentClose == Spec => []CloseIsQuiescent
<1>1. IInv => CloseIsQuiescent
  BY DEF IInv, CloseInv, LoopInv, Executing, CloseIsQuiescent
<1>2. QED
  BY InitInv, StepInv, <1>1, PTL DEF Spec

-----------------------------------------------------------------------------
(* Only BeginCommit brings a call to its commit, one that still waits:     *)
(* the caller of any other has left because its context is done.           *)

LEMMA BeginsPending ==
  ASSUME IInv, BeginCommit, loop' = "committing"
  PROVE  /\ cur \in Calls /\ pc[cur] = "await" /\ cur \notin CommittedCalls
         /\ loop # "committing"
         /\ cur' = cur /\ UNCHANGED <<pc, committed>>
<1>1. /\ loop = "commit" /\ cur' = cur /\ UNCHANGED <<pc, committed>>
      /\ cur \notin cancelled
  BY DEF BeginCommit, Answer
<1>2. /\ cur \in Calls /\ cur \notin CommittedCalls
      /\ pc[cur] \in {"await", "cancelled"}
  BY <1>1, NoCallAssumption DEF IInv, TypeOK, LoopInv, Executing
<1>3. pc[cur] # "cancelled"
  BY <1>1, <1>2 DEF IInv, CallInv
<1>4. QED
  BY <1>1, <1>2, <1>3

\* What a step can do to the call that is committing.
LEMMA CommitSteps ==
  ASSUME IInv, Next
  PROVE  \/ BeginCommit /\ loop' = "committing"
         \/ Commit
         \/ /\ committed' = committed
            /\ loop' = "committing" <=> loop = "committing"
            /\ loop = "committing" => cur' = cur
<1>1. ASSUME NEW c \in Calls, SubmitNext(c) PROVE UNCHANGED <<committed, loop, cur>>
  BY <1>1 DEF SubmitNext, Submit, SubmitRefused, SubmitEnqueue, SubmitAnswered,
              SubmitCancelled, Cancel
<1>2. ASSUME NEW k \in Closers, CloseNext(k) PROVE UNCHANGED <<committed, loop, cur>>
  BY <1>2 DEF CloseNext, CloseFirst, CloseAgain, CloseReturn
<1>3. CASE LoopNext /\ ~Commit /\ ~BeginCommit
  BY <1>3 DEF LoopNext, Take, Begin, RunFn, Reply, SeeQuit, DrainOne, LoopReturn, Answer
<1>4. CASE BeginCommit /\ loop' # "committing"
  BY <1>4 DEF BeginCommit
<1>5. QED
  BY <1>1, <1>2, <1>3, <1>4 DEF Next, LoopNext

\* Commit appends the call it is about, or nothing.
LEMMA CommitDoes ==
  ASSUME IInv, Commit
  PROVE  /\ cur \in Calls /\ cur \notin CommittedCalls
         /\ loop = "committing" /\ loop' = "reply"
         /\ committed' \in {committed, Append(committed, cur)}
         /\ UNCHANGED pc
BY NoCallAssumption DEF Commit, Answer, IInv, TypeOK, LoopInv, Executing

\* A job that a cancelled caller left behind does not start to commit.
THEOREM NoLateCommitHolds == Spec => NoLateCommit
<1> DEFINE Late == \A c \in Calls :
                     pc[c] \in Returned /\ c \notin CommittedCalls /\ ~InCommit(c)
                       => c \notin CommittedCalls' /\ ~InCommit(c)'
<1>1. ASSUME IInv, Next PROVE Late
  <2>1. CASE BeginCommit /\ loop' = "committing"
    <3>1. /\ pc[cur] = "await" /\ cur' = cur /\ committed' = committed
      BY <1>1, <2>1, BeginsPending
    <3>2. QED
      BY <3>1 DEF InCommit, Returned, CommittedCalls
  <2>2. CASE Commit
    <3>1. /\ cur \in Calls /\ loop = "committing" /\ loop' = "reply"
          /\ committed' \in {committed, Append(committed, cur)}
      BY <1>1, <2>2, CommitDoes
    <3>2. CommittedCalls' \subseteq CommittedCalls \cup {cur}
      BY <1>1, <3>1, CommittedGrows DEF CommittedCalls, IInv, TypeOK
    <3>3. QED
      BY <3>1, <3>2 DEF InCommit
  <2>3. CASE /\ committed' = committed
             /\ loop' = "committing" <=> loop = "committing"
             /\ loop = "committing" => cur' = cur
    BY <2>3 DEF InCommit, CommittedCalls
  <2>4. QED
    BY <1>1, <2>1, <2>2, <2>3, CommitSteps
<1>2. IInv /\ [Next]_vars => [Late]_vars
  BY <1>1
<1>3. QED
  BY InitInv, StepInv, <1>2, PTL DEF Spec, NoLateCommit

-----------------------------------------------------------------------------
(* Refinement.  A step of the funnel moves the abstract status of at most  *)
(* one call, and only Commit moves the log.                                *)

LEMMA StatusOf ==
  ASSUME TypeOK, NEW c \in Calls
  PROVE  /\ AbstractStatus[c] = "idle"    <=> pc[c] = "idle"
         /\ AbstractStatus[c] = "pending" <=> pc[c] \in {"enqueue", "await"}
         /\ AbstractStatus[c] = "ok"      <=> pc[c] = "ok"
         /\ AbstractStatus[c] = "refused" <=> pc[c] \in {"failed", "closed"}
         /\ AbstractStatus[c] = "unknown" <=> pc[c] = "cancelled"
  BY DEF AbstractStatus, TypeOK, Returned

\* When only call c moves, the abstract status moves at c only.
LEMMA StatusMoves ==
  ASSUME TypeOK, NEW c \in Calls, NEW l \in {"enqueue", "await"} \cup Returned,
         Goto(c, l),
         NEW s, s = CASE l \in {"enqueue", "await"}  -> "pending"
                      [] l = "ok"                    -> "ok"
                      [] l \in {"failed", "closed"}  -> "refused"
                      [] OTHER                       -> "unknown"
  PROVE  AbstractStatus' = [AbstractStatus EXCEPT ![c] = s]
  BY DEF AbstractStatus, TypeOK, Returned, Goto

\* The funnel implements the write log: writes are decided one at a time, at most
\* once, and begin to be decided while their submit has not returned.
THEOREM FunnelImplementsWriteLog == Spec => WriteLogSpec
<1>1. Init => WL!Init
  BY DEF Init, WL!Init, AbstractStatus, Deciding
<1>2. ASSUME IInv, Next
      PROVE  [WL!Next]_<<AbstractStatus, Deciding, committed>>
  <2> USE <1>2
  <2>1. CommittedCalls = WL!Logged
    BY DEF CommittedCalls, WL!Logged
  <2>2. TypeOK
    BY DEF IInv
  <2>3. ASSUME NEW c \in Calls, Submit(c) PROVE WL!Next
    <3>1. AbstractStatus' = [AbstractStatus EXCEPT ![c] = "pending"]
      BY <2>2, <2>3, StatusMoves DEF Submit
    <3>2. AbstractStatus[c] = "idle" /\ UNCHANGED <<Deciding, committed>>
      BY <2>2, <2>3, StatusOf DEF Submit, Deciding
    <3>3. QED
      BY <3>1, <3>2 DEF WL!Next, WL!Invoke
  <2>4. ASSUME NEW c \in Calls, SubmitEnqueue(c)
        PROVE  UNCHANGED <<AbstractStatus, Deciding, committed>>
    <3>1. AbstractStatus' = [AbstractStatus EXCEPT ![c] = "pending"]
      BY <2>2, <2>4, StatusMoves DEF SubmitEnqueue
    <3>2. AbstractStatus[c] = "pending"
      BY <2>2, <2>4, StatusOf DEF SubmitEnqueue
    <3>3. AbstractStatus = [x \in Calls |-> AbstractStatus[x]]
      BY DEF AbstractStatus
    <3>4. UNCHANGED <<Deciding, committed>>
      BY <2>4 DEF SubmitEnqueue, Deciding
    <3>5. QED
      BY <3>1, <3>2, <3>3, <3>4
  <2>5. ASSUME NEW c \in Calls,
               SubmitRefused(c) \/ SubmitAnswered(c) \/ SubmitCancelled(c)
        PROVE  WL!Next
    <3>1. AbstractStatus[c] = "pending" /\ UNCHANGED <<Deciding, committed>>
      BY <2>2, <2>5, StatusOf DEF SubmitRefused, SubmitAnswered, SubmitCancelled, Deciding
    <3>2. CASE SubmitRefused(c)
      <4>1. AbstractStatus' = [AbstractStatus EXCEPT ![c] = "refused"]
        BY <2>2, <3>2, StatusMoves DEF SubmitRefused, Returned
      <4>2. c \notin WL!Logged
        BY <2>1, <3>2 DEF IInv, CallInv, SubmitRefused
      <4>3. Deciding # c
        BY <3>2, NoCallAssumption DEF IInv, LoopInv, Deciding, SubmitRefused
      <4>4. QED
        BY <3>1, <4>1, <4>2, <4>3 DEF WL!Next, WL!Return
    <3>3. CASE SubmitAnswered(c) /\ resp[c] = "ok"
      <4>1. AbstractStatus' = [AbstractStatus EXCEPT ![c] = "ok"]
        BY <2>2, <3>3, StatusMoves DEF SubmitAnswered, Returned
      <4>2. c \in WL!Logged
        BY <2>1, <3>3 DEF IInv, CallInv
      <4>3. QED
        BY <3>1, <4>1, <4>2 DEF WL!Next, WL!Return
    <3>4. CASE SubmitAnswered(c) /\ resp[c] = "failed"
      <4>1. AbstractStatus' = [AbstractStatus EXCEPT ![c] = "refused"]
        BY <2>2, <3>4, StatusMoves DEF SubmitAnswered, Returned
      <4>2. c \notin WL!Logged
        BY <2>1, <3>4 DEF IInv, CallInv
      <4>3. Deciding # c
        BY <3>4, NoCallAssumption DEF IInv, LoopInv, Deciding
      <4>4. QED
        BY <3>1, <4>1, <4>2, <4>3 DEF WL!Next, WL!Return
    <3>5. CASE SubmitCancelled(c)
      <4>1. AbstractStatus' = [AbstractStatus EXCEPT ![c] = "unknown"]
        BY <2>2, <3>5, StatusMoves DEF SubmitCancelled, Returned
      <4>2. QED
        BY <3>1, <4>1 DEF WL!Next, WL!Return
    <3>6. resp[c] \in {"none", "ok", "failed"}
      BY <2>2 DEF TypeOK
    <3>7. QED
      BY <2>5, <3>2, <3>3, <3>4, <3>5, <3>6 DEF SubmitAnswered
  <2>6. CASE BeginCommit /\ loop' = "committing"
    <3>1. /\ cur \in Calls /\ pc[cur] = "await" /\ cur \notin CommittedCalls
          /\ loop # "committing" /\ cur' = cur /\ UNCHANGED <<pc, committed>>
      BY <2>6, BeginsPending
    <3>2. Deciding = NoCall /\ Deciding' = cur
      BY <2>6, <3>1 DEF Deciding
    <3>3. AbstractStatus[cur] = "pending" /\ UNCHANGED AbstractStatus
      BY <2>2, <3>1, StatusOf DEF AbstractStatus
    <3>4. QED
      BY <2>1, <3>1, <3>2, <3>3 DEF WL!Next, WL!Decide
  <2>7. CASE Commit
    <3>1. /\ cur \in Calls /\ loop = "committing" /\ loop' = "reply"
          /\ committed' \in {committed, Append(committed, cur)}
          /\ UNCHANGED pc
      BY <2>7, CommitDoes
    <3>2. Deciding = cur /\ Deciding' = NoCall /\ UNCHANGED AbstractStatus
      BY <3>1 DEF Deciding, AbstractStatus
    <3>3. QED
      BY <3>1, <3>2 DEF WL!Next, WL!Decided
  <2>8. CASE /\ ~Commit /\ ~(BeginCommit /\ loop' = "committing")
             /\ \A c \in Calls : /\ ~Submit(c) /\ ~SubmitEnqueue(c) /\ ~SubmitRefused(c)
                                 /\ ~SubmitAnswered(c) /\ ~SubmitCancelled(c)
    <3>1. UNCHANGED pc
      BY <2>8 DEF Next, SubmitNext, LoopNext, CloseNext, Cancel, Take, Begin,
         RunFn, BeginCommit, Reply, SeeQuit, DrainOne, LoopReturn, CloseFirst,
         CloseAgain, CloseReturn
    <3>2. UNCHANGED <<Deciding, committed>>
      BY <2>8, CommitSteps DEF Deciding
    <3>3. QED
      BY <3>1, <3>2 DEF AbstractStatus
  <2>9. QED
    BY <2>3, <2>4, <2>5, <2>6, <2>7, <2>8
<1>3. IInv /\ UNCHANGED vars => UNCHANGED <<AbstractStatus, Deciding, committed>>
  BY DEF vars, AbstractStatus, Deciding
<1>4. IInv /\ [Next]_vars => [WL!Next]_<<AbstractStatus, Deciding, committed>>
  BY <1>2, <1>3
<1>5. QED
  BY InitInv, StepInv, <1>1, <1>4, PTL DEF Spec, WriteLogSpec, WL!Spec
=============================================================================
