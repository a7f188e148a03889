------------------------------ MODULE WriteLog ------------------------------
(***************************************************************************)
(* What a caller of Store.SubmitWrite, UpsertDoc, DeleteDoc and their      *)
(* GlobalDB counterparts may rely on, said without the queue, the writer   *)
(* goroutine and its shutdown: writes are decided one at a time, and a     *)
(* write takes effect at one instant or not at all.                        *)
(*                                                                         *)
(* It is the abstract specification that WriterFunnel implements.          *)
(***************************************************************************)
EXTENDS Naturals, Sequences

CONSTANTS Calls, NoCall

VARIABLES status,    \* what the caller knows of its call
          deciding,  \* the call whose write is being decided
          log        \* the writes that took effect, in order

Logged == {log[i] : i \in 1..Len(log)}

Init ==
  /\ status = [c \in Calls |-> "idle"]
  /\ deciding = NoCall
  /\ log = <<>>

Invoke(c) ==
  /\ status[c] = "idle"
  /\ status' = [status EXCEPT ![c] = "pending"]
  /\ UNCHANGED <<deciding, log>>

\* The point of no return; it is not passed for a call that has returned.
Decide(c) ==
  /\ deciding = NoCall
  /\ status[c] = "pending" /\ c \notin Logged
  /\ deciding' = c
  /\ UNCHANGED <<status, log>>

\* The write takes effect, or fails.
Decided(c) ==
  /\ deciding = c
  /\ deciding' = NoCall
  /\ log' \in {log, Append(log, c)}
  /\ UNCHANGED status

\* "unknown" is what a caller whose context ended is told.
Return(c, s) ==
  /\ status[c] = "pending"
  /\ s = "ok"      => c \in Logged
  /\ s = "refused" => c \notin Logged /\ deciding # c
  /\ status' = [status EXCEPT ![c] = s]
  /\ UNCHANGED <<deciding, log>>

Next ==
  \E c \in Calls :
    \/ Invoke(c) \/ Decide(c) \/ Decided(c)
    \/ \E s \in {"ok", "refused", "unknown"} : Return(c, s)

Spec == Init /\ [][Next]_<<status, deciding, log>>
=============================================================================
