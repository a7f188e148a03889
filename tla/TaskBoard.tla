------------------------------ MODULE TaskBoard -----------------------------
(***************************************************************************)
(* The tasks of a project (internal/api/tasks.go, internal/db/tasks.go):   *)
(* an order kept in fractional positions.                                  *)
(*                                                                         *)
(* Every statement is one transaction of the writer, but a request is      *)
(* several: a new task's position is read before the task is inserted, and *)
(* after a move the whole list is read and, when two positions are too     *)
(* close, written back renumbered.                                         *)
(*                                                                         *)
(* Positions are counted in steps of half the least distance that is       *)
(* allowed; the distance of one between renumbered tasks is One steps.     *)
(***************************************************************************)
EXTENDS Integers, FiniteSets, Sequences, SequencesExt

CONSTANTS
    Tasks,     \* identifiers of tasks
    Calls,     \* requests that may be sent
    One,       \* the distance of 1.0
    StoredLists \* lists of tasks a project may have when the server starts

MinGap == 2    \* 0.001

ASSUME BoardAssumption ==
    /\ IsFiniteSet(Tasks)
    /\ One \in Nat /\ One >= MinGap
    /\ \A l \in StoredLists : l \in Seq(Tasks) /\ IsInjective(l)

(* The bound on positions: one step above a full, renumbered board. *)
Positions == 1..(One * (Cardinality(Tasks) + 1))

Index(l, t) == CHOOSE i \in DOMAIN l : l[i] = t

VARIABLES
    pos,     \* the position of each task that exists
    call     \* the progress of each request

boardVars == << pos, call >>

NoCall == [at |-> "none"]
Answered == [at |-> "done"]
Unchecked == [at |-> "unchecked"]   \* answered like a move that found room
Failed == [at |-> "failed"]
IdleCalls == {NoCall, Answered, Unchecked, Failed}

BoardTypeOK ==
    /\ DOMAIN pos \subseteq Tasks /\ \A t \in DOMAIN pos : pos[t] \in Positions
    /\ \A c \in Calls : call[c] \in IdleCalls \/
         /\ call[c].at \in {"insert", "list", "renumber"}
         /\ call[c].pos \in Positions
         /\ call[c].list \in Seq(Tasks)
         /\ call[c].alone \in BOOLEAN

BoardInit ==
    /\ \E l \in StoredLists : pos = [t \in Range(l) |-> One * Index(l, t)]
    /\ call = [c \in Calls |-> NoCall]

-----------------------------------------------------------------------------
SetPos(t, v) == [x \in DOMAIN pos \cup {t} |-> IF x = t THEN v ELSE pos[x]]

(* NextTaskPosition *)
NextPosition ==
    IF pos = << >> THEN One
    ELSE One + (CHOOSE m \in Positions : /\ \E t \in DOMAIN pos : pos[t] = m
                                         /\ \A t \in DOMAIN pos : pos[t] <= m)

(* ListTasks: by position; tasks at one position come in any order. *)
Listings ==
    {l \in SetToSeqs(DOMAIN pos) :
        \A i, j \in DOMAIN l : i < j => pos[l[i]] <= pos[l[j]]}

(* Requests other than c that are under way no longer run alone. *)
Disturb(c, rec) ==
    call' = [d \in Calls |-> IF d = c THEN rec
                             ELSE IF call[d] \in IdleCalls THEN call[d]
                             ELSE [call[d] EXCEPT !.alone = FALSE]]

InFlight == {c \in Calls : call[c] \notin IdleCalls}

NewCall(at, p) ==
    [at |-> at, pos |-> p, list |-> << >>, alone |-> InFlight = {}]

(* POST: the position after the last ... *)
CreateTask(c) ==
    /\ call[c] = NoCall
    /\ NextPosition \in Positions
    /\ Disturb(c, NewCall("insert", NextPosition))
    /\ UNCHANGED pos

(* ... and the row. *)
InsertTask(c) ==
    /\ call[c].at = "insert"
    /\ \E t \in Tasks \ DOMAIN pos : pos' = SetPos(t, call[c].pos)
    /\ call' = [call EXCEPT ![c] = Answered]

(* PATCH with a position, which the client computed from the list it has.  *)
UpdateTask(c) ==
    /\ call[c] = NoCall
    /\ \E t \in DOMAIN pos, p \in Positions :
         /\ pos' = SetPos(t, p)
         /\ Disturb(c, NewCall("list", p))

(* DELETE *)
DeleteTask(c) ==
    /\ call[c] = NoCall
    /\ \E t \in DOMAIN pos :
         /\ pos' = [x \in DOMAIN pos \ {t} |-> pos[x]]
         /\ Disturb(c, Answered)

(* checkAndRenumber: the list is read; positions that are too close call   *)
(* for a renumbering.                                                      *)
TooClose(l) == \E i \in 1..Len(l) - 1 : pos[l[i + 1]] - pos[l[i]] < MinGap

\* Mutant: only the first two tasks are compared.
CheckFirstGap(c) ==
    /\ call[c].at = "list"
    /\ \E l \in Listings :
         call' = [call EXCEPT ![c] = IF Len(l) > 1 /\ pos[l[2]] - pos[l[1]] < MinGap
                      THEN [@ EXCEPT !.at = "renumber", !.list = l] ELSE Answered]
    /\ UNCHANGED pos

CheckGaps(c) ==
    /\ call[c].at = "list"
    /\ \E l \in Listings :
         call' = [call EXCEPT ![c] = IF TooClose(l)
                      THEN [@ EXCEPT !.at = "renumber", !.list = l] ELSE Answered]
    /\ UNCHANGED pos

(* RenumberTasks: the rows of that list, as far as they still exist. *)
Renumbered(l) ==
    [t \in DOMAIN pos |-> IF \E i \in DOMAIN l : l[i] = t
                          THEN One * Index(l, t) ELSE pos[t]]

RenumberTasks(c) ==
    /\ call[c].at = "renumber"
    /\ pos' = Renumbered(call[c].list)
    /\ call' = [call EXCEPT ![c] = Answered]

(* The database fails a request in between, or its client is gone.  A new  *)
(* task is refused; of a move, the list or the renumbering failed: that is *)
(* logged, and the answer is 200 with the moved task alone, the answer of  *)
(* a move that found room.                                                 *)
FailRequest(c) ==
    /\ call[c] \notin IdleCalls
    /\ call' = [call EXCEPT ![c] = IF call[c].at = "insert" THEN Failed ELSE Unchecked]
    /\ UNCHANGED pos

BoardNext ==
    \E c \in Calls : CreateTask(c) \/ InsertTask(c) \/ UpdateTask(c) \/ DeleteTask(c)
                    \/ CheckGaps(c) \/ RenumberTasks(c) \/ FailRequest(c)

(* handleUpdateTask (tasks.go:173): when a move that ran alone, and whose   *)
(* list was read and, if need be, written back, is answered, all tasks are  *)
(* at least the least distance apart, so that the next move finds room      *)
(* between any two, and every two tasks are in the order the move gave      *)
(* them.                                                                    *)
Spread(p) == \A t, u \in DOMAIN p : t # u => p[t] - p[u] >= MinGap \/ p[u] - p[t] >= MinGap

MoveSettles ==
    [][\A c \in Calls :
          call[c].at \in {"list", "renumber"} /\ call[c].alone /\ call'[c].at = "done" =>
             /\ Spread(pos')
             /\ \A t, u \in DOMAIN pos : pos[t] < pos[u] => pos'[t] < pos'[u]]_boardVars

(* tasks.go:124: "if the minimum gap between adjacent task positions falls *)
(* below 0.001, all tasks in the project are renumbered".  Not when the    *)
(* check fails, and the answer is the one of a move that found room.       *)
CollapseIsRepaired ==
    [][\A c \in Calls :
          call[c].at \in {"list", "renumber"} /\ call[c].alone
          /\ call'[c].at \in {"done", "unchecked"} => Spread(pos')]_boardVars
=============================================================================
