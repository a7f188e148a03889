----------------------------- MODULE BlockDiff ------------------------------
(***************************************************************************)
(* The history of a document (internal/history): consecutive versions are  *)
(* split into blocks, compared with Myers' algorithm, and the edit script  *)
(* is told as changes (differ.go) and as one sentence (summarize.go).      *)
(*                                                                         *)
(* A line is a record: what its trimmed text is, whether white space comes *)
(* before it, and its text.  Blocks are compared by the lines they hold.   *)
(***************************************************************************)
EXTENDS Integers, Sequences, FiniteSets, SequencesExt, Functions

CONSTANTS Lines,        \* the lines a document is made of
          MaxLines,     \* bound: lines of a version
          Limits,       \* the limits a client asks with
          DefaultLimit, MaxLimit,  \* what is taken without one (50), and at most (500)
          MajorAbove    \* changes above which only their number is told (10)

\* The text of a line that opens a fence is its language; the marker is in its kind.
Fences == {"backticks", "tildes"}
LineKinds == {"blank", "dashes", "heading", "item", "text"} \cup Fences
ASSUME LinesAssumption ==
    Lines \subseteq [is : LineKinds, indented : BOOLEAN, text : STRING]
ASSUME HistoryAssumption ==
    /\ Limits \subseteq Int /\ DefaultLimit \in Nat \ {0} /\ MaxLimit \in Nat \ {0}
    /\ MaxLines \in Nat

VARIABLES
    versions,     \* the document at its two last commits, newest first
    oldBlocks, newBlocks,   \* the two sides of the comparison
    step,         \* d: edits made so far, on the way forth or back
    reach,        \* v: the furthest old index on every diagonal
    trace,        \* the values of reach after every step
    at,           \* x and y of the way back
    ops,          \* the edit script, as far as it is reconstructed
    diffPhase     \* "forward", "back" or "done"

diffVars == << versions, oldBlocks, newBlocks, step, reach, trace, at, ops, diffPhase >>

-----------------------------------------------------------------------------
(* splitBlocks: one pass over the lines.                                   *)

Docs == UNION {[1..n -> Lines] : n \in 0..MaxLines}

\* The line after the block that begins at line i.  A fence runs to the next line that
\* begins with its marker, that line included, or to the end; a list takes its next items and
\* what is indented; a paragraph ends where anything else begins.
BlockEnd(ls, i) ==
    LET Stops(j) == CASE ls[i].is = "heading" -> TRUE
                      [] ls[i].is = "item" ->
                           \/ ls[j].is = "blank"
                           \/ ls[j].is # "item" /\ ~ls[j].indented
                      [] OTHER -> ls[j].is \in {"blank", "heading", "item"} \cup Fences
        Closing(j) == ls[j].is = ls[i].is
        later == i + 1 .. Len(ls)
        ends == {j \in later : IF ls[i].is \in Fences THEN Closing(j) ELSE Stops(j)}
        next == IF ends = {} THEN Len(ls) + 1 ELSE CHOOSE j \in ends : \A k \in ends : j <= k
    IN  IF ls[i].is \in Fences /\ ends # {} THEN next + 1 ELSE next

KindOf(line) ==
    CASE line.is = "heading" -> "heading" [] line.is \in Fences -> "code_fence"
      [] line.is = "item" -> "list_item" [] OTHER -> "paragraph"

\* The white space around a block is trimmed, but for code.
Raw(kind, ls) ==
    IF kind \in {"code_fence", "frontmatter"} THEN ls
    ELSE [ls EXCEPT ![1].indented = FALSE]

\* The last line of the frontmatter, 0 if there is none.
FrontmatterEnd(ls) ==
    LET ends == {j \in 2..Len(ls) : ls[j].is = "dashes"}
    IN  IF ls # << >> /\ ls[1].is = "dashes" /\ ends # {}
          THEN CHOOSE j \in ends : \A k \in ends : j <= k ELSE 0

\* The section of what no heading stands before.
NoSection == ""

\* The block that begins at line i, below a heading of text s.
SectionAt(ls, i, s) == IF ls[i].is = "heading" THEN ls[i].text ELSE s
BlockAt(ls, i, s) ==
    [kind |-> KindOf(ls[i]), section |-> SectionAt(ls, i, s),
     raw |-> Raw(KindOf(ls[i]), SubSeq(ls, i, BlockEnd(ls, i) - 1))]

\* The blocks from line p[1] on, below a heading of text p[2].
SplitBlocks(ls) ==
    LET sections == {NoSection} \cup {ls[i].text : i \in 1..Len(ls)}
        Body[p \in (1..Len(ls) + 1) \X sections] ==
            IF p[1] > Len(ls) THEN << >>
            ELSE IF ls[p[1]].is = "blank" THEN Body[<< p[1] + 1, p[2] >>]
            ELSE << BlockAt(ls, p[1], p[2]) >>
                 \o Body[<< BlockEnd(ls, p[1]), SectionAt(ls, p[1], p[2]) >>]
        f == FrontmatterEnd(ls)
    IN  IF f = 0 THEN Body[<< 1, NoSection >>]
        ELSE << [kind |-> "frontmatter", raw |-> SubSeq(ls, 1, f), section |-> NoSection] >>
             \o Body[<< f + 1, NoSection >>]

-----------------------------------------------------------------------------
(* FileHistory: the newest commits, at most as many as the client asks for, *)
(* each compared with the one before it in that list.  The last one of the  *)
(* list is compared with an empty document, whether it is the first commit  *)
(* or the limit has cut its predecessors off.  A document that a commit     *)
(* does not have (a rename) is empty, and so is a predecessor that cannot   *)
(* be read; an entry whose own version cannot be read gets no changes and   *)
(* nothing is compared for it.                                              *)

\* handleDocHistory: a limit that is no positive number is none.
AskedFor(limit) ==
    IF limit <= 0 THEN DefaultLimit ELSE IF limit > MaxLimit THEN MaxLimit ELSE limit

Entries(vs, limit) == IF Len(vs) <= limit THEN vs ELSE SubSeq(vs, 1, limit)

Previous(vs, limit, i) ==
    IF i < Len(Entries(vs, limit)) THEN Entries(vs, limit)[i + 1] ELSE << >>

Diagonals(b1, b2) == -(Len(b1) + Len(b2)) .. Len(b1) + Len(b2) + 1

DiffInit ==
    /\ versions \in Docs \X Docs
    /\ \E asked \in Limits :
       LET limit == AskedFor(asked) IN
       \E i \in 1..Len(Entries(versions, limit)) :
         /\ newBlocks = SplitBlocks(versions[i])
         /\ oldBlocks \in {SplitBlocks(Previous(versions, limit, i)), << >>}
    /\ step = 0 /\ trace = << >> /\ ops = << >>
    /\ reach = [k \in Diagonals(oldBlocks, newBlocks) |-> 0]
    /\ at = << Len(oldBlocks), Len(newBlocks) >>
    /\ diffPhase = IF oldBlocks = << >> \/ newBlocks = << >> THEN "done" ELSE "forward"

-----------------------------------------------------------------------------
(* Myers: forth, one more edit at a time, until the end is reached; back    *)
(* along the snapshots of reach.  Diagonal k holds the points (x, x - k).   *)

SameBlock(x, y) == oldBlocks[x + 1].raw = newBlocks[y + 1].raw

\* The end of the equal blocks from (x, x - k).
Snake(x, k) ==
    LET room == {n \in 0..Len(oldBlocks) :
                   /\ x + n <= Len(oldBlocks) /\ x + n - k <= Len(newBlocks)
                   /\ \A j \in 0..n - 1 : SameBlock(x + j, x + j - k)}
    IN  IF room = {} THEN x ELSE x + CHOOSE n \in room : \A o \in room : o <= n

\* Whether the way to diagonal k with d edits ends in an insertion, that is in
\* a move from diagonal k + 1, where k - 1 has not got further.
Inserts(r, d, k) == k = -d \/ (k # d /\ r[k - 1] < r[k + 1])

\* The diagonals after those that reach the end are left: nobody reads them.
Forward ==
    LET d == step
        ks == {k \in -d .. d : (d - k) % 2 = 0}
        From(k) == IF Inserts(reach, d, k) THEN reach[k + 1] ELSE reach[k - 1] + 1
        next == [k \in DOMAIN reach |-> IF k \in ks THEN Snake(From(k), k) ELSE reach[k]]
        found == \E k \in ks : next[k] >= Len(oldBlocks) /\ next[k] - k >= Len(newBlocks)
    IN  /\ diffPhase = "forward"
        /\ reach' = next
        /\ trace' = Append(trace, next)
        /\ diffPhase' = IF found THEN "back" ELSE "forward"
        /\ step' = IF found THEN d ELSE d + 1
        /\ UNCHANGED << versions, oldBlocks, newBlocks, at, ops >>

\* trace[d] of the code, whose slices begin at 0, is trace[d + 1].
Backward ==
    LET d == step
        k == at[1] - at[2]
        before == trace[d]
        from == IF Inserts(before, d, k) THEN k + 1 ELSE k - 1
        x == before[from]
        op == IF from = k + 1 THEN [del |-> FALSE, i |-> x - from + 1]
              ELSE [del |-> TRUE, i |-> x + 1]
    IN  /\ diffPhase = "back" /\ d > 0
        /\ ops' = << op >> \o ops
        /\ at' = << x, x - from >>
        /\ step' = d - 1
        /\ UNCHANGED << versions, oldBlocks, newBlocks, reach, trace, diffPhase >>

Reconstructed ==
    /\ diffPhase = "back" /\ step = 0
    /\ diffPhase' = "done"
    /\ UNCHANGED << versions, oldBlocks, newBlocks, step, reach, trace, at, ops >>

DiffNext == Forward \/ Backward \/ Reconstructed

-----------------------------------------------------------------------------
(* What is told of the script.                                             *)

Change(t, b, was, is) ==
    [type |-> t, kind |-> b.kind, section |-> b.section, was |-> was, is |-> is]

Added(b) == Change("added", b, << >>, b.raw)
Removed(b) == Change("removed", b, b.raw, << >>)

ExistsIn(b, bs) == \E i \in 1..Len(bs) : bs[i].raw = b.raw

\* A deletion and the insertion right after it are one modification when both
\* blocks are of one kind and section; a heading is never modified.
Folded(b, c) == b.kind = c.kind /\ b.section = c.section /\ b.kind # "heading"

\* Mutant: what is gone for good is taken for an insertion's other half.
GoneIfMoved(b) ==
    IF ExistsIn(b, newBlocks) THEN << Change("moved", b, b.raw, b.raw) >> ELSE << >>

Gone(b) ==
    IF ExistsIn(b, newBlocks) THEN << Change("moved", b, b.raw, b.raw) >>
    ELSE << Removed(b) >>

OpsToChanges ==
    LET Told[i \in 1..Len(ops) + 2] ==
            IF i > Len(ops) THEN << >>
            ELSE IF ops[i].del
              THEN LET b == oldBlocks[ops[i].i] IN
                   IF i < Len(ops) /\ ~ops[i + 1].del /\ Folded(b, newBlocks[ops[i + 1].i])
                     THEN << Change("modified", b, b.raw, newBlocks[ops[i + 1].i].raw) >>
                          \o Told[i + 2]
                     ELSE Gone(b) \o Told[i + 1]
              ELSE LET c == newBlocks[ops[i].i] IN
                   (IF ExistsIn(c, oldBlocks) THEN << >> ELSE << Added(c) >>) \o Told[i + 1]
    IN  Told[1]

\* With an empty side there is nothing to compare.
Changes ==
    IF oldBlocks = << >> THEN [i \in DOMAIN newBlocks |-> Added(newBlocks[i])]
    ELSE IF newBlocks = << >> THEN [i \in DOMAIN oldBlocks |-> Removed(oldBlocks[i])]
    ELSE OpsToChanges

\* Summarize: buckets of changes of one type, kind and section (and, for code, one
\* language), in the order of their first change, with their sizes.
Bucket(c) ==
    [type |-> c.type, kind |-> c.kind, section |-> c.section,
     lang |-> IF c.kind # "code_fence" THEN ""
              ELSE IF c.is # << >> THEN c.is[1].text ELSE c.was[1].text]

Summary(cs) ==
    LET Upto[n \in 0..Len(cs)] ==
            IF n = 0 THEN << >>
            ELSE IF Contains(Upto[n - 1], Bucket(cs[n])) THEN Upto[n - 1]
            ELSE Append(Upto[n - 1], Bucket(cs[n]))
        Buckets == Upto[Len(cs)]
        Size(b) == Cardinality({i \in DOMAIN cs : Bucket(cs[i]) = b})
    IN  IF Len(cs) > MajorAbove
          THEN << [blocks |-> Len(cs),
                   sections |-> Cardinality({cs[i].section : i \in DOMAIN cs})] >>
          ELSE [i \in DOMAIN Buckets |-> [blocks |-> Size(Buckets[i]), of |-> Buckets[i]]]

-----------------------------------------------------------------------------
(* Properties.                                                             *)

\* The least number of blocks that must be deleted or inserted: the textbook
\* recurrence, over all prefixes of the two sides.
Distance ==
    LET points == (0..Len(oldBlocks)) \X (0..Len(newBlocks))
        D[p \in points] ==
            LET x == p[1]
                y == p[2]
            IN  IF x = 0 THEN y ELSE IF y = 0 THEN x
                ELSE IF SameBlock(x - 1, y - 1) THEN D[<< x - 1, y - 1 >>]
                ELSE 1 + (IF D[<< x - 1, y >>] < D[<< x, y - 1 >>]
                          THEN D[<< x - 1, y >>] ELSE D[<< x, y - 1 >>])
    IN  D[<< Len(oldBlocks), Len(newBlocks) >>]

\* The blocks of a side that the script leaves.
Untouched(bs, del) == {i \in 1..Len(bs) : \A j \in DOMAIN ops : ops[j].del = del => ops[j].i # i}

\* The script turns the old document into the new one, and no shorter one does:
\* the way back along the snapshots retraces a shortest way forth.  What it leaves of
\* the two are the same blocks in the same order.
ScriptIsShortest ==
    diffPhase = "done" /\ oldBlocks # << >> /\ newBlocks # << >> =>
        /\ Len(ops) = Distance
        /\ \E f \in [Untouched(oldBlocks, TRUE) -> Untouched(newBlocks, FALSE)] :
             /\ \A j \in Untouched(newBlocks, FALSE) : \E i \in Untouched(oldBlocks, TRUE) : f[i] = j
             /\ \A i, j \in Untouched(oldBlocks, TRUE) : i < j => f[i] < f[j]
             /\ \A i \in Untouched(oldBlocks, TRUE) : oldBlocks[i].raw = newBlocks[f[i]].raw

\* The blocks bs stand one after the other in the lines from first on, and what is
\* between them is blank.  White space that is trimmed is not told apart.
Laid(ls, first, bs) ==
    \E begin \in [1..Len(bs) -> first..Len(ls)] :
      /\ \A i \in 1..Len(bs) :
           /\ begin[i] + Len(bs[i].raw) <= Len(ls) + 1
           /\ \A j \in 1..Len(bs[i].raw) :
                LET line == ls[begin[i] + j - 1]
                IN  bs[i].raw[j].is = line.is /\ bs[i].raw[j].text = line.text
      /\ \A i, j \in 1..Len(bs) : i < j => begin[i] + Len(bs[i].raw) <= begin[j]
      /\ \A n \in first..Len(ls) :
           \/ ls[n].is = "blank"
           \/ \E i \in 1..Len(bs) : begin[i] <= n /\ n < begin[i] + Len(bs[i].raw)

\* No line is lost or doubled when a document is split.
SplitKeepsLines(ls) == Laid(ls, 1, SplitBlocks(ls))

\* The blocks a summary counts.
Counted(s) ==
    LET Sum[n \in 0..Len(s)] == IF n = 0 THEN 0 ELSE Sum[n - 1] + s[n].blocks
    IN  Sum[Len(s)]

\* A reader of the history misses nothing: text that came or went is in a change,
\* and the summary counts every change once.  The blocks of the first commit count as
\* additions here, as in the code; the comment of the field differs (InitialIsEmpty).
ReportIsComplete ==
    diffPhase = "done" =>
        /\ \A i \in DOMAIN newBlocks : ~ExistsIn(newBlocks[i], oldBlocks) =>
             \E j \in DOMAIN Changes : Changes[j].is = newBlocks[i].raw
        /\ \A i \in DOMAIN oldBlocks : ~ExistsIn(oldBlocks[i], newBlocks) =>
             \E j \in DOMAIN Changes : Changes[j].was = oldBlocks[i].raw
        /\ Len(Changes) = Counted(Summary(Changes))
        /\ \A i \in DOMAIN versions : SplitKeepsLines(versions[i])

\* A change of the document is never shown as no change.  (Not so: a block that is
\* added once more is in the old document already.)
ChangeIsShown ==
    diffPhase = "done" /\ Changes = << >> =>
        [i \in DOMAIN oldBlocks |-> oldBlocks[i].raw] = [i \in DOMAIN newBlocks |-> newBlocks[i].raw]

\* gitlog.go:28-29: Changes is "Empty for the initial commit."  (Not so: the oldest
\* entry is compared with an empty document, so all its blocks are additions.)
InitialIsEmpty ==
    diffPhase = "done" /\ newBlocks = SplitBlocks(versions[2])
        /\ newBlocks # SplitBlocks(versions[1]) => Changes = << >>

DiffTypeOK ==
    /\ diffPhase \in {"forward", "back", "done"}
    /\ step \in 0..Len(oldBlocks) + Len(newBlocks)
    /\ at[1] \in 0..Len(oldBlocks) /\ at[2] \in 0..Len(newBlocks)
    /\ \A i \in DOMAIN ops : ops[i].i \in 1..(IF ops[i].del THEN Len(oldBlocks) ELSE Len(newBlocks))
=============================================================================
