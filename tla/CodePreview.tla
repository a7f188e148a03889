----------------------------- MODULE CodePreview -----------------------------
(***************************************************************************)
(* The preview of source code that a document names with a vedox URI       *)
(* (internal/codepreview): where the URI leads, the file read up to a cap, *)
(* split into lines, and the lines that the anchor asks for.  A file is a  *)
(* sequence of bytes; those that nothing here depends on are "a".  The     *)
(* language, which is that of the extension, is left out.                  *)
(***************************************************************************)
EXTENDS Integers, Sequences, FiniteSets, SequencesExt

CONSTANTS MaxBytes,      \* bound: bytes of a file
          MaxFileBytes,  \* the cap (512000)
          SniffBytes,    \* bytes looked through for a zero (512)
          MaxLineRange,  \* lines of an anchor (500)
          MaxLine        \* bound: numbers in an anchor

ASSUME PreviewAssumption == MaxBytes \in Nat /\ MaxFileBytes \in Nat /\ MaxLine \in Nat

Bytes == {"a", "cr", "lf", "nul"}

\* Where the path leads: to a file below the root, one that is not there, one that
\* cannot be read, one that a link takes out of the root or that must not be shown;
\* or it is no path at all, or one with "..".
Leads == {"file", "missing", "unreadable", "outside", "secret", "empty", "absolute", "dots"}
Anchors == [form : {"none"}, from : {0}, to : {0}] \cup [form : {"other"}, from : {0}, to : {0}]
           \cup [form : {"line"}, from : -1..MaxLine, to : {0}]
           \cup [form : {"range"}, from : -1..MaxLine, to : -1..MaxLine]

VARIABLES
    uri,       \* where the URI leads, and its anchor
    file,      \* the bytes of the file
    preview    \* the answer

previewVars == << uri, file, preview >>

Unanswered == [result |-> "none", lines |-> << >>, newline |-> FALSE, start |-> 0, end |-> 0,
               total |-> 0, truncated |-> FALSE]
Refusal(why) == [Unanswered EXCEPT !.result = why]

-----------------------------------------------------------------------------
(* Resolve.                                                                *)

\* parseAnchor: the lines, 0 and 0 without an anchor.
ValidAnchor(a) ==
    CASE a.form = "none" -> TRUE
      [] a.form = "line" -> a.from >= 1
      [] a.form = "range" -> a.from >= 1 /\ a.to >= a.from
      [] a.form = "other" -> FALSE

Asked(a) == IF a.form = "range" THEN << a.from, a.to >> ELSE << a.from, a.from >>

\* readFull: the file up to the cap.
Prefix(bytes) == SubSeq(bytes, 1, IF Len(bytes) > MaxFileBytes THEN MaxFileBytes ELSE Len(bytes))

Binary(raw) == \E i \in 1..Len(raw) : i <= SniffBytes /\ raw[i] = "nul"

\* A CR before a LF goes with it.
BreakLine(ls) ==
    LET l == Last(ls) IN
    Append(IF l # << >> /\ Last(l) = "cr" THEN [ls EXCEPT ![Len(ls)] = Front(l)] ELSE ls, << >>)

\* One newline at the end is taken off first, its CR is not.
SplitLines(raw) ==
    LET trimmed == IF raw # << >> /\ Last(raw) = "lf" THEN Front(raw) ELSE raw
        Read[i \in 0..Len(trimmed)] ==
            IF i = 0 THEN << << >> >>
            ELSE IF trimmed[i] = "lf" THEN BreakLine(Read[i - 1])
            ELSE [Read[i - 1] EXCEPT ![Len(Read[i - 1])] = Append(@, trimmed[i])]
    IN  Read[Len(trimmed)]

\* The lines from start to end of what was read; with the newline at the end if they
\* are all of the file.
Shown(raw, start, end, truncated) ==
    LET ls == SplitLines(raw) IN
    [result |-> "ok", lines |-> SubSeq(ls, start, end), start |-> start, end |-> end,
     newline |-> ~truncated /\ start = 1 /\ end = Len(ls) /\ raw # << >> /\ Last(raw) = "lf",
     total |-> Len(ls), truncated |-> truncated]

Previewed(where, anchor, bytes) ==
    LET raw == Prefix(bytes)
        asked == Asked(anchor)
        total == Len(SplitLines(raw))
        truncated == Len(bytes) > MaxFileBytes
    IN  IF where = "empty" \/ (ValidAnchor(anchor) /\ where # "file") THEN Refusal(where)
        ELSE IF ~ValidAnchor(anchor) THEN Refusal("anchor")
        ELSE IF Binary(raw) THEN Refusal("binary")
        ELSE IF anchor.form = "none" THEN Shown(raw, 1, total, truncated)
        ELSE IF asked[2] - asked[1] + 1 > MaxLineRange THEN Refusal("too many")
        ELSE IF asked[2] > total THEN Refusal("beyond")
        ELSE Shown(raw, asked[1], asked[2], truncated)

PreviewInit ==
    /\ uri \in [leads : Leads, anchor : Anchors]
    /\ file \in UNION {[1..n -> Bytes] : n \in 0..MaxBytes}
    /\ uri.leads # "file" => file = << >>
    /\ preview = Unanswered

\* handlePreview; it changes nothing, and keeps nothing.
Resolve ==
    /\ preview = Unanswered
    /\ preview' = Previewed(uri.leads, uri.anchor, file)
    /\ UNCHANGED << uri, file >>

PreviewNext == Resolve

-----------------------------------------------------------------------------
(* Properties.                                                             *)

PreviewTypeOK ==
    /\ uri.leads \in Leads /\ uri.anchor \in Anchors /\ file \in Seq(Bytes)
    /\ preview.start \in 0..preview.end /\ preview.end \in 0..preview.total

\* The lines of the first n bytes of the file, as positions: a line begins at the
\* first byte and after every newline but one at the very end, and runs up to the
\* next newline.
Begins(n) == {1} \cup {i \in 2..n : file[i - 1] = "lf"}
Ends(n, b) ==
    CHOOSE e \in b..n + 1 : /\ e = n + 1 \/ file[e] = "lf"
                            /\ \A i \in b..e - 1 : file[i] # "lf"
NthLine(n, k) ==
    LET b == CHOOSE i \in Begins(n) : Cardinality({j \in Begins(n) : j <= i}) = k
    IN  SubSeq(file, b, Ends(n, b) - 1)

WithoutCR(l) == IF l # << >> /\ Last(l) = "cr" THEN Front(l) ELSE l

\* What is shown is the lines that were asked for, each as it is in the file, without
\* the CR of a Windows newline.  The last line that was read may keep its CR, and be
\* cut by the cap; that there is more is said.  A preview is refused only for what is
\* wrong with the URI, for a file that has a zero in front, or for a line that was
\* not read.
PreviewIsExact ==
    LET n == Len(Prefix(file))
        asked == IF uri.anchor.form = "none" THEN << 1, Cardinality(Begins(n)) >>
                 ELSE Asked(uri.anchor)
        IsLine(k, l) == \/ l = WithoutCR(NthLine(n, k))
                        \/ l = NthLine(n, k) /\ k = Cardinality(Begins(n))
    IN  /\ preview.result = "ok" =>
             /\ uri.leads = "file" /\ << preview.start, preview.end >> = asked
             /\ Len(preview.lines) = asked[2] - asked[1] + 1
             /\ \A i \in DOMAIN preview.lines : IsLine(asked[1] + i - 1, preview.lines[i])
             /\ preview.total = Cardinality(Begins(n))
             /\ preview.truncated <=> n < Len(file)
             /\ preview.newline => file[Len(file)] = "lf"
        /\ uri.leads = "file" /\ ValidAnchor(uri.anchor)
             /\ preview.result \notin {"none", "binary", "too many"} =>
             (preview.result = "ok" <=> asked[2] <= Cardinality(Begins(n)))

\* "ErrAnchorOutOfRange is returned when the anchor refers to lines beyond EOF"
\* (resolver.go:102).  Also for a line that is there, beyond the cap.
BeyondIsBeyondEof ==
    preview.result = "beyond" => Asked(uri.anchor)[2] > Cardinality(Begins(Len(file)))

\* "Handle Windows CRLF" (resolver.go:474): not of the last line.
NoCRShown ==
    preview.result = "ok" /\ ~preview.truncated =>
        \A i \in 2..Len(file) : file[i] = "lf" /\ file[i - 1] = "cr" =>
            \A j \in DOMAIN preview.lines :
                preview.lines[j] = << >> \/ Last(preview.lines[j]) # "cr"
=============================================================================
