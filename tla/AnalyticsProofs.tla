-------------------------- MODULE AnalyticsProofs ---------------------------
(***************************************************************************)
(* What the analytics pipeline guarantees for every set of events, every   *)
(* size of the channel and any number of database errors and restarts.     *)
(* The inductive invariant follows an event through the places it can be   *)
(* (channel, batch, table), and the counts through a cycle.                *)
(***************************************************************************)
EXTENDS Analytics, FiniteSetTheorems, TLAPS

Distinct(s) == \A i, j \in 1..Len(s) : s[i] = s[j] => i = j
Apart(s, t) == RangeOf(s) \cap RangeOf(t) = {}

\* An event is in one place, once.
PlaceInv ==
  /\ Distinct(rows) /\ Distinct(batch) /\ Distinct(ch)
  /\ Apart(rows, batch) /\ Apart(rows, ch) /\ Apart(batch, ch)
  /\ RangeOf(rows) \subseteq emitted /\ RangeOf(batch) \subseteq emitted
  /\ RangeOf(ch) \subseteq emitted

\* What the Collector and the shutdown know of each other.
StopInv ==
  /\ col \in {"wait", "stopped"} => batch = <<>>
  /\ col \in {"last", "stopped"} /\ phase # "down" => ctxDone
  /\ phase \in {"drain", "collector", "aggregator"} => ctxDone
  /\ phase \in {"aggregator", "down"} => col = "stopped"
  /\ phase = "down" => agg = "stopped"

\* What is promised and not stored is on its way; after the last drain of the channel
\* it is not in the channel.
KeepInv ==
  /\ emitted \ excused \subseteq RangeOf(rows) \cup RangeOf(batch) \cup RangeOf(ch)
  /\ col \in {"last", "stopped"} => RangeOf(ch) \subseteq excused

\* The cursor of the aggregator, and what its cycle has read and added.
CycleInv ==
  /\ lastID <= readTo \/ agg \notin {"add", "cache"}
  /\ agg = "start" => lastID = 0
  /\ agg # "add" => todo = {}

Counted(k) == RowsOf(k, 0, IF agg = "add" /\ k \notin todo THEN readTo ELSE lastID)

CountInv ==
  ~suspect => \A k \in Kinds :
    /\ counts[k] = Counted(k)
    /\ agg \in {"start", "wait", "read", "stopped"} /\ lastID > 0 => cache[k] = counts[k]

IInv == TypeOK /\ PlaceInv /\ StopInv /\ KeepInv /\ CycleInv /\ CountInv

-----------------------------------------------------------------------------
(* Sequences of events, and the rows of a kind. *)

LEMMA AppendFacts ==
  ASSUME NEW s \in Seq(Events), NEW e \in Events
  PROVE  /\ Append(s, e) \in Seq(Events) /\ Len(Append(s, e)) = Len(s) + 1
         /\ RangeOf(Append(s, e)) = RangeOf(s) \cup {e}
         /\ Distinct(s) /\ e \notin RangeOf(s) => Distinct(Append(s, e))
<1>1. /\ Append(s, e) \in Seq(Events) /\ Len(Append(s, e)) = Len(s) + 1
      /\ Append(s, e)[Len(s) + 1] = e /\ Len(s) \in Nat
      /\ \A i \in 1..Len(s) : Append(s, e)[i] = s[i]
  OBVIOUS
<1>2. RangeOf(Append(s, e)) = RangeOf(s) \cup {e}
  BY <1>1 DEF RangeOf
<1>3. ASSUME Distinct(s), e \notin RangeOf(s)
      PROVE  Distinct(Append(s, e))
  BY <1>1, <1>3 DEF Distinct, RangeOf
<1>4. QED BY <1>1, <1>2, <1>3

LEMMA ConcatFacts ==
  ASSUME NEW s \in Seq(Events), NEW t \in Seq(Events)
  PROVE  /\ s \o t \in Seq(Events) /\ Len(s \o t) = Len(s) + Len(t)
         /\ \A i \in 1..Len(s) : (s \o t)[i] = s[i]
         /\ RangeOf(s \o t) = RangeOf(s) \cup RangeOf(t)
         /\ Distinct(s) /\ Distinct(t) /\ Apart(s, t) => Distinct(s \o t)
<1>1. /\ s \o t \in Seq(Events) /\ Len(s \o t) = Len(s) + Len(t)
      /\ Len(s) \in Nat /\ Len(t) \in Nat
      /\ \A i \in 1..Len(s) : (s \o t)[i] = s[i]
  OBVIOUS
<1>2. \A i \in 1..Len(s \o t) : i > Len(s) => (s \o t)[i] = t[i - Len(s)] /\ i - Len(s) \in 1..Len(t)
  BY <1>1
<1>3. RangeOf(s \o t) = RangeOf(s) \cup RangeOf(t)
  <2>1. RangeOf(s \o t) \subseteq RangeOf(s) \cup RangeOf(t)
    BY <1>1, <1>2 DEF RangeOf
  <2>2. RangeOf(s) \subseteq RangeOf(s \o t)
    BY <1>1 DEF RangeOf
  <2>3. ASSUME NEW i \in 1..Len(t)
        PROVE  t[i] \in RangeOf(s \o t)
    <3>1. i + Len(s) \in 1..Len(s \o t) /\ i + Len(s) > Len(s) /\ (i + Len(s)) - Len(s) = i
      BY <1>1
    <3>2. (s \o t)[i + Len(s)] = t[i]
      BY <1>2, <3>1
    <3>3. QED BY <3>1, <3>2 DEF RangeOf
  <2>4. RangeOf(t) \subseteq RangeOf(s \o t)
    BY <2>3 DEF RangeOf
  <2>5. QED BY <2>1, <2>2, <2>4
<1>4. ASSUME Distinct(s), Distinct(t), Apart(s, t)
      PROVE  Distinct(s \o t)
  <2> SUFFICES ASSUME NEW i \in 1..Len(s \o t), NEW j \in 1..Len(s \o t),
                      (s \o t)[i] = (s \o t)[j]
               PROVE  i = j
    BY DEF Distinct
  <2>1. CASE i <= Len(s) /\ j <= Len(s)
    BY <2>1, <1>1, <1>4 DEF Distinct
  <2>2. CASE i > Len(s) /\ j > Len(s)
    <3>1. i - Len(s) = j - Len(s)
      BY <2>2, <1>1, <1>2, <1>4 DEF Distinct
    <3>2. QED BY <3>1, <1>1
  <2>3. ASSUME NEW m \in 1..Len(s \o t), NEW n \in 1..Len(s \o t),
               m <= Len(s), n > Len(s)
        PROVE  (s \o t)[m] # (s \o t)[n]
    <3>1. (s \o t)[m] \in RangeOf(s)
      BY <2>3, <1>1 DEF RangeOf
    <3>2. (s \o t)[n] \in RangeOf(t)
      BY <2>3, <1>2 DEF RangeOf
    <3>3. QED BY <3>1, <3>2, <1>4 DEF Apart
  <2>4. QED BY <2>1, <2>2, <2>3, <1>1
<1>5. QED BY <1>1, <1>3, <1>4

LEMMA EmptyFacts ==
  <<>> \in Seq(Events) /\ Len(<<>>) = 0 /\ RangeOf(<<>>) = {} /\ Distinct(<<>>)
BY DEF RangeOf, Distinct

\* The rows up to b are those up to a and those from there.
LEMMA RowsOfAdds ==
  ASSUME NEW a \in Nat, NEW b \in Nat, a <= b, NEW k
  PROVE  /\ RowsOf(k, 0, a) \in Nat /\ RowsOf(k, a, b) \in Nat
         /\ RowsOf(k, 0, b) = RowsOf(k, 0, a) + RowsOf(k, a, b)
<1> DEFINE S == {i \in 0+1..a : KindOf[rows[i]] = k}
           T == {i \in a+1..b : KindOf[rows[i]] = k}
           U == {i \in 0+1..b : KindOf[rows[i]] = k}
<1>1. IsFiniteSet(0+1..a) /\ IsFiniteSet(a+1..b)
  BY FS_Interval
<1>2. IsFiniteSet(S) /\ IsFiniteSet(T)
  BY <1>1, FS_Subset
<1>3. Cardinality(S) \in Nat /\ Cardinality(T) \in Nat
  BY <1>2, FS_CardinalityType
<1>4. S \cap T = {} /\ S \cup T = U
  OBVIOUS
<1>5. Cardinality(S \cup T) = Cardinality(S) + Cardinality(T) - Cardinality(S \cap T)
  BY <1>2, FS_Union
<1>6. Cardinality(S \cap T) = 0
  BY <1>4, FS_EmptySet
<1>7. Cardinality(U) = Cardinality(S) + Cardinality(T)
  <2> HIDE DEF S, T, U
  <2>1. Cardinality(U) = Cardinality(S \cup T)
    BY <1>4
  <2>2. QED BY <2>1, <1>3, <1>5, <1>6
<1>8. QED BY <1>3, <1>7 DEF RowsOf

\* No row, nothing to count.
LEMMA RowsOfNone ==
  ASSUME NEW a \in Nat, NEW k
  PROVE  RowsOf(k, a, a) = 0
<1>1. {i \in a+1..a : KindOf[rows[i]] = k} = {}
  OBVIOUS
<1>2. QED BY <1>1, FS_EmptySet DEF RowsOf

\* A batch that is added at the end changes nothing before.
LEMMA RowsOfStays ==
  ASSUME TypeOK, rows' = rows \/ rows' = rows \o batch,
         NEW k, NEW from \in Nat, NEW to \in 0..Len(rows)
  PROVE  RowsOf(k, from, to)' = RowsOf(k, from, to)
<1>1. \A i \in from+1..to : i \in 1..Len(rows)
  BY DEF TypeOK
<1>2. \A i \in 1..Len(rows) : rows'[i] = rows[i]
  BY ConcatFacts DEF TypeOK
<1>3. {i \in from+1..to : KindOf[rows'[i]] = k} = {i \in from+1..to : KindOf[rows[i]] = k}
  BY <1>1, <1>2
<1>4. QED BY <1>3 DEF RowsOf

-----------------------------------------------------------------------------
LEMMA InitInv == Init => IInv
<1> SUFFICES ASSUME Init PROVE IInv
  OBVIOUS
<1> USE EmptyFacts DEF Init
<1>1. TypeOK
  <2>1. Buffer \in Nat /\ 0 \in 0..MaxFaults /\ 0 \in 0..MaxRestarts /\ 0 \in 0..Len(<<>>)
    BY BoundsAssumption
  <2>2. [k \in Kinds |-> 0] \in [Kinds -> Nat]
    OBVIOUS
  <2>3. ch \in Seq(Events) /\ Len(ch) <= Buffer /\ batch \in Seq(Events) /\ rows \in Seq(Events)
    BY <2>1
  <2>4. lastID \in 0..Len(rows) /\ readTo \in 0..Len(rows)
    BY <2>1
  <2>5. QED BY <2>1, <2>2, <2>3, <2>4 DEF TypeOK
<1>2. PlaceInv /\ StopInv /\ KeepInv /\ CycleInv
  BY DEF PlaceInv, StopInv, KeepInv, CycleInv, Apart
<1>3. CountInv
  BY RowsOfNone DEF CountInv, Counted
<1>4. QED BY <1>1, <1>2, <1>3 DEF IInv

\* The counts are compared with rows that stay, as long as the cycle stands still.
LEMMA CountsStand ==
  ASSUME TypeOK, CountInv, rows' = rows \/ rows' = rows \o batch,
         UNCHANGED <<aVars, suspect>>
  PROVE  CountInv'
<1>1. \A k : /\ RowsOf(k, 0, lastID)' = RowsOf(k, 0, lastID)
             /\ RowsOf(k, 0, readTo)' = RowsOf(k, 0, readTo)
  <2> TAKE k
  <2>1. 0 \in Nat /\ lastID \in 0..Len(rows) /\ readTo \in 0..Len(rows)
    BY DEF TypeOK
  <2>2. \A n \in 0..Len(rows) : RowsOf(k, 0, n)' = RowsOf(k, 0, n)
    BY RowsOfStays
  <2>3. QED BY <2>1, <2>2 DEF aVars, RowsOf
<1>2. QED BY <1>1 DEF CountInv, Counted, aVars

LEMMA EmitStep ==
  ASSUME IInv, NEW e \in Events, Emit(e)
  PROVE  IInv'
<1> USE DEF IInv, Emit
<1>1. ch \in Seq(Events)
  BY DEF TypeOK
<1>2. TypeOK'
  <2>1. ch' \in Seq(Events) /\ Len(ch') <= Buffer
    <3>1. CASE Len(ch) < Buffer
      <4>1. ch' = Append(ch, e) /\ Len(ch) \in Nat /\ Buffer \in Nat
        BY <3>1, <1>1, BoundsAssumption
      <4>2. QED BY <4>1, <3>1, <1>1, AppendFacts
    <3>2. CASE ~(Len(ch) < Buffer)
      BY <3>2 DEF TypeOK
    <3>3. QED BY <3>1, <3>2
  <2>2. emitted' \subseteq Events /\ excused' \subseteq Events
    BY DEF TypeOK
  <2>3. QED BY <2>1, <2>2 DEF TypeOK, aVars
<1>3. PlaceInv'
  <2>1. e \notin RangeOf(rows) /\ e \notin RangeOf(batch) /\ e \notin RangeOf(ch)
    BY DEF PlaceInv
  <2>2. CASE Len(ch) < Buffer
    <3>1. Distinct(ch') /\ RangeOf(ch') = RangeOf(ch) \cup {e}
      BY <2>1, <2>2, <1>1, AppendFacts DEF PlaceInv
    <3>2. rows' = rows /\ batch' = batch /\ emitted' = emitted \cup {e}
      OBVIOUS
    <3>3. QED BY <2>1, <3>1, <3>2 DEF PlaceInv, Apart
  <2>3. CASE ~(Len(ch) < Buffer)
    BY <2>3 DEF PlaceInv, Apart
  <2>4. QED BY <2>2, <2>3
<1>4. StopInv'
  BY DEF StopInv, aVars
<1>5. KeepInv'
  <2>1. CASE Len(ch) < Buffer
    <3>1. RangeOf(ch') = RangeOf(ch) \cup {e}
      BY <2>1, <1>1, AppendFacts
    <3>2. rows' = rows /\ batch' = batch /\ emitted' = emitted \cup {e} /\ col' = col
          /\ excused' = IF ctxDone THEN excused \cup {e} ELSE excused
      BY <2>1
    <3>3. QED BY <3>1, <3>2 DEF KeepInv, StopInv
  <2>2. CASE ~(Len(ch) < Buffer)
    BY <2>2 DEF KeepInv, StopInv
  <2>3. QED BY <2>1, <2>2
<1>6. CycleInv'
  BY DEF CycleInv, aVars
<1>7. CountInv'
  BY CountsStand
<1>8. QED BY <1>2, <1>3, <1>4, <1>5, <1>6, <1>7

LEMMA DrainStep ==
  ASSUME IInv, Flush \/ LastFlush
  PROVE  IInv'
<1> USE EmptyFacts DEF IInv, Flush, LastFlush, Drain
<1>1. TypeOK'
  <2>1. ch' \in Seq(Events) /\ Len(ch') <= Buffer /\ batch' \in Seq(Events)
    <3>1. ch' = <<>> /\ batch' = ch /\ 0 <= Buffer /\ ch \in Seq(Events)
      BY BoundsAssumption DEF TypeOK
    <3>2. Len(ch') = 0
      BY <3>1
    <3>3. QED BY <3>1, <3>2
  <2>2. col' \in {"wait", "flush", "last", "stopped"}
    OBVIOUS
  <2>3. QED BY <2>1, <2>2 DEF TypeOK, aVars
<1>2. batch = <<>> /\ batch' = ch /\ ch' = <<>> /\ rows' = rows /\ emitted' = emitted
  BY DEF StopInv
<1>3. PlaceInv'
  BY <1>2 DEF PlaceInv, Apart
<1>4. StopInv'
  BY <1>2 DEF StopInv, aVars
<1>5. KeepInv'
  BY <1>2 DEF KeepInv
<1>6. CycleInv'
  BY DEF CycleInv, aVars
<1>7. CountInv'
  BY CountsStand
<1>8. QED BY <1>1, <1>3, <1>4, <1>5, <1>6, <1>7

LEMMA WriteBatchStep ==
  ASSUME IInv, WriteBatch
  PROVE  IInv'
<1> USE DEF IInv, WriteBatch
<1>1. PICK done \in BOOLEAN, err \in BOOLEAN :
        /\ Outcome(done, err, col = "last")
        /\ rows' = IF done THEN rows \o batch ELSE rows
        /\ excused' = IF err THEN excused \cup RangeOf(batch) ELSE excused
  OBVIOUS
<1>2. done \/ err
  BY <1>1 DEF Outcome
<1>3. rows \in Seq(Events) /\ batch \in Seq(Events)
  BY DEF TypeOK
<1>4. /\ rows' \in Seq(Events) /\ Len(rows) <= Len(rows') /\ Distinct(rows')
      /\ done => RangeOf(rows') = RangeOf(rows) \cup RangeOf(batch)
      /\ ~done => rows' = rows
  <2>1. CASE done
    <3>1. rows' = rows \o batch
      BY <1>1, <2>1
    <3>2. /\ Len(rows) \in Nat /\ Len(batch) \in Nat
          /\ Distinct(rows) /\ Distinct(batch) /\ Apart(rows, batch)
      BY <1>3 DEF PlaceInv
    <3> HIDE DEF IInv, WriteBatch
    <3>3. /\ rows \o batch \in Seq(Events) /\ Len(rows \o batch) = Len(rows) + Len(batch)
          /\ RangeOf(rows \o batch) = RangeOf(rows) \cup RangeOf(batch)
          /\ Distinct(rows \o batch)
      BY <1>3, <3>2, ConcatFacts
    <3>4. QED BY <2>1, <3>1, <3>2, <3>3
  <2>2. CASE ~done
    <3>1. rows' = rows /\ Len(rows) \in Nat
      BY <1>1, <1>3, <2>2
    <3> HIDE DEF IInv, WriteBatch
    <3>2. Distinct(rows)
      BY DEF IInv, PlaceInv
    <3>3. QED BY <2>2, <1>3, <3>1, <3>2
  <2>3. QED BY <2>1, <2>2
<1>5. RangeOf(batch) \subseteq Events
  BY <1>3 DEF RangeOf
<1>6. faults' \in 0..MaxFaults
  BY <1>1, BoundsAssumption DEF Outcome, TypeOK
<1>7. TypeOK'
  BY <1>1, <1>3, <1>4, <1>5, <1>6, EmptyFacts DEF TypeOK, aVars
<1>8. PlaceInv'
  <2>1. RangeOf(rows') \subseteq RangeOf(rows) \cup RangeOf(batch)
    BY <1>4
  <2>2. batch' = <<>> /\ ch' = ch /\ emitted' = emitted
    OBVIOUS
  <2>3. QED BY <1>4, <2>1, <2>2, EmptyFacts DEF PlaceInv, Apart
<1>9. StopInv'
  BY DEF StopInv, aVars
<1>10. KeepInv'
  BY <1>1, <1>2, <1>4, EmptyFacts DEF KeepInv
<1>11. CycleInv'
  BY DEF CycleInv, aVars
<1>12. CountInv'
  BY <1>1, CountsStand
<1>13. QED BY <1>7, <1>8, <1>9, <1>10, <1>11, <1>12

\* A step of the aggregator leaves the events where they are.
LEMMA EventsStay ==
  ASSUME PlaceInv, KeepInv, UNCHANGED <<emitted, cVars, excused>>
  PROVE  PlaceInv' /\ KeepInv'
BY DEF PlaceInv, KeepInv, cVars, Apart

LEMMA StartCycleStep ==
  ASSUME IInv, StartCycle
  PROVE  IInv'
<1> USE DEF IInv, StartCycle
<1>1. TypeOK'
  BY DEF TypeOK, cVars
<1>2. PlaceInv' /\ KeepInv'
  BY EventsStay
<1>3. StopInv' /\ CycleInv'
  BY DEF StopInv, CycleInv, cVars
<1>4. CountInv'
  <2>1. UNCHANGED <<rows, lastID, readTo, todo, counts, cache, suspect>>
    BY DEF cVars
  <2>2. \A k : RowsOf(k, 0, lastID)' = RowsOf(k, 0, lastID)
    BY <2>1 DEF RowsOf
  <2>3. QED BY <2>1, <2>2 DEF CountInv, Counted
<1>5. QED BY <1>1, <1>2, <1>3, <1>4

LEMMA ReadTailStep ==
  ASSUME IInv, ReadTail
  PROVE  IInv'
<1> USE DEF IInv, ReadTail, CycleEnd
<1>1. UNCHANGED <<rows, lastID, counts, cache, suspect>> /\ Len(rows) \in Nat
  BY DEF cVars, TypeOK
<1>2. faults' \in 0..MaxFaults
  BY BoundsAssumption DEF Outcome, TypeOK
<1>3. TypeOK'
  <2>1. /\ agg' \in {"start", "wait", "read", "add", "cache", "stopped"}
        /\ readTo' \in 0..Len(rows) /\ todo' \subseteq Kinds
    <3>1. lastID \in 0..Len(rows)
      BY DEF TypeOK
    <3>2. CASE readTo' = Len(rows) /\ todo' = {k \in Kinds : RowsOf(k, lastID, Len(rows)) > 0}
               /\ agg' = IF todo' = {} THEN "cache" ELSE "add"
      <4>1. todo' \subseteq Kinds
        BY <3>2
      <4>2. readTo' \in 0..Len(rows)
        BY <3>2, <1>1
      <4>3. agg' \in {"cache", "add"}
        BY <3>2
      <4>4. QED BY <4>1, <4>2, <4>3
    <3>3. CASE CycleEnd
      BY <3>1, <3>3
    <3>4. QED BY <3>2, <3>3
  <2>2. QED BY <1>1, <1>2, <2>1 DEF TypeOK, cVars
<1>4. PlaceInv' /\ KeepInv'
  BY EventsStay
<1>5. CycleInv'
  <2>1. lastID \in Nat /\ lastID <= Len(rows)
    BY DEF TypeOK
  <2>2. QED BY <1>1, <2>1 DEF CycleInv
<1>6. StopInv'
  BY DEF StopInv, cVars
<1>7. CountInv'
  <2>1. \A k, n : RowsOf(k, 0, n)' = RowsOf(k, 0, n')
    BY <1>1 DEF RowsOf
  <2>2. \A k \in Kinds : Counted(k)' = RowsOf(k, 0, lastID)
    <3> TAKE k \in Kinds
    <3>1. CASE agg' = "add" /\ k \notin todo'
      <4>1. readTo' = Len(rows) /\ ~(RowsOf(k, lastID, Len(rows)) > 0)
        BY <3>1
      <4>2. lastID \in Nat /\ lastID <= Len(rows)
        BY DEF TypeOK
      <4>3. RowsOf(k, 0, Len(rows)) = RowsOf(k, 0, lastID)
        <5>1. Len(rows) \in Nat
          BY <1>1 DEF TypeOK
        <5>2. /\ RowsOf(k, lastID, Len(rows)) \in Nat /\ RowsOf(k, 0, lastID) \in Nat
              /\ RowsOf(k, 0, Len(rows)) = RowsOf(k, 0, lastID) + RowsOf(k, lastID, Len(rows))
          BY <5>1, <4>2, RowsOfAdds
        <5>3. QED BY <4>1, <5>2
      <4>4. QED BY <3>1, <4>1, <4>3, <1>1 DEF Counted, RowsOf
    <3>2. CASE ~(agg' = "add" /\ k \notin todo')
      BY <3>2, <1>1 DEF Counted, RowsOf
    <3>3. QED BY <3>1, <3>2
  <2>3. \A k \in Kinds : Counted(k) = RowsOf(k, 0, lastID)
    BY DEF Counted
  <2>4. QED BY <1>1, <2>2, <2>3 DEF CountInv
<1>8. QED BY <1>3, <1>4, <1>5, <1>6, <1>7

LEMMA AddCountStep ==
  ASSUME IInv, AddCount
  PROVE  IInv'
<1> USE DEF IInv, AddCount, CycleEnd
<1>1. PICK k \in todo, done \in BOOLEAN, err \in BOOLEAN :
        /\ Outcome(done, err, Final)
        /\ counts' = IF done THEN [counts EXCEPT ![k] = @ + RowsOf(k, lastID, readTo)]
                     ELSE counts
        /\ IF err THEN CycleEnd ELSE todo' = todo \ {k} /\ UNCHANGED <<agg, readTo>>
        /\ suspect' = (suspect \/ err)
  OBVIOUS
<1>2. UNCHANGED <<rows, lastID, cache>> /\ lastID \in Nat /\ readTo \in Nat /\ lastID <= readTo
  BY DEF cVars, TypeOK, CycleInv
<1>3. k \in Kinds /\ counts \in [Kinds -> Nat]
  BY DEF TypeOK
<1>4. /\ RowsOf(k, lastID, readTo) \in Nat
      /\ RowsOf(k, 0, lastID) \in Nat
      /\ RowsOf(k, 0, readTo) = RowsOf(k, 0, lastID) + RowsOf(k, lastID, readTo)
  BY <1>2, RowsOfAdds
<1>5. counts' \in [Kinds -> Nat]
  <2>1. CASE done
    <3>1. counts' = [counts EXCEPT ![k] = counts[k] + RowsOf(k, lastID, readTo)]
      BY <1>1, <2>1
    <3>2. counts[k] + RowsOf(k, lastID, readTo) \in Nat
      BY <1>3, <1>4
    <3>3. QED BY <1>3, <3>1, <3>2
  <2>2. CASE ~done
    BY <1>1, <1>3, <2>2
  <2>3. QED BY <2>1, <2>2
<1>6. TypeOK'
  <2>1. faults' \in 0..MaxFaults
    BY <1>1, BoundsAssumption DEF Outcome, TypeOK
  <2>2. agg' \in {"start", "wait", "read", "add", "cache", "stopped"}
        /\ readTo' \in 0..Len(rows) /\ todo' \subseteq Kinds /\ suspect' \in BOOLEAN
    BY <1>1 DEF TypeOK
  <2>3. QED BY <1>5, <2>1, <2>2 DEF TypeOK, cVars
<1>7. PlaceInv' /\ KeepInv'
  BY EventsStay
<1>8. StopInv' /\ CycleInv'
  BY <1>1, <1>2 DEF StopInv, CycleInv, cVars
<1>9. CountInv'
  <2> SUFFICES ASSUME ~suspect', NEW m \in Kinds
               PROVE  counts'[m] = Counted(m)' /\ agg' = "add"
    BY DEF CountInv
  <2>1. ~suspect /\ ~err /\ done
    BY <1>1 DEF Outcome
  <2>2. agg' = "add" /\ todo' = todo \ {k} /\ readTo' = readTo
    BY <1>1, <2>1
  <2>3. counts[m] = Counted(m)
    BY <2>1 DEF CountInv
  <2>4. CASE m = k
    <3>1. counts'[k] = RowsOf(k, 0, lastID) + RowsOf(k, lastID, readTo)
      BY <1>1, <1>3, <2>1, <2>3, <2>4 DEF Counted
    <3>2. Counted(k)' = RowsOf(k, 0, readTo)
      BY <1>2, <2>2 DEF Counted, RowsOf
    <3>3. QED BY <1>4, <2>2, <2>4, <3>1, <3>2
  <2>5. CASE m # k
    <3>1. counts'[m] = counts[m]
      BY <1>1, <1>3, <2>5
    <3>2. Counted(m)' = Counted(m)
      BY <1>2, <2>2, <2>5 DEF Counted, RowsOf
    <3>3. QED BY <2>2, <2>3, <3>1, <3>2
  <2>6. QED BY <2>4, <2>5
<1>10. QED BY <1>6, <1>7, <1>8, <1>9

LEMMA AdvanceStep ==
  ASSUME IInv, Advance
  PROVE  IInv'
<1> USE DEF IInv, Advance
<1>1. UNCHANGED <<rows, counts, cache, suspect, todo, readTo>> /\ lastID' = readTo
      /\ readTo \in 0..Len(rows)
  BY DEF cVars, TypeOK
<1>2. TypeOK'
  BY <1>1 DEF TypeOK, cVars
<1>3. PlaceInv' /\ KeepInv'
  BY EventsStay
<1>4. StopInv' /\ CycleInv'
  BY <1>1 DEF StopInv, CycleInv, cVars
<1>5. CountInv'
  <2>1. \A k \in Kinds : Counted(k)' = Counted(k)
    BY <1>1 DEF Counted, RowsOf
  <2>2. QED BY <1>1, <2>1 DEF CountInv
<1>6. QED BY <1>2, <1>3, <1>4, <1>5

LEMMA RefreshCacheStep ==
  ASSUME IInv, RefreshCache
  PROVE  IInv'
<1> USE DEF IInv, RefreshCache, CycleEnd
<1>1. PICK done \in BOOLEAN, err \in BOOLEAN :
        /\ Outcome(done, err, Final)
        /\ cache' = IF done THEN counts ELSE cache
        /\ suspect' = (suspect \/ err)
  OBVIOUS
<1>2. UNCHANGED <<rows, lastID, counts>>
  BY DEF cVars
<1>3. TypeOK'
  <2>1. faults' \in 0..MaxFaults
    BY <1>1, BoundsAssumption DEF Outcome, TypeOK
  <2>2. cache' \in [Kinds -> Nat] /\ suspect' \in BOOLEAN
    BY <1>1 DEF TypeOK
  <2>3. QED BY <2>1, <2>2 DEF TypeOK, cVars
<1>4. PlaceInv' /\ KeepInv'
  BY EventsStay
<1>5. StopInv' /\ CycleInv'
  BY <1>2 DEF StopInv, CycleInv, cVars
<1>6. CountInv'
  <2> SUFFICES ASSUME ~suspect', NEW k \in Kinds
               PROVE  counts'[k] = Counted(k)' /\ cache'[k] = counts'[k]
    BY DEF CountInv
  <2>1. ~suspect /\ cache' = counts
    BY <1>1 DEF Outcome
  <2>2. Counted(k)' = Counted(k)
    BY <1>2 DEF Counted, RowsOf, CycleInv
  <2>3. QED BY <1>2, <2>1, <2>2 DEF CountInv
<1>7. QED BY <1>3, <1>4, <1>5, <1>6

-----------------------------------------------------------------------------
\* A step of the pruner leaves the events and the counts where they are.
LEMMA PrunerStep ==
  ASSUME IInv, PrunerNext
  PROVE  IInv'
<1> USE DEF IInv
<1>1. /\ UNCHANGED <<phase, ctxDone, emitted, ch, col, batch, rows, aVars, faults, restarts,
                     excused, suspect>>
      /\ pruner' \in {"run", "stopped"}
  BY DEF PrunerNext, FirstPrune, PrunerExit, MovePruner
<1>2. TypeOK'
  BY <1>1 DEF TypeOK, aVars
<1>3. PlaceInv' /\ KeepInv'
  BY <1>1 DEF PlaceInv, KeepInv, Apart
<1>4. StopInv' /\ CycleInv'
  BY <1>1 DEF StopInv, CycleInv, aVars
<1>5. CountInv'
  BY <1>1, CountsStand
<1>6. QED BY <1>2, <1>3, <1>4, <1>5

LEMMA ShutdownStep ==
  ASSUME IInv, Sigterm \/ StopStep
  PROVE  IInv'
<1> USE DEF IInv, Sigterm, StopStep
<1>1. TypeOK'
  <2>1. CASE Sigterm
    BY <2>1 DEF TypeOK, cVars, aVars
  <2>2. CASE StopStep
    BY <2>2 DEF TypeOK, cVars, aVars
  <2>3. QED BY <2>1, <2>2
<1>2. PlaceInv' /\ KeepInv'
  BY EventsStay
<1>3. StopInv'
  BY DEF StopInv, cVars, aVars
<1>4. CycleInv'
  BY DEF CycleInv, aVars
<1>5. CountInv'
  BY CountsStand DEF cVars
<1>6. QED BY <1>1, <1>2, <1>3, <1>4, <1>5

LEMMA CrashStep ==
  ASSUME IInv, Crash
  PROVE  IInv'
<1> USE EmptyFacts DEF IInv, Crash
<1>1. RangeOf(ch) \subseteq Events /\ RangeOf(batch) \subseteq Events /\ Len(rows) \in Nat
  BY DEF TypeOK, RangeOf
<1>2. ch' \in Seq(Events) /\ Len(ch') <= Buffer /\ batch' \in Seq(Events)
  BY BoundsAssumption
<1>3. TypeOK'
  BY <1>1, <1>2 DEF TypeOK
<1>4. PlaceInv'
  BY DEF PlaceInv, Apart
<1>5. StopInv' /\ CycleInv'
  BY DEF StopInv, CycleInv
<1>6. KeepInv'
  BY DEF KeepInv
<1>7. CountInv'
  BY DEF CountInv
<1>8. QED BY <1>3, <1>4, <1>5, <1>6, <1>7

LEMMA RestartStep ==
  ASSUME IInv, Restart
  PROVE  IInv'
<1> USE EmptyFacts DEF IInv, Restart
<1>1. ch' \in Seq(Events) /\ Len(ch') <= Buffer /\ batch' \in Seq(Events) /\ Len(rows) \in Nat
  BY BoundsAssumption DEF TypeOK
<1>2. restarts' \in 0..MaxRestarts
  BY BoundsAssumption DEF TypeOK
<1>3. TypeOK'
  <2>1. 0 \in 0..Len(rows)
    BY <1>1
  <2>2. QED BY <1>1, <1>2, <2>1 DEF TypeOK
<1>4. PlaceInv'
  BY DEF PlaceInv, Apart
<1>5. StopInv' /\ CycleInv'
  BY DEF StopInv, CycleInv
<1>6. KeepInv'
  BY DEF KeepInv, StopInv
<1>7. CountInv'
  BY DEF CountInv
<1>8. QED BY <1>3, <1>4, <1>5, <1>6, <1>7

LEMMA StutterStep ==
  ASSUME IInv, UNCHANGED vars
  PROVE  IInv'
<1> USE DEF IInv, vars
<1>1. TypeOK'
  BY DEF TypeOK, cVars, aVars
<1>2. PlaceInv' /\ KeepInv'
  BY EventsStay
<1>3. StopInv'
  BY DEF StopInv, cVars, aVars
<1>4. CycleInv'
  BY DEF CycleInv, aVars
<1>5. CountInv'
  BY CountsStand DEF cVars
<1>6. QED BY <1>1, <1>2, <1>3, <1>4, <1>5

LEMMA StepInv == IInv /\ [Next]_vars => IInv'
<1> SUFFICES ASSUME IInv, [Next]_vars PROVE IInv'
  OBVIOUS
<1>1. CASE \E e \in Events : Emit(e)
  BY <1>1, EmitStep
<1>2. CASE CollectorNext
  BY <1>2, DrainStep, WriteBatchStep DEF CollectorNext
<1>3. CASE AggregatorNext
  BY <1>3, StartCycleStep, ReadTailStep, AddCountStep, AdvanceStep, RefreshCacheStep
     DEF AggregatorNext
<1>4. CASE Sigterm \/ StopStep \/ Crash \/ Restart
  BY <1>4, ShutdownStep, CrashStep, RestartStep
<1>5. CASE PrunerNext
  BY <1>5, PrunerStep
<1>6. CASE UNCHANGED vars
  BY <1>6, StutterStep
<1>7. QED BY <1>1, <1>2, <1>3, <1>4, <1>5, <1>6 DEF Next

\* Where an event can be, what is still promised, and what the counts show.
THEOREM Inductive == Spec => []IInv
BY InitInv, StepInv, PTL DEF Spec

\* No event becomes two rows of the table events, however writes end and however
\* often the daemon is restarted (Collector.flush, collector.go).
THEOREM NoDuplicateRows == Spec => []StoredOnce
<1>1. IInv => StoredOnce
  BY DEF IInv, PlaceInv, Distinct, StoredOnce
<1>2. QED BY Inductive, <1>1, PTL

\* After a shutdown every event is stored that was accepted before the signal and
\* whose batch did not fail (Collector.Stop before the databases close, cmd/server.go).
THEOREM NothingPromisedIsLost == Spec => []ShutdownKeepsEvents
<1>1. IInv => ShutdownKeepsEvents
  BY EmptyFacts DEF IInv, KeepInv, StopInv, ShutdownKeepsEvents, Stored
<1>2. QED BY Inductive, <1>1, PTL

\* Unless a call has failed or the process was restarted, the daily counts are those of
\* the rows up to the cursor (Aggregator.tailAndRollup, aggregator.go).
THEOREM CountsAreRight == Spec => []CountsMatchCursor
<1>1. IInv => CountsMatchCursor
  BY DEF IInv, CountInv, Counted, CountsMatchCursor
<1>2. QED BY Inductive, <1>1, PTL
=============================================================================
