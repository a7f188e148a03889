-------------------------- MODULE AgentKeysProofs ---------------------------
(***************************************************************************)
(* What the key store, the installers and RequireAgent guarantee for all   *)
(* sets of keys, providers and requests, and any number of operations,     *)
(* failing writes and killed processes.                                    *)
(***************************************************************************)
EXTENDS AgentKeys, FiniteSetTheorems, TLAPS

Busy(a) == op[a] # Idle
Installing == {"install", "repair"}

\* What each step of an operation o works on; u are the identifiers given out.
Fits(o, u) ==
  /\ o.task \in {"install", "uninstall", "repair"} => o.for \in Providers
  /\ o.task = "revoke" => o.for \in Keys
  /\ o.at \in {"issue", "record"} => o.task \in Installing \cup {"add"}
  /\ o.at \in {"write", "undo", "save"} => o.task \in Installing
  /\ o.at \in {"strip", "forget"} => o.task = "uninstall"
  /\ o.at \in {"record", "write", "undo", "save"} => o.key \in u
  /\ o.at # "begin" /\ o.task \in Installing =>
       o.plan \in [DOMAIN FilesOf(o.for) -> Content]
  /\ o.at \in {"begin", "issue", "record"} => o.n = 1
  /\ o.at \in {"write", "strip"} => o.n \in DOMAIN FilesOf(o.for)

OpInv == \A a \in Actors : Busy(a) => Fits(op[a], used)

\* A key that some process took for revoked has no secret, and never gets one again.
KeyInv ==
  /\ \A w \in Processes, k \in Keys :
       /\ mem[w][k] = "revoked" => k \notin secrets
       /\ mem[w][k] # "absent" => k \in used
  /\ \A k \in Keys : /\ file[k] = "revoked" => k \notin secrets
                     /\ file[k] # "absent" => k \in used
  /\ acked \cap secrets = {} /\ acked \subseteq used
  /\ \A p \in Providers : receipt[p].key \in used \cup {NoKey}

\* The cache holds the requests recorded last, as many as it has room for, so that between
\* two records of one signed request there are at least as many of others.
NonceInv ==
  /\ Len(nonces) <= NonceCap /\ Len(nonces) <= Len(recorded)
  /\ Len(nonces) < NonceCap => Len(nonces) = Len(recorded)
  /\ \A n \in 1 .. Len(nonces) :
       nonces[n] = Of[recorded[(Len(recorded) - Len(nonces)) + n]]
  /\ \A i, j \in 1 .. Len(recorded) :
       i < j /\ Of[recorded[i]] = Of[recorded[j]] => j - i > NonceCap

\* A late request cannot be past the signature; what was handled is recorded.
RequestInv ==
  /\ \A r \in Requests : req[r].late => FirstKey \in acked /\ req[r].at \notin {"signed", "handled"}
  /\ \A r \in Requests : req[r].at = "handled" => \E i \in 1 .. Len(recorded) : recorded[i] = r
  /\ NonceInv

\* The process knows the entries of the keys that have a secret.
Agrees(w) == \A k \in secrets : mem[w][k] = file[k]
Receipts == {receipt[p].key : p \in Providers}
\* The keys that an install has written to the file and not yet to a receipt.
Pending == {op[a].key : a \in {b \in Actors : Busy(b) /\ op[b].at \in {"write", "undo", "save"}}}

\* What holds of the one operation that is at work while operations do not overlap.
Work(a) ==
  /\ Agrees(ProcessOf(a))
  /\ op[a].at = "record" => op[a].key \notin Receipts
  /\ op[a].at \in {"strip", "forget"} => receipt[op[a].for].key \notin Usable
  /\ /\ op[a].at \in {"issue", "record", "write", "undo", "save"} /\ op[a].task \in Installing
     /\ receipt[op[a].for].key \in Usable
     => receipt[op[a].for].key \in leaked
  /\ op[a].at \in {"write", "save"} =>
       \A i \in DOMAIN FilesOf(op[a].for) :
         op[a].at = "save" \/ i < op[a].n => disk[op[a].for][i].block # NoKey

\* A provider whose receipt has a usable key shows as installed.
Shown == \A p \in Providers : receipt[p].key \in Usable => ProbeInstalled(p)
\* Whose key each usable key is.
Owned == Usable \subseteq Receipts \cup manual \cup leaked \cup Pending

SerialInv ==
  serial => /\ Shown /\ Owned
            /\ \A a, b \in Actors : Busy(a) /\ Busy(b) => a = b
            /\ \A a \in Actors : Busy(a) => Work(a)

IInv == TypeOK /\ OpInv /\ KeyInv /\ RequestInv /\ SerialInv

-----------------------------------------------------------------------------
(* Lemmas about the providers' files and about an operation that moves.    *)

LEMMA FilesAre ==
  ASSUME NEW p \in Providers
  PROVE  /\ Len(FilesOf(p)) \in {1, 2}
         /\ DOMAIN FilesOf(p) = 1..Len(FilesOf(p))
<1>1. /\ Len(ClaudeFiles) = 2 /\ DOMAIN ClaudeFiles = 1..2
      /\ Len(CodexFiles) = 2 /\ DOMAIN CodexFiles = 1..2
      /\ Len(GeminiFiles) = 2 /\ DOMAIN GeminiFiles = 1..2
      /\ Len(CopilotFiles) = 1 /\ DOMAIN CopilotFiles = 1..1
  BY DEF ClaudeFiles, CodexFiles, GeminiFiles, CopilotFiles
<1>2. QED BY <1>1, KeysAssumption DEF FilesOf

\* A provider whose files all have something of Vedox shows as installed, and goes on
\* to while nothing is taken away.
LEMMA ProbeHolds ==
  ASSUME NEW p \in Providers, \A i \in DOMAIN FilesOf(p) : disk[p][i].block # NoKey
  PROVE  ProbeInstalled(p)
<1>1. 1 \in DOMAIN FilesOf(p)
  BY FilesAre
<1>2. disk[p][1].block # NoKey
  BY <1>1
<1>3. QED BY <1>2, KeysAssumption
             DEF ProbeInstalled, ClaudeProbe, CodexProbe, GeminiProbe, CopilotProbe

LEMMA ProbeStays ==
  ASSUME NEW p \in Providers, ProbeInstalled(p),
         \A i \in DOMAIN FilesOf(p) : disk[p][i].block # NoKey => disk'[p][i].block # NoKey
  PROVE  ProbeInstalled(p)'
<1>1. CASE p = "codex"
  <2>1. 1 \in DOMAIN FilesOf(p) /\ 2 \in DOMAIN FilesOf(p)
    BY <1>1 DEF FilesOf, CodexFiles
  <2>2. QED BY <1>1, <2>1 DEF ProbeInstalled, CodexProbe
<1>2. CASE p # "codex"
  <2>1. 1 \in DOMAIN FilesOf(p)
    BY FilesAre
  <2>2. QED BY <1>2, <2>1, KeysAssumption
            DEF ProbeInstalled, ClaudeProbe, GeminiProbe, CopilotProbe
<1>3. QED BY <1>1, <1>2

LEMMA OpTyped ==
  ASSUME TypeOK, NEW a \in Actors, Busy(a)
  PROVE  op[a] \in Operation
BY DEF TypeOK, Busy

LEMMA OpBecomes ==
  ASSUME TypeOK, NEW a \in Actors, NEW o \in Operation, op' = [op EXCEPT ![a] = o]
  PROVE  /\ op' \in [Actors -> {Idle} \cup Operation]
         /\ op'[a] = o /\ Busy(a)'
         /\ \A b \in Actors \ {a} : op'[b] = op[b]
<1>1. o # Idle
  BY DEF Operation, Idle, Tasks
<1>2. QED BY <1>1 DEF TypeOK, Busy

LEMMA GotoFacts ==
  ASSUME TypeOK, NEW a \in Actors, Busy(a), NEW l, Goto(a, l),
         l \in {"begin", "issue", "record", "write", "undo", "save", "strip", "forget"}
  PROVE  /\ op' \in [Actors -> {Idle} \cup Operation]
         /\ op'[a].at = l /\ op'[a].task = op[a].task /\ op'[a].for = op[a].for
         /\ op'[a].key = op[a].key /\ op'[a].plan = op[a].plan /\ op'[a].n = op[a].n
         /\ Busy(a)' /\ \A b \in Actors \ {a} : op'[b] = op[b]
<1> DEFINE o == [op[a] EXCEPT !.at = l]
<1>1. op[a] \in Operation
  BY OpTyped
<1>2. /\ o \in Operation /\ o.at = l /\ o.task = op[a].task /\ o.for = op[a].for
      /\ o.key = op[a].key /\ o.plan = op[a].plan /\ o.n = op[a].n
  BY <1>1 DEF Operation
<1>3. op' = [op EXCEPT ![a] = o]
  BY DEF Goto
<1> HIDE DEF o
<1>4. QED BY <1>2, <1>3, OpBecomes

LEMMA FinishFacts ==
  ASSUME TypeOK, NEW a \in Actors, Finish(a)
  PROVE  /\ op' \in [Actors -> {Idle} \cup Operation]
         /\ ~Busy(a)' /\ \A b \in Actors \ {a} : op'[b] = op[b]
BY DEF TypeOK, Finish, Busy

LEMMA FaultFacts ==
  ASSUME TypeOK, Fault \/ NoFault
  PROVE  faults' \in 0..MaxFaults
BY KeysAssumption DEF TypeOK, Fault, NoFault

\* The other operations stay as they are, so only the one at work has to be looked at.
LEMMA OpInvStep ==
  ASSUME OpInv, NEW a \in Actors, \A b \in Actors \ {a} : op'[b] = op[b],
         used \subseteq used', Busy(a)' => Fits(op'[a], used')
  PROVE  OpInv'
<1>1. \A o : Fits(o, used) => Fits(o, used')
  BY DEF Fits
<1>2. QED BY <1>1 DEF OpInv, Busy

LEMMA SerialStep ==
  ASSUME SerialInv, NEW a \in Actors, Busy(a), \A b \in Actors \ {a} : op'[b] = op[b],
         serial' = serial,
         serial => Shown' /\ Owned' /\ (Busy(a)' => Work(a)')
  PROVE  SerialInv'
<1> SUFFICES ASSUME serial PROVE SerialInv'
  BY DEF SerialInv
<1>1. \A b \in Actors : Busy(b)' => b = a
  BY DEF SerialInv, Busy
<1>2. QED BY <1>1 DEF SerialInv

-----------------------------------------------------------------------------
(* Steps that leave most of the state alone.                               *)

\* The keys, the receipts and the history are as they were.
KeysStay == UNCHANGED << keyVars, receipt, acked, manual, leaked >>

LEMMA KeysStayFacts ==
  ASSUME KeysStay
  PROVE  /\ Usable' = Usable /\ Receipts' = Receipts
         /\ UNCHANGED << file, mem, secrets, used, receipt, acked, manual, leaked >>
         /\ \A w : Agrees(w)' = Agrees(w)
         /\ KeyInv => KeyInv'
<1>1. UNCHANGED << file, mem, secrets, used, receipt, acked, manual, leaked >>
  BY DEF KeysStay, keyVars
<1>2. Usable' = Usable /\ Receipts' = Receipts /\ \A w : Agrees(w)' = Agrees(w)
  BY <1>1 DEF Usable, Receipts, Agrees
<1>3. KeyInv => KeyInv'
  BY <1>1 DEF KeyInv
<1>4. QED BY <1>1, <1>2, <1>3

\* Requests that do not move go on being late and recorded.
LEMMA RequestsStay ==
  ASSUME RequestInv, UNCHANGED reqVars, acked \subseteq acked'
  PROVE  RequestInv'
<1>1. req' = req /\ nonces' = nonces /\ recorded' = recorded
  BY DEF reqVars
<1>2. \A r : req'[r] = req[r]
  BY <1>1
<1>3. QED BY <1>1, <1>2 DEF RequestInv, NonceInv

\* A request moves: nothing else does.
LEMMA RequestMoves ==
  ASSUME IInv, UNCHANGED << keyVars, agentVars, op, history >>
  PROVE  OpInv' /\ KeyInv' /\ SerialInv'
<1>1. UNCHANGED << used, op, receipt, disk, manual, leaked, acked, serial >> /\ KeysStay
  BY DEF keyVars, agentVars, history, KeysStay
<1>2. OpInv'
  BY <1>1 DEF IInv, OpInv, Busy
<1>3. /\ Usable' = Usable /\ Receipts' = Receipts /\ Pending' = Pending
      /\ \A w : Agrees(w)' = Agrees(w)
      /\ \A p : ProbeInstalled(p)' = ProbeInstalled(p)
      /\ \A a : Busy(a)' = Busy(a)
  BY <1>1, KeysStayFacts
     DEF Pending, Busy, ProbeInstalled, ClaudeProbe, CodexProbe, GeminiProbe, CopilotProbe
<1>4. \A a : Work(a)' = Work(a)
  BY <1>1, <1>3 DEF Work
<1>5. SerialInv'
  BY <1>1, <1>3, <1>4 DEF IInv, SerialInv, Shown, Owned
<1>6. QED BY <1>1, <1>2, <1>5, KeysStayFacts DEF IInv

LEMMA LookupKeyStep ==
  ASSUME IInv, NEW r \in Requests, LookupKey(r)
  PROVE  IInv'
<1>1. OpInv' /\ KeyInv' /\ SerialInv'
  BY RequestMoves DEF LookupKey
<1>2. UNCHANGED << keyVars, agentVars, op, nonces, recorded, faults, history >>
  BY DEF LookupKey
<1>3. /\ req' \in [Requests -> [at : {"new", "known", "signed", "handled", "refused"},
                               late : BOOLEAN]]
      /\ req'[r].at \in {"known", "refused"} /\ req'[r].late = (FirstKey \in acked)
      /\ \A s \in Requests \ {r} : req'[s] = req[s]
  BY DEF LookupKey, IInv, TypeOK
<1>4. started' \in 0..MaxStarted
  BY KeysAssumption DEF LookupKey, IInv, TypeOK
<1>5. TypeOK'
  BY <1>2, <1>3, <1>4 DEF IInv, TypeOK, keyVars, agentVars, history
<1>6. RequestInv'
  BY <1>2, <1>3 DEF IInv, RequestInv, NonceInv, history
<1>7. QED BY <1>1, <1>5, <1>6 DEF IInv

LEMMA ReqStepFacts ==
  ASSUME TypeOK, NEW r \in Requests, NEW l, NEW m \in {"signed", "handled", "refused"},
         ReqStep(r, l, m)
  PROVE  /\ req' \in [Requests -> [at : {"new", "known", "signed", "handled", "refused"},
                                  late : BOOLEAN]]
         /\ req[r].at = l /\ req'[r].at = m /\ req'[r].late = req[r].late
         /\ \A s \in Requests \ {r} : req'[s] = req[s]
BY DEF TypeOK, ReqStep

LEMMA CheckSignatureStep ==
  ASSUME IInv, NEW r \in Requests, CheckSignature(r)
  PROVE  IInv'
<1>1. UNCHANGED << keyVars, agentVars, op, nonces, recorded, started, faults, history >>
  BY DEF CheckSignature
<1>2. OpInv' /\ KeyInv' /\ SerialInv'
  BY <1>1, RequestMoves
<1>3. PICK m \in {"signed", "refused"} :
        ReqStep(r, "known", m) /\ (m = "signed" => FirstKey \in secrets)
  BY DEF CheckSignature
<1>4. /\ req' \in [Requests -> [at : {"new", "known", "signed", "handled", "refused"},
                               late : BOOLEAN]]
      /\ req'[r].at = m /\ req'[r].late = req[r].late
      /\ \A s \in Requests \ {r} : req'[s] = req[s]
  BY <1>3, ReqStepFacts DEF IInv
<1>5. TypeOK'
  BY <1>1, <1>4 DEF IInv, TypeOK, keyVars, agentVars, history
<1>6. m = "signed" => FirstKey \notin acked
  BY <1>3 DEF IInv, KeyInv
<1>7. RequestInv'
  BY <1>1, <1>4, <1>6 DEF IInv, RequestInv, NonceInv, history
<1>8. QED BY <1>2, <1>5, <1>7 DEF IInv

\* Add appends to the cache and lets go of its oldest entry when it is full.
LEMMA RecordFacts ==
  ASSUME TypeOK, NonceInv, NEW r \in Requests, Of[r] \notin Range(nonces), Record(r)
  PROVE  /\ nonces' \in Seq({Of[q] : q \in Requests}) /\ recorded' \in Seq(Requests)
         /\ Len(recorded') = Len(recorded) + 1 /\ recorded'[Len(recorded) + 1] = r
         /\ \A i \in 1 .. Len(recorded) : recorded'[i] = recorded[i]
         /\ NonceInv'
<1> DEFINE Signed == {Of[q] : q \in Requests}
           all == Append(nonces, Of[r])
<1>1. /\ nonces \in Seq(Signed) /\ recorded \in Seq(Requests) /\ Of[r] \in Signed
      /\ Len(nonces) \in Nat /\ Len(recorded) \in Nat /\ NonceCap \in Nat \ {0}
  BY KeysAssumption DEF TypeOK
<1>2. /\ recorded' \in Seq(Requests) /\ Len(recorded') = Len(recorded) + 1
      /\ recorded'[Len(recorded) + 1] = r
      /\ \A i \in 1 .. Len(recorded) : recorded'[i] = recorded[i]
  BY <1>1 DEF Record
<1>3. /\ all \in Seq(Signed) /\ Len(all) = Len(nonces) + 1 /\ all[Len(nonces) + 1] = Of[r]
      /\ \A n \in 1 .. Len(nonces) : all[n] = nonces[n]
  BY <1>1
<1>4. nonces' = IF Len(nonces) < NonceCap THEN all ELSE Tail(all)
  BY DEF Record
<1> HIDE DEF Signed, all
<1>5. \A n \in 1 .. Len(all) : all[n] = Of[recorded'[(Len(recorded) - Len(nonces)) + n]]
  <2> TAKE n \in 1 .. Len(all)
  <2>1. CASE n = Len(nonces) + 1
    <3>1. (Len(recorded) - Len(nonces)) + n = Len(recorded) + 1
      BY <1>1, <2>1
    <3>2. QED BY <1>2, <1>3, <2>1, <3>1
  <2>2. CASE n # Len(nonces) + 1
    <3>1. n \in 1 .. Len(nonces)
      BY <1>1, <1>3, <2>2
    <3>2. (Len(recorded) - Len(nonces)) + n \in 1 .. Len(recorded)
      BY <1>1, <3>1 DEF NonceInv
    <3>3. QED BY <1>2, <1>3, <3>1, <3>2 DEF NonceInv
  <2>3. QED BY <2>1, <2>2
<1>6. /\ nonces' \in Seq(Signed) /\ Len(nonces') <= NonceCap /\ Len(nonces') <= Len(recorded')
      /\ Len(nonces') < NonceCap => Len(nonces') = Len(recorded')
      /\ \A n \in 1 .. Len(nonces') :
           nonces'[n] = Of[recorded'[(Len(recorded') - Len(nonces')) + n]]
  <2>1. CASE Len(nonces) < NonceCap
    <3>1. nonces' = all /\ Len(recorded') - Len(nonces') = Len(recorded) - Len(nonces)
      BY <1>1, <1>2, <1>3, <1>4, <2>1
    <3>2. Len(nonces') <= NonceCap /\ Len(nonces) = Len(recorded)
      BY <1>1, <1>3, <2>1, <3>1 DEF NonceInv
    <3>3. QED BY <1>1, <1>2, <1>3, <1>5, <3>1, <3>2
  <2>2. CASE ~(Len(nonces) < NonceCap)
    <3>1. nonces' = Tail(all) /\ Len(nonces) = NonceCap
      BY <1>1, <1>4, <2>2 DEF NonceInv
    <3>2. /\ nonces' \in Seq(Signed) /\ Len(nonces') = Len(nonces)
          /\ \A n \in 1 .. Len(nonces') : nonces'[n] = all[n + 1]
      BY <1>1, <1>3, <3>1
    <3>3. ASSUME NEW n \in 1 .. Len(nonces')
          PROVE  nonces'[n] = Of[recorded'[(Len(recorded') - Len(nonces')) + n]]
      <4>1. /\ n + 1 \in 1 .. Len(all)
            /\ (Len(recorded) - Len(nonces)) + (n + 1) = (Len(recorded') - Len(nonces')) + n
        BY <1>1, <1>2, <1>3, <3>2
      <4>2. all[n + 1] = Of[recorded'[(Len(recorded) - Len(nonces)) + (n + 1)]]
        BY <1>5, <4>1
      <4>3. QED BY <3>2, <4>1, <4>2
    <3>4. Len(nonces) <= Len(recorded)
      BY DEF NonceInv
    <3>5. QED BY <1>1, <1>2, <3>1, <3>2, <3>3, <3>4
  <2>3. QED BY <2>1, <2>2
<1>7. ASSUME NEW i \in 1 .. Len(recorded'), NEW j \in 1 .. Len(recorded'), i < j,
             Of[recorded'[i]] = Of[recorded'[j]]
      PROVE  j - i > NonceCap
  <2>1. i \in 1 .. Len(recorded) /\ recorded'[i] = recorded[i]
    BY <1>1, <1>2, <1>7
  <2>2. CASE j \in 1 .. Len(recorded)
    BY <1>2, <1>7, <2>1, <2>2 DEF NonceInv
  <2>3. CASE j = Len(recorded) + 1
    <3> SUFFICES ASSUME ~(j - i > NonceCap) PROVE FALSE
      OBVIOUS
    <3> DEFINE n == i - (Len(recorded) - Len(nonces))
    <3>1. n \in 1 .. Len(nonces) /\ (Len(recorded) - Len(nonces)) + n = i
      BY <1>1, <2>1, <2>3 DEF NonceInv
    <3>2. nonces[n] = Of[recorded[i]]
      BY <3>1 DEF NonceInv
    <3>3. nonces[n] \in Range(nonces)
      BY <1>1, <3>1 DEF Range
    <3>4. QED BY <1>2, <1>7, <2>1, <2>3, <3>2, <3>3
  <2>4. QED BY <1>1, <1>2, <2>2, <2>3
<1>8. QED BY <1>2, <1>6, <1>7 DEF NonceInv, Signed

LEMMA CheckAndRecordStep ==
  ASSUME IInv, NEW r \in Requests, CheckAndRecord(r)
  PROVE  IInv'
<1>1. UNCHANGED << keyVars, agentVars, op, started, faults, history >>
  BY DEF CheckAndRecord
<1>2. OpInv' /\ KeyInv' /\ SerialInv'
  BY <1>1, RequestMoves
<1>3. PICK m \in {"handled", "refused"} :
        /\ ReqStep(r, "signed", m)
        /\ \/ Of[r] \notin Range(nonces) /\ Record(r)
           \/ m = "refused" /\ UNCHANGED << nonces, recorded >>
  BY DEF CheckAndRecord
<1>4. /\ req' \in [Requests -> [at : {"new", "known", "signed", "handled", "refused"},
                               late : BOOLEAN]]
      /\ req[r].at = "signed" /\ req'[r].at = m /\ req'[r].late = req[r].late
      /\ \A s \in Requests \ {r} : req'[s] = req[s]
  BY <1>3, ReqStepFacts DEF IInv
<1>5. /\ nonces' \in Seq({Of[q] : q \in Requests}) /\ recorded' \in Seq(Requests) /\ NonceInv'
      /\ \A i \in 1 .. Len(recorded) : recorded'[i] = recorded[i]
      /\ Len(recorded) <= Len(recorded') /\ Len(recorded) \in Nat /\ Len(recorded') \in Nat
      /\ m = "handled" => \E i \in 1 .. Len(recorded') : recorded'[i] = r
  <2>1. /\ nonces \in Seq({Of[q] : q \in Requests}) /\ recorded \in Seq(Requests) /\ NonceInv
        /\ Len(recorded) \in Nat /\ TypeOK
    BY DEF IInv, TypeOK, RequestInv
  <2>2. CASE Of[r] \notin Range(nonces) /\ Record(r)
    <3>1. /\ nonces' \in Seq({Of[q] : q \in Requests}) /\ recorded' \in Seq(Requests) /\ NonceInv'
          /\ Len(recorded') = Len(recorded) + 1 /\ recorded'[Len(recorded) + 1] = r
          /\ \A i \in 1 .. Len(recorded) : recorded'[i] = recorded[i]
      BY <2>1, <2>2, RecordFacts, Zenon
    <3>2. Len(recorded') \in Nat /\ Len(recorded) <= Len(recorded')
          /\ Len(recorded) + 1 \in 1 .. Len(recorded')
      BY <2>1, <3>1
    <3>3. \E i \in 1 .. Len(recorded') : recorded'[i] = r
      BY <3>1, <3>2, Zenon
    <3>4. QED BY <2>1, <3>1, <3>2, <3>3
  <2>3. CASE m = "refused" /\ UNCHANGED << nonces, recorded >>
    BY <2>1, <2>3 DEF NonceInv
  <2>4. QED BY <1>3, <2>2, <2>3
<1>6. TypeOK'
  BY <1>1, <1>4, <1>5 DEF IInv, TypeOK, keyVars, agentVars, history
<1>7. RequestInv'
  <2>1. ASSUME NEW s \in Requests, req'[s].at = "handled"
        PROVE  \E i \in 1 .. Len(recorded') : recorded'[i] = s
    <3>1. CASE s = r
      BY <1>4, <1>5, <2>1, <3>1
    <3>2. CASE s # r
      <4>1. PICK i \in 1 .. Len(recorded) : recorded[i] = s
        BY <1>4, <2>1, <3>2 DEF IInv, RequestInv
      <4>2. i \in 1 .. Len(recorded') /\ recorded'[i] = s
        BY <1>5, <4>1
      <4>3. QED BY <4>2
    <3>3. QED BY <3>1, <3>2
  <2>2. \A s \in Requests :
          req'[s].late => FirstKey \in acked' /\ req'[s].at \notin {"signed", "handled"}
    BY <1>1, <1>4 DEF IInv, RequestInv, history
  <2>3. QED BY <1>5, <2>1, <2>2 DEF RequestInv
<1>8. QED BY <1>2, <1>6, <1>7 DEF IInv

-----------------------------------------------------------------------------
(* The key store.                                                          *)

Entries == [Keys -> Entry]
KeyTypes ==
  /\ file \in Entries /\ mem \in [Processes -> Entries]
  /\ secrets \subseteq used /\ used \subseteq Keys /\ acked \subseteq Keys

\* A revocation takes secrets away and, when it is reported as done, this one; no key
\* becomes usable by it that the process took for unusable.
LEMMA RevokeFacts ==
  ASSUME TypeOK, KeyInv, NEW w \in Processes, NEW k \in Keys, NEW ok \in BOOLEAN,
         RevokeKey(w, k, ok), UNCHANGED << used, receipt >>
  PROVE  /\ KeyTypes' /\ KeyInv' /\ faults' \in 0..MaxFaults
         /\ acked \subseteq acked' /\ (ok => k \notin secrets')
         /\ Agrees(w) => Usable' \subseteq Usable /\ Agrees(w)'
<1> DEFINE map == [mem[w] EXCEPT ![k] = "revoked"]
<1>1. mem[w] \in Entries /\ map \in Entries /\ KeyTypes /\ map[k] = "revoked"
      /\ \A x \in Keys \ {k} : map[x] = mem[w][x]
  BY DEF TypeOK, KeyTypes, Entries, Entry
<1>2. faults' \in 0..MaxFaults
  BY FaultFacts DEF RevokeKey
<1>3. CASE UNCHANGED << file, mem, secrets, acked >> /\ ~ok
  BY <1>1, <1>2, <1>3 DEF KeyTypes, KeyInv, Agrees, Usable
<1>4. CASE RevokeDone(w, k) /\ ok /\ acked' = acked \cup {k} /\ UNCHANGED << file, mem, secrets >>
  <2>1. k \in used /\ k \notin secrets
    BY <1>4 DEF RevokeDone, KeyInv
  <2>2. QED BY <1>1, <1>2, <1>4, <2>1 DEF KeyTypes, KeyInv, Agrees, Usable
<1>5. CASE /\ ok /\ mem[w][k] = "live"
           /\ secrets' = secrets \ {k} /\ acked' = acked \cup {k}
           /\ WriteLocked(w, map)
  <2>1. /\ file' = map /\ mem' = [mem EXCEPT ![w] = map]
        /\ mem'[w] = map /\ \A v \in Processes \ {w} : mem'[v] = mem[v]
    BY <1>1, <1>5 DEF WriteLocked, KeyTypes
  <2>2. k \in used
    BY <1>5 DEF KeyInv
  <2>3. KeyTypes'
    BY <1>1, <1>5, <2>1 DEF KeyTypes
  <2>4. KeyInv'
    BY <1>1, <1>5, <2>1, <2>2 DEF KeyInv
  <2>5. Agrees(w) => Usable' \subseteq Usable /\ Agrees(w)'
    BY <1>1, <1>5, <2>1 DEF Agrees, Usable, KeyTypes
  <2>6. QED BY <1>2, <1>5, <2>3, <2>4, <2>5
<1>6. CASE /\ ~ok /\ mem[w][k] = "live"
           /\ secrets' = secrets \ {k}
           /\ mem' = [mem EXCEPT ![w][k] = "revoked"]
           /\ UNCHANGED << file, acked >>
  <2>1. /\ mem' = [mem EXCEPT ![w] = map]
        /\ mem'[w] = map /\ \A v \in Processes \ {w} : mem'[v] = mem[v]
    BY <1>1, <1>6 DEF KeyTypes
  <2>2. k \in used
    BY <1>6 DEF KeyInv
  <2>3. KeyTypes'
    BY <1>1, <1>6, <2>1 DEF KeyTypes
  <2>4. KeyInv'
    BY <1>1, <1>6, <2>1, <2>2 DEF KeyInv
  <2>5. Agrees(w) => Usable' \subseteq Usable /\ Agrees(w)'
    BY <1>1, <1>6, <2>1 DEF Agrees, Usable, KeyTypes
  <2>6. QED BY <1>2, <1>6, <2>3, <2>4, <2>5
<1>7. QED BY <1>3, <1>4, <1>5, <1>6 DEF RevokeKey

\* The rest of the state has its type when these parts have theirs.
LEMMA TypeStep ==
  ASSUME TypeOK, KeyTypes', op' \in [Actors -> {Idle} \cup Operation],
         faults' \in 0..MaxFaults, manual' \subseteq Keys, leaked' \subseteq Keys,
         UNCHANGED << agentVars, reqVars, started, serial >>
  PROVE  TypeOK'
BY DEF TypeOK, KeyTypes, Entries, agentVars, reqVars

LEMMA SetSecretStep ==
  ASSUME IInv, NEW a \in Actors, SetSecret(a)
  PROVE  IInv'
<1> USE DEF IInv
<1>1. Busy(a) /\ op[a].at = "issue" /\ op[a] \in Operation /\ Fits(op[a], used)
  BY OpTyped DEF SetSecret, Busy, OpInv
<1>2. UNCHANGED << file, mem, receipt, disk, reqVars, started, acked, manual, leaked, serial >>
  BY DEF SetSecret, agentVars, history
<1>3. CASE \E k \in Keys \ used :
             /\ used' = used \cup {k} /\ secrets' = secrets \cup {k}
             /\ op' = [op EXCEPT ![a].at = "record", ![a].key = k]
             /\ NoFault
  <2>1. PICK k \in Keys \ used :
             /\ used' = used \cup {k} /\ secrets' = secrets \cup {k}
             /\ op' = [op EXCEPT ![a].at = "record", ![a].key = k]
             /\ NoFault
    BY <1>3
  <2> DEFINE o == [op[a] EXCEPT !.at = "record", !.key = k]
  <2>2. /\ o \in Operation /\ o.at = "record" /\ o.key = k /\ o.task = op[a].task
        /\ o.for = op[a].for /\ o.plan = op[a].plan /\ o.n = op[a].n
    BY <1>1 DEF Operation
  <2>3. op' = [op EXCEPT ![a] = o]
    BY <2>1
  <2> HIDE DEF o
  <2>4. /\ op' \in [Actors -> {Idle} \cup Operation]
        /\ op'[a] = o /\ Busy(a)' /\ \A b \in Actors \ {a} : op'[b] = op[b]
    BY <2>2, <2>3, OpBecomes
  <2>5. KeyTypes'
    BY <1>2, <2>1 DEF TypeOK, KeyTypes, Entries
  <2>6. TypeOK'
    BY <1>2, <2>1, <2>4, <2>5, FaultFacts, TypeStep DEF TypeOK, agentVars
  <2>7. OpInv'
    <3>1. Fits(o, used')
      BY <1>1, <2>1, <2>2 DEF Fits
    <3>2. QED BY <2>1, <2>4, <3>1, OpInvStep
  <2>8. KeyInv'
    BY <1>2, <2>1 DEF KeyInv
  <2>9. RequestInv'
    BY <1>2, RequestsStay
  <2>10. ASSUME serial
         PROVE  Shown' /\ Owned' /\ Work(a)'
    <3>1. Shown /\ Owned /\ Work(a) /\ \A b \in Actors : Busy(b) => b = a
      BY <2>10, <1>1 DEF SerialInv
    <3>2. Usable' = Usable
      BY <1>2, <2>1 DEF Usable, KeyInv
    <3>3. Receipts' = Receipts /\ k \notin Receipts
      BY <1>2, <2>1, KeysAssumption DEF Receipts, KeyInv, NoKey
    <3>4. Pending \subseteq Pending'
      BY <3>1, <1>1, <2>4 DEF Pending, Busy
    <3>5. \A p : ProbeInstalled(p)' = ProbeInstalled(p)
      BY <1>2 DEF ProbeInstalled, ClaudeProbe, CodexProbe, GeminiProbe, CopilotProbe
    <3>6. Shown' /\ Owned'
      BY <1>2, <3>1, <3>2, <3>3, <3>4, <3>5 DEF Shown, Owned
    <3>7. Agrees(ProcessOf(a))'
      <4>1. ProcessOf(a) \in Processes
        BY DEF ProcessOf, Processes
      <4>2. mem[ProcessOf(a)][k] = "absent" /\ file[k] = "absent"
        BY <2>1, <4>1 DEF KeyInv
      <4>3. QED BY <1>2, <2>1, <3>1, <4>2 DEF Agrees, Work
    <3>8. Work(a)'
      BY <1>1, <1>2, <2>2, <2>4, <3>1, <3>2, <3>3, <3>7 DEF Work
    <3>9. QED BY <3>6, <3>8
  <2>11. SerialInv'
    BY <1>1, <1>2, <2>4, <2>10, SerialStep
  <2>12. QED BY <2>6, <2>7, <2>8, <2>9, <2>11
<1>4. CASE Fault /\ Finish(a) /\ UNCHANGED << used, secrets >>
  <2>1. /\ op' \in [Actors -> {Idle} \cup Operation]
        /\ ~Busy(a)' /\ \A b \in Actors \ {a} : op'[b] = op[b]
    BY <1>4, FinishFacts
  <2>2. KeysStay
    BY <1>2, <1>4 DEF KeysStay, keyVars
  <2>3. KeyTypes'
    BY <1>2, <1>4 DEF TypeOK, KeyTypes, Entries
  <2>4. TypeOK'
    BY <1>2, <1>4, <2>1, <2>3, FaultFacts, TypeStep DEF TypeOK, agentVars
  <2>5. OpInv' /\ KeyInv' /\ RequestInv'
    BY <1>2, <1>4, <2>1, <2>2, OpInvStep, KeysStayFacts, RequestsStay
  <2>6. ASSUME serial
        PROVE  Shown' /\ Owned'
    <3>1. Pending \subseteq Pending'
      BY <1>1, <2>1, <2>6 DEF Pending, Busy, SerialInv
    <3>2. \A p : ProbeInstalled(p)' = ProbeInstalled(p)
      BY <1>2 DEF ProbeInstalled, ClaudeProbe, CodexProbe, GeminiProbe, CopilotProbe
    <3>3. QED BY <1>2, <2>2, <2>6, <3>1, <3>2, KeysStayFacts DEF SerialInv, Shown, Owned
  <2>7. SerialInv'
    BY <1>1, <1>2, <2>1, <2>6, SerialStep
  <2>8. QED BY <2>4, <2>5, <2>7
<1>5. QED BY <1>3, <1>4 DEF SetSecret

\* Two facts about a step of the operation of a while operations do not overlap and the
\* files and receipts stay: no key becomes usable and none loses its owner.  First the
\* step that ends the operation, then the one that goes on.
LEMMA FinishSerial ==
  ASSUME IInv, NEW a \in Actors, Busy(a), ~Busy(a)', \A b \in Actors \ {a} : op'[b] = op[b],
         UNCHANGED << disk, receipt, serial >>, serial => Usable' \subseteq Usable,
         manual \subseteq manual', leaked \subseteq leaked',
         /\ serial /\ op[a].at \in {"write", "undo", "save"} /\ op[a].key \in Usable'
         => op[a].key \in manual' \cup leaked'
  PROVE  SerialInv'
<1>1. ASSUME serial
      PROVE  Shown' /\ Owned'
  <2>1. Shown /\ Owned /\ \A b \in Actors : Busy(b) => b = a
    BY <1>1 DEF IInv, SerialInv
  <2>2. Receipts' = Receipts /\ \A p : ProbeInstalled(p)' = ProbeInstalled(p)
    BY DEF Receipts, ProbeInstalled, ClaudeProbe, CodexProbe, GeminiProbe, CopilotProbe
  <2>3. Pending \subseteq {op[a].key}
    BY <2>1 DEF Pending
  <2>4. op[a].at \notin {"write", "undo", "save"} => Pending = {}
    BY <2>1 DEF Pending
  <2>5. Shown'
    BY <1>1, <2>1, <2>2 DEF Shown
  <2>6. Owned'
    BY <1>1, <2>1, <2>2, <2>3, <2>4 DEF Owned
  <2>7. QED BY <2>5, <2>6
<1>2. SerialInv
  BY DEF IInv
<1>3. QED BY <1>1, <1>2, SerialStep

LEMMA GoSerial ==
  ASSUME IInv, NEW a \in Actors, Busy(a), Busy(a)', \A b \in Actors \ {a} : op'[b] = op[b],
         UNCHANGED << disk, receipt, serial >>, serial => Usable' \subseteq Usable,
         manual \subseteq manual', leaked \subseteq leaked',
         op[a].at \in {"write", "undo", "save"}
         => op'[a].at \in {"write", "undo", "save"} /\ op'[a].key = op[a].key,
         serial => Work(a)'
  PROVE  SerialInv'
<1>1. ASSUME serial
      PROVE  Shown' /\ Owned'
  <2>1. Shown /\ Owned /\ \A b \in Actors : Busy(b) => b = a
    BY <1>1 DEF IInv, SerialInv
  <2>2. Receipts' = Receipts /\ \A p : ProbeInstalled(p)' = ProbeInstalled(p)
    BY DEF Receipts, ProbeInstalled, ClaudeProbe, CodexProbe, GeminiProbe, CopilotProbe
  <2>3. Pending \subseteq Pending'
    BY <2>1 DEF Pending, Busy
  <2>4. Shown'
    BY <1>1, <2>1, <2>2 DEF Shown
  <2>5. Owned'
    BY <1>1, <2>1, <2>2, <2>3 DEF Owned
  <2>6. QED BY <2>4, <2>5
<1>2. SerialInv
  BY DEF IInv
<1>3. QED BY <1>1, <1>2, SerialStep

LEMMA RecordKeyStep ==
  ASSUME IInv, NEW a \in Actors, RecordKey(a)
  PROVE  IInv'
<1> DEFINE w == ProcessOf(a)
           k == op[a].key
           map == [mem[w] EXCEPT ![k] = "live"]
<1>1. Busy(a) /\ op[a].at = "record" /\ op[a] \in Operation /\ Fits(op[a], used) /\ TypeOK
  BY OpTyped DEF RecordKey, Busy, IInv, OpInv
<1>2. UNCHANGED << used, receipt, disk, reqVars, started, acked, leaked, serial >>
  BY DEF RecordKey, agentVars
<1>3. w \in Processes /\ k \in used /\ k \in Keys
  BY <1>1 DEF ProcessOf, Processes, Fits, TypeOK
<1>4. /\ mem[w] \in Entries /\ map \in Entries /\ KeyTypes /\ map[k] = "live"
      /\ \A x \in Keys \ {k} : map[x] = mem[w][x]
  BY <1>1, <1>3 DEF TypeOK, KeyTypes, Entries, Entry
<1>5. RequestInv'
  BY <1>2, RequestsStay DEF IInv
<1>6. CASE NoFault /\ UNCHANGED secrets /\ WriteLocked(w, map)
           /\ op[a].task = "add" /\ Finish(a) /\ manual' = manual \cup {k}
  <2>1. /\ op' \in [Actors -> {Idle} \cup Operation]
        /\ ~Busy(a)' /\ \A b \in Actors \ {a} : op'[b] = op[b]
    BY <1>1, <1>6, FinishFacts
  <2>2. /\ file' = map /\ mem' = [mem EXCEPT ![w] = map]
        /\ mem'[w] = map /\ \A v \in Processes \ {w} : mem'[v] = mem[v]
    BY <1>3, <1>4, <1>6 DEF WriteLocked, KeyTypes
  <2>3. KeyTypes'
    BY <1>2, <1>4, <1>6, <2>2 DEF KeyTypes
  <2>4. TypeOK'
    <3>1. manual' \subseteq Keys /\ leaked' \subseteq Keys /\ faults' \in 0..MaxFaults
      BY <1>1, <1>2, <1>3, <1>6, FaultFacts DEF TypeOK
    <3>2. QED BY <1>1, <1>2, <2>1, <2>3, <3>1, TypeStep DEF agentVars
  <2>5. KeyInv'
    BY <1>2, <1>3, <1>4, <1>6, <2>2 DEF IInv, KeyInv
  <2>6. OpInv'
    BY <1>2, <2>1, OpInvStep DEF IInv
  <2>7. ASSUME serial
        PROVE  Shown' /\ Owned'
    <3>1. Shown /\ Owned /\ Work(a) /\ \A b \in Actors : Busy(b) => b = a
      BY <2>7, <1>1 DEF IInv, SerialInv
    <3>2. Usable' \subseteq Usable \cup {k} /\ k \notin Receipts
      BY <1>1, <1>4, <1>6, <2>2, <3>1 DEF Usable, Work, Agrees, KeyTypes
    <3>3. Receipts' = Receipts /\ \A p : ProbeInstalled(p)' = ProbeInstalled(p)
      BY <1>2 DEF Receipts, ProbeInstalled, ClaudeProbe, CodexProbe, GeminiProbe, CopilotProbe
    <3>4. Pending = {}
      BY <1>1, <3>1 DEF Pending
    <3>5. Shown'
      BY <1>2, <3>1, <3>2, <3>3 DEF Shown, Receipts
    <3>6. Owned'
      BY <1>2, <1>6, <3>1, <3>2, <3>3, <3>4 DEF Owned
    <3>7. QED BY <3>5, <3>6
  <2>8. SerialInv'
    BY <1>1, <1>2, <2>1, <2>7, SerialStep DEF IInv
  <2>9. QED BY <1>5, <2>4, <2>5, <2>6, <2>8 DEF IInv
<1>7. CASE NoFault /\ UNCHANGED << secrets, manual >> /\ WriteLocked(w, map)
           /\ op[a].task # "add" /\ Goto(a, "write")
  <2>1. /\ op' \in [Actors -> {Idle} \cup Operation]
        /\ op'[a].at = "write" /\ op'[a].task = op[a].task /\ op'[a].for = op[a].for
        /\ op'[a].key = op[a].key /\ op'[a].plan = op[a].plan /\ op'[a].n = op[a].n
        /\ Busy(a)' /\ \A b \in Actors \ {a} : op'[b] = op[b]
    BY <1>1, <1>7, GotoFacts
  <2>2. /\ file' = map /\ mem' = [mem EXCEPT ![w] = map]
        /\ mem'[w] = map /\ \A v \in Processes \ {w} : mem'[v] = mem[v]
    BY <1>3, <1>4, <1>7 DEF WriteLocked, KeyTypes
  <2>3. KeyTypes'
    BY <1>2, <1>4, <1>7, <2>2 DEF KeyTypes
  <2>4. TypeOK'
    <3>1. manual' \subseteq Keys /\ leaked' \subseteq Keys /\ faults' \in 0..MaxFaults
      BY <1>1, <1>2, <1>7, FaultFacts DEF TypeOK
    <3>2. QED BY <1>1, <1>2, <2>1, <2>3, <3>1, TypeStep DEF agentVars
  <2>5. KeyInv'
    BY <1>2, <1>3, <1>4, <1>7, <2>2 DEF IInv, KeyInv
  <2>6. OpInv'
    <3>1. op[a].for \in Providers /\ op[a].task \in Installing
      BY <1>1, <1>7 DEF Fits, Installing
    <3>2. Fits(op'[a], used')
      BY <1>1, <1>2, <2>1, <3>1, FilesAre DEF Fits
    <3>3. QED BY <1>2, <2>1, <3>2, OpInvStep DEF IInv
  <2>7. ASSUME serial
        PROVE  Shown' /\ Owned' /\ Work(a)'
    <3>1. Shown /\ Owned /\ Work(a) /\ \A b \in Actors : Busy(b) => b = a
      BY <2>7, <1>1 DEF IInv, SerialInv
    <3>2. Usable' \subseteq Usable \cup {k} /\ k \notin Receipts
      BY <1>1, <1>4, <1>7, <2>2, <3>1 DEF Usable, Work, Agrees, KeyTypes
    <3>3. Receipts' = Receipts /\ \A p : ProbeInstalled(p)' = ProbeInstalled(p)
      BY <1>2 DEF Receipts, ProbeInstalled, ClaudeProbe, CodexProbe, GeminiProbe, CopilotProbe
    <3>4. Pending = {} /\ k \in Pending'
      BY <1>1, <2>1, <3>1 DEF Pending
    <3>5. Shown'
      BY <1>2, <3>1, <3>2, <3>3 DEF Shown, Receipts
    <3>6. Owned'
      BY <1>2, <1>7, <3>1, <3>2, <3>3, <3>4 DEF Owned
    <3>7. Work(a)'
      <4>1. Agrees(w)'
        BY <2>2 DEF Agrees
      <4>2. op[a].for \in Providers /\ op[a].task \in Installing /\ op[a].n = 1
        BY <1>1, <1>7 DEF Fits, Installing
      <4>3. receipt[op[a].for].key \in Usable' => receipt[op[a].for].key \in leaked
        BY <1>1, <3>1, <3>2, <4>2 DEF Work, Receipts
      <4>4. \A i \in DOMAIN FilesOf(op[a].for) : ~(i < 1)
        BY <4>2, FilesAre
      <4>5. QED BY <1>1, <1>2, <2>1, <4>1, <4>2, <4>3, <4>4 DEF Work
    <3>8. QED BY <3>5, <3>6, <3>7
  <2>8. SerialInv'
    BY <1>1, <1>2, <2>1, <2>7, SerialStep DEF IInv
  <2>9. QED BY <1>5, <2>4, <2>5, <2>6, <2>8 DEF IInv
<1>8. CASE Fault /\ secrets' = secrets \ {k} /\ Finish(a) /\ UNCHANGED << file, mem, manual >>
  <2>1. /\ op' \in [Actors -> {Idle} \cup Operation]
        /\ ~Busy(a)' /\ \A b \in Actors \ {a} : op'[b] = op[b]
    BY <1>1, <1>8, FinishFacts
  <2>2. KeyTypes'
    BY <1>2, <1>4, <1>8 DEF KeyTypes
  <2>3. TypeOK'
    <3>1. manual' \subseteq Keys /\ leaked' \subseteq Keys /\ faults' \in 0..MaxFaults
      BY <1>1, <1>2, <1>8, FaultFacts DEF TypeOK
    <3>2. QED BY <1>1, <1>2, <2>1, <2>2, <3>1, TypeStep DEF agentVars
  <2>4. KeyInv'
    BY <1>2, <1>8 DEF IInv, KeyInv
  <2>5. OpInv'
    BY <1>2, <2>1, OpInvStep DEF IInv
  <2>6. Usable' \subseteq Usable
    BY <1>8 DEF Usable
  <2>7. SerialInv'
    BY <1>1, <1>2, <1>8, <2>1, <2>6, FinishSerial
  <2>8. QED BY <1>5, <2>3, <2>4, <2>5, <2>7 DEF IInv
<1>9. QED BY <1>6, <1>7, <1>8 DEF RecordKey

LEMMA KeysAddStep ==
  ASSUME IInv, NEW a \in Actors, KeysAdd(a)
  PROVE  IInv'
<1>1. Busy(a) /\ op[a].at = "begin" /\ op[a].task = "add" /\ Fits(op[a], used) /\ TypeOK
  BY DEF KeysAdd, Busy, IInv, OpInv
<1>2. /\ UNCHANGED << receipt, disk, reqVars, started, faults, acked, manual, leaked, serial >>
      /\ KeysStay
  BY DEF KeysAdd, agentVars, history, KeysStay
<1>3. /\ op' \in [Actors -> {Idle} \cup Operation]
      /\ op'[a].at = "issue" /\ op'[a].task = op[a].task /\ op'[a].for = op[a].for
      /\ op'[a].key = op[a].key /\ op'[a].plan = op[a].plan /\ op'[a].n = op[a].n
      /\ Busy(a)' /\ \A b \in Actors \ {a} : op'[b] = op[b]
  BY <1>1, GotoFacts DEF KeysAdd
<1>4. UNCHANGED << file, mem, secrets, used >>
  BY <1>2 DEF KeysStay, keyVars
<1>5. TypeOK'
  BY <1>1, <1>2, <1>3, <1>4 DEF TypeOK, reqVars
<1>6. Fits(op'[a], used')
  BY <1>1, <1>3, <1>4 DEF Fits, Installing
<1>7. OpInv' /\ KeyInv' /\ RequestInv'
  BY <1>2, <1>3, <1>4, <1>6, OpInvStep, KeysStayFacts, RequestsStay DEF IInv
<1>8. ASSUME serial
      PROVE  Work(a)'
  <2>1. Agrees(ProcessOf(a))'
    BY <1>1, <1>2, <1>8, KeysStayFacts DEF IInv, SerialInv, Work
  <2>2. QED BY <1>1, <1>3, <2>1 DEF Work, Installing
<1>9. SerialInv'
  BY <1>1, <1>2, <1>3, <1>8, KeysStayFacts, GoSerial
<1>10. QED BY <1>5, <1>7, <1>9 DEF IInv

LEMMA KeysRevokeStep ==
  ASSUME IInv, NEW a \in Actors, KeysRevoke(a)
  PROVE  IInv'
<1>1. Busy(a) /\ op[a].at = "begin" /\ op[a].task = "revoke" /\ Fits(op[a], used) /\ TypeOK
  BY DEF KeysRevoke, Busy, IInv, OpInv
<1>2. UNCHANGED << used, receipt, disk, reqVars, started, manual, leaked, serial >>
  BY DEF KeysRevoke, agentVars
<1>3. PICK ok \in BOOLEAN : RevokeKey(ProcessOf(a), op[a].for, ok)
  BY DEF KeysRevoke
<1>4. ProcessOf(a) \in Processes /\ op[a].for \in Keys
  BY <1>1 DEF ProcessOf, Processes, Fits
<1>5. /\ KeyTypes' /\ KeyInv' /\ faults' \in 0..MaxFaults /\ acked \subseteq acked'
      /\ Agrees(ProcessOf(a)) => Usable' \subseteq Usable
  BY <1>1, <1>2, <1>3, <1>4, RevokeFacts DEF IInv
<1>6. /\ op' \in [Actors -> {Idle} \cup Operation]
      /\ ~Busy(a)' /\ \A b \in Actors \ {a} : op'[b] = op[b]
  BY <1>1, FinishFacts DEF KeysRevoke
<1>7. TypeOK'
  BY <1>1, <1>2, <1>5, <1>6, TypeStep DEF TypeOK, agentVars
<1>8. OpInv' /\ RequestInv'
  BY <1>2, <1>5, <1>6, OpInvStep, RequestsStay DEF IInv
<1>9. serial => Agrees(ProcessOf(a))
  BY <1>1 DEF IInv, SerialInv, Work
<1>10. SerialInv'
  BY <1>1, <1>2, <1>5, <1>6, <1>9, FinishSerial
<1>11. QED BY <1>5, <1>7, <1>8, <1>10 DEF IInv

-----------------------------------------------------------------------------
(* The installers.                                                         *)

LEMMA PlanFacts ==
  ASSUME TypeOK, OpInv, NEW a \in Actors, Busy(a), op[a].at = "begin",
         op[a].task \in Installing, GoPlan(a), used' = used
  PROVE  /\ op' \in [Actors -> {Idle} \cup Operation]
         /\ op'[a].at = "issue" /\ op'[a].task = op[a].task /\ op'[a].for = op[a].for
         /\ op[a].for \in Providers /\ Fits(op'[a], used')
         /\ Busy(a)' /\ \A b \in Actors \ {a} : op'[b] = op[b]
<1> DEFINE p == op[a].for
           o == [op[a] EXCEPT !.at = "issue", !.plan = Planned(p)]
<1>1. op[a] \in Operation /\ Fits(op[a], used) /\ p \in Providers
  BY OpTyped DEF OpInv, Fits, Installing
<1>2. Planned(p) \in [DOMAIN FilesOf(p) -> Content]
  <2>1. disk[p] \in [DOMAIN FilesOf(p) -> Content]
    BY <1>1 DEF TypeOK
  <2>2. \A i \in DOMAIN FilesOf(p) :
           [block |-> NoKey, edits |-> IF FilesOf(p)[i].own THEN 0 ELSE disk[p][i].edits]
             \in Content
    BY <2>1 DEF Content, Blocks
  <2>3. QED BY <2>2 DEF Planned
<1>3. Planned(p) \in Seq(Content)
  <2>1. DOMAIN FilesOf(p) = 1..Len(FilesOf(p)) /\ Len(FilesOf(p)) \in Nat
    BY <1>1, FilesAre
  <2>2. QED BY <1>2, <2>1
<1>4. /\ o \in Operation /\ o.at = "issue" /\ o.task = op[a].task /\ o.for = p
      /\ o.key = op[a].key /\ o.plan = Planned(p) /\ o.n = op[a].n
  BY <1>1, <1>3 DEF Operation
<1>5. op' = [op EXCEPT ![a] = o]
  BY DEF GoPlan
<1> HIDE DEF o
<1>6. Fits(o, used')
  BY <1>1, <1>2, <1>4 DEF Fits, Installing
<1>7. QED BY <1>1, <1>4, <1>5, <1>6, OpBecomes

LEMMA InstallBeginStep ==
  ASSUME IInv, NEW a \in Actors, InstallBegin(a)
  PROVE  IInv'
<1>1. Busy(a) /\ op[a].at = "begin" /\ op[a].task = "install" /\ Fits(op[a], used) /\ TypeOK
  BY DEF InstallBegin, Busy, IInv, OpInv
<1>2. /\ UNCHANGED << receipt, disk, reqVars, started, faults, acked, manual, leaked, serial >>
      /\ KeysStay
  BY DEF InstallBegin, agentVars, history, KeysStay
<1>3. UNCHANGED << file, mem, secrets, used >> /\ KeyInv' /\ RequestInv'
  BY <1>2, KeysStayFacts, RequestsStay DEF KeysStay, keyVars, IInv
<1>4. CASE ProbeInstalled(op[a].for) /\ Finish(a)
  <2>1. /\ op' \in [Actors -> {Idle} \cup Operation]
        /\ ~Busy(a)' /\ \A b \in Actors \ {a} : op'[b] = op[b]
    BY <1>1, <1>4, FinishFacts
  <2>2. TypeOK'
    BY <1>1, <1>2, <1>3, <2>1 DEF TypeOK, reqVars
  <2>3. OpInv'
    BY <1>3, <2>1, OpInvStep DEF IInv
  <2>4. SerialInv'
    BY <1>1, <1>2, <2>1, KeysStayFacts, FinishSerial
  <2>5. QED BY <1>3, <2>2, <2>3, <2>4 DEF IInv
<1>5. CASE ~ProbeInstalled(op[a].for) /\ GoPlan(a)
  <2>1. /\ op' \in [Actors -> {Idle} \cup Operation]
        /\ op'[a].at = "issue" /\ op'[a].task = op[a].task /\ op'[a].for = op[a].for
        /\ op[a].for \in Providers /\ Fits(op'[a], used')
        /\ Busy(a)' /\ \A b \in Actors \ {a} : op'[b] = op[b]
    BY <1>1, <1>3, <1>5, PlanFacts DEF IInv, Installing
  <2>2. TypeOK'
    BY <1>1, <1>2, <1>3, <2>1 DEF TypeOK, reqVars
  <2>3. OpInv'
    BY <1>3, <2>1, OpInvStep DEF IInv
  <2>4. ASSUME serial
        PROVE  Work(a)'
    <3>1. receipt[op[a].for].key \notin Usable
      BY <2>1, <2>4, <1>5 DEF IInv, SerialInv, Shown
    <3>2. Agrees(ProcessOf(a))' /\ Usable' = Usable
      BY <1>1, <1>2, <2>4, KeysStayFacts DEF IInv, SerialInv, Work
    <3>3. QED BY <1>2, <2>1, <3>1, <3>2 DEF Work
  <2>5. SerialInv'
    BY <1>1, <1>2, <2>1, <2>4, KeysStayFacts, GoSerial
  <2>6. QED BY <1>3, <2>2, <2>3, <2>5 DEF IInv
<1>6. QED BY <1>4, <1>5 DEF InstallBegin

LEMMA RepairBeginStep ==
  ASSUME IInv, NEW a \in Actors, RepairBegin(a)
  PROVE  IInv'
<1> DEFINE p == op[a].for
           k == receipt[p].key
           w == ProcessOf(a)
<1>1. /\ Busy(a) /\ op[a].at = "begin" /\ op[a].task = "repair" /\ Fits(op[a], used) /\ TypeOK
      /\ p \in Providers /\ w \in Processes
  BY DEF RepairBegin, Busy, IInv, OpInv, Fits, ProcessOf, Processes
<1>2. UNCHANGED << used, receipt, disk, reqVars, started, manual, serial >>
  BY DEF RepairBegin, agentVars
<1>3. /\ KeyTypes' /\ KeyInv' /\ faults' \in 0..MaxFaults /\ acked \subseteq acked'
      /\ leaked \subseteq leaked' /\ leaked' \subseteq Keys
      /\ serial => /\ Usable' \subseteq Usable /\ Agrees(w)'
                   /\ (GoPlan(a) /\ k \in Usable' => k \in leaked')
  <2>0. serial => Agrees(w)
    BY <1>1 DEF IInv, SerialInv, Work
  <2>1. CASE UNCHANGED << file, mem, secrets, faults, acked, leaked >> /\ (GoPlan(a) => k = NoKey)
    <3>1. KeyTypes' /\ KeyInv'
      BY <1>1, <1>2, <2>1 DEF IInv, TypeOK, KeyTypes, KeyInv, Entries
    <3>2. Usable' = Usable /\ Agrees(w)' = Agrees(w) /\ NoKey \notin Usable
      BY <2>1, KeysAssumption DEF Usable, Agrees, NoKey
    <3>3. QED BY <1>1, <2>0, <2>1, <3>1, <3>2 DEF TypeOK
  <2>2. CASE k # NoKey /\ \E ok \in BOOLEAN : /\ RevokeKey(w, k, ok)
                                              /\ IF ok THEN UNCHANGED leaked ELSE Leak(k)
    <3>1. PICK ok \in BOOLEAN : RevokeKey(w, k, ok) /\ IF ok THEN UNCHANGED leaked ELSE Leak(k)
      BY <2>2
    <3>2. k \in Keys
      BY <1>1, <2>2 DEF IInv, KeyInv, TypeOK
    <3>3. /\ KeyTypes' /\ KeyInv' /\ faults' \in 0..MaxFaults /\ acked \subseteq acked'
          /\ (ok => k \notin secrets')
          /\ Agrees(w) => Usable' \subseteq Usable /\ Agrees(w)'
      BY <1>1, <1>2, <3>1, <3>2, RevokeFacts DEF IInv
    <3>4. /\ leaked \subseteq leaked' /\ leaked' \subseteq Keys /\ (~ok => k \in leaked')
      BY <1>1, <3>1, <3>2 DEF Leak, TypeOK
    <3>5. ok => k \notin Usable'
      BY <3>3 DEF Usable
    <3>6. QED BY <2>0, <3>3, <3>4, <3>5
  <2>3. QED
    <3>1. Idle \notin Operation /\ op[a] \in Operation
      BY <1>1, OpTyped DEF Idle, Operation, Tasks
    <3>2. ~(Finish(a) /\ GoPlan(a))
      <4>1. Finish(a) => ~Busy(a)'
        BY <1>1, FinishFacts
      <4>2. GoPlan(a) => Busy(a)'
        BY <1>1, <1>2, PlanFacts DEF IInv, Installing
      <4>3. QED BY <4>1, <4>2
    <3>3. QED BY <2>1, <2>2, <3>2 DEF RepairBegin
<1>4. RequestInv'
  BY <1>2, <1>3, RequestsStay DEF IInv
<1>5. CASE Finish(a)
  <2>1. /\ op' \in [Actors -> {Idle} \cup Operation]
        /\ ~Busy(a)' /\ \A b \in Actors \ {a} : op'[b] = op[b]
    BY <1>1, <1>5, FinishFacts
  <2>2. TypeOK'
    <3>1. manual' \subseteq Keys
      BY <1>1, <1>2 DEF TypeOK
    <3>2. QED BY <1>1, <1>2, <1>3, <2>1, <3>1, TypeStep DEF agentVars
  <2>3. OpInv'
    BY <1>2, <2>1, OpInvStep DEF IInv
  <2>4. SerialInv'
    BY <1>1, <1>2, <1>3, <2>1, FinishSerial
  <2>5. QED BY <1>3, <1>4, <2>2, <2>3, <2>4 DEF IInv
<1>6. CASE GoPlan(a)
  <2>1. /\ op' \in [Actors -> {Idle} \cup Operation]
        /\ op'[a].at = "issue" /\ op'[a].task = op[a].task /\ op'[a].for = op[a].for
        /\ op[a].for \in Providers /\ Fits(op'[a], used')
        /\ Busy(a)' /\ \A b \in Actors \ {a} : op'[b] = op[b]
    BY <1>1, <1>2, <1>6, PlanFacts DEF IInv, Installing
  <2>2. TypeOK'
    <3>1. manual' \subseteq Keys
      BY <1>1, <1>2 DEF TypeOK
    <3>2. QED BY <1>1, <1>2, <1>3, <2>1, <3>1, TypeStep DEF agentVars
  <2>3. OpInv'
    BY <1>2, <2>1, OpInvStep DEF IInv
  <2>4. serial => Work(a)'
    BY <1>2, <1>3, <1>6, <2>1 DEF Work
  <2>5. SerialInv'
    BY <1>1, <1>2, <1>3, <2>1, <2>4, GoSerial
  <2>6. QED BY <1>3, <1>4, <2>2, <2>3, <2>5 DEF IInv
<1>7. QED BY <1>5, <1>6 DEF RepairBegin

LEMMA UndoInstallStep ==
  ASSUME IInv, NEW a \in Actors, UndoInstall(a)
  PROVE  IInv'
<1> DEFINE k == op[a].key
<1>1. Busy(a) /\ op[a].at = "undo" /\ Fits(op[a], used) /\ TypeOK
  BY DEF UndoInstall, Busy, IInv, OpInv
<1>2. UNCHANGED << used, receipt, disk, reqVars, started, manual, serial >>
  BY DEF UndoInstall, agentVars
<1>3. PICK ok \in BOOLEAN : RevokeKey(ProcessOf(a), k, ok) /\ IF ok THEN UNCHANGED leaked ELSE Leak(k)
  BY DEF UndoInstall
<1>4. ProcessOf(a) \in Processes /\ k \in Keys
  BY <1>1 DEF ProcessOf, Processes, Fits, TypeOK
<1>5. /\ KeyTypes' /\ KeyInv' /\ faults' \in 0..MaxFaults /\ acked \subseteq acked'
      /\ (ok => k \notin secrets')
      /\ Agrees(ProcessOf(a)) => Usable' \subseteq Usable
  BY <1>1, <1>2, <1>3, <1>4, RevokeFacts DEF IInv
<1>6. leaked \subseteq leaked' /\ leaked' \subseteq Keys /\ (~ok => k \in leaked')
  BY <1>1, <1>3, <1>4 DEF Leak, TypeOK
<1>7. k \in Usable' => k \in leaked'
  BY <1>5, <1>6 DEF Usable
<1>8. /\ op' \in [Actors -> {Idle} \cup Operation]
      /\ ~Busy(a)' /\ \A b \in Actors \ {a} : op'[b] = op[b]
  BY <1>1, FinishFacts DEF UndoInstall
<1>9. TypeOK'
  <2>1. manual' \subseteq Keys
    BY <1>1, <1>2 DEF TypeOK
  <2>2. QED BY <1>1, <1>2, <1>5, <1>6, <1>8, <2>1, TypeStep DEF agentVars
<1>10. OpInv' /\ RequestInv'
  BY <1>2, <1>5, <1>8, OpInvStep, RequestsStay DEF IInv
<1>11. serial => Agrees(ProcessOf(a))
  BY <1>1 DEF IInv, SerialInv, Work
<1>12. SerialInv'
  BY <1>1, <1>2, <1>5, <1>6, <1>7, <1>8, <1>11, FinishSerial
<1>13. QED BY <1>5, <1>9, <1>10, <1>12 DEF IInv

LEMMA UninstallBeginStep ==
  ASSUME IInv, NEW a \in Actors, UninstallBegin(a)
  PROVE  IInv'
<1> DEFINE p == op[a].for
           k == receipt[p].key
           w == ProcessOf(a)
<1>1. /\ Busy(a) /\ op[a].at = "begin" /\ op[a].task = "uninstall" /\ Fits(op[a], used)
      /\ TypeOK /\ p \in Providers /\ w \in Processes
  BY DEF UninstallBegin, Busy, IInv, OpInv, Fits, ProcessOf, Processes
<1>2. UNCHANGED << used, receipt, disk, reqVars, started, manual, leaked, serial >>
  BY DEF UninstallBegin, agentVars
<1>3. /\ KeyTypes' /\ KeyInv' /\ faults' \in 0..MaxFaults /\ acked \subseteq acked'
      /\ serial => Usable' \subseteq Usable /\ Agrees(w)'
      /\ Finish(a) \/ (Goto(a, "strip") /\ k \notin Usable')
  <2>0. serial => Agrees(w)
    BY <1>1 DEF IInv, SerialInv, Work
  <2>1. CASE UNCHANGED << file, mem, secrets, faults, acked >> /\ k = NoKey /\ Goto(a, "strip")
    <3>1. KeyTypes' /\ KeyInv'
      BY <1>1, <1>2, <2>1 DEF IInv, TypeOK, KeyTypes, KeyInv, Entries
    <3>2. Usable' = Usable /\ Agrees(w)' = Agrees(w) /\ NoKey \notin Usable
      BY <2>1, KeysAssumption DEF Usable, Agrees, NoKey
    <3>3. QED BY <1>1, <2>0, <2>1, <3>1, <3>2 DEF TypeOK
  <2>2. CASE k # NoKey /\ \E ok \in BOOLEAN : /\ RevokeKey(w, k, ok)
                                              /\ IF ok THEN Goto(a, "strip") ELSE Finish(a)
    <3>1. PICK ok \in BOOLEAN : RevokeKey(w, k, ok) /\ IF ok THEN Goto(a, "strip") ELSE Finish(a)
      BY <2>2
    <3>2. k \in Keys
      BY <1>1, <2>2 DEF IInv, KeyInv, TypeOK
    <3>3. /\ KeyTypes' /\ KeyInv' /\ faults' \in 0..MaxFaults /\ acked \subseteq acked'
          /\ (ok => k \notin secrets')
          /\ Agrees(w) => Usable' \subseteq Usable /\ Agrees(w)'
      BY <1>1, <1>2, <3>1, <3>2, RevokeFacts DEF IInv
    <3>4. ok => k \notin Usable'
      BY <3>3 DEF Usable
    <3>5. QED BY <2>0, <3>1, <3>3, <3>4
  <2>3. QED BY <2>1, <2>2 DEF UninstallBegin
<1>4. RequestInv'
  BY <1>2, <1>3, RequestsStay DEF IInv
<1>5. leaked' \subseteq Keys /\ manual' \subseteq Keys
  BY <1>1, <1>2 DEF TypeOK
<1>6. CASE Finish(a)
  <2>1. /\ op' \in [Actors -> {Idle} \cup Operation]
        /\ ~Busy(a)' /\ \A b \in Actors \ {a} : op'[b] = op[b]
    BY <1>1, <1>6, FinishFacts
  <2>2. TypeOK'
    BY <1>1, <1>2, <1>3, <1>5, <2>1, TypeStep DEF agentVars
  <2>3. OpInv'
    BY <1>2, <2>1, OpInvStep DEF IInv
  <2>4. SerialInv'
    BY <1>1, <1>2, <1>3, <2>1, FinishSerial
  <2>5. QED BY <1>3, <1>4, <2>2, <2>3, <2>4 DEF IInv
<1>7. CASE Goto(a, "strip") /\ k \notin Usable'
  <2>1. /\ op' \in [Actors -> {Idle} \cup Operation]
        /\ op'[a].at = "strip" /\ op'[a].task = op[a].task /\ op'[a].for = op[a].for
        /\ op'[a].key = op[a].key /\ op'[a].plan = op[a].plan /\ op'[a].n = op[a].n
        /\ Busy(a)' /\ \A b \in Actors \ {a} : op'[b] = op[b]
    BY <1>1, <1>7, GotoFacts
  <2>2. TypeOK'
    BY <1>1, <1>2, <1>3, <1>5, <2>1, TypeStep DEF agentVars
  <2>3. OpInv'
    <3>1. Fits(op'[a], used')
      BY <1>1, <2>1, FilesAre DEF Fits, Installing
    <3>2. QED BY <1>2, <2>1, <3>1, OpInvStep DEF IInv
  <2>4. serial => Work(a)'
    BY <1>1, <1>2, <1>3, <1>7, <2>1 DEF Work
  <2>5. SerialInv'
    BY <1>1, <1>2, <1>3, <2>1, <2>4, GoSerial
  <2>6. QED BY <1>3, <1>4, <2>2, <2>3, <2>5 DEF IInv
<1>8. QED BY <1>3, <1>6, <1>7

\* A new content of one file of one provider.
LEMMA DiskFacts ==
  ASSUME TypeOK, NEW p \in Providers, NEW n \in DOMAIN FilesOf(p), NEW c \in Content,
         disk' = [disk EXCEPT ![p][n] = c]
  PROVE  /\ DOMAIN disk' = Providers
         /\ \A q \in Providers : disk'[q] \in [DOMAIN FilesOf(q) -> Content]
         /\ disk'[p][n] = c
         /\ \A q \in Providers : \A i \in DOMAIN FilesOf(q) :
              q # p \/ i # n => disk'[q][i] = disk[q][i]
<1> DEFINE d == [disk[p] EXCEPT ![n] = c]
<1>1. disk[p] \in [DOMAIN FilesOf(p) -> Content] /\ DOMAIN disk = Providers
  BY DEF TypeOK
<1>2. /\ d \in [DOMAIN FilesOf(p) -> Content] /\ d[n] = c
      /\ \A i \in DOMAIN FilesOf(p) : i # n => d[i] = disk[p][i]
  BY <1>1
<1>3. disk' = [disk EXCEPT ![p] = d]
  OBVIOUS
<1> HIDE DEF d
<1>4. DOMAIN disk' = Providers /\ disk'[p] = d /\ \A q \in Providers \ {p} : disk'[q] = disk[q]
  BY <1>1, <1>3
<1>5. QED BY <1>2, <1>4 DEF TypeOK

LEMMA WithKeyFacts ==
  ASSUME NEW p \in Providers, NEW plan \in [DOMAIN FilesOf(p) -> Content], NEW k \in Keys
  PROVE  /\ WithKey(p, plan, k) \in [DOMAIN FilesOf(p) -> Content]
         /\ WithKey(p, plan, k) \in Seq(Content)
         /\ \A i \in DOMAIN FilesOf(p) : WithKey(p, plan, k)[i].block # NoKey
<1>1. k # NoKey /\ Anonymous # NoKey /\ k \in Blocks /\ Anonymous \in Blocks
  BY KeysAssumption DEF NoKey, Anonymous, Blocks
<1>2. \A i \in DOMAIN FilesOf(p) :
         /\ [plan[i] EXCEPT !.block = IF FilesOf(p)[i].named THEN k ELSE Anonymous] \in Content
         /\ [plan[i] EXCEPT !.block = IF FilesOf(p)[i].named THEN k ELSE Anonymous].block # NoKey
  <2> TAKE i \in DOMAIN FilesOf(p)
  <2>1. plan[i] \in Content
    OBVIOUS
  <2>2. QED BY <1>1, <2>1 DEF Content
<1>3. WithKey(p, plan, k) \in [DOMAIN FilesOf(p) -> Content]
  BY <1>2 DEF WithKey
<1>4. DOMAIN FilesOf(p) = 1..Len(FilesOf(p)) /\ Len(FilesOf(p)) \in Nat
  BY FilesAre
<1>5. WithKey(p, plan, k) \in Seq(Content)
  BY <1>3, <1>4
<1>6. QED BY <1>2, <1>3, <1>5 DEF WithKey

\* The plan of an install has a content for each file.
LEMMA PlanLength ==
  ASSUME NEW p \in Providers, NEW plan \in Seq(Content), plan \in [DOMAIN FilesOf(p) -> Content]
  PROVE  Len(plan) = Len(FilesOf(p))
<1>1. 1..Len(plan) = 1..Len(FilesOf(p)) /\ Len(plan) \in Nat /\ Len(FilesOf(p)) \in {1, 2}
  BY FilesAre
<1>2. QED BY <1>1

\* A step of the operation of a that changes files and leaves the keys and receipts.
LEMMA DiskTypeStep ==
  ASSUME TypeOK, KeysStay, op' \in [Actors -> {Idle} \cup Operation], faults' \in 0..MaxFaults,
         DOMAIN disk' = Providers,
         \A q \in Providers : disk'[q] \in [DOMAIN FilesOf(q) -> Content],
         UNCHANGED << reqVars, started, serial >>
  PROVE  TypeOK'
<1>1. UNCHANGED << file, mem, secrets, used, receipt, acked, manual, leaked, req, nonces, recorded >>
  BY DEF KeysStay, keyVars, reqVars
<1>2. QED BY <1>1 DEF TypeOK

LEMMA WriteFileStep ==
  ASSUME IInv, NEW a \in Actors, WriteFile(a)
  PROVE  IInv'
<1> DEFINE p == op[a].for
           n == op[a].n
           k == op[a].key
           c == WithKey(p, op[a].plan, k)[n]
<1>1. Busy(a) /\ op[a].at = "write" /\ op[a] \in Operation /\ Fits(op[a], used) /\ TypeOK
  BY OpTyped DEF WriteFile, Busy, IInv, OpInv
<1>2. /\ UNCHANGED << receipt, reqVars, started, acked, manual, leaked, serial >>
      /\ KeysStay
  BY DEF WriteFile, history, KeysStay
<1>3. UNCHANGED << file, mem, secrets, used >> /\ KeyInv' /\ RequestInv'
  BY <1>2, KeysStayFacts, RequestsStay DEF KeysStay, keyVars, IInv
<1>4. /\ p \in Providers /\ op[a].task \in Installing /\ k \in Keys /\ n \in DOMAIN FilesOf(p)
      /\ op[a].plan \in [DOMAIN FilesOf(p) -> Content] /\ op[a].plan \in Seq(Content)
  BY <1>1 DEF Fits, Installing, TypeOK, Operation
<1>5. /\ Len(op[a].plan) = Len(FilesOf(p)) /\ c \in Content /\ c.block # NoKey
      /\ DOMAIN FilesOf(p) = 1..Len(FilesOf(p)) /\ Len(FilesOf(p)) \in Nat
      /\ n \in 1..Len(FilesOf(p))
  BY <1>4, PlanLength, WithKeyFacts, FilesAre
<1>6. CASE /\ disk' = [disk EXCEPT ![p][n] = c] /\ NoFault
           /\ IF n = Len(op[a].plan) THEN Goto(a, "save")
                                     ELSE op' = [op EXCEPT ![a].n = n + 1]
  <2> HIDE DEF c
  <2>1. /\ DOMAIN disk' = Providers
        /\ \A q \in Providers : disk'[q] \in [DOMAIN FilesOf(q) -> Content]
        /\ disk'[p][n].block # NoKey
        /\ \A q \in Providers : \A i \in DOMAIN FilesOf(q) :
              disk[q][i].block # NoKey => disk'[q][i].block # NoKey
    BY <1>1, <1>4, <1>5, <1>6, DiskFacts
  <2>2. /\ op' \in [Actors -> {Idle} \cup Operation]
        /\ op'[a].task = op[a].task /\ op'[a].for = p /\ op'[a].key = k
        /\ op'[a].plan = op[a].plan /\ Busy(a)' /\ \A b \in Actors \ {a} : op'[b] = op[b]
        /\ \/ op'[a].at = "save" /\ op'[a].n = n /\ n = Len(FilesOf(p))
           \/ op'[a].at = "write" /\ op'[a].n = n + 1 /\ n + 1 \in DOMAIN FilesOf(p)
    <3>1. CASE n = Len(op[a].plan)
      BY <1>1, <1>5, <1>6, <3>1, GotoFacts
    <3>2. CASE n # Len(op[a].plan)
      <4> DEFINE o == [op[a] EXCEPT !.n = n + 1]
      <4>1. n + 1 \in DOMAIN FilesOf(p) /\ n + 1 \in Nat
        BY <1>5, <3>2
      <4>2. /\ o \in Operation /\ o.at = "write" /\ o.task = op[a].task /\ o.for = p
            /\ o.key = k /\ o.plan = op[a].plan /\ o.n = n + 1
        BY <1>1, <4>1 DEF Operation
      <4>3. op' = [op EXCEPT ![a] = o]
        BY <1>6, <3>2
      <4> HIDE DEF o
      <4>4. QED BY <1>1, <4>1, <4>2, <4>3, OpBecomes
    <3>3. QED BY <3>1, <3>2
  <2>3. TypeOK'
    BY <1>1, <1>2, <1>6, <2>1, <2>2, FaultFacts, DiskTypeStep
  <2>4. OpInv'
    <3>1. Fits(op'[a], used')
      BY <1>1, <1>3, <1>4, <2>2 DEF Fits, Installing
    <3>2. QED BY <1>3, <2>2, <3>1, OpInvStep DEF IInv
  <2>5. ASSUME serial
        PROVE  Shown' /\ Owned' /\ Work(a)'
    <3>1. Shown /\ Owned /\ Work(a) /\ \A b \in Actors : Busy(b) => b = a
      BY <2>5, <1>1 DEF IInv, SerialInv
    <3>2. Usable' = Usable /\ Receipts' = Receipts /\ Agrees(ProcessOf(a))' = Agrees(ProcessOf(a))
      BY <1>2, KeysStayFacts
    <3>3. \A q \in Providers : ProbeInstalled(q) => ProbeInstalled(q)'
      BY <2>1, ProbeStays
    <3>4. Pending \subseteq Pending'
      BY <3>1, <2>2 DEF Pending, Busy
    <3>5. Shown' /\ Owned'
      BY <1>2, <3>1, <3>2, <3>3, <3>4 DEF Shown, Owned
    <3>6. \A i \in DOMAIN FilesOf(p) :
             op'[a].at = "save" \/ i < op'[a].n => disk'[p][i].block # NoKey
      <4> TAKE i \in DOMAIN FilesOf(p)
      <4>1. HAVE op'[a].at = "save" \/ i < op'[a].n
      <4>2. i < n \/ i = n
        BY <1>5, <2>2, <4>1
      <4>3. i < n => disk[p][i].block # NoKey
        BY <1>1, <1>4, <3>1 DEF Work
      <4>4. QED BY <1>4, <2>1, <4>2, <4>3
    <3>7. Work(a)'
      BY <1>1, <1>2, <2>2, <3>1, <3>2, <3>6 DEF Work
    <3>8. QED BY <3>5, <3>7
  <2>6. SerialInv'
    BY <1>1, <1>2, <2>2, <2>5, SerialStep DEF IInv
  <2>7. QED BY <1>3, <2>3, <2>4, <2>6 DEF IInv
<1>7. CASE Fault /\ Goto(a, "undo") /\ UNCHANGED disk
  <2>1. /\ op' \in [Actors -> {Idle} \cup Operation]
        /\ op'[a].at = "undo" /\ op'[a].task = op[a].task /\ op'[a].for = op[a].for
        /\ op'[a].key = op[a].key /\ op'[a].plan = op[a].plan /\ op'[a].n = op[a].n
        /\ Busy(a)' /\ \A b \in Actors \ {a} : op'[b] = op[b]
    BY <1>1, <1>7, GotoFacts
  <2>2. TypeOK'
    <3>1. DOMAIN disk' = Providers /\ \A q \in Providers : disk'[q] \in [DOMAIN FilesOf(q) -> Content]
      BY <1>1, <1>7 DEF TypeOK
    <3>2. QED BY <1>1, <1>2, <1>7, <2>1, <3>1, FaultFacts, DiskTypeStep
  <2>3. OpInv'
    <3>1. Fits(op'[a], used')
      BY <1>1, <1>3, <2>1 DEF Fits, Installing
    <3>2. QED BY <1>3, <2>1, <3>1, OpInvStep DEF IInv
  <2>4. serial => Work(a)'
    BY <1>1, <1>2, <2>1, KeysStayFacts DEF IInv, SerialInv, Work
  <2>5. SerialInv'
    BY <1>1, <1>2, <1>7, <2>1, <2>4, KeysStayFacts, GoSerial
  <2>6. QED BY <1>3, <2>2, <2>3, <2>5 DEF IInv
<1>8. QED BY <1>6, <1>7 DEF WriteFile

LEMMA SaveReceiptStep ==
  ASSUME IInv, NEW a \in Actors, SaveReceipt(a)
  PROVE  IInv'
<1> DEFINE p == op[a].for
           k == op[a].key
           r == [key |-> k, hashes |-> WithKey(p, op[a].plan, k)]
<1>1. Busy(a) /\ op[a].at = "save" /\ op[a] \in Operation /\ Fits(op[a], used) /\ TypeOK
  BY OpTyped DEF SaveReceipt, Busy, IInv, OpInv
<1>2. UNCHANGED << file, mem, secrets, used, disk, reqVars, started, acked, manual, serial >>
  BY DEF SaveReceipt, keyVars
<1>3. /\ p \in Providers /\ op[a].task \in Installing /\ k \in used /\ k \in Keys
      /\ op[a].plan \in [DOMAIN FilesOf(p) -> Content]
  BY <1>1 DEF Fits, Installing, TypeOK, Operation
<1>4. r \in [key : Keys \cup {NoKey}, hashes : Seq(Content)]
  BY <1>3, WithKeyFacts
<1>5. /\ op' \in [Actors -> {Idle} \cup Operation]
      /\ ~Busy(a)' /\ \A b \in Actors \ {a} : op'[b] = op[b]
  BY <1>1, FinishFacts DEF SaveReceipt
<1>6. /\ leaked \subseteq leaked' /\ leaked' \subseteq Keys /\ faults' \in 0..MaxFaults
  BY <1>1, <1>3, FaultFacts DEF SaveReceipt, Leak, TypeOK
<1>7. OpInv' /\ RequestInv'
  BY <1>2, <1>5, OpInvStep, RequestsStay DEF IInv
<1>8. KeyTypes' /\ manual' \subseteq Keys
  BY <1>1, <1>2 DEF TypeOK, KeyTypes, Entries
<1>9. CASE receipt' = [receipt EXCEPT ![p] = r] /\ NoFault /\ UNCHANGED leaked
  <2> HIDE DEF r
  <2>1. /\ receipt' \in [Providers -> [key : Keys \cup {NoKey}, hashes : Seq(Content)]]
        /\ receipt'[p] = r /\ \A q \in Providers \ {p} : receipt'[q] = receipt[q]
    BY <1>1, <1>3, <1>4, <1>9 DEF TypeOK
  <2>2. r.key = k
    BY DEF r
  <2>3. TypeOK'
    BY <1>1, <1>2, <1>5, <1>6, <1>8, <2>1 DEF TypeOK, KeyTypes, Entries, reqVars
  <2>4. KeyInv'
    BY <1>2, <1>3, <2>1, <2>2 DEF IInv, KeyInv
  <2>5. ASSUME serial
        PROVE  Shown' /\ Owned'
    <3>1. Shown /\ Owned /\ Work(a) /\ \A b \in Actors : Busy(b) => b = a
      BY <2>5, <1>1 DEF IInv, SerialInv
    <3>2. Usable' = Usable
      BY <1>2 DEF Usable
    <3>3. ProbeInstalled(p)
      BY <1>1, <1>3, <3>1, ProbeHolds DEF Work
    <3>4. \A q : ProbeInstalled(q)' = ProbeInstalled(q)
      BY <1>2 DEF ProbeInstalled, ClaudeProbe, CodexProbe, GeminiProbe, CopilotProbe
    <3>5. Shown'
      BY <2>1, <3>1, <3>2, <3>3, <3>4 DEF Shown
    <3>6. Pending = {k}
      BY <1>1, <3>1 DEF Pending
    <3>7. k \in Receipts'
      BY <1>3, <2>1, <2>2 DEF Receipts
    <3>8. ASSUME NEW x \in Receipts, x \in Usable
          PROVE  x \in Receipts' \cup leaked
      <4>1. PICK q \in Providers : x = receipt[q].key
        BY <3>8 DEF Receipts
      <4>2. CASE q = p
        BY <1>1, <1>3, <3>1, <3>8, <4>1, <4>2 DEF Work
      <4>3. CASE q # p
        BY <2>1, <4>1, <4>3 DEF Receipts
      <4>4. QED BY <4>2, <4>3
    <3>9. Owned'
      BY <1>2, <1>9, <3>1, <3>2, <3>6, <3>7, <3>8 DEF Owned
    <3>10. QED BY <3>5, <3>9
  <2>6. SerialInv'
    BY <1>1, <1>2, <1>5, <2>5, SerialStep DEF IInv
  <2>7. QED BY <1>7, <2>3, <2>4, <2>6 DEF IInv
<1>10. CASE Fault /\ Leak(k) /\ UNCHANGED receipt
  <2>1. TypeOK'
    BY <1>1, <1>2, <1>5, <1>6, <1>8, <1>10, TypeStep DEF agentVars
  <2>2. KeyInv'
    BY <1>2, <1>10 DEF IInv, KeyInv
  <2>3. Usable' = Usable /\ k \in leaked'
    BY <1>2, <1>10 DEF Usable, Leak
  <2>4. SerialInv'
    BY <1>1, <1>2, <1>5, <1>6, <1>10, <2>3, FinishSerial
  <2>5. QED BY <1>7, <2>1, <2>2, <2>4 DEF IInv
<1>11. QED BY <1>9, <1>10 DEF SaveReceipt

LEMMA StripFileStep ==
  ASSUME IInv, NEW a \in Actors, StripFile(a)
  PROVE  IInv'
<1> DEFINE p == op[a].for
           n == op[a].n
           c == [block |-> NoKey,
                 edits |-> IF FilesOf(p)[n].own THEN 0 ELSE disk[p][n].edits]
<1>1. Busy(a) /\ op[a].at = "strip" /\ op[a] \in Operation /\ Fits(op[a], used) /\ TypeOK
  BY OpTyped DEF StripFile, Busy, IInv, OpInv
<1>2. /\ UNCHANGED << receipt, reqVars, started, acked, manual, leaked, serial >>
      /\ KeysStay
  BY DEF StripFile, history, KeysStay
<1>3. UNCHANGED << file, mem, secrets, used >> /\ KeyInv' /\ RequestInv'
  BY <1>2, KeysStayFacts, RequestsStay DEF KeysStay, keyVars, IInv
<1>4. p \in Providers /\ op[a].task = "uninstall" /\ n \in DOMAIN FilesOf(p)
  BY <1>1 DEF Fits
<1>5. /\ DOMAIN FilesOf(p) = 1..Len(FilesOf(p)) /\ Len(FilesOf(p)) \in Nat
      /\ n \in 1..Len(FilesOf(p)) /\ c \in Content
  <2>1. disk[p][n] \in Content
    BY <1>1, <1>4 DEF TypeOK
  <2>2. QED BY <1>4, <2>1, FilesAre DEF Content, Blocks
<1>6. CASE /\ disk' = [disk EXCEPT ![p][n] = c] /\ NoFault
           /\ IF n = Len(FilesOf(p)) THEN Goto(a, "forget")
                                     ELSE op' = [op EXCEPT ![a].n = n + 1]
  <2> HIDE DEF c
  <2>1. /\ DOMAIN disk' = Providers
        /\ \A q \in Providers : disk'[q] \in [DOMAIN FilesOf(q) -> Content]
        /\ \A q \in Providers : \A i \in DOMAIN FilesOf(q) :
              q # p => disk'[q][i] = disk[q][i]
    BY <1>1, <1>4, <1>5, <1>6, DiskFacts
  <2>2. /\ op' \in [Actors -> {Idle} \cup Operation]
        /\ op'[a].task = op[a].task /\ op'[a].for = p /\ op'[a].key = op[a].key
        /\ op'[a].plan = op[a].plan /\ Busy(a)' /\ \A b \in Actors \ {a} : op'[b] = op[b]
        /\ \/ op'[a].at = "forget"
           \/ op'[a].at = "strip" /\ op'[a].n = n + 1 /\ n + 1 \in DOMAIN FilesOf(p)
    <3>1. CASE n = Len(FilesOf(p))
      BY <1>1, <1>5, <1>6, <3>1, GotoFacts
    <3>2. CASE n # Len(FilesOf(p))
      <4> DEFINE o == [op[a] EXCEPT !.n = n + 1]
      <4>1. n + 1 \in DOMAIN FilesOf(p) /\ n + 1 \in Nat
        BY <1>5, <3>2
      <4>2. /\ o \in Operation /\ o.at = "strip" /\ o.task = op[a].task /\ o.for = p
            /\ o.key = op[a].key /\ o.plan = op[a].plan /\ o.n = n + 1
        BY <1>1, <4>1 DEF Operation
      <4>3. op' = [op EXCEPT ![a] = o]
        BY <1>6, <3>2
      <4> HIDE DEF o
      <4>4. QED BY <1>1, <4>1, <4>2, <4>3, OpBecomes
    <3>3. QED BY <3>1, <3>2
  <2>3. TypeOK'
    BY <1>1, <1>2, <1>6, <2>1, <2>2, FaultFacts, DiskTypeStep
  <2>4. OpInv'
    <3>1. Fits(op'[a], used')
      BY <1>1, <1>3, <1>4, <2>2 DEF Fits, Installing
    <3>2. QED BY <1>3, <2>2, <3>1, OpInvStep DEF IInv
  <2>5. ASSUME serial
        PROVE  Shown' /\ Owned' /\ Work(a)'
    <3>1. Shown /\ Owned /\ Work(a) /\ \A b \in Actors : Busy(b) => b = a
      BY <2>5, <1>1 DEF IInv, SerialInv
    <3>2. Usable' = Usable /\ Receipts' = Receipts /\ Agrees(ProcessOf(a))' = Agrees(ProcessOf(a))
      BY <1>2, KeysStayFacts
    <3>3. \A q \in Providers \ {p} : ProbeInstalled(q) => ProbeInstalled(q)'
      BY <2>1, ProbeStays
    <3>4. receipt[p].key \notin Usable
      BY <1>1, <3>1 DEF Work
    <3>5. Pending = {}
      BY <1>1, <3>1 DEF Pending
    <3>6. Shown' /\ Owned'
      BY <1>2, <3>1, <3>2, <3>3, <3>4, <3>5 DEF Shown, Owned
    <3>7. Work(a)'
      BY <1>1, <1>2, <2>2, <3>1, <3>2, <3>4 DEF Work
    <3>8. QED BY <3>6, <3>7
  <2>6. SerialInv'
    BY <1>1, <1>2, <2>2, <2>5, SerialStep DEF IInv
  <2>7. QED BY <1>3, <2>3, <2>4, <2>6 DEF IInv
<1>7. CASE Fault /\ Finish(a) /\ UNCHANGED disk
  <2>1. /\ op' \in [Actors -> {Idle} \cup Operation]
        /\ ~Busy(a)' /\ \A b \in Actors \ {a} : op'[b] = op[b]
    BY <1>1, <1>7, FinishFacts
  <2>2. TypeOK'
    <3>1. DOMAIN disk' = Providers /\ \A q \in Providers : disk'[q] \in [DOMAIN FilesOf(q) -> Content]
      BY <1>1, <1>7 DEF TypeOK
    <3>2. QED BY <1>1, <1>2, <1>7, <2>1, <3>1, FaultFacts, DiskTypeStep
  <2>3. OpInv'
    BY <1>3, <2>1, OpInvStep DEF IInv
  <2>4. SerialInv'
    BY <1>1, <1>2, <1>7, <2>1, KeysStayFacts, FinishSerial
  <2>5. QED BY <1>3, <2>2, <2>3, <2>4 DEF IInv
<1>8. QED BY <1>6, <1>7 DEF StripFile

LEMMA ForgetReceiptStep ==
  ASSUME IInv, NEW a \in Actors, ForgetReceipt(a)
  PROVE  IInv'
<1> DEFINE p == op[a].for
<1>1. /\ Busy(a) /\ op[a].at = "forget" /\ Fits(op[a], used) /\ TypeOK /\ p \in Providers
  BY DEF ForgetReceipt, Busy, IInv, OpInv, Fits
<1>2. UNCHANGED << file, mem, secrets, used, disk, reqVars, started, acked, manual, leaked, serial >>
  BY DEF ForgetReceipt, keyVars, history
<1>3. /\ op' \in [Actors -> {Idle} \cup Operation]
      /\ ~Busy(a)' /\ \A b \in Actors \ {a} : op'[b] = op[b]
  BY <1>1, FinishFacts DEF ForgetReceipt
<1>4. OpInv' /\ RequestInv'
  BY <1>2, <1>3, OpInvStep, RequestsStay DEF IInv
<1>5. KeyTypes' /\ faults' \in 0..MaxFaults /\ manual' \subseteq Keys /\ leaked' \subseteq Keys
  BY <1>1, <1>2, FaultFacts DEF ForgetReceipt, TypeOK, KeyTypes, Entries
<1>6. CASE receipt' = [receipt EXCEPT ![p] = NoReceipt]
  <2>1. NoReceipt \in [key : Keys \cup {NoKey}, hashes : Seq(Content)] /\ NoReceipt.key = NoKey
    BY DEF NoReceipt
  <2> HIDE DEF NoReceipt
  <2>2. /\ receipt' \in [Providers -> [key : Keys \cup {NoKey}, hashes : Seq(Content)]]
        /\ receipt'[p].key = NoKey /\ \A q \in Providers \ {p} : receipt'[q] = receipt[q]
    BY <1>1, <1>6, <2>1 DEF TypeOK
  <2>3. TypeOK'
    BY <1>1, <1>2, <1>3, <1>5, <2>2 DEF TypeOK, KeyTypes, Entries, reqVars
  <2>4. KeyInv'
    BY <1>2, <2>2 DEF IInv, KeyInv
  <2>5. ASSUME serial
        PROVE  Shown' /\ Owned'
    <3>1. Shown /\ Owned /\ Work(a) /\ \A b \in Actors : Busy(b) => b = a
      BY <2>5, <1>1 DEF IInv, SerialInv
    <3>2. Usable' = Usable /\ NoKey \notin Usable
      BY <1>2, KeysAssumption DEF Usable, NoKey
    <3>3. receipt[p].key \notin Usable
      BY <1>1, <3>1 DEF Work
    <3>4. \A q : ProbeInstalled(q)' = ProbeInstalled(q)
      BY <1>2 DEF ProbeInstalled, ClaudeProbe, CodexProbe, GeminiProbe, CopilotProbe
    <3>5. Shown'
      BY <2>2, <3>1, <3>2, <3>4 DEF Shown
    <3>6. Pending = {}
      BY <1>1, <3>1 DEF Pending
    <3>7. ASSUME NEW x \in Receipts, x \in Usable
          PROVE  x \in Receipts'
      <4>1. PICK q \in Providers : x = receipt[q].key
        BY <3>7 DEF Receipts
      <4>2. QED BY <2>2, <3>3, <3>7, <4>1 DEF Receipts
    <3>8. Owned'
      BY <1>2, <3>1, <3>2, <3>6, <3>7 DEF Owned
    <3>9. QED BY <3>5, <3>8
  <2>6. SerialInv'
    BY <1>1, <1>2, <1>3, <2>5, SerialStep DEF IInv
  <2>7. QED BY <1>4, <2>3, <2>4, <2>6 DEF IInv
<1>7. CASE UNCHANGED receipt
  <2>1. TypeOK'
    BY <1>1, <1>2, <1>3, <1>5, <1>7, TypeStep DEF agentVars
  <2>2. KeyInv'
    BY <1>2, <1>7 DEF IInv, KeyInv
  <2>3. Usable' = Usable
    BY <1>2 DEF Usable
  <2>4. SerialInv'
    BY <1>1, <1>2, <1>3, <1>7, <2>3, FinishSerial
  <2>5. QED BY <1>4, <2>1, <2>2, <2>4 DEF IInv
<1>8. QED BY <1>6, <1>7 DEF ForgetReceipt

LEMMA EditFileStep ==
  ASSUME IInv, NEW p \in Providers, NEW i \in DOMAIN FilesOf(p), EditFile(p, i)
  PROVE  IInv'
<1> DEFINE c == [disk[p][i] EXCEPT !.edits = @ + 1]
<1>1. UNCHANGED << file, mem, secrets, used, receipt, op, reqVars, faults, acked, manual,
                   leaked, serial >> /\ KeysStay /\ TypeOK
  BY DEF EditFile, history, keyVars, KeysStay, IInv
<1>2. disk[p][i] \in Content
  BY <1>1 DEF TypeOK
<1>3. c \in Content /\ c.block = disk[p][i].block
  BY <1>2 DEF Content
<1>4. disk' = [disk EXCEPT ![p][i] = c]
  BY <1>2 DEF EditFile, Content
<1> HIDE DEF c
<1>5. /\ DOMAIN disk' = Providers
      /\ \A q \in Providers : disk'[q] \in [DOMAIN FilesOf(q) -> Content]
      /\ \A q \in Providers : \A j \in DOMAIN FilesOf(q) : disk'[q][j].block = disk[q][j].block
  BY <1>1, <1>3, <1>4, DiskFacts
<1>6. TypeOK'
  <2>1. started' \in 0..MaxStarted
    BY <1>1, KeysAssumption DEF EditFile, TypeOK
  <2>2. QED BY <1>1, <1>5, <2>1 DEF TypeOK, reqVars
<1>7. OpInv' /\ KeyInv' /\ RequestInv'
  BY <1>1, KeysStayFacts, RequestsStay DEF IInv, OpInv, Busy
<1>8. SerialInv'
  <2> SUFFICES ASSUME serial PROVE SerialInv'
    BY <1>1 DEF SerialInv
  <2>1. /\ Shown /\ Owned /\ \A a, b \in Actors : Busy(a) /\ Busy(b) => a = b
        /\ \A a \in Actors : Busy(a) => Work(a)
    BY DEF IInv, SerialInv
  <2>2. /\ Usable' = Usable /\ Receipts' = Receipts /\ \A w : Agrees(w)' = Agrees(w)
    BY <1>1, KeysStayFacts
  <2>3. \A q \in Providers : ProbeInstalled(q) => ProbeInstalled(q)'
    BY <1>5, ProbeStays
  <2>4. Pending' = Pending
    BY <1>1 DEF Pending, Busy
  <2>5. Shown' /\ Owned'
    BY <1>1, <2>1, <2>2, <2>3, <2>4 DEF Shown, Owned
  <2>6. ASSUME NEW a \in Actors, Busy(a)
        PROVE  Work(a)'
    <3>1. Work(a) /\ Fits(op[a], used)
      BY <2>1, <2>6 DEF IInv, OpInv
    <3>2. op[a].at \in {"write", "save"} => op[a].for \in Providers
      BY <3>1 DEF Fits, Installing
    <3>3. QED BY <1>1, <1>5, <2>2, <3>1, <3>2 DEF Work
  <2>7. QED BY <1>1, <2>1, <2>5, <2>6 DEF SerialInv, Busy
<1>9. QED BY <1>6, <1>7, <1>8 DEF IInv

-----------------------------------------------------------------------------
(* An operation begins; a process is killed.                               *)

LEMMA BeginStep ==
  ASSUME IInv, NEW a \in Actors, NEW task \in Tasks, NEW for, Begin(a, task, for),
         task \in {"install", "uninstall", "repair"} => for \in Providers,
         task = "revoke" => for \in Keys, task = "add" => for = NoKey
  PROVE  IInv'
<1> DEFINE o == [task |-> task, at |-> "begin", for |-> for, key |-> NoKey,
                 plan |-> << >>, n |-> 1]
           w == ProcessOf(a)
<1>1. /\ UNCHANGED << file, secrets, used, receipt, disk, reqVars, faults, acked, manual, leaked >>
      /\ ~Busy(a) /\ TypeOK /\ OpInv /\ KeyInv
  BY DEF Begin, agentVars, IInv, Busy
<1>2. o \in Operation /\ o.at = "begin" /\ o.task = task /\ o.for = for /\ o.n = 1
  BY DEF Operation, Tasks
<1>3. op' = [op EXCEPT ![a] = o]
  BY DEF Begin
<1> HIDE DEF o
<1>4. /\ op' \in [Actors -> {Idle} \cup Operation]
      /\ op'[a] = o /\ Busy(a)' /\ \A b \in Actors \ {a} : op'[b] = op[b]
  BY <1>1, <1>2, <1>3, OpBecomes
<1>5. /\ mem' \in [Processes -> Entries] /\ file \in Entries
      /\ \A v \in Processes : mem'[v] = mem[v] \/ mem'[v] = file
  BY <1>1 DEF Begin, TypeOK, Entries
<1>6. TypeOK'
  <2>1. started' \in 0..MaxStarted
    BY <1>1, KeysAssumption DEF Begin, TypeOK
  <2>2. serial' \in BOOLEAN
    BY DEF Begin
  <2>3. QED BY <1>1, <1>4, <1>5, <2>1, <2>2 DEF TypeOK, reqVars, Entries
<1>7. KeyInv'
  BY <1>1, <1>5 DEF KeyInv
<1>8. OpInv'
  <2>1. Fits(o, used')
    BY <1>2 DEF Fits, Tasks
  <2>2. QED BY <1>1, <1>4, <2>1, OpInvStep
<1>9. RequestInv'
  BY <1>1, RequestsStay DEF IInv
<1>10. SerialInv'
  <2> SUFFICES ASSUME serial' PROVE SerialInv'
    BY DEF SerialInv
  <2>1. /\ serial /\ (\A b \in Actors : ~Busy(b)) /\ (a = "cli" \/ mem["server"] = file)
    BY DEF Begin, Busy
  <2>2. Shown /\ Owned
    BY <2>1 DEF IInv, SerialInv
  <2>3. /\ Usable' = Usable /\ Receipts' = Receipts /\ Pending = {}
        /\ \A p : ProbeInstalled(p)' = ProbeInstalled(p)
    BY <1>1, <2>1 DEF Usable, Receipts, Pending, ProbeInstalled, ClaudeProbe, CodexProbe,
                      GeminiProbe, CopilotProbe
  <2>4. Shown' /\ Owned'
    BY <1>1, <2>2, <2>3 DEF Shown, Owned
  <2>5. \A b \in Actors : Busy(b)' => b = a
    BY <1>4, <2>1 DEF Busy
  <2>6. mem'[w] = file
    BY <1>1, <2>1 DEF Begin, TypeOK, ProcessOf, Actors, Processes
  <2>7. Work(a)'
    BY <1>1, <1>2, <1>4, <2>6 DEF Work, Agrees
  <2>8. QED BY <2>4, <2>5, <2>7 DEF SerialInv
<1>11. QED BY <1>6, <1>7, <1>8, <1>9, <1>10 DEF IInv

LEMMA KillStep ==
  ASSUME IInv, NEW w \in Processes, Kill(w)
  PROVE  IInv'
<1> DEFINE gone == {a \in Actors : ProcessOf(a) = w /\ op[a] # Idle}
           fresh == [at |-> "new", late |-> FALSE]
<1>1. /\ UNCHANGED << file, secrets, used, receipt, disk, started, acked, manual, serial >>
      /\ TypeOK /\ OpInv /\ KeyInv
      /\ leaked' = leaked \cup ({op[a].key : a \in gone} \ {NoKey})
      /\ mem' = [mem EXCEPT ![w] = file] /\ gone # {} /\ Fault
      /\ op' = [a \in Actors |-> IF a \in gone THEN Idle ELSE op[a]]
      /\ \/ nonces' = << >> /\ recorded' = << >> /\ req' = [r \in Requests |-> fresh]
         \/ UNCHANGED reqVars
  BY DEF Kill, agentVars, IInv
<1>2. /\ op' \in [Actors -> {Idle} \cup Operation]
      /\ \A a \in gone : ~Busy(a)'
      /\ \A a \in Actors \ gone : op'[a] = op[a]
  BY <1>1 DEF TypeOK, Busy
<1>3. \A a \in gone : op[a].key \in Keys \cup {NoKey}
  BY <1>1, OpTyped DEF Busy, Operation
<1>4. leaked \subseteq leaked' /\ leaked' \subseteq Keys /\ faults' \in 0..MaxFaults
  BY <1>1, <1>3, FaultFacts DEF TypeOK
<1>5. /\ mem' \in [Processes -> Entries] /\ file \in Entries
      /\ \A v \in Processes : mem'[v] = mem[v] \/ mem'[v] = file
  BY <1>1 DEF TypeOK, Entries
<1>6. /\ RequestInv' /\ nonces' \in Seq({Of[r] : r \in Requests}) /\ recorded' \in Seq(Requests)
      /\ req' \in [Requests -> [at : {"new", "known", "signed", "handled", "refused"},
                               late : BOOLEAN]]
  <2>1. CASE nonces' = << >> /\ recorded' = << >> /\ req' = [r \in Requests |-> fresh]
    BY <2>1, KeysAssumption DEF RequestInv, NonceInv
  <2>2. CASE UNCHANGED reqVars
    BY <1>1, <2>2, RequestsStay DEF IInv, TypeOK, reqVars
  <2>3. QED BY <1>1, <2>1, <2>2
<1>7. TypeOK'
  BY <1>1, <1>2, <1>4, <1>5, <1>6 DEF TypeOK, Entries
<1>8. KeyInv'
  BY <1>1, <1>5 DEF KeyInv
<1>9. OpInv'
  BY <1>1, <1>2 DEF OpInv, Busy
<1>10. SerialInv'
  <2> SUFFICES ASSUME serial PROVE SerialInv'
    BY <1>1 DEF SerialInv
  <2>1. PICK b \in gone : TRUE
    BY <1>1
  <2>2. Shown /\ Owned /\ \A a \in Actors : Busy(a) => a = b
    BY DEF IInv, SerialInv, Busy
  <2>3. \A a \in Actors : ~Busy(a)'
    BY <1>2, <2>2 DEF Busy
  <2>4. /\ Usable' = Usable /\ Receipts' = Receipts
        /\ \A p : ProbeInstalled(p)' = ProbeInstalled(p)
    BY <1>1 DEF Usable, Receipts, ProbeInstalled, ClaudeProbe, CodexProbe, GeminiProbe,
                CopilotProbe
  <2>5. Pending \cap Usable \subseteq leaked'
    <3>1. Pending \subseteq {op[b].key}
      BY <2>2 DEF Pending
    <3>2. NoKey \notin Usable
      BY KeysAssumption DEF Usable, NoKey
    <3>3. QED BY <1>1, <3>1, <3>2
  <2>6. Shown' /\ Owned'
    BY <1>1, <1>4, <2>2, <2>4, <2>5 DEF Shown, Owned
  <2>7. QED BY <2>3, <2>6 DEF SerialInv
<1>11. QED BY <1>6, <1>7, <1>8, <1>9, <1>10 DEF IInv

-----------------------------------------------------------------------------
(* The invariant, and what follows from it.                                *)

LEMMA InitInv ==
  ASSUME Init
  PROVE  IInv
<1>1. \A p \in Providers : /\ disk[p] = [i \in DOMAIN FilesOf(p) |-> [block |-> NoKey, edits |-> 0]]
                           /\ receipt[p] = NoReceipt
  BY DEF Init
<1>2. [block |-> NoKey, edits |-> 0] \in Content
  BY DEF Content, Blocks
<1>3. NoReceipt \in [key : Keys \cup {NoKey}, hashes : Seq(Content)] /\ NoReceipt.key = NoKey
  BY DEF NoReceipt
<1>4. \A a \in Actors : ~Busy(a)
  BY DEF Init, Busy
<1>5. TypeOK
  <2>1. /\ file \in [Keys -> Entry] /\ mem \in [Processes -> [Keys -> Entry]]
        /\ secrets \subseteq used /\ used \subseteq Keys
    BY KeysAssumption DEF Init, Entry
  <2>2. receipt \in [Providers -> [key : Keys \cup {NoKey}, hashes : Seq(Content)]]
    BY <1>3 DEF Init
  <2>3. DOMAIN disk = Providers /\ \A p \in Providers : disk[p] \in [DOMAIN FilesOf(p) -> Content]
    BY <1>1, <1>2 DEF Init
  <2>4. op \in [Actors -> {Idle} \cup Operation]
    BY DEF Init
  <2>5. /\ req \in [Requests -> [at : {"new", "known", "signed", "handled", "refused"},
                                late : BOOLEAN]]
        /\ nonces \in Seq({Of[r] : r \in Requests}) /\ recorded \in Seq(Requests) /\ acked \subseteq Keys /\ manual \subseteq Keys
        /\ leaked \subseteq Keys /\ serial \in BOOLEAN
        /\ started \in 0..MaxStarted /\ faults \in 0..MaxFaults
    BY KeysAssumption DEF Init
  <2>6. QED BY <2>1, <2>2, <2>3, <2>4, <2>5 DEF TypeOK
<1>6. OpInv /\ RequestInv
  BY <1>4, KeysAssumption DEF Init, OpInv, RequestInv, NonceInv
<1>7. KeyInv
  <2>1. \A k \in Keys : /\ file[k] = IF k = FirstKey THEN "live" ELSE "absent"
                        /\ \A w \in Processes : mem[w][k] = file[k]
    BY DEF Init
  <2>2. QED BY <1>1, <1>3, <2>1 DEF Init, KeyInv
<1>8. SerialInv
  <2>1. \A p \in Providers : receipt[p].key \notin Usable
    BY <1>1, <1>3, KeysAssumption DEF Usable, NoKey
  <2>2. Usable \subseteq manual
    BY DEF Init, Usable
  <2>3. QED BY <1>4, <2>1, <2>2 DEF SerialInv, Shown, Owned
<1>9. QED BY <1>5, <1>6, <1>7, <1>8 DEF IInv

LEMMA OpStepInv ==
  ASSUME IInv, NEW a \in Actors, OpStep(a)
  PROVE  IInv'
<1>1. \/ SetSecret(a) \/ RecordKey(a) \/ KeysAdd(a) \/ KeysRevoke(a)
      \/ InstallBegin(a) \/ RepairBegin(a) \/ WriteFile(a) \/ UndoInstall(a)
      \/ SaveReceipt(a) \/ UninstallBegin(a) \/ StripFile(a) \/ ForgetReceipt(a)
  BY Zenon DEF OpStep
<1>2. QED BY <1>1, SetSecretStep, RecordKeyStep, KeysAddStep, KeysRevokeStep,
             InstallBeginStep, RepairBeginStep, WriteFileStep, UndoInstallStep,
             SaveReceiptStep, UninstallBeginStep, StripFileStep, ForgetReceiptStep, Zenon

LEMMA NextInv ==
  ASSUME IInv, [Next]_vars
  PROVE  IInv'
<1>1. CASE Command \/ KeysCommand \/ Call
  <2> DEFINE Subjects == Providers \cup Keys \cup {NoKey}
  <2>1. PICK a \in Actors, task \in Tasks, for \in Subjects :
          /\ Begin(a, task, for)
          /\ task \in {"install", "uninstall", "repair"} => for \in Providers
          /\ task = "revoke" => for \in Keys
          /\ task = "add" => for = NoKey
    <3>1. CASE Command
      <4>1. PICK p \in Providers, task \in {"install", "uninstall", "repair"} : Begin("cli", task, p)
        BY <3>1, Zenon DEF Command
      <4>2. "cli" \in Actors /\ task \in Tasks /\ task # "revoke" /\ task # "add"
        BY DEF Actors, Tasks
      <4>3. p \in Subjects
        OBVIOUS
      <4>4. QED BY <4>1, <4>2, <4>3, Zenon
    <3>2. CASE KeysCommand
      <4>1. CASE Begin("cli", "add", NoKey)
        <5>1. "cli" \in Actors /\ "add" \in Tasks
              /\ "add" \notin {"install", "uninstall", "repair"} /\ "add" # "revoke"
          BY DEF Actors, Tasks
        <5>2. NoKey \in Subjects
          OBVIOUS
        <5>3. QED BY <4>1, <5>1, <5>2, Zenon
      <4>2. CASE \E k \in used : Begin("cli", "revoke", k)
        <5>1. PICK k \in used : Begin("cli", "revoke", k)
          BY <4>2, Zenon
        <5>2. /\ "cli" \in Actors /\ "revoke" \in Tasks /\ k \in Keys
              /\ "revoke" \notin {"install", "uninstall", "repair"} /\ "revoke" # "add"
              /\ k \in Subjects
          BY DEF Actors, Tasks, IInv, TypeOK
        <5>3. QED BY <5>1, <5>2, Zenon
      <4>3. QED BY <3>2, <4>1, <4>2, Zenon DEF KeysCommand
    <3>3. CASE Call
      <4>1. PICK a \in Actors, p \in Providers, task \in {"install", "uninstall"} : Begin(a, task, p)
        BY <3>3, Zenon DEF Call
      <4>2. task \in Tasks /\ task # "revoke" /\ task # "add"
        BY DEF Tasks
      <4>3. p \in Subjects
        OBVIOUS
      <4>4. QED BY <4>1, <4>2, <4>3, Zenon
    <3>4. QED BY <1>1, <3>1, <3>2, <3>3
  <2>2. QED BY <2>1, BeginStep
<1>2. CASE \E a \in Actors : OpStep(a)
  BY <1>2, OpStepInv
<1>3. CASE \E r \in Requests : RequestStep(r)
  BY <1>3, LookupKeyStep, CheckSignatureStep, CheckAndRecordStep DEF RequestStep
<1>4. CASE \E p \in Providers : \E i \in DOMAIN FilesOf(p) : EditFile(p, i)
  BY <1>4, EditFileStep
<1>5. CASE \E w \in Processes : Kill(w)
  BY <1>5, KillStep
<1>6. CASE UNCHANGED vars
  <2>1. UNCHANGED << keyVars, agentVars, op, reqVars, started, faults, history >>
    BY <1>6 DEF vars
  <2>2. OpInv' /\ KeyInv' /\ SerialInv'
    BY <2>1, RequestMoves
  <2>3. TypeOK' /\ RequestInv'
    <3>1. TypeOK'
      BY <2>1 DEF IInv, TypeOK, keyVars, agentVars, reqVars, history
    <3>2. NonceInv'
      BY <2>1 DEF IInv, RequestInv, NonceInv, reqVars
    <3>3. QED BY <2>1, <3>1, <3>2 DEF IInv, RequestInv, reqVars, history
  <2>4. QED BY <2>2, <2>3 DEF IInv
<1>7. QED BY <1>1, <1>2, <1>3, <1>4, <1>5, <1>6, Zenon DEF Next

\* The inductive invariant: the types, what each step of an operation works on, what the
\* keychain and the entries say of a key, what a request has proved so far, and, while
\* operations follow each other, whose key every usable key is.
THEOREM Inductive == Spec => []IInv
BY InitInv, NextInv, PTL DEF Spec

\* Every variable keeps its type, for any sets of keys, providers and requests.
THEOREM Types == Spec => []TypeOK
<1>1. IInv => TypeOK
  BY DEF IInv
<1>2. QED BY <1>1, Inductive, PTL

\* RevokeKey takes the secret out of the keychain before it reports success, and no
\* identifier is issued twice, so no later request passes the signature, whatever a
\* process with an old map writes to agent-keys.json.
THEOREM RevokedStaysRefused == Spec => []RevokedRefused
<1>1. IInv => RevokedRefused
  BY DEF IInv, RequestInv, RevokedRefused
<1>2. QED BY <1>1, Inductive, PTL

\* CheckAndRecord looks and records in one step, in a cache that holds the requests
\* recorded last: of any number of copies of a signed request, and of any number of other
\* requests of any agent, a second copy is handled only when a whole cache of others was
\* recorded between the two.
THEOREM CopiesAreApart == Spec => []HandledOnce
<1>1. ASSUME IInv
      PROVE  HandledOnce
  <2> SUFFICES ASSUME NEW r \in Requests, NEW s \in Requests, Twice(r, s)
               PROVE  \E i, j \in DOMAIN recorded :
                        /\ recorded[i] = r /\ recorded[j] = s
                        /\ j - i > NonceCap \/ i - j > NonceCap
    BY DEF HandledOnce
  <2>1. DOMAIN recorded = 1 .. Len(recorded) /\ Len(recorded) \in Nat
    BY <1>1 DEF IInv, TypeOK
  <2>2. PICK i \in 1 .. Len(recorded), j \in 1 .. Len(recorded) :
          recorded[i] = r /\ recorded[j] = s
    BY <1>1 DEF IInv, RequestInv, Twice
  <2>3. i < j \/ j < i
    BY <2>1, <2>2 DEF Twice
  <2>4. j - i > NonceCap \/ i - j > NonceCap
    BY <1>1, <2>2, <2>3 DEF IInv, RequestInv, NonceInv, Twice
  <2>5. QED BY <2>1, <2>2, <2>4
<1>2. QED BY <1>1, Inductive, PTL

\* Install, Repair and Uninstall clean up after every failure inside them: while they
\* do not overlap, a usable key has an owner or is one whose clean-up itself failed.
THEOREM KeysHaveOwners == Spec => []NoOrphanKey
<1>1. ASSUME IInv
      PROVE  NoOrphanKey
  <2> SUFFICES ASSUME serial, AtRest
               PROVE  Usable \subseteq Receipts \cup manual \cup leaked
    BY DEF NoOrphanKey, Receipts
  <2>1. Owned
    BY <1>1 DEF IInv, SerialInv
  <2>2. Pending = {}
    BY DEF AtRest, Pending, Busy
  <2>3. QED BY <2>1, <2>2 DEF Owned
<1>2. QED BY <1>1, Inductive, PTL
=============================================================================
