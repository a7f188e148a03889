----------------------------- MODULE AgentKeys ------------------------------
(***************************************************************************)
(* The keys that let an AI agent write through Vedox, and the commands and *)
(* handlers that install an agent for a provider                           *)
(* (internal/agentauth, internal/providers, cmd/agent.go, cmd/keys.go,     *)
(* internal/api/agent.go).                                                 *)
(*                                                                         *)
(* A key is an entry of agent-keys.json and a secret in the keychain of    *)
(* the operating system.  Every process reads the file once and later      *)
(* writes its whole map over it.  An install issues a key, writes the      *)
(* files of the provider one after the other and saves a receipt; the      *)
(* server does that in handlers that run concurrently, a command in a      *)
(* process of its own.                                                     *)
(***************************************************************************)
EXTENDS Integers, FiniteSets, Sequences, Functions

CONSTANTS
    Keys,          \* identifiers that uuid.NewString may return
    Providers,     \* the providers that are installed and removed
    Requests,      \* requests of agents that arrive, sent with the first key
    Of,            \* Of[r]: the signed request (key, timestamp, body) r is a copy of
    NonceCap,      \* nonceMaxEntries (10 000 in the code, for all keys together)
    FirstKey,      \* the key that `vedox keys add` issued before the server began
    MaxStarted,    \* commands, calls of the API, requests and edits together
    MaxFaults      \* failing writes, keychain errors and killed processes

ASSUME KeysAssumption ==
    /\ FirstKey \in Keys /\ "none" \notin Keys   \* what stands for no key
    /\ Providers \subseteq {"claude", "codex", "copilot", "gemini"}
    /\ {MaxStarted, MaxFaults} \subseteq Nat
    /\ NonceCap \in Nat \ {0}                  \* lru.New panics without room

Processes == {"server", "cli"}

(* Two handlers of the server may run at once; a command is its process. *)
Actors == {"handler1", "handler2", "cli"}
ProcessOf(a) == IF a = "cli" THEN "cli" ELSE "server"

NoKey == "none"
Anonymous == "block"    \* a block of Vedox that does not name the key
Entry == {"absent", "live", "revoked"}

-----------------------------------------------------------------------------
(* The files of each provider, in the order Install writes them: whether   *)
(* the file belongs to Vedox alone and whether it names the key.           *)

(* Claude: the agent's own file, and a block in CLAUDE.md.  Each provider  *)
(* has its own sign of being installed, for the contents d of its files.   *)
ClaudeFiles == << [own |-> TRUE, named |-> TRUE], [own |-> FALSE, named |-> FALSE] >>
ClaudeProbe(d) == d[1].block # NoKey

(* Codex: a table in config.toml, and a block in AGENTS.md; either shows. *)
CodexFiles == << [own |-> FALSE, named |-> TRUE], [own |-> FALSE, named |-> TRUE] >>
CodexProbe(d) == d[1].block # NoKey \/ d[2].block # NoKey

(* Gemini: the manifest of an extension, and its entry in config.yaml. *)
GeminiFiles == << [own |-> TRUE, named |-> TRUE], [own |-> FALSE, named |-> FALSE] >>
GeminiProbe(d) == d[1].block # NoKey

(* Copilot: one section of copilot-instructions.md. *)
CopilotFiles == << [own |-> FALSE, named |-> FALSE] >>
CopilotProbe(d) == d[1].block # NoKey

FilesOf(p) == CASE p = "claude"  -> ClaudeFiles
                [] p = "codex"   -> CodexFiles
                [] p = "gemini"  -> GeminiFiles
                [] p = "copilot" -> CopilotFiles

Blocks == Keys \cup {NoKey, Anonymous}

(* What Vedox put in a file, and how often a person changed the rest. *)
Content == [block : Blocks, edits : Nat]

VARIABLES
    file,       \* agent-keys.json
    mem,        \* the map of keys in each process
    secrets,    \* keys whose secret is in the keychain
    used,       \* identifiers that were given out
    receipt,    \* the install receipt of each provider
    disk,       \* the provider's files
    op,         \* what each actor is doing
    req,        \* the progress of each request through RequireAgent
    nonces,     \* the cache of signed requests, oldest first
    recorded,   \* history: the copies recorded in it since the server began
    started, faults,
    acked,      \* history: keys whose revocation was reported as done
    manual,     \* history: keys of `keys add`
    leaked,     \* history: keys a failure left behind
    serial      \* history: operations never overlapped, all in one process

keyVars == << file, mem, secrets, used >>
agentVars == << receipt, disk >>
reqVars == << req, nonces, recorded >>
history == << acked, manual, leaked, serial >>
vars == << keyVars, agentVars, op, reqVars, started, faults, history >>

Idle == [task |-> "idle"]
Tasks == {"install", "uninstall", "repair", "add", "revoke"}

Operation == [task : Tasks,
              at : {"begin", "issue", "record", "write", "undo", "save", "strip", "forget"},
              for : Providers \cup Keys \cup {NoKey}, key : Keys \cup {NoKey},
              plan : Seq(Content), n : Nat]

NoReceipt == [key |-> NoKey, hashes |-> << >>]

TypeOK ==
    /\ file \in [Keys -> Entry]
    /\ mem \in [Processes -> [Keys -> Entry]]
    /\ secrets \subseteq used /\ used \subseteq Keys
    /\ receipt \in [Providers -> [key : Keys \cup {NoKey}, hashes : Seq(Content)]]
    /\ DOMAIN disk = Providers
    /\ \A p \in Providers : disk[p] \in [DOMAIN FilesOf(p) -> Content]
    /\ op \in [Actors -> {Idle} \cup Operation]
    /\ req \in [Requests -> [at : {"new", "known", "signed", "handled", "refused"},
                             late : BOOLEAN]]
    /\ nonces \in Seq({Of[r] : r \in Requests}) /\ recorded \in Seq(Requests)
    /\ started \in 0..MaxStarted /\ faults \in 0..MaxFaults
    /\ acked \subseteq Keys /\ manual \subseteq Keys /\ leaked \subseteq Keys
    /\ serial \in BOOLEAN

(* A first key exists; no provider has anything of Vedox. *)
Init ==
    /\ file = [k \in Keys |-> IF k = FirstKey THEN "live" ELSE "absent"]
    /\ mem = [w \in Processes |-> file]
    /\ secrets = {FirstKey} /\ used = {FirstKey}
    /\ receipt = [p \in Providers |-> NoReceipt]
    /\ disk = [p \in Providers |->
                 [i \in DOMAIN FilesOf(p) |-> [block |-> NoKey, edits |-> 0]]]
    /\ op = [a \in Actors |-> Idle]
    /\ req = [r \in Requests |-> [at |-> "new", late |-> FALSE]]
    /\ nonces = << >> /\ recorded = << >>
    /\ started = 0 /\ faults = 0
    /\ acked = {} /\ manual = {FirstKey} /\ leaked = {} /\ serial = TRUE

-----------------------------------------------------------------------------
(* Failures.  Every fallible step has a disjunct that fails. *)

Fault == faults < MaxFaults /\ faults' = faults + 1
NoFault == UNCHANGED faults

(* The operation of a is over. *)
Finish(a) == op' = [op EXCEPT ![a] = Idle]
Goto(a, at) == op' = [op EXCEPT ![a].at = at]

Leak(k) == leaked' = leaked \cup {k}

(* A person or a handler begins an operation; a command loads the file. *)
Begin(a, task, for) ==
    /\ op[a] = Idle /\ started < MaxStarted
    /\ started' = started + 1
    /\ op' = [op EXCEPT ![a] = [task |-> task, at |-> "begin", for |-> for,
                                key |-> NoKey, plan |-> << >>, n |-> 1]]
    /\ mem' = IF a = "cli" THEN [mem EXCEPT !["cli"] = file] ELSE mem
    /\ serial' = (/\ serial
                  /\ \A b \in Actors : op[b] = Idle
                  /\ a = "cli" \/ mem["server"] = file)
    /\ UNCHANGED << file, secrets, used, agentVars, reqVars, faults, acked,
                    manual, leaked >>

(* The server's routes install and uninstall; repair and keys are commands. *)
Command == \E p \in Providers : \E task \in {"install", "uninstall", "repair"} :
              Begin("cli", task, p)
KeysCommand == \/ Begin("cli", "add", NoKey)
               \/ \E k \in used : Begin("cli", "revoke", k)
Call == \E a \in Actors \ {"cli"}, p \in Providers :
            \E task \in {"install", "uninstall"} : Begin(a, task, p)

-----------------------------------------------------------------------------
(* The key store *)

(* writeLocked: the map of this process replaces the file. *)
WriteLocked(w, map) ==
    /\ mem' = [mem EXCEPT ![w] = map]
    /\ file' = map

(* The first half of IssueKey: a fresh identifier, its secret stored. *)
SetSecret(a) ==
    /\ op[a] # Idle /\ op[a].at = "issue"
    /\ \/ \E k \in Keys \ used :
             /\ k = CHOOSE x \in Keys \ used : TRUE
             /\ used' = used \cup {k} /\ secrets' = secrets \cup {k}
             /\ op' = [op EXCEPT ![a].at = "record", ![a].key = k]
             /\ NoFault
       \/ /\ Fault                          \* VDX-302: nothing was stored
          /\ Finish(a)
          /\ UNCHANGED << used, secrets >>
    /\ UNCHANGED << file, mem, agentVars, reqVars, started, history >>

(* The second half, under the lock: the entry is written, or undone. *)
RecordKey(a) ==
    LET w == ProcessOf(a)
        k == op[a].key
    IN /\ op[a] # Idle /\ op[a].at = "record"
       /\ \/ /\ WriteLocked(w, [mem[w] EXCEPT ![k] = "live"])
             /\ IF op[a].task = "add"
                THEN Finish(a) /\ manual' = manual \cup {k}
                ELSE Goto(a, "write") /\ UNCHANGED manual
             /\ NoFault /\ UNCHANGED secrets
          \/ /\ Fault
             /\ secrets' = secrets \ {k}
             /\ Finish(a)
             /\ UNCHANGED << file, mem, manual >>
       /\ UNCHANGED << used, agentVars, reqVars, started, acked, leaked, serial >>

(* RevokeKey by process w; ok says whether it returned nil.  It refuses an *)
(* unknown key, and has nothing to do for a revoked one.  The keychain     *)
(* answers a missing secret with an error of its own, which IsNotFound     *)
(* does not recognise.  The map is changed before the file is written.     *)
RevokeUnknown(w, k) == mem[w][k] = "absent"
RevokeDone(w, k)    == mem[w][k] = "revoked"
RevokeMissing(w, k) == mem[w][k] = "live" /\ k \notin secrets

\* Mutant: any error of the keychain is taken for "not found".
RevokeTolerant(w, k, ok) ==
    /\ mem[w][k] = "live" /\ ok
    /\ \/ secrets' = secrets \ {k} /\ NoFault
       \/ UNCHANGED secrets /\ Fault
    /\ acked' = acked \cup {k}
    /\ WriteLocked(w, [mem[w] EXCEPT ![k] = "revoked"])

RevokeKey(w, k, ok) ==
    \/ /\ RevokeUnknown(w, k) \/ RevokeMissing(w, k)
       /\ ~ok /\ NoFault /\ UNCHANGED << file, mem, secrets, acked >>
    \/ /\ RevokeDone(w, k)
       /\ ok /\ NoFault /\ acked' = acked \cup {k}
       /\ UNCHANGED << file, mem, secrets >>
    \/ /\ mem[w][k] = "live" /\ k \in secrets
       /\ \/ /\ ok /\ NoFault
             /\ secrets' = secrets \ {k} /\ acked' = acked \cup {k}
             /\ WriteLocked(w, [mem[w] EXCEPT ![k] = "revoked"])
          \/ /\ ~ok /\ Fault                \* the keychain refuses
             /\ UNCHANGED << file, mem, secrets, acked >>
          \/ /\ ~ok /\ Fault                \* the file cannot be written
             /\ secrets' = secrets \ {k}
             /\ mem' = [mem EXCEPT ![w][k] = "revoked"]
             /\ UNCHANGED << file, acked >>

(* `vedox keys add` goes to IssueKey; `vedox keys revoke` is one call. *)
KeysAdd(a) ==
    /\ op[a] # Idle /\ op[a].task = "add" /\ op[a].at = "begin"
    /\ Goto(a, "issue")
    /\ UNCHANGED << keyVars, agentVars, reqVars, started, faults, history >>

KeysRevoke(a) ==
    /\ op[a] # Idle /\ op[a].task = "revoke" /\ op[a].at = "begin"
    /\ \E ok \in BOOLEAN : RevokeKey(ProcessOf(a), op[a].for, ok)
    /\ Finish(a)
    /\ UNCHANGED << used, agentVars, reqVars, started, manual, leaked, serial >>

-----------------------------------------------------------------------------
(* The installers *)

ProbeInstalled(p) == CASE p = "claude"  -> ClaudeProbe(disk[p])
                       [] p = "codex"   -> CodexProbe(disk[p])
                       [] p = "gemini"  -> GeminiProbe(disk[p])
                       [] p = "copilot" -> CopilotProbe(disk[p])

(* Plan: the whole new content of each file, with a placeholder for the    *)
(* key.  A shared file keeps what the person wrote, as read now.           *)
Planned(p) ==
    [i \in DOMAIN FilesOf(p) |->
        [block |-> NoKey,
         edits |-> IF FilesOf(p)[i].own THEN 0 ELSE disk[p][i].edits]]

(* substituteKeyID *)
WithKey(p, plan, k) ==
    [i \in DOMAIN plan |->
        [plan[i] EXCEPT !.block = IF FilesOf(p)[i].named THEN k ELSE Anonymous]]

(* Verify compares the files, and nothing else, with the receipt. *)
Healthy(p) == \A i \in DOMAIN disk[p] : disk[p][i] = receipt[p].hashes[i]

GoPlan(a) == op' = [op EXCEPT ![a].at = "issue", ![a].plan = Planned(op[a].for)]

(* Probe and Plan; an agent that is there already is left alone. *)
InstallBegin(a) ==
    /\ op[a] # Idle /\ op[a].task = "install" /\ op[a].at = "begin"
    /\ IF ProbeInstalled(op[a].for) THEN Finish(a) ELSE GoPlan(a)
    /\ UNCHANGED << keyVars, agentVars, reqVars, started, faults, history >>

(* Repair stops at a healthy receipt; else the old key is revoked, as far  *)
(* as that succeeds, and the rest is an install.                           *)
RepairBegin(a) ==
    LET p == op[a].for
        k == receipt[p].key
    IN /\ op[a] # Idle /\ op[a].task = "repair" /\ op[a].at = "begin"
       /\ \/ /\ k # NoKey /\ Healthy(p) /\ Finish(a)
             /\ UNCHANGED << file, mem, secrets, faults, acked, leaked >>
          \/ /\ k = NoKey /\ GoPlan(a)
             /\ UNCHANGED << file, mem, secrets, faults, acked, leaked >>
          \/ /\ k # NoKey /\ ~Healthy(p) /\ GoPlan(a)
             /\ \E ok \in BOOLEAN :
                   /\ RevokeKey(ProcessOf(a), k, ok)
                   /\ IF ok THEN UNCHANGED leaked ELSE Leak(k)
       /\ UNCHANGED << used, agentVars, reqVars, started, manual, serial >>

(* executeFileOps: one file, written by rename; the first failure stops. *)
WriteFile(a) ==
    LET p == op[a].for
        n == op[a].n
    IN /\ op[a] # Idle /\ op[a].at = "write"
       /\ \/ /\ disk' = [disk EXCEPT ![p][n] = WithKey(p, op[a].plan, op[a].key)[n]]
             /\ IF n = Len(op[a].plan) THEN Goto(a, "save")
                                       ELSE op' = [op EXCEPT ![a].n = n + 1]
             /\ NoFault
          \/ Fault /\ Goto(a, "undo") /\ UNCHANGED disk
       /\ UNCHANGED << keyVars, receipt, reqVars, started, history >>

\* Mutant: the key of a failed install is kept.
UndoNothing(a) ==
    /\ op[a] # Idle /\ op[a].at = "undo"
    /\ Finish(a)
    /\ UNCHANGED << keyVars, agentVars, reqVars, started, faults, history >>

(* The key of a failed install is revoked, as far as that succeeds; the    *)
(* files that were written stay.                                           *)
UndoInstall(a) ==
    /\ op[a] # Idle /\ op[a].at = "undo"
    /\ \E ok \in BOOLEAN : /\ RevokeKey(ProcessOf(a), op[a].key, ok)
                           /\ IF ok THEN UNCHANGED leaked ELSE Leak(op[a].key)
    /\ Finish(a)
    /\ UNCHANGED << used, agentVars, reqVars, started, manual, serial >>

(* The receipt replaces the provider's earlier one.  A failure ends a      *)
(* command with an error; the server logs it and answers 201.              *)
SaveReceipt(a) ==
    LET p == op[a].for
        k == op[a].key
    IN /\ op[a] # Idle /\ op[a].at = "save"
       /\ \/ /\ receipt' = [receipt EXCEPT ![p] =
                              [key |-> k, hashes |-> WithKey(p, op[a].plan, k)]]
             /\ NoFault /\ UNCHANGED leaked
          \/ Fault /\ Leak(k) /\ UNCHANGED receipt
       /\ Finish(a)
       /\ UNCHANGED << keyVars, disk, reqVars, started, acked, manual, serial >>

(* Uninstall revokes the key of the receipt first, and stops if it cannot. *)
UninstallBegin(a) ==
    LET k == receipt[op[a].for].key
    IN /\ op[a] # Idle /\ op[a].task = "uninstall" /\ op[a].at = "begin"
       /\ \/ /\ k = NoKey /\ Goto(a, "strip")
             /\ UNCHANGED << file, mem, secrets, faults, acked >>
          \/ /\ k # NoKey
             /\ \E ok \in BOOLEAN : /\ RevokeKey(ProcessOf(a), k, ok)
                                    /\ IF ok THEN Goto(a, "strip") ELSE Finish(a)
       /\ UNCHANGED << used, agentVars, reqVars, started, manual, leaked, serial >>

(* Vedox's own file is removed, its block is cut out of a shared one. *)
StripFile(a) ==
    LET p == op[a].for
        n == op[a].n
        own == FilesOf(p)[n].own
    IN /\ op[a] # Idle /\ op[a].at = "strip"
       /\ \/ /\ disk' = [disk EXCEPT ![p][n] =
                   [block |-> NoKey, edits |-> IF own THEN 0 ELSE disk[p][n].edits]]
             /\ IF n = Len(FilesOf(p)) THEN Goto(a, "forget")
                                       ELSE op' = [op EXCEPT ![a].n = n + 1]
             /\ NoFault
          \/ Fault /\ Finish(a) /\ UNCHANGED disk
       /\ UNCHANGED << keyVars, receipt, reqVars, started, history >>

(* The receipt is deleted; an error of that is ignored. *)
ForgetReceipt(a) ==
    /\ op[a] # Idle /\ op[a].at = "forget"
    /\ \/ receipt' = [receipt EXCEPT ![op[a].for] = NoReceipt] /\ NoFault
       \/ Fault /\ UNCHANGED receipt
    /\ Finish(a)
    /\ UNCHANGED << keyVars, disk, reqVars, started, history >>

(* A person writes in a file of a provider. *)
EditFile(p, i) ==
    /\ started < MaxStarted /\ started' = started + 1
    /\ disk' = [disk EXCEPT ![p][i].edits = @ + 1]
    /\ UNCHANGED << keyVars, receipt, op, reqVars, faults, history >>

(* A process is killed and, the server, started again. *)
Kill(w) ==
    LET gone == {a \in Actors : ProcessOf(a) = w /\ op[a] # Idle}
    IN /\ gone # {} /\ Fault
       /\ op' = [a \in Actors |-> IF a \in gone THEN Idle ELSE op[a]]
       /\ leaked' = leaked \cup ({op[a].key : a \in gone} \ {NoKey})
       /\ mem' = [mem EXCEPT ![w] = file]
       /\ IF w = "server"
          THEN /\ nonces' = << >> /\ recorded' = << >>
               /\ req' = [r \in Requests |-> [at |-> "new", late |-> FALSE]]
          ELSE UNCHANGED reqVars
       /\ UNCHANGED << file, secrets, used, agentVars, started, acked, manual, serial >>

-----------------------------------------------------------------------------
(* RequireAgent: the requests of agents, among them copies of one signed   *)
(* request, as a client that had no answer sends it again.  The window of  *)
(* the timestamp and the expiry of the cache are left out.                 *)

ReqStep(r, from, to) == req[r].at = from /\ req' = [req EXCEPT ![r].at = to]

(* The key's entry, as this process knows it. *)
LookupKey(r) ==
    /\ req[r].at = "new"
    /\ started < MaxStarted /\ started' = started + 1
    /\ req' = [req EXCEPT ![r] =
                 [at |-> IF mem["server"][FirstKey] = "live" THEN "known" ELSE "refused",
                  late |-> FirstKey \in acked]]
    /\ UNCHANGED << keyVars, agentVars, op, nonces, recorded, faults, history >>

(* The secret is fetched and the signature holds; the rate limiter may     *)
(* still refuse.                                                           *)
CheckSignature(r) ==
    /\ \/ FirstKey \in secrets /\ ReqStep(r, "known", "signed")
       \/ ReqStep(r, "known", "refused")
    /\ UNCHANGED << keyVars, agentVars, op, nonces, recorded, started, faults, history >>

(* The cache looks with Peek, so that what Add pushes out is the oldest. *)
Record(r) ==
    /\ nonces' = LET all == Append(nonces, Of[r])
                 IN IF Len(nonces) < NonceCap THEN all ELSE Tail(all)
    /\ recorded' = Append(recorded, r)

\* Mutant: the request is recorded and the earlier record is not looked at.
RecordOnly(r) ==
    /\ Record(r) /\ ReqStep(r, "signed", "handled")
    /\ UNCHANGED << keyVars, agentVars, op, started, faults, history >>

(* CheckAndRecord, then the scope of the key, which refuses too late for   *)
(* the record to be taken back.                                            *)
CheckAndRecord(r) ==
    /\ \/ /\ Of[r] \notin Range(nonces) /\ Record(r)
          /\ ReqStep(r, "signed", "handled") \/ ReqStep(r, "signed", "refused")
       \/ /\ Of[r] \in Range(nonces) /\ UNCHANGED << nonces, recorded >>
          /\ ReqStep(r, "signed", "refused")
    /\ UNCHANGED << keyVars, agentVars, op, started, faults, history >>

RequestStep(r) == LookupKey(r) \/ CheckSignature(r) \/ CheckAndRecord(r)

OpStep(a) ==
    \/ SetSecret(a) \/ RecordKey(a) \/ KeysAdd(a) \/ KeysRevoke(a)
    \/ InstallBegin(a) \/ RepairBegin(a) \/ WriteFile(a) \/ UndoInstall(a)
    \/ SaveReceipt(a) \/ UninstallBegin(a) \/ StripFile(a) \/ ForgetReceipt(a)

Next ==
    \/ Command \/ KeysCommand \/ Call
    \/ \E a \in Actors : OpStep(a)
    \/ \E r \in Requests : RequestStep(r)
    \/ \E p \in Providers : \E i \in DOMAIN FilesOf(p) : EditFile(p, i)
    \/ \E w \in Processes : Kill(w)

Spec == Init /\ [][Next]_vars

-----------------------------------------------------------------------------
(* What must hold *)

AtRest == \A a \in Actors : op[a] = Idle

(* Keys a request can be signed with, as far as the file goes. *)
Usable == {k \in Keys : file[k] = "live" /\ k \in secrets}

(* RevokeKey (agentauth.go:259): once a revocation was reported as done,   *)
(* by any process, no request that arrives later is handled, even when     *)
(* another process has written the key back into the file as live.        *)
RevokedRefused ==
    \A r \in Requests : req[r].late => req[r].at # "handled"

(* Two copies of one signed request that both reach the handler. *)
Twice(r, s) ==
    r # s /\ Of[r] = Of[s] /\ req[r].at = "handled" /\ req[s].at = "handled"

(* RequireAgent (middleware.go:173): in the life of the server a copy of a *)
(* signed request reaches the handler a second time only if as many other  *)
(* requests as the cache holds were recorded in between, also when the     *)
(* copies are checked at the same time.                                    *)
HandledOnce ==
    \A r, s \in Requests : Twice(r, s) =>
        \E i, j \in DOMAIN recorded :
            /\ recorded[i] = r /\ recorded[j] = s
            /\ j - i > NonceCap \/ i - j > NonceCap

(* Install, Repair and Uninstall (claude.go:186): while one operation runs *)
(* at a time on a map that is up to date, whatever fails inside it, every  *)
(* key that can be used belongs to a receipt or was issued by hand; only   *)
(* the keys whose own clean-up failed are left over.                       *)
NoOrphanKey ==
    serial /\ AtRest =>
        Usable \subseteq {receipt[p].key : p \in Providers} \cup manual \cup leaked

(* agentauth.go:269: "A 'not found' error on delete is fine".  A key whose *)
(* secret is already gone can be revoked by the process that has its entry.*)
MissingSecretIsFine ==
    \A a \in Actors :
        op[a] # Idle /\ op[a].task = "revoke" /\ op[a].at = "begin" =>
            ~RevokeMissing(ProcessOf(a), op[a].for)

(* nonce.go:13-20: the size of the cache is "the practical upper bound     *)
(* given the 5-minute clock-skew window and a generous 100 req/s peak      *)
(* load", so that a request replayed "at the very edge of the timestamp    *)
(* validity window is still caught".  At that load the window sees 30 000  *)
(* requests, and the cache holds 10 000.                                   *)
ReplayIsCaught == \A r, s \in Requests : ~Twice(r, s)
=============================================================================
