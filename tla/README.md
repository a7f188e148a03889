# A TLA+ verification of Vedox

Vedox is a local documentation server: a Go daemon (`src/apps/cli`) that serves
Markdown files of registered repositories through an HTTP API and a Svelte editor,
keeps a full-text index of them in SQLite, publishes edits as git commits, counts
usage, takes commands by voice, and lets agents in with API keys. This directory holds
TLA+ modules of its stateful parts, the TLC configurations that check them, and proofs
checked by TLAPS.

Paths below are relative to `src/apps/cli/` unless they begin with `src/`.

    tlc -workers 2 -config MCWriterFunnel.cfg MCWriterFunnel     # one run
    tlapm WriterFunnelProofs.tla                                 # the proofs of one module

## 1. Inventory

### Components that are modelled

| Component | State it keeps | Operations | Interacts with |
|---|---|---|---|
| Writer funnel `internal/db/writer.go` | channel of write jobs, `quit`, the transaction being executed | `submit`, `loop`/`exec`, `close` | every mutating method of `Store` and `GlobalDB`; callers' contexts; SQLite |
| File indexer `internal/indexer/indexer.go` | fsnotify queue, debounce maps `pending` and `timers`, `afterFuncWG`, the index rows | `Start`, `runLoop`, `handleEvent`, `scheduleDebounce`, timer callbacks, `Stop` | the files (edited by anyone), the writer funnel, the context of `vedox dev` |
| Daemon lifecycle `cmd/server.go`, `internal/daemon/daemon.go` | lock, PID, port and token files; the process | foreground start, SIGTERM shutdown, server error, `server stop`, `server restart`, `CleanupRunFiles` | other daemons and commands, through the file system, `flock` and signals |
| Analytics pipeline `internal/analytics/collector.go`, `aggregator.go`, `pruner.go` | event channel, batch, table `events`, cursor `lastID`, `events_daily`, cache, the pruner's goroutine | `Emit`, flush, final flush, cycle (tail, add, advance, cache), the pruner's first and daily DELETE, `Stop` of all three | HTTP handlers that emit, both databases (through their funnels), the shutdown sequence |
| Repository registry `internal/registry/registry.go` | manifest `repos.json`, a cache per process, mirror in `global.db` | `NewFileRegistry`, `Add`, `Remove`, `SetDefault`, `Reload` | CLI commands and the daemon, through the file and an `flock` on it |
| Document editing and publishing `src/apps/editor`, `internal/api/docs.go`, `internal/store`, `internal/git` | the editor's text and timer, drafts, files, git's index and HEAD, the registry of stores, the links file | typing, autosave, publish dialog, leaving a page; GET, PUT, DELETE, publish, create, import, link | tabs, other clients, other programs that edit and commit |
| Agent keys and installers `internal/agentauth`, `internal/providers`, `cmd/agent.go`, `cmd/keys.go`, `internal/api/agent.go` | `agent-keys.json`, the keychain, a map per process, the providers' files, receipts, the nonce cache | issue, revoke, list; install, verify, repair, uninstall; `RequireAgent` | commands and handlers that run at the same time, the agents' requests |
| Scan and generation jobs `internal/scanner`, `internal/ai` | jobs, the served result, slots, child processes | start a scan, end, list; start a generation, acquire, read output, deadline | the workspace, the registry of projects, a provider's command line |
| Tasks of a project `internal/api/tasks.go`, `internal/db/tasks.go` | positions of tasks | create, move, delete, renumber | concurrent requests |
| Configuration panels `internal/api/providers*.go` | files of AI providers | GET, PUT with etag, create and delete of agents | concurrent requests, the providers' own programs |
| Voice `internal/voice` | key flag, notification channel, capture goroutine, loop, source | press, release, listen, transcribe, dispatch, `Start`, `Stop`; `ParseIntent` | requests, the audio helper, the API |
| Index tables and graph `internal/db`, `internal/docgraph` | `documents`, `documents_fts`, references, counts, schema version | open and migrate, upsert, delete, rebuild, search, references, graph | processes that open one file |
| History `internal/history` | none: a computation | split, diff, fold, move, summarise, limit | git |
| Code previews `internal/codepreview`, `internal/api/preview.go` | none: a computation | resolve a URI, read, split, cut | files |
| Catalogs of repositories `cmd/repos.go`, `cmd/init.go`, `internal/api/repos.go` | `repos.json`, table `repos`, directories and their marks | create, add, init, remove, set-default; POST of a repo, create, register | commands and requests at the same time |
| Secret stores `internal/secrets` | `secrets.age`, a map per process, the keychain | `AutoDetect`, `Open`, `Put`, `Delete`, `Close`, doctor's probe | processes with a store open |
| Service `internal/daemon/supervisor.go` | unit file or plist, what systemd or launchd knows and runs, PID file | install, uninstall | the manager, daemons started by hand, kills, reboots |

### What is hard about them, and what makes them correct

* **Writer funnel.** Callers, loop and close meet at two channels whose `select`s
  take any ready branch; a caller may leave while its job is queued or executing.
  Correct means: the error that `submit` returns tells the truth about the write, no
  write applies twice, a job whose caller has left does not begin to commit, `close`
  returns only when nothing runs, and everybody gets an answer.
* **File indexer.** Timer callbacks race with new events, with each other, with
  `Stop`, with a cancelled context and with the files. Correct means: once things
  settle the index agrees with the files, `Stop` is final and returns, and the
  WaitGroup is balanced.
* **Daemon lifecycle.** Every file operation may interleave with another process that
  is starting, stopping or cleaning up, and a crash leaves files behind. Correct
  means: one daemon at a time, findable through its files; a restart that is a stop
  and then a start; a SIGTERM that leads to the exit.
* **Analytics.** A lossy channel, batches that may commit and still be reported as
  failed, a cursor in memory over counts on disk, and a shutdown in which the
  consumers stop before the producers. Correct means: rows are stored once, counts
  agree with the cursor, an orderly shutdown keeps what was emitted and ends, although it
  waits for each goroutine in turn, the pruner's in the middle of a DELETE among them.
* **Registry.** Read-modify-write of a file that each write replaces by a rename,
  under an advisory lock on the inode that the rename takes away. Correct means: no
  manifest with two defaults or two repositories of one name, atomic calls, and no
  acknowledged change lost.
* **Documents.** Autosaves overtake each other and the publish, a publish is a file
  write, a `git add` and a `git commit`, and several stores may serve one path. Correct
  means: what settles is committed, a draft goes only where it should, every publish is
  answered.
* **Agent keys.** Metadata in a file that every process overwrites, secrets elsewhere,
  installs that stop half-way. Correct means: a revoked key is refused in every process
  that has seen the revocation and the handlers of one process, a copy of a request is
  handled again only after as many others as the nonce cache holds, a failed install leaves
  no key that works.
* **Jobs, tasks, panels, voice.** Requests act on what they read a step ago. Correct
  means: a list shows every registered project whatever scan ended last; a move leaves
  an order; a panel changes its section of what was shown and no other (comments it does
  lose); the microphone follows the key; jobs end.
* **Index, catalogs, secrets, service.** Several processes, steps that fail and kills
  between them. Correct means: search, counts and graph show what was written last;
  nobody undoes what another was told is done; a store keeps what it acknowledged; a
  service is what its command said.

### Components that are not modelled

`PROJECT.json` lists each with its reason: pure functions of files and strings (secret
scanner, lint, event taxonomy, prompts), routing and JSON translation, diagnostics,
bindings to native libraries, and everything outside the server (web site, templates, the Swift helper, the parts of
the front end that keep nothing but one tab's state).

## 2. Modules

| Module | Models | Role |
|---|---|---|
| `WriteLog` | what callers of the funnel may rely on | abstract specification |
| `WriterFunnel` | `internal/db/writer.go` | implements `WriteLog` |
| `WriterFunnelProofs` | | theorems about `WriterFunnel` |
| `Indexer` | `internal/indexer/indexer.go` | component |
| `IndexerProofs` | | theorems about `Indexer` |
| `DaemonLifecycle` | `cmd/server.go`, `internal/daemon/daemon.go` | component, several processes |
| `DaemonLifecycleProofs` | | theorems about `DaemonLifecycle` |
| `Analytics` | `internal/analytics/*.go` and its wiring in `cmd/server.go` | Collector, Pruner and Aggregator composed with the daemon's start and shutdown |
| `AnalyticsProofs` | | theorems about `Analytics` |
| `Registry` | `internal/registry/registry.go` | component, several processes |
| `RegistryProofs` | | theorems about `Registry` |
| `DocumentEditing` | the editor, `internal/api/docs.go`, `projects.go`, `import.go`, `link.go`, `internal/store`, `internal/git` | editor, handlers, stores and git composed |
| `DocumentEditingProofs` | | theorems about `DocumentEditing` |
| `AgentKeys` | `internal/agentauth`, `internal/providers`, `cmd/agent.go`, `cmd/keys.go`, `internal/api/agent.go` | key store, installers and middleware composed |
| `AgentKeysProofs` | | theorems about `AgentKeys` |
| `Requests` | | puts `Jobs`, `TaskBoard`, `ConfigEditing`, `VoicePipeline` and `IntentParser` side by side |
| `Upkeep` | | puts `BlockDiff`, `CodePreview`, `IndexTables`, `RepoCatalog`, `SecretStores` and `ServiceUnit` side by side |
| `PartsProofs` | | theorems about each part of `Upkeep` and of `Requests`, carried over to the two |
| `MC*` | | constants and symmetry for TLC |

The modules meet where the code does. `Indexer`, `Analytics`, `TaskBoard`, `IndexTables`
and `RepoCatalog` use the funnel by what `WriteLog` promises: a write commits and returns
nil, fails without effect, or returns the context's error though it committed (`Outcome`
in `Analytics`, `Upsert`, `Delete` and `LateCommit` in `Indexer`, `Insert` in
`RepoCatalog`). `RepoCatalog` takes a call of the registry, whose steps are `Registry`'s,
as one action. `DaemonLifecycle` treats the pipelines as the step `CloseAll`; `Analytics`
models that step in full and leaves the run files out. `ServiceUnit` takes the daemon of
`DaemonLifecycle` for a process that is there or not.

`Requests` and `Upkeep` compose parts that share no state. Their product would be larger
than any question needs, so a behaviour follows one part (`served` and `followed`), chosen at
the start, with every interleaving inside it. `PartsProofs` shows what links the two: a
behaviour of the whole is one of each part, so that what is proved of a part, in all its
behaviours, holds of the whole.

`PROJECT.json` maps every definition that models code to its lines. Mutants, each the
definition under it with one plausible bug, stand next to the definition and are
marked `Mutant`; nothing else uses them.

### Correspondence of state and actions

**WriterFunnel.** `pc[c]` is where one invocation of `submit` stands: before its first
`select` (`enqueue`), at its second (`await`), or the error it returned. Each ready
branch of a `select` is an action of its own, so Go's random choice among ready
branches is the disjunction of the actions. `loop` is the program counter of the writer
goroutine; `exec` is split where other goroutines may act: after `ctx.Err()` and
`BeginTx` (`Begin`), after the caller's function (`RunFn`), at the check of the context
that `database/sql` makes in `Commit` (`BeginCommit`), and at SQLite's COMMIT, which a
context cannot interrupt any more (`Commit`). `verdict` is the value on its way to
`resp`. `closer[k]` is an invocation of `close`; `sync.Once` makes the second ones wait
for the first. What a transaction writes is abstracted to its place in the commit log.

**Indexer.** A file's content is the number of the edit that wrote it; the index holds
for each path the content it was indexed with. `fsq` is the watcher's queue, `pending`
and `timer` are the two maps under `ix.mu`, `orphans` counts timers that are armed but
no longer in the map, `worker` holds the running `AfterFunc` callbacks, each with a
program counter that stops at each release of the lock, at the file read and at the
write. `wg` is an integer so that it can go negative, which in Go is a panic: after it
only `Restart` is possible. `late` is the COMMIT that was under way when the context was
cancelled. A read of the file, an upsert and a delete may fail at any time, whatever the
reason: the callback logs it and ends. `missed` is history, the changes that were not
followed up and why: `unseen` (nobody watched, or the process went down), `merged`,
`overlap`, `taken` (the slug), `lost` (the context was cancelled) or `failed` (an error of the
store or the database). Time is left out: an armed timer may expire at any moment.

**DaemonLifecycle.** `pc[d]` walks through `runForeground`; every file operation is a
step. The lock file is modelled by its inode: `fd[d]` is the inode a process has open,
`held` the processes whose `flock` succeeded, `lockName` the inode the name refers to.
`CleanupRunFiles` is three steps, executed by the daemon itself or by a stop or restart
command (`cmd[k]`). A SIGTERM before the handler is installed kills.

**Analytics.** `col` and `agg` are the two goroutines, `phase` the daemon's main
goroutine in its shutdown. A transaction has an outcome `(done, err)`; `done /\ err` is
a commit whose caller saw only its context's error. `pruner` is its goroutine: in the first
DELETE, which `Collector.Start` runs before anything else serves; running; or stopped.
`Collector.Stop` waits for it after its own goroutine (`StopStep`). `excused` and `suspect` are history
variables: events nobody promised to store, and whether the counts may be off.

**Registry.** `manifest` and `inode` are the file; every write makes a new inode. A call
goes through `writeMu` (`OpenFile`), the file lock (`Flock`), the read (`ReadManifest`,
by name, whatever inode is locked), the write and the refresh of the cache, with a
failing write and a crash at every point. `overtaken` records that a manifest was
written over one its writer had not read.

**DocumentEditing.** A document stands for its project; a text is the number of the edit it
comes from. `route` is the `ProjectRegistry`, `linked` the file `.vedox/links.json`. `draft`,
`file` and `older` are the disk: where a document is read depends on the store its project is
routed to, and `older` keeps which of its files are older than its draft, the comparison
`handleGetDoc` makes. `index` and `head` are git's. `tab[t]` is one editor (text, timer,
dialog, the request it waits for), `requests` the handlers at work: a publish goes through
`read`, `promote`, `drop`, `add` and `commit`, and each of them may fail, be overtaken by
another request, or be the last one before a restart. `touched` records documents that were
changed in other ways than by publishing.

**AgentKeys.** `file` is `agent-keys.json`, `mem` the map each process made of it, `secrets`
the keychain. `op[a]` is an install, repair, uninstall, issue or revocation by a command or by
one of two handlers; a write of a provider's file, of the key file or the receipt is a step
that may fail or be the last of a killed process. What differs between providers is a table:
the order of their files, which of them name the key, and what `Probe` looks at. `req` and
`nonces` are `RequireAgent`: `nonces` is the LRU that all agents share, oldest first, which
forgets its oldest entry when it holds `NonceCap` (10 000 in the code) and another comes.
History: `recorded` (the requests that were entered, in order), `acked` (revocations reported as done), `manual`,
`leaked`, and `serial` (nothing overlapped, all in one process).

**Jobs.** `scan` and `lastDone` are the scanner's `JobStore`, `registered` the project
registry, `listing` a `GET /api/projects` between its look at the cache and its look at the
registry. `gen[g]` is an AI job with its slot, its child process and the pipe that is read to
its end.

**TaskBoard.** `pos` are the rows; a position is counted in half gaps, so that "too close" is
a small number. `call[c]` is a request between its statements; `alone` says that no other
was under way at the same time. A move whose list could not be read or whose renumbering failed is answered
with 200 all the same (`Unchecked`).

**ConfigEditing.** A file is a number per section, the write that set it. Beside the
sections of the panels there are the keys no panel shows (`rest`), the `comments`, and the
`faults` in its syntax: a handler decodes what it read and encodes the result, so what it
writes has the rest and no comments, and it refuses a file that does not parse, which JSON
with comments does not. `put[r]` is a handler between its read and its rename; `raced` says
that another write came in between, `unread` that a codex file could not be read and was
taken for an empty one.

**VoicePipeline.** `pipeline` are the fields of `Pipeline` and of the source, `source` and
`loop` the two goroutines, `ptt` the flag, the channel and the requests between them, `mic`
what the loop keeps in local variables. `stopping[s]` is a call of `Stop`; the source's
`select` on its `stopCh` and the `close` after it are two steps (`SeeStopCh`,
`CloseStopCh`), and the second close of two calls ends the process. **IntentParser** reads a transcript as `ParseIntent`
does: wake word, longest phrase, near misses by edit distance, the rest as the target.

**IndexTables.** `rows`, `fts`, `refs` and `counts` are the tables; `opener` and `pending` the
processes that migrate the schema; `walk` what a reindex has still to read. `held` records
what the last transaction on each document wrote, `adrift` the counts whose edges went with a
deleted document. The graph and a search are operators on the tables.

**BlockDiff** executes Myers' algorithm one round at a time (`step`, `reach`, `trace`), then
the way back (`at`, `ops`); splitting, folding, moves and the summary are operators on what it
leaves. A line is of a kind; a fence is one of two markers, with or without a language, and
ends at the next line with the same marker. A version that git cannot show counts as empty. **CodePreview** chooses a URI and a file and answers in one step.

**RepoCatalog.** `disk` and `marked` are the directories, `entries` and `default` the
manifest, `repoRows` the table. `stage[c]` is a command or request between its look at the
disk, its change of the disk and its registration. `shown`, `undone` and `wiped` are history.

**SecretStores.** `vault` is `secrets.age`; `cached[p]` the map of a process, `putting[p]` the
change it has in memory and not yet on disk. `ring` is the keychain. `mixed` records that two
processes had the file open at one time.

**ServiceUnit.** `command` is an install or uninstall between two calls of `systemctl` or
`launchctl`; `known`, `enabled`, `runs` and `retries` are what the manager keeps, as far as
the files written here ask it to. After a reboot systemd starts what is enabled, launchd
every plist it finds: `KeepAlive` with `SuccessfulExit` makes it start a job at load, also
where `RunAtLoad` is false.

## 3. Runs

A run called *pass* explores all reachable states; one called *violation* shows that the
code does not do what a comment of it says (section 6).

| Run | Shows |
|---|---|
| `writer` | `TypeOK`, `TruthfulReturn`, `AtMostOnce`, `CloseIsQuiescent`, `NoLateCommit`, the refinement `WriteLogSpec`, and under fairness `EveryoneIsServed` |
| `indexer` | `SettledInSync`, `WaitGroupBalanced`, `NoWriteAfterStop`, `StopTerminates` |
| `indexer_panic` | violation of `NoWaitGroupPanic` |
| `daemon` | `RunFilesTrustworthy`, `RestartIsSequential`, `StopsEnd` |
| `daemon_split` | violation of `OneDaemonServes` |
| `analytics` | `StoredOnce`, `ShutdownKeepsEvents`, `CountsMatchCursor`, `PipelinesGoOn` |
| `registry` | `ManifestsWellFormed`, `OwnWritesAgree`, `AcknowledgedStays`, `CallsReturn` |
| `documents` | `SettledIsCommitted`, `DraftNotLost`, `PublishAnswered` |
| `documents_flush` | violation of `PublishedIsCurrent` |
| `agents` | `RevokedRefused`, `HandledOnce`, `NoOrphanKey` |
| `requests` | `RegisteredListed`, `MoveSettles`, `SectionsKept`, `MicFollowsKey`, `IntentIsRead`, `WorkEnds` |
| `upkeep` | `ShownIsExact` (history and previews), `IndexIsSound`, `RegisteredIsThere`, `ActsOnWhatItShowed`, `SecretsKept`, `ServiceIsAsTold` |

The runs take from a few seconds to four minutes with two workers. The configurations that
are not runs (`MCDaemonLifecycleTwo`, `MC*Observed`, `MCIndexerMerge`,
`MCWriterFunnelStranded`) are started by hand: type invariants of the
larger modules, a larger instance of the daemon, and the further violations of section 6, of
which a configuration lists several to be uncommented one at a time.

### Bounds, and why they are enough

* `writer`: three calls, one that cannot be cancelled, two closers, capacity 1. A full
  channel needs one job queued and one caller waiting, and the third call can be the one
  that executes; the code's 128 slots only make the same states rarer. A second closer is
  the one that waits on `sync.Once`. The proofs (section 5) lift all of these bounds for
  the safety properties.
* `indexer`: two files, one in a directory made at run time (which may never be watched),
  two callbacks at a time, three edits, a stop and one restart; reads and writes may fail
  each time. Two callbacks are what
  the races need (one re-arms or overtakes the other); a third edit is what a removal
  between two writes needs. Later edits give both files one slug.
* `daemon`: three processes and one restart: one process that leaves, one that has the old
  lock file open and one that makes a new one. There is no symmetry, which would not be
  sound with `StopsEnd`; `MCDaemonLifecycleTwo` adds a stop command, with symmetry and the
  safety properties only. The proofs lift both bounds for these.
* `analytics`: two events of two kinds, so that a cycle can fail between the kinds, a
  buffer of one, one database error, one restart; the pruner may be in a DELETE at any
  time. The code's 256 slots are irrelevant to
  what happens when the channel is full. The proofs lift these bounds for the safety
  properties.
* `registry`: a daemon with two calls, a command with one, three repositories, two of
  the same name and all of the same path; each call is one of the few operations that
  get in each other's way (`Asked`). The proofs lift these bounds.
* `documents`: one tab and a client without a tab, two documents (one committed from the
  start, one that is created, imported and linked), two edits, two requests, one failure.
  Two requests are two autosaves that overtake each other, an autosave during a publish, and
  two publishes that share git's index.
* `agents`: four providers, a key from before the start, two handlers and a command; three
  operations of any kind and two failures, so that a clean-up may fail as well. Three requests,
  two of them copies, on a nonce cache of one: the third is what pushes the nonce of a copy
  out.
* `requests`: two scans and a list; two generations on one slot; three tasks, two requests
  and a renumbering distance of 3 half gaps, so that one move makes a gap too small; two
  requests of panels, with two writes; three presses on a channel of one, which is full with the first; words of up to
  four letters, within and beyond the accepted edit distance. The proofs lift these bounds
  for the safety properties, but for the transcripts.
* `upkeep`: documents of up to three lines of four kinds (a heading, text, an item, a fence); files of up to four bytes with a
  cap of three, so that each cap is met from below, at and above; rowids up to three, so
  that one is used again; three commands on two places with one name; two processes with
  three changes; two binaries, two mishaps and two retries. The symmetry of commands and of
  processes is sound as the run checks invariants only. The proofs lift all of
  these bounds but those of documents' lines and files' bytes.

`CHECK_DEADLOCK FALSE` is in every configuration because every system here may stop:
calls are finite, a process that ended stays so, edits are bounded.

## 4. Fairness

* Goroutines that can run do run: weak fairness of the loop, of each call's `select`s, of
  callbacks, commands and calls. Go's scheduler and the operating system give that much.
* A transaction function returns: it is bounded by SQLite's busy timeout.
* `Analytics` assumes strong fairness of the branch `<-ctx.Done()` (`LastFlush`, the final
  cycle): Go picks among ready branches at random, so a branch that is ready again and
  again is taken; the tickers (5 s and 60 s) are not ready most of the time anyway.
* `Analytics` assumes that a DELETE of the pruner ends: it goes through the writer funnel,
  which serves everybody (`EveryoneIsServed`), and its transaction is bounded like any other.
* `Registry` assumes that a lock that is free is granted: `CallsReturn` is weakly fair in
  each call.
* `DocumentEditing` assumes that every request has a goroutine and that git commands end.
* `Requests` assumes that a slot that is free is taken, that the child process of a
  generation and the reader of its pipe go on, that the voice goroutines run, that the
  timer of a recording expires, and that a recogniser and the server it dispatches to
  answer. A grandchild that keeps the pipe open need not close it: `WorkEnds` names it, and
  `CallTimesOut` is violated by it.
* Not assumed: that anyone edits, cancels, calls, presses, stops or starts anything, and
  that a server fails or a process crashes. No action of the environment is fair.

## 5. Proofs

### Writer funnel

`WriterFunnelProofs` proves, for all sets `Calls` and `Closers`, every capacity
`Cap > 0`, and any subset of calls that cannot be cancelled (the assumptions
`CapAssumption`, `BackgroundAssumption`, `NoCallAssumption`):

| Theorem | States |
|---|---|
| `TypeCorrect` | `Spec => []TypeOK` |
| `Truthful` | `Spec => []TruthfulReturn` |
| `NoDuplicateCommit` | `Spec => []AtMostOnce` |
| `QuiescentClose` | `Spec => []CloseIsQuiescent` |
| `NoLateCommitHolds` | `Spec => NoLateCommit`, an action property |
| `FunnelImplementsWriteLog` | `Spec => WriteLogSpec`, the refinement |

None of the properties is inductive by itself. `TruthfulReturn` speaks of calls that have
returned, but what makes it true is said about those that have not: that a job in the
queue is undecided, that the verdict on its way to the response channel agrees with the
log, that a call which got an answer got the one in its channel. So the argument follows
a call through every place it can be, and `IInv` has one conjunct per place:

* `QueueInv`: a queued call has not been answered, executed or committed, is queued once,
  and its caller waits or has left because of its context.
* `LoopInv`: the loop has a call in hand exactly while it executes or replies; the call is
  undecided until `exec` has a verdict, and the verdict is true.
* `CallInv`: a call that never got past the first `select` has no answer and no commit; an
  answer agrees with the log; who returned an answer returned the one in the channel.
* `CloseInv`: a `close` that returned has seen the loop stop.
* `AtMostOnce` and `TypeOK`.

`InitInv` and `StepInv` (one step per action) prove that `IInv` is inductive; the four
invariants follow from it. The refinement needs to know which step decides: the lemmas
`BeginsPending`, `CommitSteps` and `CommitDoes` say that only `BeginCommit` opens a
decision, for a caller that still waits, and only `Commit` ends it; `StatusOf` and
`StatusMoves` relate the program counters to what a caller knows. The mapping is
`AbstractStatus` for `status`, `Deciding` for `deciding`, and `committed` for `log`.

### Registry

`RegistryProofs` proves, for all sets of processes, calls and repositories (assumptions:
`RegsAssumption`, `ReposAssumption`, `CallsAssumption`, `AskedAssumption`), with crashes and failing writes:

| Theorem | States |
|---|---|
| `Inductive` | `Spec => []IInv` |
| `Forms` | `Spec => []ManifestsWellFormed` |
| `OwnWrites` | `Spec => []OwnWritesAgree` |
| `Acknowledgements` | `Spec => []AcknowledgedStays` |

A call writes what it made of a manifest it read earlier, so the properties of the file need
a fact about the calls that have not written yet. `CallInv` says that the calls of one
process exclude each other and that none runs before a manifest exists; `ReadInv` that what a
call has read is the manifest in place or that another process has written since; `CacheInv`
that a process which wrote last has what it wrote in its cache; `AddInv` that a repository in
any manifest is one of those stored from the start or of a single call that is past its
write. With these, `FormInv` (each manifest, cached, read or on disk, is well formed) and
`StayInv` (what is acknowledged is there, unless somebody wrote over what it had not read)
are preserved by each step.

### Analytics

`AnalyticsProofs` proves, for all sets of events and kinds, every buffer and any number of
database errors, crashes and restarts (assumption: `BoundsAssumption`):

| Theorem | States |
|---|---|
| `Inductive` | `Spec => []IInv` |
| `NoDuplicateRows` | `Spec => []StoredOnce` |
| `NothingPromisedIsLost` | `Spec => []ShutdownKeepsEvents` |
| `CountsAreRight` | `Spec => []CountsMatchCursor` |

The argument follows an event through the channel, the batch and the table. `PlaceInv`: it is
in one of them at a time, once. `KeepInv`: what is promised and not stored is in one of the
first two, and after the last drain not in the channel. `StopInv`: how far the Collector and
the Aggregator are in each phase of the shutdown, so that at its end both places are empty.
`CycleInv` and `CountInv`: in the middle of a cycle the kinds that were added are counted up
to what the cycle has read, the others up to the cursor; the property itself speaks only of
the end of a cycle.

### Daemon lifecycle

`DaemonLifecycleProofs` proves, for any number of processes and commands (assumptions:
`CmdsAssumption`, `NobodyAssumption`), with crashes and kills at any moment:

| Theorem | States |
|---|---|
| `Inductive` | `Spec => []IInv` |
| `RunFilesTrusted` | `Spec => []RunFilesTrustworthy` |
| `RestartsSequential` | `Spec => []RestartIsSequential` |

`LockInv`: who is past `flock` holds the lock, no two hold it on one inode, and only a live
process that opened the file has an inode. `FileInv`: until a cleanup hits another process
every open lock file is the one that has the name, except that of a daemon which has just
removed it and is about to release it; so the holders are one (`HoldersAreOne`), and the
files it wrote stay its own. `CmdInv`: the target of a command was started once, and is dead
from its first `os.Remove` on. That no dead process comes back (`Onward`) keeps this true
while others move, and gives `RestartIsSequential`.

### Indexer

`IndexerProofs` proves, for every finite set of files and of callbacks, any number of
invocations of `Stop`, of edits and of restarts (assumptions: `BoundsAssumption`,
`PathsAssumption`, `WorkersAssumption`):

| Theorem | States |
|---|---|
| `Inductive` | `Spec => []IInv` |
| `WaitGroup` | `Spec => []WaitGroupBalanced` |
| `DebounceKeepsUp` | `Spec => []SettledInSync` |
| `StopIsFinal` | `Spec => NoWriteAfterStop`, an action property |

`SettledInSync` speaks of an index where nothing is pending; what makes it true is that the
latest change of a path is always in exactly one place: in the watcher's queue, in the
debounce, in the hand of a callback, or in the row. `SyncInv` says so of each path none of
whose changes the history has listed as not followed up: the last event queued of it fits the
file (`QueueFits`); else the debounced operation does (`OpFits`), and has a timer that is armed
or a callback about to take it (`OpDue`); else the callback at work has read what the file
holds, or the row agrees (`RowFits`). It needs that at most one callback of the path is at work
(`OneCallback`) and that one that waits for the mutex has a timer which nobody has armed again
(`TimerInv`): that is where `Reset` of an expired timer breaks it, and why `raced` is part of
the statement. `CountInv` counts the timers that are armed and the callbacks under way, for
which the lemmas about finite sets are used; `RunInv` says at which points of `runLoop` there
are none; with `StopInv` and `LateInv` a callback that starts after `Stop` ends at its check of
the context.

### Document editing

`DocumentEditingProofs` proves, for all documents and every finite set of tabs, and any number
of edits, requests, failures and restarts (assumptions: `DocsAssumption`, `TabsAssumption`,
`NoTextAssumption`, `BoundsAssumption`):

| Theorem | States |
|---|---|
| `Inductive` | `Spec => []IInv` |
| `Types` | `Spec => []TypeOK` |
| `PublishCommits` | `Spec => []SettledIsCommitted` |
| `DraftKept` | `Spec => DraftNotLost`, an action property |

`CommitInv` holds for every document that nothing but publishes has written: while its file,
git's index and the commit differ, a publish of it is under way that has still to reach the
step which makes them agree (`WillAdd`, `WillCommit`). As `git commit` is given no path, the publish
of one document also commits what that of another has staged; the invariant speaks of what is
staged and committed, not of who did it. A publish that fails half way puts its document among
`touched`, and one that is alone takes it out again. `DraftNotLost` depends on the one comparison the code makes, of the
draft's time with the file's, so `DropInv` says of a publish about to remove the draft that the
file is newer or another text was saved. For the second case texts must not be confused:
`TextInv` says that a text which is still on its way to a draft is on its way once, and is not
the draft nor what a publish has read; `MadeInv` that each was typed before.

### Agent keys

`AgentKeysProofs` proves, for all sets of keys and requests and any number of operations,
failing writes and killed processes (assumption: `KeysAssumption`):

| Theorem | States |
|---|---|
| `Inductive` | `Spec => []IInv` |
| `Types` | `Spec => []TypeOK` |
| `RevokedStaysRefused` | `Spec => []RevokedRefused` |
| `CopiesAreApart` | `Spec => []HandledOnce` |
| `KeysHaveOwners` | `Spec => []NoOrphanKey` |

Two processes write one file, each what its own map says, so a revoked key may be back in the
file as live. What refuses it is the secret: `KeyInv` says that a key which any process took
for revoked, or which was reported as revoked, has no secret and was issued before, hence never
gets one again; `RequestInv` that a request which is late has not got past the signature.
`NonceInv`, a part of it, says that the cache holds the nonces of the last `NonceCap` requests
that were recorded, and that two records of one signed request are more than `NonceCap`
apart; what was handled was recorded. `NoOrphanKey` is about operations one at a time, but in the
middle of one a key is in no receipt, so `SerialInv` follows the one operation at work
(`Work`): which key it has written and where, that the map of its process agrees with the file
for every key with a secret, and that what an install replaces has shown up as installed
(`Shown`). `OpInv` says what each step works on, for which the lists of files of the four
providers are expanded once (`FilesAre`).

### The parts of Upkeep and of Requests

`PartsProofs` has one section per part and one about each of the two modules that put parts side
by side.

| Part | Theorems | The inductive invariant |
|---|---|---|
| `RepoCatalog` | `CatalogInductive`; `Registered`: `RegisteredIsThere`; `ActsOnShown`: `ActsOnWhatItShowed` | which operation can be at which stage; who is about to register has a repository; a success of a request has its row; names are unique; what was found was shown |
| `SecretStores` | `SecretsInductive`; `NothingIsLost`: `SecretsKept` | how the map of a process may differ from the file while it is open, after it was closed and before there is a file; the change being written is in the map already |
| `ServiceUnit` | `ServiceInductive`; `ServiceTold`: `ServiceIsAsTold` | what each step of a command has already done, whatever the manager, a reboot or a kill does in between |
| `IndexTables` | `IndexInductive`; `IndexSound`: `IndexIsSound` | the schema never goes back, whoever of several processes migrates it; every rowid belongs to one document and is indexed with the words of its last text; references are of documents that are there; a count differs from the edges only for a target that was not refreshed since |
| `BlockDiff` | `DiffInductive`; `DiffTyped`: `DiffTypeOK`; `ShortestScript`: `ScriptIsShortest`; `CompleteReport`: `ReportIsComplete` | each row of `trace` holds the furthest point that so many edits reach on each diagonal; on the way back the edits recorded so far align the rest of the two documents, and with `step` they are as many as the distance |
| `CodePreview` | `PreviewInductive`; `PreviewTyped`: `PreviewTypeOK`; `PreviewExact`: `PreviewIsExact` | the answer, once there, is the one of the URI and the file |
| `Jobs` | `JobsInductive`; `ListsAreComplete`: `RegisteredListed` | what a request must show is registered until it merges the registry, and in its answer after that |
| `VoicePipeline` | `VoiceInductive`; `MicrophoneFollows`: `MicFollowsKey` | at most one request is under way and it has set the flag; without one the last notification in the channel says what the flag says; with an empty channel a microphone that listens has the flag |
| `ConfigEditing` | `ConfigInductive`; `PanelsKeepSections`: `SectionsKept`, an action property | a request that nobody overtook since its check, and that could read its file, has read what its client was shown, which parses, and the file still holds it |
| `TaskBoard` | `BoardInductive`; `MovesSettle`: `MoveSettles`, an action property | a request that runs alone is the only one under way, and the list it is about to renumber lists the board as it is |
| `IntentParser` | `SpeechInductive`; `IntentRead`: `IntentIsRead` | the intent, once there, is that of the transcript |
| `Upkeep`, `Requests` | `BehavesAsParts`, `RequestsBehaveAsParts`; `UpkeepSafe`, `RequestsSafe`; `UpkeepTyped`, `RequestsTyped` | none but `followed` and `served`: every step of the whole is a step of one part and leaves the others alone, so the specification of the whole implies that of each part |

They hold for all values of the constants that satisfy the assumptions the modules of the parts
name; TLC evaluates these on every run. Most only say what a constant is (among them
`HistoryAssumption`, `PreviewAssumption`, `TreesAssumption` and `WordsAssumption`). That the links
of a document (`ContentsAssumption`) and the tasks of a project (`BoardAssumption`) are finitely
many is so in the code as well, and so is that somebody opens the index (`OpenersAssumption`).
`RulesAssumption` says of the table of phrases what holds of the one in `intent.go:124-213`: a
phrase that captures the rest of the words comes after every phrase it begins, only
"document" captures, what is accepted without the wake word is a whole phrase, and the one for
"stop" begins with it.

Two arguments are about finite sets rather than steps. `IndexTables` takes the least free
rowid, the newest migration and the best-connected nodes of a graph; that these exist is shown
by a least counterexample, with the well-foundedness of strict inclusion on finite sets
(`LeastFailing`), in place of an induction theorem. In `TaskBoard` a listing names as many tasks
as there are, each once, so it names all of them (`OrderShape`, by `FS_Injection`); then a board
without two neighbours that are too close has no two tasks that are (`ListedApart`), and
renumbering in the order of the list keeps that order (`RenumberingSettles`).

`BlockDiff`, `CodePreview` and `IntentParser` are algorithms more than protocols: their steps
are few, and the work is in what their recursive functions compute. The library's induction theorems cannot
be used, as they take an operator as a parameter, but sets of numbers can. `Least` gives a
non-empty set of naturals its least element, from the well-foundedness of `<`; so what holds
of no least counterexample holds. `Iterate` shows that a function which is defined by a first
value and a step exists on `0..N`, without which `CHOOSE` (and a recursive definition is one)
says nothing; then its equations may be used. `Grid` does the same for two indices: what holds
of a cell if it holds of the three before it holds of the whole table. With these:

* **The script is a shortest one.** `Distance` is recursive, Myers' loop goes by rounds.
  `FollowFacts`, `ReachedIsNear` and `NearIsReached` say that what a diagonal reaches in a round
  takes no more edits than there were rounds, and that what takes no more is reached (`FirstRound`,
  `NextRound`). So the round that reaches the end has the number of the distance
  (`LengthIsDistance`), no later than after as many as there are blocks, which is why `DiffTypeOK`
  holds. Each step of the way back goes to a point of the round before (`RoundBefore`).
* **The report is complete.** The blocks of a document are laid out over its lines in order, and
  what is between them is blank (`LaidIs`). The script is told from left to right, one or two
  edits at a time (`ToldCovers`), and the summary is a sum over what is told.
* **A preview is exact.** Splitting cuts the file at each newline that was read, so the n-th line
  is the n-th stretch between two, and what is cut from it is the CR or what is past the cap.
* **The wake word.** The distance of Levenshtein's table changes by at most one with an edit of
  one letter (`ReplacedApart`, `LongerApart`), so a word made by two edits is within the threshold; and a word
  within it is undone along the table, one edit for each step that costs one (`ReachedStep`),
  so it was made by as many (`HeardIsNear`).
* **The intent.** The first rule that fits a transcript is also the most special one: by
  `RulesAssumption` no phrase that captures stands before a whole one that fits as well.

### What stays with TLC

The liveness properties of the passing runs (`EveryoneIsServed`, `StopTerminates`, `StopsEnd`,
`PipelinesGoOn`, `CallsReturn`, `PublishAnswered`, `WorkEnds`): TLAPS proves neither liveness under
fairness nor `ENABLED`. Every safety property and action property of the passing runs is stated
by a theorem.

## 6. What the checks found

Each of these is a violation run: the property states what the quoted comment says, and
TLC shows a behaviour of the code that breaks it.

| Run | The code says | The code does |
|---|---|---|
| `indexer_panic` | `indexer.go:471-475` every `Done` balances an `Add` | `Reset` on a timer that has expired, while its callback waits for `ix.mu`, gives two callbacks for one `Add`: the WaitGroup counter goes negative, which panics |
| `daemon_split` | `internal/daemon/daemon.go:277-279` a second daemon gets `ErrAlreadyRunning` | `CleanupRunFiles` unlinks the lock file under a process that has it open; the next daemon locks a new inode and both serve |
| `documents_flush` | `src/apps/editor/src/lib/editor/Editor.svelte:233` "Flush any pending auto-save timer so content is up to date." | `openPublishDialog` only cancels the timer; publish promotes the server's draft, without the edits of the last delay, and the dirty mark is cleared |

A passing property names what it does not hold for; within the model there are no other
cases. `raced` in `WaitGroupBalanced`; the reasons in `missed` for `SettledInSync`, which
says nothing of a path whose change met an error of the store or the database; `disturbed` in
`RunFilesTrustworthy`; `suspect` in `CountsMatchCursor`; `excused` in `ShutdownKeepsEvents`;
`overtaken` in `AcknowledgedStays`; `touched` in `SettledIsCommitted`; in `HandledOnce` a
copy that comes after as many other requests as the nonce cache holds; `serial` and `leaked`
in `NoOrphanKey`; `alone` in `MoveSettles`, and a move whose list or renumbering failed;
`raced` and `unread` in `SectionsKept`, and the loss of comments; `lossy` in `MicFollowsKey`;
in `WorkEnds` a source that fails to start, a pipe that is held open, and a call of `Stop`
that ends in a panic; `adrift` in `IndexIsSound`; `wiped` in `ActsOnWhatItShowed`; `tried` and
`mixed` in `SecretsKept`; `unreached` in `ServiceIsAsTold`.

Further statements of comments that TLC refutes, each with a configuration to repeat it:

| Property | Configuration | The code says | The code does |
|---|---|---|---|
| `EverySubmitReturns` | `MCWriterFunnelStranded` | `writer.go:50-51` the drain is there "so submitters don't block forever on resp" | a `submit` whose `select` picks the free slot after the loop has drained and returned waits for ever, if its context never ends (the flushes of analytics use such contexts) |
| `MergedInSync` | `MCIndexerMerge` | `indexer.go:1-2` "keeps the SQLite FTS5 index in sync" | a removal and a write within 300 ms, as by `git checkout`, delete the row of a file that exists |
| `RestartsDoNotDoubleCount` | `MCAnalyticsObserved` | `aggregator.go:6-10` restarts do not double-count | the cursor starts at 0 in every process, so all rows are counted again |
| `ShutdownFlushesAll` | `MCAnalyticsObserved` | `cmd/server.go:416-417`, `518-519` in-flight events are flushed | the Collector returns on the signal, while requests that emit events are still being drained |
| `CommittedIsServed` | `MCDocumentEditingObserved` | `docs.go:184` "Have committed file, no newer draft" | the store of a created project looks one directory further down |
| `MissingSecretIsFine` | `MCAgentKeysObserved` | `agentauth.go:269-270` "A 'not found' error on delete is fine" | the keychain answers with an error of its own type, which `IsNotFound` does not recognise: the key stays live in the file |
| `ReplayIsCaught` | `MCAgentKeysObserved` | `nonce.go:13-20` the size is "the practical upper bound given the 5-minute clock-skew window and a generous 100 req/s peak load", and a replay within the window "is still caught" | the cache is shared by all agents and forgets its oldest entry when it is full; a copy that comes after as many other requests is handled again; at that load the window sees 30 000 requests and the cache holds 10 000 |
| `CollapseIsRepaired` | `MCRequestsObserved` | `tasks.go:124` "If renumbering is needed we return the full list" | a list or a renumbering that fails is only logged, and the answer is 200 with the moved task, as if there had been room |
| `ErrorsBailOut` | `MCRequestsObserved` | `providers_codex.go:224` "On conflict or error it writes the response and returns a sentinel error so callers can bail out" | a file that cannot be read passes for an empty one when the client sends the empty etag |
| `StopIsSafe` | `MCRequestsObserved` | `pipeline.go:230` "Stop is safe to call multiple times and from any goroutine" | two calls at once both find the source's `stopCh` open, and the second `close` panics; production calls `Stop` once (`cmd/server.go:513`, `cmd/voice.go:182`) |
| `InitialIsEmpty` | `MCUpkeepObserved` | `gitlog.go:28-29` `Changes` is "Empty for the initial commit." | the first commit is compared with an empty document, and each of its blocks is an addition; the test asks for changes of "Every entry except the initial commit" (`gitlog_test.go:152`) and does not look at that one |
| `CallTimesOut` | `MCRequestsObserved` | `internal/ai/executor.go:14` "the maximum wall-clock time allowed for a single AI CLI call" | the output is read to its end, which a grandchild of the provider may keep open |
| `TargetsAreFiles` | `MCRequestsObserved` | `intent.go:158` "any remaining text becomes Target", a path | "document everything please" asks for a file of the name "everything please" |
| `DroppingIsSafe` | `MCRequestsObserved` | `pipeline.go:193-195` "the loop will read the latest pttActive value directly" | the loop never reads it: with a dropped release it goes on listening |
| `CacheIsFresh` | `MCRequestsObserved` | `progress.go:188-190` after an invalidation the list "is forced to run a fresh scan" | a scan that was running fills the cache again with what it found before |
| `CommandsHaveRoutes` | `MCRequestsObserved` | `dispatch.go:50-58` commands go to `/v1/agent/trigger` and `/v1/agent/cancel` | no server has these routes; only "status" is answered |
| `CountsNeverDrift` and twelve others | `MCUpkeepObserved` | see the comment of each in its module | among them: counts outlive their edges, a link ends elsewhere than the editor's, `init` and `repos add` differ, two processes with `secrets.age` open undo each other, a retried `Delete` says not found, `install --force` leaves the older binary running, `uninstall` takes the file of a daemon started by hand, an anchor beyond the cap counts as beyond the end, a CR before the last newline is shown |

Met while modelling, and part of the models, without a run of their own:

* `vedox dev` starts the indexer without a reindex (`cmd/dev.go:102`), although
  `indexer.go:468-469` counts on one; what a shutdown or a crash dropped stays out of the
  index until the file changes again.
* Two files with one project and slug, such as two `README.md` without frontmatter, cannot
  both have a row (migration 003); the second upsert fails and is only logged.
* The daemon releases its lock before its databases are closed (`cmd/server.go:509`,
  `daemon.go:269`), and a refused start has truncated the lock file already
  (`daemon.go:287` before `298`).
* A cycle of the aggregator that fails between two kinds adds the first ones again
  (`aggregator.go:196`).
* Two processes can lose each other's registry updates: the waiter for an inode that was
  renamed away and the opener of the new one hold "the" lock together, and
  `NewFileRegistry` writes an empty manifest after a `stat`, without a lock
  (`registry.go:198`).
* A `Reload` whose write fails leaves marks in the cache that are not in the file
  (`registry.go:402`).
* The tier `age` is detected wherever there is a home directory, so the tier of the
  environment is never reached there; only `doctor` calls `AutoDetect` in production.
* Commands and the daemon have maps of their own of `agent-keys.json`, and each write undoes
  what another process wrote; two installs of one provider at a time leave a key behind.
  `providers.go` promises a check that the provider's program is present, and the comment of
  `Verify` (`claude.go:231`) one more; neither is made.
* A press that comes before `Start` is kept in the channel (`pipeline.go:183-184`), and a
  `Stop` during a failing `Start` waits for ever. Two requests may pass the voice server's
  rate limit at once (`server.go:172`).
* A settings file with comments is refused as invalid: `providers.go:339-343` says that its
  comments would be dropped, which happens to TOML and to the YAML of an agent only. A missing
  and an empty file have the same etag, although `providers.go:34-36` says that it lets callers
  tell them apart.
* The plist of a service that is installed without `--auto-start` has `RunAtLoad` false and
  `KeepAlive` with `SuccessfulExit`, which launchd takes for a reason to start the job at
  every login (`supervisor.go:129-133`).
* The scanner's cache goes by the modification time of a directory and does not see a change
  in a file below; `PUT /api/settings` is a read, a merge and a rename without a lock.
* The limit of a history cuts off the predecessor of the oldest version listed, which then
  shows everything as added; a version from before a rename is read at the current path; of
  two equal blocks one that was removed is told as moved.
* `Reindex`, `SaveRefs` and `DeleteRefs` have no caller in production (`vedox reindex` is a
  placeholder). Migration 1001 says its columns are added if they do not
  exist; they are added, or it fails.
* The commands register in `repos.json` only, the API in `global.db` only. A create whose
  client has left may be stored all the same, and every retry collides with its path; after
  a failed registration the directory stays, and a retry of `repos create` refuses it.
* `server stop --force` kills a supervised daemon, which the manager starts again.

### Abstractions a reader should know

* `Indexer`: the filters of `addDirTree` (depth, hidden directories, symlinks) are
  abstracted to which files are watched; a rename is a removal and a creation; the watcher's
  queue does not overflow; a call whose context ended while its COMMIT was under way is the
  one write recorded in `late`, since the funnel has one COMMIT at a time.
* `DaemonLifecycle`: a PID is never reused by another program; port selection has two
  outcomes, success or error; the supervisors (launchd, systemd) are processes that start
  daemons at any moment (`Launch`).
* `Analytics`: draining the channel into a batch is one step; after the cancellation one
  more tick may be served before the final cycle; all events are of one day; the pruner's
  DELETE takes time and may fail, but which rows it takes (those older than a year) is left
  out; an effect is placed before the return of its call.
* `Registry`: time stamps and the paused status, which no caller sets, are left out; a
  repository id is used by one `Add`, since ids are fresh UUIDs.
* `WriterFunnel`: `BeginTx`, the function and the commit may fail at any time; a transaction
  has no effect before its commit, which is SQLite's promise.
* `DocumentEditing`: a project has one document; path checks, body limits and frontmatter are
  left out; every request has two texts at most, the one sent and the one its tab showed.
* `AgentKeys`: requests are signed correctly; clocks (the window of time stamps, the expiry of
  nonces) and the rate limiter are left out, so a nonce is forgotten only when the cache is full; the text around a block is the number of
  times a person changed it.
* `Jobs`: what a scan finds is a set of projects; the output of a provider is whether there is
  more of it.
* `ConfigEditing`: decoding and encoding keep the value of every key, in any order (JSON
  numbers of more than 53 bits are left out); `POST` of an agent, a look and a write, is one
  step.
* `IndexTables`: columns nothing depends on are left out, a search matches one word, and ranks
  are left out; the rows of one transaction change together.
* `BlockDiff`, `CodePreview`: lines and bytes are of a few kinds, those on which a branch of
  the code depends. A version in which git does not have the file is empty; where `git show`
  itself cannot be run, the older side is empty and an entry without its own text has no changes
  (nothing is compared).
* `RepoCatalog`: repository ids are those of the commands that make them; a call of the
  registry and a write of `global.db` is one step, their inside is in other modules.
* `ServiceUnit`: the managers do what their documentation says of the directives that are
  written; a PID is not used again.
* `SecretStores`: what is encrypted and decoded again is the map that was encoded, which is so
  for the names and hex values the code stores.

## 7. Not modelled, and what comes next

Not modelled, with the reason in `PROJECT.json`: functions of strings and files without state
(event taxonomy, secret patterns and the commit gate, lint, prompts and the answers of
providers, templates), routing and JSON, diagnostics, native audio and recognition, the web
site and the Swift helper, and what the front end keeps for itself. Of the components that are
partly modelled the notes there say what is missing: among it the choice of the port and
SIGHUP in the daemon, dates in analytics, the listing of documents, clocks in `RequireAgent`,
the per-directory cache of the scanner, the socket of the audio helper, and the table of agent
installs.

What would add most:

1. `Indexer` composed with `IndexTables`, so that a callback writes the tables of the graph,
   once production code calls `SaveRefs`.
2. `DaemonLifecycle` composed with `ServiceUnit`: a supervisor that retries a daemon that ends
   at the lock, with the lock's inode modelled.
