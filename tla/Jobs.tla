-------------------------------- MODULE Jobs --------------------------------
(***************************************************************************)
(* The two kinds of background jobs of the server: scans of the workspace  *)
(* and generations of names by the command line of an AI provider.         *)
(*                                                                         *)
(* Scans run in goroutines of their own, end in any order, and the last to *)
(* end is the one GET /api/projects reads, until a project is created or   *)
(* imported.  Generations share a fixed number of slots; each runs a child *)
(* process whose output is read to its end, under a deadline.              *)
(***************************************************************************)
EXTENDS Naturals, FiniteSets

CONSTANTS
    Projects,       \* names of projects
    ScanIds,        \* scans that may be started
    ListIds,        \* requests GET /api/projects
    GenIds,         \* generations that may be submitted
    MaxConcurrent,  \* slots (NewJobStore)
    NoScan

ASSUME JobsAssumption ==
    /\ MaxConcurrent \in Nat \ {0}
    /\ NoScan \notin ScanIds

VARIABLES
    repos,        \* projects with a .git directory, as a scan finds them
    registered,   \* projects in the ProjectRegistry
    scan,         \* the scans of the JobStore
    lastDone,     \* the scan whose result is served
    outdated,     \* history: scans begun before the cache was last invalidated
    listing,      \* requests for the list of projects
    gen           \* generations: their job and their processes

scanVars == << repos, registered, scan, lastDone, outdated, listing >>
jobVars == << scanVars, gen >>

JobStatus == {"none", "pending", "running", "done", "error"}

JobsTypeOK ==
    /\ repos \subseteq Projects /\ registered \subseteq Projects
    /\ scan \in [ScanIds -> [status : JobStatus, found : SUBSET Projects]]
    /\ lastDone \in ScanIds \cup {NoScan}
    /\ lastDone # NoScan => scan[lastDone].status = "done"
    /\ outdated \subseteq ScanIds
    /\ listing \in [ListIds -> [at : {"none", "merge", "done"},
                                out : SUBSET Projects, due : SUBSET Projects]]
    /\ gen \in [GenIds -> [status : JobStatus, child : BOOLEAN, pipe : BOOLEAN]]

JobsInit ==
    /\ repos \in SUBSET Projects /\ registered = {}
    /\ scan = [s \in ScanIds |-> [status |-> "none", found |-> {}]]
    /\ lastDone = NoScan /\ outdated = {}
    /\ listing = [l \in ListIds |-> [at |-> "none", out |-> {}, due |-> {}]]
    /\ gen = [g \in GenIds |-> [status |-> "none", child |-> FALSE, pipe |-> FALSE]]

-----------------------------------------------------------------------------
(* Scans *)

StartScan(s) ==
    /\ scan[s].status = "none"
    /\ scan' = [scan EXCEPT ![s].status = "pending"]
    /\ UNCHANGED << repos, registered, lastDone, outdated, listing, gen >>

(* The goroutine begins, and walks the workspace as it is at that moment. *)
WalkWorkspace(s) ==
    /\ scan[s].status = "pending"
    /\ scan' = [scan EXCEPT ![s] = [status |-> "running", found |-> repos]]
    /\ UNCHANGED << repos, registered, lastDone, outdated, listing, gen >>

(* Its end is one critical section; only a result replaces the last one. *)
FinishScan(s) ==
    /\ scan[s].status = "running"
    /\ \/ /\ scan' = [scan EXCEPT ![s].status = "done"]
          /\ lastDone' = s
       \/ /\ scan' = [scan EXCEPT ![s].status = "error", ![s].found = {}]
          /\ UNCHANGED lastDone
    /\ UNCHANGED << repos, registered, outdated, listing, gen >>

(* InvalidateCache: the served result is forgotten. *)
InvalidateCache ==
    /\ lastDone' = NoScan
    /\ outdated' = {s \in ScanIds : scan[s].status # "none"}

(* POST /api/projects and /api/import register the project and invalidate. *)
AddProject(p) ==
    /\ p \notin registered
    /\ registered' = registered \cup {p}
    /\ InvalidateCache
    /\ UNCHANGED << repos, scan, listing, gen >>

(* A repository appears in the workspace or goes. *)
ChangeRepos(p) ==
    /\ repos' = IF p \in repos THEN repos \ {p} ELSE repos \cup {p}
    /\ UNCHANGED << registered, scan, lastDone, outdated, listing, gen >>

(* GET /api/projects: the last result, or a scan of its own ...            *)
ListScanned(l) ==
    /\ listing[l].at = "none"
    /\ listing' = [listing EXCEPT ![l] =
           [at |-> "merge", due |-> registered,
            out |-> IF lastDone = NoScan THEN repos ELSE scan[lastDone].found]]
    /\ UNCHANGED << repos, registered, scan, lastDone, outdated, gen >>

\* Mutant: the registry is merged only into a scan of the request's own.
MergeUncached(l) ==
    /\ listing[l].at = "merge"
    /\ listing' = [listing EXCEPT ![l].at = "done",
                      ![l].out = IF lastDone = NoScan THEN @ \cup registered ELSE @]
    /\ UNCHANGED << repos, registered, scan, lastDone, outdated, gen >>

(* GET /api/scan shows the result of the scans alone. *)
ScanSummary(l) ==
    /\ listing[l].at = "none"
    /\ listing' = [listing EXCEPT ![l] =
           [at |-> "done", due |-> {},
            out |-> IF lastDone = NoScan THEN repos ELSE scan[lastDone].found]]
    /\ UNCHANGED << repos, registered, scan, lastDone, outdated, gen >>

(* ... then the registered projects that are not among them.               *)
MergeRegistered(l) ==
    /\ listing[l].at = "merge"
    /\ listing' = [listing EXCEPT ![l].at = "done",
                                  ![l].out = @ \cup registered]
    /\ UNCHANGED << repos, registered, scan, lastDone, outdated, gen >>

-----------------------------------------------------------------------------
(* Generations *)

Submit(g) ==
    /\ gen[g].status = "none"
    /\ gen' = [gen EXCEPT ![g].status = "pending"]
    /\ UNCHANGED scanVars

\* Mutant: a generation that failed does not give its slot back.
SlotsLeaked == {g \in GenIds : gen[g].status \in {"running", "error"}}

(* The generations that hold a slot. *)
Running == {g \in GenIds : gen[g].status = "running"}

(* A slot of the semaphore; then the child process starts. *)
Acquire(g) ==
    /\ gen[g].status = "pending"
    /\ Cardinality(Running) < MaxConcurrent
    /\ gen' = [gen EXCEPT ![g] = [status |-> "running", child |-> TRUE, pipe |-> FALSE]]
    /\ UNCHANGED scanVars

(* The child starts a process of its own, which inherits its output. *)
Fork(g) ==
    /\ gen[g].child /\ ~gen[g].pipe
    /\ gen' = [gen EXCEPT ![g].pipe = TRUE]
    /\ UNCHANGED scanVars

(* The child ends, or is killed at the deadline. *)
ChildEnds(g) ==
    /\ gen[g].child
    /\ gen' = [gen EXCEPT ![g].child = FALSE]
    /\ UNCHANGED scanVars

(* A process it started ends. *)
OrphanEnds(g) ==
    /\ gen[g].pipe
    /\ gen' = [gen EXCEPT ![g].pipe = FALSE]
    /\ UNCHANGED scanVars

(* cmd.Output returns when the child has ended and nobody holds its output *)
(* any more; only then, and after the deadline, is the process group       *)
(* killed, and the slot given back.                                        *)
Return(g) ==
    /\ gen[g].status = "running" /\ ~gen[g].child /\ ~gen[g].pipe
    /\ \E st \in {"done", "error"} : gen' = [gen EXCEPT ![g].status = st]
    /\ UNCHANGED scanVars

JobsNext ==
    \/ \E s \in ScanIds : StartScan(s) \/ WalkWorkspace(s) \/ FinishScan(s)
    \/ \E p \in Projects : AddProject(p) \/ ChangeRepos(p)
    \/ \E l \in ListIds : ListScanned(l) \/ ScanSummary(l) \/ MergeRegistered(l)
    \/ \E g \in GenIds : Submit(g) \/ Acquire(g) \/ Fork(g) \/ ChildEnds(g)
                        \/ OrphanEnds(g) \/ Return(g)

(* The deadline ends every child; goroutines that can go on do. *)
JobsFairness ==
    \A g \in GenIds : WF_gen(Acquire(g)) /\ WF_gen(ChildEnds(g)) /\ WF_gen(Return(g))

-----------------------------------------------------------------------------
(* What must hold *)

(* handleListProjects (projects.go:36): a project that was registered      *)
(* before the request is in the answer, whatever scan result is served and *)
(* whichever scan replaces it meanwhile.                                   *)
RegisteredListed ==
    \A l \in ListIds : listing[l].at = "done" => listing[l].due \subseteq listing[l].out

GenEnded(g) == gen[g].status \in {"done", "error"}

(* JobStore.run: a submitted job ends, as long as no process keeps the     *)
(* output of a child open for ever; waiting for a slot is no deadlock.     *)
JobsEnd ==
    (\A g \in GenIds : []<>~gen[g].pipe) =>
        \A g \in GenIds : gen[g].status = "pending" ~> GenEnded(g)

(* executor.go:14: "DefaultTimeout is the maximum wall-clock time allowed  *)
(* for a single AI CLI call": a call that began is over at some time.      *)
CallTimesOut == \A g \in GenIds : gen[g].status = "running" ~> GenEnded(g)

(* progress.go:190: after InvalidateCache the list of projects "is forced  *)
(* to run a fresh scan".                                                   *)
CacheIsFresh == lastDone \notin outdated
=============================================================================
