------------------------------ MODULE Registry ------------------------------
(***************************************************************************)
(* The repository registry of internal/registry/registry.go: the manifest  *)
(* repos.json, changed by read-modify-write under an flock on the manifest *)
(* itself, and a cache of it in every FileRegistry.  CLI commands and the  *)
(* daemon (on SIGHUP) each have a FileRegistry of their own.               *)
(*                                                                         *)
(* A manifest is the set of its repos, with those marked orphan and those  *)
(* marked default.  Every write renames a new inode over the name, so that *)
(* a lock may be held on an inode that has no name any more.  The paused   *)
(* status, which no caller sets, and time stamps are left out.             *)
(***************************************************************************)
EXTENDS Naturals, FiniteSets

CONSTANTS Regs,      \* FileRegistry instances, one per process
          Mirrored,  \* those with a handle on global.db
          Calls,     \* calls of Add, Remove, SetDefault and Reload
          RegOf,     \* RegOf[c]: the instance that c is called on
          Asked,     \* Asked[c]: the operations that c may be
          Repos,     \* repo ids
          Stored,    \* those in a manifest that is there from the start; the
                     \* others get their UUID from the one Add that adds them
          Movable,   \* those whose directory comes and goes
          NameOf, RootOf,  \* name and root path of a repo
          NoReg      \* no instance

ASSUME RegsAssumption == Mirrored \subseteq Regs /\ NoReg \notin Regs
ASSUME ReposAssumption ==
  /\ Stored \subseteq Repos /\ Movable \subseteq Repos
  /\ \A q, r \in Stored : NameOf[q] = NameOf[r] => q = r
ASSUME CallsAssumption == IsFiniteSet(Calls) /\ RegOf \in [Calls -> Regs]

Ops == ({"add", "remove", "default"} \X Repos) \cup {<<"reload">>}
ASSUME AskedAssumption == \A c \in Calls : Asked[c] \subseteq Ops

VARIABLES
  manifest, inode,  \* the content of repos.json and its inode, 0 if there is none
  gone,        \* repos whose root path does not exist now
  mirror,      \* repos with a row in global.db
  stage,       \* stage[i]: how far NewFileRegistry of instance i got
  cache,       \* cache[i]: byID and byName of instance i
  pc, op, res, \* where call c stands, its operation, its result
  fd,          \* fd[c]: the inode c has open, 0 if none
  seen, new,   \* the inode c has read the manifest from, the manifest it will write
  writer,      \* history: the instance that wrote repos.json last
  overtaken    \* history: a manifest was written over one its writer had not read

disk  == <<manifest, inode>>
calls == <<pc, op, res, fd, seen, new>>
vars  == <<disk, gone, mirror, stage, cache, calls, writer, overtaken>>

Empty == [ids |-> {}, orphans |-> {}, defaults |-> {}]
Manifests == [ids : SUBSET Repos, orphans : SUBSET Repos, defaults : SUBSET Repos]

\* writeMu is held from its Lock to the return, the flock as long as the file is open.
InCall(c) == pc[c] \in {"flock", "read", "write", "refresh"}
HasLock(c) == pc[c] \in {"read", "write", "refresh"}

TypeOK ==
  /\ manifest \in Manifests /\ inode \in Nat
  /\ gone \subseteq Repos /\ mirror \subseteq Repos
  /\ stage \in [Regs -> {"closed", "boot", "load", "ready", "dead"}]
  /\ cache \in [Regs -> Manifests]
  /\ pc \in [Calls -> {"idle", "mu", "flock", "read", "write", "refresh", "done"}]
  /\ op \in [Calls -> Ops \cup {<<"none">>}]
  /\ res \in [Calls -> {"none", "ok", "err"}]
  /\ fd \in [Calls -> 0..inode] /\ \A c \in Calls : fd[c] # 0 => InCall(c)
  /\ seen \in [Calls -> 0..inode] /\ new \in [Calls -> Manifests]
  /\ writer \in Regs \cup {NoReg} /\ overtaken \in BOOLEAN

Init ==
  /\ \/ manifest = Empty /\ inode = 0
     \/ manifest = [Empty EXCEPT !.ids = Stored] /\ inode = 1
  /\ gone = {} /\ mirror = {}
  /\ stage = [i \in Regs |-> "closed"]
  /\ cache = [i \in Regs |-> Empty]
  /\ pc = [c \in Calls |-> "idle"]
  /\ op = [c \in Calls |-> <<"none">>]
  /\ res = [c \in Calls |-> "none"]
  /\ fd = [c \in Calls |-> 0] /\ seen = [c \in Calls |-> 0]
  /\ new = [c \in Calls |-> Empty]
  /\ writer = NoReg /\ overtaken = FALSE

-----------------------------------------------------------------------------
(* Writing.                                                                *)

\* syncToGlobalDB upserts every repo of the manifest.  Any of them may fail, one
\* whose path is that of another row must (the index is unique), silently.
Synced(m) ==
  {t \in SUBSET (mirror \cup m.ids) :
     mirror \subseteq t /\ \A q, r \in t : RootOf[q] = RootOf[r] => q = r}

\* writeManifestLocked: temporary file, fsync, rename, then the mirror.
WriteManifest(i, m, from) ==
  /\ manifest' = m
  /\ inode' = inode + 1
  /\ mirror' \in IF i \in Mirrored THEN Synced(m) ELSE {mirror}
  /\ writer' = i
  /\ overtaken' = (overtaken \/ inode # from)

-----------------------------------------------------------------------------
(* NewFileRegistry: stat, an empty manifest if there is none, load.  No     *)
(* lock is taken.                                                          *)

OpenRegistry(i) ==
  /\ stage[i] = "closed"
  /\ stage' = [stage EXCEPT ![i] = IF inode = 0 THEN "boot" ELSE "load"]
  /\ UNCHANGED <<disk, gone, mirror, cache, calls, writer, overtaken>>

Bootstrap(i) ==
  /\ stage[i] = "boot"
  /\ WriteManifest(i, Empty, 0)
  /\ stage' = [stage EXCEPT ![i] = "load"]
  /\ UNCHANGED <<gone, cache, calls>>

Load(i) ==
  /\ stage[i] = "load"
  /\ cache' = [cache EXCEPT ![i] = manifest]
  /\ stage' = [stage EXCEPT ![i] = "ready"]
  /\ UNCHANGED <<disk, gone, mirror, calls, writer, overtaken>>

-----------------------------------------------------------------------------
(* withFileLock and Reload.                                                *)

Goto(c, l) == pc' = [pc EXCEPT ![c] = l]

\* The call returns: Flock(LOCK_UN), Close and writeMu.Unlock are deferred.
Return(c, r) ==
  /\ Goto(c, "done")
  /\ res' = [res EXCEPT ![c] = r]
  /\ fd' = [fd EXCEPT ![c] = 0]
  /\ seen' = [seen EXCEPT ![c] = 0] /\ new' = [new EXCEPT ![c] = Empty]

Invoke(c, o) ==
  /\ pc[c] = "idle" /\ stage[RegOf[c]] = "ready"
  /\ o[1] = "add" => o[2] \notin Stored /\ \A d \in Calls : op[d] # o
  /\ op' = [op EXCEPT ![c] = o]
  /\ Goto(c, "mu")
  /\ UNCHANGED <<disk, gone, mirror, stage, cache, res, fd, seen, new, writer, overtaken>>

\* Mutant: no writeMu.
OpenFileAtOnce(c) ==
  /\ pc[c] = "mu"
  /\ fd' = [fd EXCEPT ![c] = inode]
  /\ Goto(c, "flock")
  /\ UNCHANGED <<disk, gone, mirror, stage, cache, op, res, seen, new, writer, overtaken>>

\* writeMu.Lock, then the file is opened.  The manifest is there: the registry
\* has loaded it, and nothing removes it.
OpenFile(c) ==
  /\ pc[c] = "mu"
  /\ \A d \in Calls : RegOf[d] = RegOf[c] => ~InCall(d)
  /\ fd' = [fd EXCEPT ![c] = inode]
  /\ Goto(c, "flock")
  /\ UNCHANGED <<disk, gone, mirror, stage, cache, op, res, seen, new, writer, overtaken>>

\* Mutant: a lock on an inode that has lost its name is not good enough.
FlockNamed(c) ==
  /\ pc[c] = "flock"
  /\ fd[c] = inode
  /\ \A d \in Calls \ {c} : HasLock(d) => fd[d] # fd[c]
  /\ Goto(c, "read")
  /\ UNCHANGED <<disk, gone, mirror, stage, cache, op, res, fd, seen, new, writer, overtaken>>

Flock(c) ==
  /\ pc[c] = "flock"
  /\ \A d \in Calls \ {c} : HasLock(d) => fd[d] # fd[c]
  /\ Goto(c, "read")
  /\ UNCHANGED <<disk, gone, mirror, stage, cache, op, res, fd, seen, new, writer, overtaken>>

\* Whether the operation is refused for manifest m: ErrNameConflict,
\* ErrIDConflict, ErrNotFound.
Refused(o, m) ==
  CASE o[1] = "add" -> \E q \in m.ids : q = o[2] \/ NameOf[q] = NameOf[o[2]]
    [] o[1] \in {"remove", "default"} -> o[2] \notin m.ids
    [] o[1] = "reload" -> FALSE

\* Mutant: the old default stays.
AppliedKeepsDefault(o, m) ==
  CASE o[1] = "add"     -> [m EXCEPT !.ids = @ \cup {o[2]}]
    [] o[1] = "remove"  -> [ids |-> m.ids \ {o[2]}, orphans |-> m.orphans \ {o[2]},
                            defaults |-> m.defaults \ {o[2]}]
    [] o[1] = "default" -> [m EXCEPT !.defaults = @ \cup {o[2]}]
    [] o[1] = "reload"  -> [m EXCEPT !.orphans = m.ids \cap gone]

Applied(o, m) ==
  CASE o[1] = "add"     -> [m EXCEPT !.ids = @ \cup {o[2]}]
    [] o[1] = "remove"  -> [ids |-> m.ids \ {o[2]}, orphans |-> m.orphans \ {o[2]},
                            defaults |-> m.defaults \ {o[2]}]
    [] o[1] = "default" -> [m EXCEPT !.defaults = {o[2]}]
    [] o[1] = "reload"  -> [m EXCEPT !.orphans = m.ids \cap gone]

\* Mutant: the cache is taken for the manifest.
ReadManifestFromCache(c) ==
  LET m == cache[RegOf[c]] IN
  /\ pc[c] = "read"
  /\ IF Refused(op[c], m)
       THEN Return(c, "err")
       ELSE /\ seen' = [seen EXCEPT ![c] = inode]
            /\ new' = [new EXCEPT ![c] = Applied(op[c], m)]
            /\ Goto(c, IF op[c][1] = "reload" /\ new'[c] = m THEN "refresh" ELSE "write")
            /\ UNCHANGED <<res, fd>>
  /\ UNCHANGED <<disk, gone, mirror, stage, cache, op, writer, overtaken>>

\* The manifest is read by its name, whatever inode the lock is on.  A refused
\* operation returns its error; a Reload that changes nothing does not write.
ReadManifest(c) ==
  /\ pc[c] = "read"
  /\ IF Refused(op[c], manifest)
       THEN Return(c, "err")
       ELSE /\ seen' = [seen EXCEPT ![c] = inode]
            /\ new' = [new EXCEPT ![c] = Applied(op[c], manifest)]
            /\ Goto(c, IF op[c][1] = "reload" /\ new'[c] = manifest THEN "refresh" ELSE "write")
            /\ UNCHANGED <<res, fd>>
  /\ UNCHANGED <<disk, gone, mirror, stage, cache, op, writer, overtaken>>

Write(c) ==
  /\ pc[c] = "write"
  /\ WriteManifest(RegOf[c], new[c], seen[c])
  /\ Goto(c, "refresh")
  /\ UNCHANGED <<gone, stage, cache, op, res, fd, seen, new>>

\* The temporary file cannot be written or renamed.  A Reload still fills the
\* cache with what it wanted to write.
WriteFails(c) ==
  /\ pc[c] = "write"
  /\ Return(c, "err")
  /\ cache' = IF op[c][1] = "reload" THEN [cache EXCEPT ![RegOf[c]] = new[c]] ELSE cache
  /\ UNCHANGED <<disk, gone, mirror, stage, op, writer, overtaken>>

Refresh(c) ==
  /\ pc[c] = "refresh"
  /\ cache' = [cache EXCEPT ![RegOf[c]] = new[c]]
  /\ Return(c, "ok")
  /\ UNCHANGED <<disk, gone, mirror, stage, op, writer, overtaken>>

-----------------------------------------------------------------------------
\* A repository's directory goes away or comes back.
MoveRoot(r) ==
  /\ gone' = IF r \in gone THEN gone \ {r} ELSE gone \cup {r}
  /\ UNCHANGED <<disk, mirror, stage, cache, calls, writer, overtaken>>

\* The process dies; its locks go with it.
Crash(i) ==
  /\ stage[i] # "dead"
  /\ stage' = [stage EXCEPT ![i] = "dead"]
  /\ pc' = [c \in Calls |-> IF RegOf[c] = i THEN "done" ELSE pc[c]]
  /\ fd' = [c \in Calls |-> IF RegOf[c] = i THEN 0 ELSE fd[c]]
  /\ seen' = [c \in Calls |-> IF RegOf[c] = i THEN 0 ELSE seen[c]]
  /\ new' = [c \in Calls |-> IF RegOf[c] = i THEN Empty ELSE new[c]]
  /\ cache' = [cache EXCEPT ![i] = Empty]
  /\ UNCHANGED <<disk, gone, mirror, op, res, writer, overtaken>>

RegNext(i) == OpenRegistry(i) \/ Bootstrap(i) \/ Load(i)

CallNext(c) ==
  \/ OpenFile(c) \/ Flock(c) \/ ReadManifest(c)
  \/ Write(c) \/ WriteFails(c) \/ Refresh(c)

Next ==
  \/ \E i \in Regs : RegNext(i) \/ Crash(i)
  \/ \E c \in Calls : CallNext(c) \/ \E o \in Asked[c] : Invoke(c, o)
  \/ \E r \in Movable : MoveRoot(r)

Spec == Init /\ [][Next]_vars

\* Goroutines run, and a lock that is free is granted.
Fairness == \A c \in Calls : WF_vars(CallNext(c))

FairSpec == Spec /\ Fairness

-----------------------------------------------------------------------------
\* "All other repos have IsDefault cleared atomically in the same write"
\* (registry.go:315): however calls interleave, also across processes, no
\* manifest and no cache has two defaults.
AtMostOneDefault ==
  \A m \in {manifest} \cup {cache[i] : i \in Regs} : Cardinality(m.defaults) <= 1

\* "Conflict checks on the live manifest (not just in-memory cache)": no manifest
\* has two repos of one name, though the caches are stale.
UniqueNames ==
  \A q, r \in manifest.ids : NameOf[q] = NameOf[r] => q = r

\* What every process reads and shows is a manifest the program could have
\* written by itself, in whatever order processes and calls wrote.
ManifestsWellFormed == TypeOK /\ AtMostOneDefault /\ UniqueNames

\* writeMu makes up for the inode that a rename takes away from under the flock:
\* what a call has read changes before it writes only by another process.
AtomicWithinProcess ==
  \A c \in Calls : pc[c] = "write" /\ inode # seen[c] => writer # RegOf[c]

\* A change that was acknowledged stays until a later call undoes it, unless a
\* process wrote over a manifest that it had not read.
AcknowledgedStays ==
  ~overtaken => \A c \in Calls : res[c] = "ok" =>
    CASE op[c][1] = "add"    -> \/ op[c][2] \in manifest.ids
                                \/ \E d \in Calls : op[d] = <<"remove", op[c][2]>>
      [] op[c][1] = "remove" -> op[c][2] \notin manifest.ids
      [] OTHER -> TRUE

\* The registry that wrote last lists what is in the file, once its calls have
\* returned; orphan marks apart, which a failed Reload shows but did not store.
CacheFollowsOwnWrites ==
  \A i \in Regs :
    stage[i] = "ready" /\ writer = i /\ (\A c \in Calls : RegOf[c] = i => ~InCall(c)) =>
      cache[i].ids = manifest.ids /\ cache[i].defaults = manifest.defaults

\* A process's own writes are one after the other, and it shows what they left.
OwnWritesAgree == AtomicWithinProcess /\ CacheFollowsOwnWrites

\* Every call returns: nobody waits for ever on the mutex or on the file lock.
CallsReturn == \A c \in Calls : (pc[c] = "mu") ~> (pc[c] = "done")
=============================================================================
