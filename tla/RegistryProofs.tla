--------------------------- MODULE RegistryProofs ---------------------------
(***************************************************************************)
(* What the repository registry guarantees for every set of processes,     *)
(* calls and repositories.  The inductive invariant says who may be in a   *)
(* call (writeMu), what a call knows of the manifest that it read while it *)
(* is still the one in place, and who may still add or remove a repo.      *)
(***************************************************************************)
EXTENDS Registry, FiniteSetTheorems, TLAPS

Past == {"refresh", "done"}   \* a call there writes no more
Acknowledged(c) == pc[c] = "refresh" \/ res[c] = "ok"
Same(m, n) == m.ids = n.ids /\ m.defaults = n.defaults

\* At most one default, and one repo of each name.
WellFormed(m) ==
  /\ \A q, r \in m.defaults : q = r
  /\ \A q, r \in m.ids : NameOf[q] = NameOf[r] => q = r

FormInv ==
  /\ WellFormed(manifest)
  /\ \A i \in Regs : WellFormed(cache[i])
  /\ \A c \in Calls : WellFormed(new[c])

\* A call is made on an open registry, one writer at a time; an open registry has
\* found a manifest.
CallInv ==
  /\ \A c \in Calls : pc[c] \notin {"idle", "done"} => stage[RegOf[c]] = "ready"
  /\ \A c, d \in Calls : InCall(c) /\ InCall(d) /\ RegOf[c] = RegOf[d] => c = d
  /\ \A i \in Regs : stage[i] \in {"load", "ready"} => inode # 0
  /\ \A c \in Calls : op[c] # <<"none">> => inode # 0
  /\ \A c \in Calls : pc[c] = "idle" => op[c] = <<"none">>
  /\ \A c \in Calls : op[c] = <<"none">> => pc[c] \in {"idle", "done"} /\ res[c] = "none"
  /\ \A c \in Calls : res[c] # "none" => pc[c] = "done"

\* What operation o makes of manifest m, as far as it is listed.
Follows(o, m, n) ==
  /\ \A q \in Repos : o = <<"add", q>> => n.ids = m.ids \cup {q}
  /\ \A q \in Repos : o = <<"remove", q>> => n.ids = m.ids \ {q}
  /\ \A q \in Repos : o = <<"default", q>> => n.ids = m.ids
  /\ o = <<"reload">> => Same(n, m)

\* What is written next is the operation done to the manifest, if that is still the
\* one that was read; and if it is not, another process has written it.
ReadInv ==
  \A c \in Calls : pc[c] = "write" =>
    /\ seen[c] = inode => Follows(op[c], manifest, new[c])
    /\ seen[c] # inode => writer # RegOf[c]

CacheInv ==
  /\ \A c \in Calls : pc[c] = "refresh" /\ writer = RegOf[c] => Same(new[c], manifest)
  /\ \A i \in Regs :
       /\ stage[i] = "ready" /\ writer = i
       /\ \A c \in Calls : RegOf[c] = i => pc[c] # "refresh"
       => Same(cache[i], manifest)

Adds(c, q) == op[c] = <<"add", q>>
Removes(c, q) == op[c] = <<"remove", q>>
\* No call becomes another's.
SameOps ==
  \A d \in Calls, q \in Repos : Adds(d, q)' = Adds(d, q) /\ Removes(d, q)' = Removes(d, q)

\* A repo is there from the start, or by the one call that adds it, which is past its write.
Added(q) == q \in Stored \/ \E c \in Calls : Adds(c, q) /\ pc[c] \in Past
AddInv ==
  /\ \A c, d \in Calls, q \in Repos : Adds(c, q) => q \notin Stored /\ (Adds(d, q) => c = d)
  /\ \A q \in manifest.ids : Added(q)
  /\ \A c \in Calls : pc[c] = "write" => \A q \in new[c].ids : Added(q) \/ Adds(c, q)
  /\ \A c \in Calls, q \in Repos :
       Removes(c, q) /\ (pc[c] = "write" \/ Acknowledged(c)) => Added(q)

\* Unless somebody wrote over what it had not read, what is acknowledged, or about to
\* be, is in the manifest.
StayInv ==
  ~overtaken => \A c \in Calls, q \in Repos : Acknowledged(c) =>
    /\ Adds(c, q) => q \in manifest.ids \/ \E d \in Calls : Removes(d, q)
    /\ Removes(c, q) => q \notin manifest.ids

IInv == TypeOK /\ FormInv /\ CallInv /\ ReadInv /\ CacheInv /\ AddInv /\ StayInv

-----------------------------------------------------------------------------
\* Every operation is one of four shapes.
LEMMA OpsAre ==
  ASSUME NEW o \in Ops
  PROVE  \/ \E q \in Repos : o = <<"add", q>>
         \/ \E q \in Repos : o = <<"remove", q>>
         \/ \E q \in Repos : o = <<"default", q>>
         \/ o = <<"reload">>
BY DEF Ops

\* What Add does to a manifest, and when it is refused.
LEMMA AddApplied ==
  ASSUME NEW m \in Manifests, NEW q \in Repos
  PROVE  /\ Applied(<<"add", q>>, m) = [ids |-> m.ids \cup {q}, orphans |-> m.orphans,
                                        defaults |-> m.defaults]
         /\ Refused(<<"add", q>>, m) <=> \E r \in m.ids : r = q \/ NameOf[r] = NameOf[q]
BY DEF Applied, Refused, Manifests

\* What Remove does to a manifest, and when it is refused.
LEMMA RemoveApplied ==
  ASSUME NEW m \in Manifests, NEW q \in Repos
  PROVE  /\ Applied(<<"remove", q>>, m) = [ids |-> m.ids \ {q}, orphans |-> m.orphans \ {q},
                                           defaults |-> m.defaults \ {q}]
         /\ Refused(<<"remove", q>>, m) <=> q \notin m.ids
BY DEF Applied, Refused, Manifests

\* What SetDefault does to a manifest, and when it is refused.
LEMMA DefaultApplied ==
  ASSUME NEW m \in Manifests, NEW q \in Repos
  PROVE  /\ Applied(<<"default", q>>, m) = [ids |-> m.ids, orphans |-> m.orphans,
                                            defaults |-> {q}]
         /\ Refused(<<"default", q>>, m) <=> q \notin m.ids
BY DEF Applied, Refused, Manifests

\* What Reload does to a manifest; it is never refused.
LEMMA ReloadApplied ==
  ASSUME NEW m \in Manifests
  PROVE  /\ Applied(<<"reload">>, m) = [ids |-> m.ids, orphans |-> m.ids \cap gone,
                                        defaults |-> m.defaults]
         /\ ~Refused(<<"reload">>, m)
BY DEF Applied, Refused, Manifests

\* An operation that is not refused keeps a manifest well formed, and only an Add
\* brings a repo into it.
LEMMA AppliedIsFine ==
  ASSUME NEW o \in Ops, NEW m \in Manifests, ~Refused(o, m)
  PROVE  /\ Applied(o, m) \in Manifests
         /\ WellFormed(m) => WellFormed(Applied(o, m))
         /\ Follows(o, m, Applied(o, m))
         /\ \A q \in Applied(o, m).ids : q \in m.ids \/ o = <<"add", q>>
         /\ \A q \in Repos : o = <<"remove", q>> => q \in m.ids
<1>1. CASE \E q \in Repos : o = <<"add", q>>
  <2>1. PICK q \in Repos : o = <<"add", q>>
    BY <1>1
  <2>2. Applied(o, m) = [ids |-> m.ids \cup {q}, orphans |-> m.orphans,
                          defaults |-> m.defaults]
    BY <2>1, AddApplied
  <2>3. \A r \in m.ids : r # q /\ NameOf[r] # NameOf[q]
    BY <2>1, AddApplied
  <2>4. Follows(o, m, Applied(o, m))
    BY <2>1, <2>2 DEF Follows, Same
  <2>5. WellFormed(m) => WellFormed(Applied(o, m))
    BY <2>2, <2>3 DEF WellFormed
  <2>6. QED BY <2>1, <2>2, <2>3, <2>4, <2>5 DEF Manifests
<1>2. CASE \E q \in Repos : o = <<"remove", q>>
  <2>1. PICK q \in Repos : o = <<"remove", q>>
    BY <1>2
  <2>2. Applied(o, m) = [ids |-> m.ids \ {q}, orphans |-> m.orphans \ {q},
                          defaults |-> m.defaults \ {q}]
    BY <2>1, RemoveApplied
  <2>3. q \in m.ids
    BY <2>1, RemoveApplied
  <2>4. Follows(o, m, Applied(o, m))
    BY <2>1, <2>2 DEF Follows, Same
  <2>5. WellFormed(m) => WellFormed(Applied(o, m))
    BY <2>2, <2>3 DEF WellFormed
  <2>6. QED BY <2>1, <2>2, <2>3, <2>4, <2>5 DEF Manifests
<1>3. CASE \E q \in Repos : o = <<"default", q>>
  <2>1. PICK q \in Repos : o = <<"default", q>>
    BY <1>3
  <2>2. Applied(o, m) = [ids |-> m.ids, orphans |-> m.orphans, defaults |-> {q}]
    BY <2>1, DefaultApplied
  <2>3. q \in m.ids
    BY <2>1, DefaultApplied
  <2>4. Follows(o, m, Applied(o, m))
    BY <2>1, <2>2 DEF Follows, Same
  <2>5. WellFormed(m) => WellFormed(Applied(o, m))
    BY <2>2, <2>3 DEF WellFormed
  <2>6. QED BY <2>1, <2>2, <2>3, <2>4, <2>5 DEF Manifests
<1>4. CASE o = <<"reload">>
  <2>1. Applied(o, m) = [ids |-> m.ids, orphans |-> m.ids \cap gone, defaults |-> m.defaults]
    BY <1>4, ReloadApplied
  <2>2. Follows(o, m, Applied(o, m))
    BY <1>4, <2>1 DEF Follows, Same
  <2>3. WellFormed(m) => WellFormed(Applied(o, m))
    BY <2>1 DEF WellFormed
  <2>4. QED BY <1>4, <2>1, <2>2, <2>3 DEF Manifests
<1>5. QED BY <1>1, <1>2, <1>3, <1>4, OpsAre

\* The manifest of NewFileRegistry.
LEMMA EmptyIsFine == Empty \in Manifests /\ WellFormed(Empty)
BY DEF Empty, Manifests, WellFormed

-----------------------------------------------------------------------------
\* The invariant holds at the start.
LEMMA InitIInv == Init => IInv
<1> SUFFICES ASSUME Init PROVE IInv
  OBVIOUS
<1> USE RegsAssumption, ReposAssumption, CallsAssumption DEF Init
<1>1. manifest \in Manifests /\ WellFormed(manifest) /\ manifest.ids \subseteq Stored
  BY DEF Empty, Manifests, WellFormed
<1>2. TypeOK
  <2>1. inode \in Nat /\ 0 \in 0..inode
    OBVIOUS
  <2>2. /\ stage \in [Regs -> {"closed", "boot", "load", "ready", "dead"}]
        /\ cache \in [Regs -> Manifests]
    BY EmptyIsFine
  <2>3. /\ pc \in [Calls -> {"idle", "mu", "flock", "read", "write", "refresh", "done"}]
        /\ op \in [Calls -> Ops \cup {<<"none">>}] /\ res \in [Calls -> {"none", "ok", "err"}]
        /\ new \in [Calls -> Manifests]
    BY EmptyIsFine
  <2>4. /\ fd \in [Calls -> 0..inode] /\ seen \in [Calls -> 0..inode]
        /\ \A c \in Calls : fd[c] = 0
    BY <2>1
  <2>5. QED BY <1>1, <2>1, <2>2, <2>3, <2>4 DEF TypeOK
<1>3. FormInv
  BY <1>1, EmptyIsFine DEF FormInv
<1>4. CallInv /\ ReadInv /\ CacheInv
  BY DEF CallInv, ReadInv, CacheInv, InCall
<1>5. AddInv /\ StayInv
  BY <1>1 DEF AddInv, StayInv, Added, Adds, Removes, Acknowledged
<1>6. QED BY <1>2, <1>3, <1>4, <1>5 DEF IInv

-----------------------------------------------------------------------------
(* One lemma per action. *)

\* Finding the manifest, or none, changes nothing but where an opening stands.
LEMMA OpenRegistryStep ==
  ASSUME IInv, NEW i \in Regs, OpenRegistry(i)
  PROVE  IInv'
<1> USE CallsAssumption, RegsAssumption, ReposAssumption
    DEF IInv, OpenRegistry, disk, calls
<1>1. TypeOK'
  BY EmptyIsFine DEF TypeOK, InCall
<1>2. FormInv'
  BY EmptyIsFine DEF TypeOK, FormInv
<1>3. CallInv'
  BY DEF TypeOK, CallInv, InCall
<1>4. ReadInv'
  BY DEF TypeOK, CallInv, ReadInv, InCall
<1>5. CacheInv'
  BY DEF TypeOK, CallInv, ReadInv, CacheInv, InCall, Same
<1>6. SameOps
  BY DEF SameOps, Adds, Removes
<1>7. \A q \in Repos : Added(q) => Added(q)'
  BY <1>6 DEF SameOps, TypeOK, Added, Past
<1>8. AddInv'
  BY <1>6, <1>7, EmptyIsFine DEF SameOps, TypeOK, CallInv, AddInv, Acknowledged, Manifests
<1>9. StayInv'
  BY <1>6, EmptyIsFine DEF SameOps, TypeOK, CallInv, StayInv, Acknowledged, Manifests
<1>10. QED BY <1>1, <1>2, <1>3, <1>4, <1>5, <1>8, <1>9

\* An empty manifest is well formed; a call that has read another is of another process, for
\* the one that writes here has no call yet.
LEMMA BootstrapStep ==
  ASSUME IInv, NEW i \in Regs, Bootstrap(i)
  PROVE  IInv'
<1> USE CallsAssumption, RegsAssumption, ReposAssumption
    DEF IInv, Bootstrap, WriteManifest, Synced, disk, calls
<1>1. TypeOK'
  <2>1. manifest' \in Manifests /\ inode' \in Nat /\ 0..inode \subseteq 0..inode'
    BY EmptyIsFine DEF TypeOK
  <2>2. mirror' \subseteq Repos
    BY EmptyIsFine DEF TypeOK, Manifests
  <2>3. fd' \in [Calls -> 0..inode'] /\ seen' \in [Calls -> 0..inode']
    BY <2>1 DEF TypeOK
  <2>4. \A d \in Calls : fd'[d] # 0 => InCall(d)'
    BY DEF TypeOK, InCall
  <2>5. QED BY <2>1, <2>2, <2>3, <2>4 DEF TypeOK
<1>2. FormInv'
  BY EmptyIsFine DEF TypeOK, FormInv
<1>3. CallInv'
  BY DEF TypeOK, CallInv, InCall
<1>4. ReadInv'
  BY DEF TypeOK, CallInv, ReadInv, InCall
<1>5. CacheInv'
  BY DEF TypeOK, CallInv, ReadInv, CacheInv, InCall, Same
<1>6. SameOps
  BY DEF SameOps, Adds, Removes
<1>7. \A q \in Repos : Added(q) => Added(q)'
  BY <1>6 DEF SameOps, TypeOK, Added, Past
<1>8. AddInv'
  <2>1. manifest'.ids = {}
    BY DEF Empty
  <2>2. \A c \in Calls : new[c].ids \subseteq Repos
    BY DEF TypeOK, Manifests
  <2>3. QED BY <1>6, <1>7, <2>1, <2>2 DEF SameOps, AddInv, Acknowledged
<1>9. StayInv'
  BY <1>6, EmptyIsFine DEF SameOps, TypeOK, CallInv, StayInv, Acknowledged, Manifests
<1>10. QED BY <1>1, <1>2, <1>3, <1>4, <1>5, <1>8, <1>9

\* A cache that is loaded is the manifest.
LEMMA LoadStep ==
  ASSUME IInv, NEW i \in Regs, Load(i)
  PROVE  IInv'
<1> USE CallsAssumption, RegsAssumption, ReposAssumption
    DEF IInv, Load, disk, calls
<1>1. TypeOK'
  BY EmptyIsFine DEF TypeOK, InCall
<1>2. FormInv'
  BY EmptyIsFine DEF TypeOK, FormInv
<1>3. CallInv'
  BY DEF TypeOK, CallInv, InCall
<1>4. ReadInv'
  BY DEF TypeOK, CallInv, ReadInv, InCall
<1>5. CacheInv'
  BY DEF TypeOK, CallInv, ReadInv, CacheInv, InCall, Same
<1>6. SameOps
  BY DEF SameOps, Adds, Removes
<1>7. \A q \in Repos : Added(q) => Added(q)'
  BY <1>6 DEF SameOps, TypeOK, Added, Past
<1>8. AddInv'
  BY <1>6, <1>7, EmptyIsFine DEF SameOps, TypeOK, CallInv, AddInv, Acknowledged, Manifests
<1>9. StayInv'
  BY <1>6, EmptyIsFine DEF SameOps, TypeOK, CallInv, StayInv, Acknowledged, Manifests
<1>10. QED BY <1>1, <1>2, <1>3, <1>4, <1>5, <1>8, <1>9

\* With the process go its calls, and only those.
LEMMA CrashStep ==
  ASSUME IInv, NEW i \in Regs, Crash(i)
  PROVE  IInv'
<1> USE CallsAssumption, RegsAssumption, ReposAssumption
    DEF IInv, Crash, disk, calls
<1>1. TypeOK'
  BY EmptyIsFine DEF TypeOK, InCall
<1>2. FormInv'
  BY EmptyIsFine DEF TypeOK, FormInv
<1>3. CallInv'
  BY DEF TypeOK, CallInv, InCall
<1>4. ReadInv'
  BY DEF TypeOK, CallInv, ReadInv, InCall
<1>5. CacheInv'
  BY DEF TypeOK, CallInv, ReadInv, CacheInv, InCall, Same
<1>6. SameOps
  BY DEF SameOps, Adds, Removes
<1>7. \A q \in Repos : Added(q) => Added(q)'
  BY <1>6 DEF SameOps, TypeOK, Added, Past
<1>8. AddInv'
  BY <1>6, <1>7, EmptyIsFine DEF SameOps, TypeOK, CallInv, AddInv, Acknowledged, Manifests
<1>9. StayInv'
  BY <1>6, EmptyIsFine DEF SameOps, TypeOK, CallInv, StayInv, Acknowledged, Manifests
<1>10. QED BY <1>1, <1>2, <1>3, <1>4, <1>5, <1>8, <1>9

\* writeMu lets one call of a process in.
LEMMA OpenFileStep ==
  ASSUME IInv, NEW c \in Calls, OpenFile(c)
  PROVE  IInv'
<1> USE CallsAssumption, RegsAssumption, ReposAssumption
    DEF IInv, OpenFile, Goto, disk, calls
<1>1. TypeOK'
  BY EmptyIsFine DEF TypeOK, InCall
<1>2. FormInv'
  BY EmptyIsFine DEF TypeOK, FormInv
<1>3. CallInv'
  BY DEF TypeOK, CallInv, InCall
<1>4. ReadInv'
  BY DEF TypeOK, CallInv, ReadInv, InCall
<1>5. CacheInv'
  BY DEF TypeOK, CallInv, ReadInv, CacheInv, InCall, Same
<1>6. SameOps
  BY DEF SameOps, Adds, Removes
<1>7. \A q \in Repos : Added(q) => Added(q)'
  BY <1>6 DEF SameOps, TypeOK, Added, Past
<1>8. AddInv'
  BY <1>6, <1>7, EmptyIsFine DEF SameOps, TypeOK, CallInv, AddInv, Acknowledged, Manifests
<1>9. StayInv'
  BY <1>6, EmptyIsFine DEF SameOps, TypeOK, CallInv, StayInv, Acknowledged, Manifests
<1>10. QED BY <1>1, <1>2, <1>3, <1>4, <1>5, <1>8, <1>9

\* The lock is granted; nothing is known of the manifest yet.
LEMMA FlockStep ==
  ASSUME IInv, NEW c \in Calls, Flock(c)
  PROVE  IInv'
<1> USE CallsAssumption, RegsAssumption, ReposAssumption
    DEF IInv, Flock, Goto, disk, calls
<1>1. TypeOK'
  BY EmptyIsFine DEF TypeOK, InCall
<1>2. FormInv'
  BY EmptyIsFine DEF TypeOK, FormInv
<1>3. CallInv'
  BY DEF TypeOK, CallInv, InCall
<1>4. ReadInv'
  BY DEF TypeOK, CallInv, ReadInv, InCall
<1>5. CacheInv'
  BY DEF TypeOK, CallInv, ReadInv, CacheInv, InCall, Same
<1>6. SameOps
  BY DEF SameOps, Adds, Removes
<1>7. \A q \in Repos : Added(q) => Added(q)'
  BY <1>6 DEF SameOps, TypeOK, Added, Past
<1>8. AddInv'
  BY <1>6, <1>7, EmptyIsFine DEF SameOps, TypeOK, CallInv, AddInv, Acknowledged, Manifests
<1>9. StayInv'
  BY <1>6, EmptyIsFine DEF SameOps, TypeOK, CallInv, StayInv, Acknowledged, Manifests
<1>10. QED BY <1>1, <1>2, <1>3, <1>4, <1>5, <1>8, <1>9

\* The heart of the proof: the manifest that is written follows from the one in place, or
\* somebody was overtaken; the others that were about to write are of other processes.
LEMMA WriteStep ==
  ASSUME IInv, NEW c \in Calls, Write(c)
  PROVE  IInv'
<1> USE CallsAssumption, RegsAssumption, ReposAssumption
    DEF IInv, Write, Goto, WriteManifest, Synced, disk, calls
<1>1. TypeOK'
  <2>1. manifest' \in Manifests /\ inode' \in Nat /\ 0..inode \subseteq 0..inode'
    BY EmptyIsFine DEF TypeOK
  <2>2. mirror' \subseteq Repos
    BY EmptyIsFine DEF TypeOK, Manifests
  <2>3. fd' \in [Calls -> 0..inode'] /\ seen' \in [Calls -> 0..inode']
    BY <2>1 DEF TypeOK
  <2>4. \A d \in Calls : fd'[d] # 0 => InCall(d)'
    BY DEF TypeOK, InCall
  <2>5. QED BY <2>1, <2>2, <2>3, <2>4 DEF TypeOK
<1>2. FormInv'
  BY EmptyIsFine DEF TypeOK, FormInv
<1>3. CallInv'
  BY DEF TypeOK, CallInv, InCall
<1>4. ReadInv'
  BY DEF TypeOK, CallInv, ReadInv, InCall
<1>5. CacheInv'
  BY DEF TypeOK, CallInv, ReadInv, CacheInv, InCall, Same
<1>6. SameOps
  BY DEF SameOps, Adds, Removes
<1>7. \A q \in Repos : Added(q) => Added(q)'
  BY <1>6 DEF SameOps, TypeOK, Added, Past
<1>8. AddInv'
  <2>1. \A d \in Calls : new[d].ids \subseteq Repos
    BY DEF TypeOK, Manifests
  <2>2. pc'[c] = "refresh" /\ \A d \in Calls \ {c} : pc'[d] = pc[d]
    BY DEF TypeOK
  <2>3. \A q \in manifest'.ids : Added(q)'
    <3> SUFFICES ASSUME NEW q \in new[c].ids PROVE Added(q)'
      OBVIOUS
    <3>1. CASE Added(q) BY <3>1, <1>7, <2>1
    <3>2. CASE Adds(c, q) BY <3>2, <1>6, <2>1, <2>2 DEF SameOps, Added, Past
    <3>3. QED BY <3>1, <3>2 DEF AddInv
  <2>4. QED BY <1>6, <1>7, <2>1, <2>2, <2>3 DEF SameOps, AddInv, Acknowledged
<1>9. StayInv'
  <2> SUFFICES ASSUME ~overtaken', NEW d \in Calls, NEW q \in Repos, Acknowledged(d)'
               PROVE  /\ Adds(d, q) => q \in new[c].ids \/ \E e \in Calls : Removes(e, q)
                      /\ Removes(d, q) => q \notin new[c].ids
    BY <1>6 DEF SameOps, StayInv
  <2>1. ~overtaken /\ Follows(op[c], manifest, new[c])
    BY DEF TypeOK, ReadInv
  <2>2. op[c] \in Ops
    BY DEF TypeOK, CallInv
  <2>3. /\ Adds(c, q) => q \in new[c].ids
        /\ Removes(c, q) => q \notin new[c].ids
    BY <2>1 DEF Follows, Adds, Removes
  <2>4. CASE d = c BY <2>3, <2>4
  <2>5. CASE d # c
    <3>1. Acknowledged(d)
      BY <2>5 DEF Acknowledged, TypeOK
    <3>2. \A r \in Repos : (r \in new[c].ids <=> r \in manifest.ids) \/ Adds(c, r) \/ Removes(c, r)
      BY <2>1, <2>2, OpsAre DEF Follows, Adds, Removes, Same
    <3>3. ASSUME Removes(d, q) PROVE ~Adds(c, q)
      <4>1. Added(q)
        BY <3>1, <3>3 DEF AddInv
      <4>2. QED BY <4>1 DEF Added, AddInv, Past
    <3>4. QED BY <2>1, <2>3, <3>1, <3>2, <3>3 DEF StayInv
  <2>6. QED BY <2>4, <2>5
<1>10. QED BY <1>1, <1>2, <1>3, <1>4, <1>5, <1>8, <1>9

\* A write that fails leaves the manifest; a Reload shows what it wanted to write, which
\* lists the same repos.
LEMMA WriteFailsStep ==
  ASSUME IInv, NEW c \in Calls, WriteFails(c)
  PROVE  IInv'
<1> USE CallsAssumption, RegsAssumption, ReposAssumption
    DEF IInv, WriteFails, Goto, Return, disk, calls
<1>1. TypeOK'
  <2>1. /\ fd' \in [Calls -> 0..inode'] /\ seen' \in [Calls -> 0..inode']
        /\ new' \in [Calls -> Manifests]
    BY EmptyIsFine DEF TypeOK
  <2>2. \A d \in Calls : fd'[d] # 0 => InCall(d)'
    BY DEF TypeOK, InCall
  <2>3. cache' \in [Regs -> Manifests]
    BY DEF TypeOK
  <2>4. QED BY <2>1, <2>2, <2>3 DEF TypeOK
<1>2. FormInv'
  BY EmptyIsFine DEF TypeOK, FormInv
<1>3. CallInv'
  BY DEF TypeOK, CallInv, InCall
<1>4. ReadInv'
  BY DEF TypeOK, CallInv, ReadInv, InCall
<1>5. CacheInv'
  <2>1. \A d \in Calls : pc'[d] = "refresh" => pc[d] = "refresh" /\ new'[d] = new[d]
    BY DEF TypeOK
  <2>2. \A d \in Calls : pc[d] = "refresh" => pc'[d] = "refresh"
    BY DEF TypeOK
  <2>3. op[c][1] = "reload" => op[c] = <<"reload">>
    BY DEF TypeOK, CallInv, Ops
  <2>4. \A i \in Regs \ {RegOf[c]} : cache'[i] = cache[i]
    BY DEF TypeOK
  <2>5. writer = RegOf[c] /\ op[c][1] = "reload" => Same(cache'[RegOf[c]], manifest)
    BY <2>3 DEF TypeOK, ReadInv, Follows
  <2>6. op[c][1] # "reload" => cache' = cache
    OBVIOUS
  <2>7. \A i \in Regs :
           stage'[i] = "ready" /\ writer' = i
             /\ (\A d \in Calls : RegOf[d] = i => pc'[d] # "refresh") => Same(cache'[i], manifest)
    BY <2>2, <2>4, <2>5, <2>6 DEF CacheInv
  <2>8. QED BY <2>1, <2>7 DEF CacheInv, Same
<1>6. SameOps
  BY DEF SameOps, Adds, Removes
<1>7. \A q \in Repos : Added(q) => Added(q)'
  BY <1>6 DEF SameOps, TypeOK, Added, Past
<1>8. AddInv'
  BY <1>6, <1>7, EmptyIsFine DEF SameOps, TypeOK, CallInv, AddInv, Acknowledged, Manifests
<1>9. StayInv'
  BY <1>6, EmptyIsFine DEF SameOps, TypeOK, CallInv, StayInv, Acknowledged, Manifests
<1>10. QED BY <1>1, <1>2, <1>3, <1>4, <1>5, <1>8, <1>9

\* The cache takes what was written, or what was read and left as it is.
LEMMA RefreshStep ==
  ASSUME IInv, NEW c \in Calls, Refresh(c)
  PROVE  IInv'
<1> USE CallsAssumption, RegsAssumption, ReposAssumption
    DEF IInv, Refresh, Goto, Return, disk, calls
<1>1. TypeOK'
  <2>1. /\ fd' \in [Calls -> 0..inode'] /\ seen' \in [Calls -> 0..inode']
        /\ new' \in [Calls -> Manifests]
    BY EmptyIsFine DEF TypeOK
  <2>2. \A d \in Calls : fd'[d] # 0 => InCall(d)'
    BY DEF TypeOK, InCall
  <2>3. cache' \in [Regs -> Manifests]
    BY DEF TypeOK
  <2>4. QED BY <2>1, <2>2, <2>3 DEF TypeOK
<1>2. FormInv'
  BY EmptyIsFine DEF TypeOK, FormInv
<1>3. CallInv'
  BY DEF TypeOK, CallInv, InCall
<1>4. ReadInv'
  BY DEF TypeOK, CallInv, ReadInv, InCall
<1>5. CacheInv'
  BY DEF TypeOK, CallInv, ReadInv, CacheInv, InCall, Same
<1>6. SameOps
  BY DEF SameOps, Adds, Removes
<1>7. \A q \in Repos : Added(q) => Added(q)'
  BY <1>6 DEF SameOps, TypeOK, Added, Past
<1>8. AddInv'
  BY <1>6, <1>7, EmptyIsFine DEF SameOps, TypeOK, CallInv, AddInv, Acknowledged, Manifests
<1>9. StayInv'
  BY <1>6, EmptyIsFine DEF SameOps, TypeOK, CallInv, StayInv, Acknowledged, Manifests
<1>10. QED BY <1>1, <1>2, <1>3, <1>4, <1>5, <1>8, <1>9

\* A directory that moves changes no file.
LEMMA MoveRootStep ==
  ASSUME IInv, NEW r \in Movable, MoveRoot(r)
  PROVE  IInv'
<1> USE CallsAssumption, RegsAssumption, ReposAssumption
    DEF IInv, MoveRoot, disk, calls
<1>1. TypeOK'
  BY EmptyIsFine DEF TypeOK, InCall
<1>2. FormInv'
  BY EmptyIsFine DEF TypeOK, FormInv
<1>3. CallInv'
  BY DEF TypeOK, CallInv, InCall
<1>4. ReadInv'
  BY DEF TypeOK, CallInv, ReadInv, InCall
<1>5. CacheInv'
  BY DEF TypeOK, CallInv, ReadInv, CacheInv, InCall, Same
<1>6. SameOps
  BY DEF SameOps, Adds, Removes
<1>7. \A q \in Repos : Added(q) => Added(q)'
  BY <1>6 DEF SameOps, TypeOK, Added, Past
<1>8. AddInv'
  BY <1>6, <1>7, EmptyIsFine DEF SameOps, TypeOK, CallInv, AddInv, Acknowledged, Manifests
<1>9. StayInv'
  BY <1>6, EmptyIsFine DEF SameOps, TypeOK, CallInv, StayInv, Acknowledged, Manifests
<1>10. QED BY <1>1, <1>2, <1>3, <1>4, <1>5, <1>8, <1>9

\* A call begins: no other call adds the same repo.
LEMMA InvokeStep ==
  ASSUME IInv, NEW c \in Calls, NEW o \in Asked[c], Invoke(c, o)
  PROVE  IInv'
<1> USE CallsAssumption DEF IInv, Invoke, Goto, disk, calls
<1>1. o \in Ops
  BY AskedAssumption
<1>2. TypeOK'
  BY <1>1 DEF TypeOK, InCall
<1>3. FormInv'
  BY DEF TypeOK, FormInv
<1>4. CallInv'
  <2>1. o[1] # "none"
    BY <1>1, OpsAre
  <2>2. o # <<"none">>
    BY <2>1
  <2>3. pc'[c] = "mu" /\ op'[c] = o /\ stage[RegOf[c]] = "ready" /\ pc[c] = "idle"
    BY DEF TypeOK
  <2>4. \A d \in Calls \ {c} : pc'[d] = pc[d] /\ op'[d] = op[d]
    BY DEF TypeOK
  <2>5. \A d \in Calls : InCall(d)' => InCall(d)
    BY <2>3, <2>4 DEF InCall
  <2>6. /\ \A d \in Calls : pc'[d] \notin {"idle", "done"} => stage[RegOf[d]] = "ready"
        /\ \A d, e \in Calls : InCall(d)' /\ InCall(e)' /\ RegOf[d] = RegOf[e] => d = e
        /\ \A i \in Regs : stage[i] \in {"load", "ready"} => inode # 0
    BY <2>3, <2>4, <2>5 DEF CallInv
  <2>7. inode # 0
    BY <2>3 DEF CallInv
  <2>8. /\ \A d \in Calls : pc'[d] = "idle" => op'[d] = <<"none">>
        /\ \A d \in Calls : op'[d] = <<"none">> => pc'[d] \in {"idle", "done"} /\ res[d] = "none"
        /\ \A d \in Calls : res[d] # "none" => pc'[d] = "done"
    BY <2>2, <2>3, <2>4 DEF CallInv
  <2>9. QED BY <2>6, <2>7, <2>8 DEF CallInv
<1>5. ReadInv' /\ CacheInv'
  BY DEF TypeOK, CallInv, ReadInv, CacheInv, InCall, Same
<1>6. op' = [op EXCEPT ![c] = o] /\ op[c] = <<"none">>
  BY DEF CallInv
<1>7. \A d \in Calls, q \in Repos :
         /\ Adds(d, q) => Adds(d, q)' /\ d # c
         /\ Removes(d, q) => Removes(d, q)' /\ d # c
         /\ d # c => (Adds(d, q)' => Adds(d, q)) /\ (Removes(d, q)' => Removes(d, q))
  BY <1>6 DEF Adds, Removes, TypeOK
<1>8. \A q \in Repos : Added(q) => Added(q)'
  BY <1>7 DEF TypeOK, Added, Past
<1>9. \A q \in Repos : Adds(c, q)' => q \notin Stored /\ \A d \in Calls : ~Adds(d, q)
  BY <1>6 DEF Adds, TypeOK
<1>10. res[c] = "none" /\ pc'[c] = "mu" /\ \A d \in Calls \ {c} : pc'[d] = pc[d]
  BY DEF TypeOK, CallInv
<1>11. AddInv'
  BY <1>7, <1>8, <1>9, <1>10 DEF TypeOK, AddInv, Acknowledged, Manifests
<1>12. StayInv'
  BY <1>7, <1>10 DEF StayInv, Acknowledged
<1>13. QED BY <1>2, <1>3, <1>4, <1>5, <1>11, <1>12

\* The manifest is read: what will be written is the operation done to it, or the call is
\* refused.
LEMMA ReadManifestStep ==
  ASSUME IInv, NEW c \in Calls, ReadManifest(c)
  PROVE  IInv'
<1> USE CallsAssumption DEF IInv, ReadManifest, Goto, disk, calls
<1>1. op[c] \in Ops /\ manifest \in Manifests
  BY DEF TypeOK, CallInv
<1>2. CASE Refused(op[c], manifest)
  <2> USE <1>2, EmptyIsFine DEF Return
  <2>1. TypeOK'
    BY DEF TypeOK, InCall
  <2>2. FormInv' /\ CallInv'
    BY DEF TypeOK, FormInv, CallInv, InCall
  <2>3. ReadInv' /\ CacheInv'
    BY DEF TypeOK, CallInv, ReadInv, CacheInv, InCall, Same
  <2>4. SameOps
    BY DEF SameOps, Adds, Removes
  <2>5. \A q \in Repos : Added(q) => Added(q)'
    BY <2>4 DEF SameOps, TypeOK, Added, Past
  <2>6. \A d \in Calls : Acknowledged(d)' => Acknowledged(d)
    BY DEF TypeOK, Acknowledged
  <2>7. \A d \in Calls : pc'[d] = "write" => pc[d] = "write" /\ new'[d] = new[d]
    BY DEF TypeOK
  <2>8. AddInv'
    BY <2>4, <2>5, <2>6, <2>7 DEF SameOps, TypeOK, AddInv, Manifests
  <2>9. StayInv'
    BY <2>4, <2>6 DEF SameOps, StayInv
  <2>10. QED BY <2>1, <2>2, <2>3, <2>8, <2>9
<1>3. CASE ~Refused(op[c], manifest)
  <2> DEFINE n == Applied(op[c], manifest)
  <2>1. /\ pc[c] = "read"
        /\ seen' = [seen EXCEPT ![c] = inode] /\ new' = [new EXCEPT ![c] = n]
        /\ \/ pc' = [pc EXCEPT ![c] = "write"]
           \/ pc' = [pc EXCEPT ![c] = "refresh"] /\ op[c][1] = "reload" /\ n = manifest
        /\ UNCHANGED <<manifest, inode, gone, mirror, stage, cache, op, res, fd, writer, overtaken>>
    BY <1>3 DEF TypeOK
  <2>2. /\ n \in Manifests /\ (WellFormed(manifest) => WellFormed(n))
        /\ Follows(op[c], manifest, n)
        /\ \A q \in n.ids : q \in manifest.ids \/ Adds(c, q)
        /\ \A q \in Repos : Removes(c, q) => q \in manifest.ids
    BY <1>1, <1>3, AppliedIsFine DEF Adds, Removes
  <2> HIDE DEF n, ReadManifest
  <2>3. TypeOK'
    BY <2>1, <2>2 DEF TypeOK, InCall
  <2>4. FormInv' /\ CallInv'
    BY <2>1, <2>2 DEF TypeOK, FormInv, CallInv, InCall
  <2>5. ReadInv' /\ CacheInv'
    BY <2>1, <2>2 DEF TypeOK, CallInv, ReadInv, CacheInv, InCall, Same
  <2>6. SameOps
    BY <2>1 DEF SameOps, Adds, Removes
  <2>7. \A q \in Repos : Added(q) => Added(q)'
    BY <2>1, <2>6 DEF SameOps, TypeOK, Added, Past
  <2>8. AddInv'
    BY <2>1, <2>2, <2>6, <2>7 DEF SameOps, TypeOK, CallInv, AddInv, Acknowledged, Manifests
  <2>9. op[c][1] = "reload" => \A q \in Repos : ~Adds(c, q) /\ ~Removes(c, q)
    BY DEF Adds, Removes
  <2>10. StayInv'
    BY <2>1, <2>6, <2>9 DEF SameOps, TypeOK, StayInv, Acknowledged, Manifests
  <2>11. QED BY <2>3, <2>4, <2>5, <2>8, <2>10 DEF SameOps
<1>4. QED BY <1>2, <1>3

\* Nothing changes.
LEMMA StutterStep ==
  ASSUME IInv, UNCHANGED vars
  PROVE  IInv'
<1> USE DEF IInv, vars, disk, calls
<1>1. TypeOK' /\ FormInv' /\ CallInv'
  BY DEF TypeOK, FormInv, CallInv, InCall
<1>2. ReadInv' /\ CacheInv'
  BY DEF ReadInv, CacheInv, Follows, Same
<1>3. AddInv'
  <2>1. \A q : Added(q)' = Added(q)
    BY DEF Added, Adds
  <2>2. \A c, q : /\ Adds(c, q)' = Adds(c, q) /\ Removes(c, q)' = Removes(c, q)
                 /\ Acknowledged(c)' = Acknowledged(c)
    BY DEF Adds, Removes, Acknowledged
  <2>3. QED BY <2>1, <2>2 DEF AddInv
<1>4. StayInv'
  BY DEF StayInv, Acknowledged, Adds, Removes
<1>5. QED BY <1>1, <1>2, <1>3, <1>4

-----------------------------------------------------------------------------
\* The invariant is kept by every step.
LEMMA StepIInv == IInv /\ [Next]_vars => IInv'
<1> SUFFICES ASSUME IInv, [Next]_vars PROVE IInv'
  OBVIOUS
<1>1. CASE \E i \in Regs : RegNext(i)
  BY <1>1, OpenRegistryStep, BootstrapStep, LoadStep DEF RegNext
<1>2. CASE \E i \in Regs : Crash(i)
  BY <1>2, CrashStep
<1>3. CASE \E c \in Calls : CallNext(c)
  BY <1>3, OpenFileStep, FlockStep, ReadManifestStep, WriteStep, WriteFailsStep, RefreshStep
     DEF CallNext
<1>4. CASE \E c \in Calls : \E o \in Asked[c] : Invoke(c, o)
  BY <1>4, InvokeStep
<1>5. CASE \E r \in Movable : MoveRoot(r)
  BY <1>5, MoveRootStep
<1>6. CASE UNCHANGED vars
  BY <1>6, StutterStep
<1>7. QED BY <1>1, <1>2, <1>3, <1>4, <1>5, <1>6 DEF Next

\* The inductive invariant holds always.
THEOREM Inductive == Spec => []IInv
BY InitIInv, StepIInv, PTL DEF Spec

-----------------------------------------------------------------------------
(* What the runs check, for every number of processes, calls and repos.    *)

\* A set whose members are all the same has one at most.
LEMMA SingletonAtMost ==
  ASSUME NEW S, \A q, r \in S : q = r
  PROVE  Cardinality(S) <= 1
<1>1. CASE S = {}
  BY <1>1, FS_EmptySet
<1>2. CASE S # {}
  <2>1. PICK q \in S : TRUE
    BY <1>2
  <2>2. S = {q}
    BY <2>1
  <2>3. Cardinality({q}) = 1
    BY FS_Singleton, Zenon
  <2>4. QED BY <2>2, <2>3
<1>3. QED BY <1>1, <1>2

\* However processes and calls interleave, fail and die, repos.json and every cache
\* are of the right form, with one default at most, and no two repos of repos.json
\* have one name.
THEOREM Forms == Spec => []ManifestsWellFormed
<1>1. IInv => ManifestsWellFormed
  <2> SUFFICES ASSUME IInv PROVE ManifestsWellFormed
    OBVIOUS
  <2>1. AtMostOneDefault
    BY SingletonAtMost DEF IInv, FormInv, WellFormed, AtMostOneDefault
  <2>2. UniqueNames
    BY DEF IInv, FormInv, WellFormed, UniqueNames
  <2>3. QED BY <2>1, <2>2 DEF ManifestsWellFormed, IInv
<1>2. QED BY <1>1, Inductive, PTL

\* Within a process reading and writing are one step, though the rename takes the
\* inode away from under the flock, and its cache follows what it wrote.
THEOREM OwnWrites == Spec => []OwnWritesAgree
<1>1. IInv => OwnWritesAgree
  <2> SUFFICES ASSUME IInv PROVE OwnWritesAgree
    OBVIOUS
  <2>1. AtomicWithinProcess
    BY DEF IInv, ReadInv, AtomicWithinProcess
  <2>2. CacheFollowsOwnWrites
    BY DEF IInv, CacheInv, CacheFollowsOwnWrites, InCall, Same
  <2>3. QED BY <2>1, <2>2 DEF OwnWritesAgree
<1>2. QED BY <1>1, Inductive, PTL

\* An Add or Remove that returned nil is in repos.json until a later call undoes it,
\* as long as no process wrote over a manifest that it had not read.
THEOREM Acknowledgements == Spec => []AcknowledgedStays
<1>1. IInv => AcknowledgedStays
  <2> SUFFICES ASSUME IInv, ~overtaken, NEW c \in Calls, res[c] = "ok"
               PROVE  /\ op[c][1] = "add" => \/ op[c][2] \in manifest.ids
                                             \/ \E d \in Calls : op[d] = <<"remove", op[c][2]>>
                      /\ op[c][1] = "remove" => op[c][2] \notin manifest.ids
    BY DEF AcknowledgedStays
  <2>1. op[c] \in Ops
    BY DEF IInv, TypeOK, CallInv
  <2>2. CASE \E q \in Repos : Adds(c, q)
    BY <2>2 DEF IInv, StayInv, Acknowledged, Adds, Removes
  <2>3. CASE \E q \in Repos : Removes(c, q)
    BY <2>3 DEF IInv, StayInv, Acknowledged, Adds, Removes
  <2>4. CASE op[c][1] \notin {"add", "remove"}
    BY <2>4
  <2>5. QED BY <2>1, <2>2, <2>3, <2>4, OpsAre DEF Adds, Removes
<1>2. QED BY <1>1, Inductive, PTL
=============================================================================
