----------------------- MODULE DaemonLifecycleProofs ------------------------
(***************************************************************************)
(* What the run files guarantee for every set of processes and commands.   *)
(* The inductive invariant says which inode a process can have open, who   *)
(* wrote the files, and that a command works on a process that is gone.    *)
(***************************************************************************)
EXTENDS DaemonLifecycle, FiniteSetTheorems, TLAPS

Holding == {"locked", "ready", "pid", "port", "serving", "drain", "release", "err"}

\* Who is past flock holds the lock; no two hold it on one inode.
LockInv ==
  /\ \A d \in Daemons : pc[d] \in Holding => d \in held
  /\ \A d \in held : pc[d] \in Holding \cup Cleaning
  /\ \A d \in Daemons : pc[d] = "opened" => fd[d] # 0
  /\ \A d \in Daemons : fd[d] # 0 =>
       Alive(d) /\ fd[d] <= inodes /\ (pc[d] = "opened" \/ d \in held)
  /\ \A d, e \in held : fd[d] = fd[e] => d = e

\* Until a cleanup hits another process, every open lock file is the one that has the
\* name, but for a daemon that has just removed it; so who writes the files is alone.
FileInv ==
  ~disturbed => \A d \in Daemons :
    /\ fd[d] # 0 /\ pc[d] # "release" => fd[d] = lockName
    /\ pc[d] \in {"ready", "pid", "port", "serving"} => tokenFile = d
    /\ pc[d] \in {"pid", "port", "serving"} => pidFile = d

\* A command has found a process that was started; what it cleans up after is dead.
CmdInv ==
  /\ pidFile # Nobody => pc[pidFile] # "off"
  /\ \A k \in Cmds :
       /\ cmd[k].at \in {"check", "wait", "start"} \cup Cleaning =>
            cmd[k].target \in Daemons /\ pc[cmd[k].target] # "off"
       /\ cmd[k].at \in {"start"} \cup Cleaning => pc[cmd[k].target] = "dead"
       /\ cmd[k].child # Nobody => cmd[k].at = "done" /\ pc[cmd[k].target] = "dead"
                                   /\ cmd[k].target \in Daemons

IInv == TypeOK /\ LockInv /\ FileInv /\ CmdInv

LEMMA InitInv == Init => IInv
<1> SUFFICES ASSUME Init PROVE IInv
  OBVIOUS
<1> USE NobodyAssumption DEF Init
<1>1. TypeOK
  <2>1. cmd \in [Cmds -> [at : {"idle", "check", "wait", "start", "done"} \cup Cleaning,
                          target : Daemons \cup {Nobody}, child : Daemons \cup {Nobody}]]
    OBVIOUS
  <2>2. pc \in [Daemons -> {"off", "born", "serving", "dead"} \cup Starting \cup Ending]
    OBVIOUS
  <2>3. fd \in [Daemons -> Nat]
    OBVIOUS
  <2>4. inodes \in Nat /\ lockName \in 0..inodes /\ term \subseteq Daemons
    OBVIOUS
  <2>5. held \subseteq {d \in Daemons : Alive(d) /\ fd[d] # 0}
    OBVIOUS
  <2>6. {pidFile, portFile, tokenFile} \subseteq Daemons \cup {Nobody}
    OBVIOUS
  <2>7. QED BY <2>1, <2>2, <2>3, <2>4, <2>5, <2>6 DEF TypeOK
<1>2. LockInv /\ FileInv /\ CmdInv
  BY DEF LockInv, FileInv, CmdInv, Holding, Cleaning
<1>3. QED BY <1>1, <1>2 DEF IInv

-----------------------------------------------------------------------------
\* No step makes a process one that was never started, or a dead one alive.
Onward == \A d \in Daemons :
  /\ pc[d] # "off" => pc'[d] # "off"
  /\ pc[d] = "dead" => pc'[d] = "dead"

LEMMA CmdsStay ==
  ASSUME TypeOK, CmdInv, Onward, cmd' = cmd, pidFile' = pidFile \/ pidFile' = Nobody
  PROVE  CmdInv'
BY DEF TypeOK, CmdInv, Onward

\* A process that is gone leaves the rest as it was.
LEMMA DieKeeps ==
  ASSUME TypeOK, LockInv, FileInv, NEW d \in Daemons, Alive(d), Die(d),
         UNCHANGED <<lockName, inodes, pidFile, tokenFile, disturbed>>
  PROVE  /\ pc' \in [Daemons -> {"off", "born", "serving", "dead"} \cup Starting \cup Ending]
         /\ fd' \in [Daemons -> Nat]
         /\ held' \subseteq {e \in Daemons : Alive(e)' /\ fd'[e] # 0}
         /\ Onward /\ LockInv' /\ FileInv' /\ pc'[d] = "dead"
<1>1. /\ \A e \in Daemons : pc'[e] = IF e = d THEN "dead" ELSE pc[e]
      /\ \A e \in Daemons : fd'[e] = IF e = d THEN 0 ELSE fd[e]
      /\ held' = held \ {d}
  BY DEF Die, Goto, TypeOK
<1>2. /\ pc' \in [Daemons -> {"off", "born", "serving", "dead"} \cup Starting \cup Ending]
      /\ fd' \in [Daemons -> Nat]
  BY DEF Die, Goto, TypeOK
<1>3. held' \subseteq {e \in Daemons : Alive(e)' /\ fd'[e] # 0}
  BY <1>1 DEF TypeOK, Alive
<1>4. Onward
  BY <1>1 DEF Onward, Alive
<1>5. LockInv'
  BY <1>1 DEF LockInv, Holding, Alive, TypeOK
<1>6. FileInv'
  BY <1>1 DEF FileInv
<1>7. QED BY <1>1, <1>2, <1>3, <1>4, <1>5, <1>6

LEMMA DieStep ==
  ASSUME IInv, NEW d \in Daemons, Alive(d), Die(d),
         UNCHANGED <<lockName, inodes, files, term, cmd, disturbed>>
  PROVE  IInv'
<1>1. UNCHANGED <<pidFile, tokenFile, portFile>>
  BY DEF files
<1>2. /\ pc' \in [Daemons -> {"off", "born", "serving", "dead"} \cup Starting \cup Ending]
      /\ fd' \in [Daemons -> Nat]
      /\ held' \subseteq {e \in Daemons : Alive(e)' /\ fd'[e] # 0}
      /\ Onward /\ LockInv' /\ FileInv'
  BY <1>1, DieKeeps DEF IInv
<1>3. TypeOK'
  BY <1>1, <1>2 DEF IInv, TypeOK, Alive
<1>4. CmdInv'
  BY <1>1, <1>2, CmdsStay DEF IInv
<1>5. QED BY <1>2, <1>3, <1>4 DEF IInv

\* A daemon goes on without touching the lock or a file: it may do so whatever it
\* claimed before, as long as it claims no more.
LEMMA GotoStep ==
  ASSUME IInv, NEW d \in Daemons, NEW l, Goto(d, l), pc[d] # "dead",
         l \in ({"born", "serving"} \cup Starting \cup Ending) \ {"opened", "release", "closing"},
         l \in Holding => d \in held, l = "born" => d \notin held,
         pc[d] \notin {"opened", "release"},
         l \in {"ready", "pid", "port", "serving"} => (~disturbed => tokenFile = d),
         l \in {"pid", "port", "serving"} => (~disturbed => pidFile = d),
         UNCHANGED <<lock, files, term, cmd, disturbed>>
  PROVE  IInv'
<1> USE DEF IInv
<1>1. \A e \in Daemons : pc'[e] = IF e = d THEN l ELSE pc[e]
  BY DEF Goto, TypeOK
<1>2. UNCHANGED <<fd, held, lockName, inodes, pidFile, portFile, tokenFile>>
  BY DEF lock, files
<1>3. Onward
  BY <1>1 DEF Onward, Starting, Ending, Cleaning
<1>4. TypeOK'
  <2>1. pc' \in [Daemons -> {"off", "born", "serving", "dead"} \cup Starting \cup Ending]
    BY DEF Goto, TypeOK
  <2>2. \A e \in Daemons : Alive(e) => Alive(e)'
    BY <1>1 DEF Alive, Starting, Ending, Cleaning
  <2>3. QED BY <1>2, <2>1, <2>2 DEF TypeOK
<1>5. LockInv'
  BY <1>1, <1>2 DEF LockInv, Alive, TypeOK, Starting, Ending, Cleaning, Holding
<1>6. FileInv'
  BY <1>1, <1>2 DEF FileInv
<1>7. CmdInv'
  BY <1>2, <1>3, CmdsStay
<1>8. QED BY <1>4, <1>5, <1>6, <1>7

LEMMA LaunchStep ==
  ASSUME IInv, NEW d \in Daemons, Launch(d)
  PROVE  IInv'
<1>1. d \notin held
  BY DEF Launch, IInv, TypeOK, Alive
<1>2. QED BY <1>1, GotoStep DEF Launch, Holding, Starting, Ending, Cleaning

LEMMA OpenLockStep ==
  ASSUME IInv, NEW d \in Daemons, OpenLock(d)
  PROVE  IInv'
<1> USE DEF IInv, OpenLock
<1>1. /\ \A e \in Daemons : pc'[e] = IF e = d THEN "opened" ELSE pc[e]
      /\ \A e \in Daemons : fd'[e] = IF e = d THEN lockName' ELSE fd[e]
      /\ pc[d] = "born" /\ fd[d] = 0
  BY DEF Goto, TypeOK, LockInv, Holding, Cleaning
<1>2. UNCHANGED <<held, pidFile, portFile, tokenFile>>
  BY DEF files
<1>3. inodes' \in Nat /\ lockName' \in 1..inodes' /\ inodes <= inodes'
  <2>1. inodes \in Nat /\ lockName \in 0..inodes
    BY DEF TypeOK
  <2>2. QED BY <2>1
<1>4. Onward
  BY <1>1 DEF Onward
<1>5. d \notin held
  BY <1>1 DEF TypeOK
<1>6. TypeOK'
  <2>1. pc' \in [Daemons -> {"off", "born", "serving", "dead"} \cup Starting \cup Ending]
    BY DEF Goto, TypeOK, Starting
  <2>2. fd' \in [Daemons -> Nat]
    BY <1>3 DEF TypeOK
  <2>3. held' \subseteq {e \in Daemons : Alive(e)' /\ fd'[e] # 0}
    BY <1>1, <1>2, <1>5 DEF TypeOK, Alive
  <2>4. inodes' \in Nat /\ lockName' \in 0..inodes'
    BY <1>3
  <2>5. QED BY <1>2, <2>1, <2>2, <2>3, <2>4 DEF TypeOK, Alive
<1>7. LockInv'
  <2>1. \A e \in Daemons : fd[e] # 0 => fd[e] <= inodes'
    BY <1>3 DEF LockInv, TypeOK
  <2>2. \A e \in Daemons : fd'[e] # 0 =>
          Alive(e)' /\ fd'[e] <= inodes' /\ (pc'[e] = "opened" \/ e \in held')
    BY <1>1, <1>2, <1>3, <2>1 DEF LockInv, Alive
  <2>3. \A e \in Daemons : pc'[e] \in Holding => e \in held'
    BY <1>1, <1>2 DEF LockInv, Holding
  <2>4. \A e, f \in held' : fd'[e] = fd'[f] => e = f
    BY <1>1, <1>2, <1>5 DEF LockInv, TypeOK
  <2>5. /\ \A e \in held' : pc'[e] \in Holding \cup Cleaning
        /\ \A e \in Daemons : pc'[e] = "opened" => fd'[e] # 0
    BY <1>1, <1>2, <1>3, <1>5 DEF LockInv, TypeOK
  <2>6. QED BY <2>2, <2>3, <2>4, <2>5 DEF LockInv
<1>8. FileInv'
  <2> SUFFICES ASSUME ~disturbed, NEW e \in Daemons
               PROVE  /\ fd'[e] # 0 /\ pc'[e] # "release" => fd'[e] = lockName'
                      /\ pc'[e] \in {"ready", "pid", "port", "serving"} => tokenFile = e
                      /\ pc'[e] \in {"pid", "port", "serving"} => pidFile = e
    BY <1>2 DEF FileInv
  <2>1. fd[e] # 0 /\ pc[e] # "release" => lockName = fd[e] /\ lockName' = lockName
    BY DEF FileInv
  <2>2. QED BY <1>1, <2>1 DEF FileInv
<1>9. CmdInv'
  BY <1>2, <1>4, CmdsStay
<1>10. QED BY <1>6, <1>7, <1>8, <1>9

LEMMA TakeLockStep ==
  ASSUME IInv, NEW d \in Daemons, TakeLock(d)
  PROVE  IInv'
<1> USE DEF IInv, TakeLock
<1>1. /\ \A e \in Daemons : pc'[e] = IF e = d THEN "locked" ELSE pc[e]
      /\ pc[d] = "opened" /\ fd[d] # 0
  BY DEF Goto, TypeOK, LockInv
<1>2. UNCHANGED <<fd, lockName, inodes, pidFile, portFile, tokenFile>>
  BY DEF files
<1>3. Onward
  BY <1>1 DEF Onward
<1>4. TypeOK'
  <2>1. pc' \in [Daemons -> {"off", "born", "serving", "dead"} \cup Starting \cup Ending]
    BY DEF Goto, TypeOK, Starting
  <2>2. held' \subseteq {e \in Daemons : Alive(e)' /\ fd'[e] # 0}
    BY <1>1, <1>2 DEF TypeOK, Alive
  <2>3. QED BY <1>2, <2>1, <2>2 DEF TypeOK
<1>5. LockInv'
  BY <1>1, <1>2 DEF LockInv, LockFree, Holding, Alive, TypeOK
<1>6. FileInv'
  BY <1>1, <1>2 DEF FileInv
<1>7. CmdInv'
  BY <1>2, <1>3, CmdsStay
<1>8. QED BY <1>4, <1>5, <1>6, <1>7

\* Two daemons that hold the lock and are not about to release it are one.
LEMMA HoldersAreOne ==
  ASSUME TypeOK, LockInv, FileInv, ~disturbed, NEW d \in held, NEW e \in held,
         pc[d] # "release", pc[e] # "release"
  PROVE  d = e
BY DEF TypeOK, LockInv, FileInv

\* The steps of a start: the daemon claims one thing more, the lock stays as it is.
LEMMA ClaimKeeps ==
  ASSUME TypeOK, LockInv, NEW d \in Daemons, NEW l \in {"ready", "pid", "port"}, Goto(d, l),
         pc[d] \in {"locked", "ready", "pid"}, UNCHANGED <<fd, held, lockName, inodes>>
  PROVE  /\ \A e \in Daemons : pc'[e] = IF e = d THEN l ELSE pc[e]
         /\ pc' \in [Daemons -> {"off", "born", "serving", "dead"} \cup Starting \cup Ending]
         /\ held' \subseteq {e \in Daemons : Alive(e)' /\ fd'[e] # 0}
         /\ d \in held /\ Onward /\ LockInv'
<1>1. /\ \A e \in Daemons : pc'[e] = IF e = d THEN l ELSE pc[e]
      /\ d \in held
  BY DEF Goto, TypeOK, LockInv, Holding
<1>2. Onward
  BY <1>1 DEF Onward
<1>3. pc' \in [Daemons -> {"off", "born", "serving", "dead"} \cup Starting \cup Ending]
  BY DEF Goto, TypeOK, Starting
<1>4. held' \subseteq {e \in Daemons : Alive(e)' /\ fd'[e] # 0}
  BY <1>1 DEF TypeOK, Alive
<1>5. LockInv'
  BY <1>1 DEF LockInv, Holding, Alive, TypeOK
<1>6. QED BY <1>1, <1>2, <1>3, <1>4, <1>5

LEMMA WriteTokenStep ==
  ASSUME IInv, NEW d \in Daemons, WriteToken(d)
  PROVE  IInv'
<1> USE DEF IInv, WriteToken
<1>1. UNCHANGED <<fd, held, lockName, inodes, pidFile, portFile>>
  BY DEF lock
<1>2. /\ \A e \in Daemons : pc'[e] = IF e = d THEN "ready" ELSE pc[e]
      /\ pc' \in [Daemons -> {"off", "born", "serving", "dead"} \cup Starting \cup Ending]
      /\ held' \subseteq {e \in Daemons : Alive(e)' /\ fd'[e] # 0}
      /\ d \in held /\ Onward /\ LockInv'
  BY <1>1, ClaimKeeps
<1>3. TypeOK'
  BY <1>1, <1>2 DEF TypeOK
<1>4. FileInv'
  <2> SUFFICES ASSUME ~disturbed, NEW e \in Daemons,
                      pc[e] \in {"ready", "pid", "port", "serving"}
               PROVE  e = d
    BY <1>1, <1>2 DEF FileInv
  <2>1. e \in held
    BY DEF LockInv, Holding
  <2>2. QED BY <1>2, <2>1, HoldersAreOne
<1>5. CmdInv'
  BY <1>1, <1>2, CmdsStay
<1>6. QED BY <1>2, <1>3, <1>4, <1>5

LEMMA WritePIDStep ==
  ASSUME IInv, NEW d \in Daemons, WritePID(d)
  PROVE  IInv'
<1> USE DEF IInv, WritePID
<1>1. UNCHANGED <<fd, held, lockName, inodes, tokenFile, portFile>>
  BY DEF lock
<1>2. /\ \A e \in Daemons : pc'[e] = IF e = d THEN "pid" ELSE pc[e]
      /\ pc' \in [Daemons -> {"off", "born", "serving", "dead"} \cup Starting \cup Ending]
      /\ held' \subseteq {e \in Daemons : Alive(e)' /\ fd'[e] # 0}
      /\ d \in held /\ Onward /\ LockInv'
  BY <1>1, ClaimKeeps
<1>3. TypeOK'
  BY <1>1, <1>2 DEF TypeOK
<1>4. FileInv'
  <2> SUFFICES ASSUME ~disturbed, NEW e \in Daemons
               PROVE  /\ pc[e] \in {"pid", "port", "serving"} => e = d
                      /\ fd[e] # 0 /\ pc[e] # "release" => fd[e] = lockName
                      /\ pc[e] \in {"ready", "pid", "port", "serving"} => tokenFile = e
    BY <1>1, <1>2 DEF FileInv
  <2>1. ASSUME pc[e] \in {"pid", "port", "serving"} PROVE e = d
    <3>1. e \in held
      BY <2>1 DEF LockInv, Holding
    <3>2. QED BY <1>2, <2>1, <3>1, HoldersAreOne
  <2>2. QED BY <2>1 DEF FileInv
<1>5. CmdInv'
  <2>1. pidFile' = d /\ pc'[d] # "off"
    BY <1>2
  <2>2. QED BY <1>2, <2>1 DEF CmdInv, Onward
<1>6. QED BY <1>2, <1>3, <1>4, <1>5

LEMMA WritePortStep ==
  ASSUME IInv, NEW d \in Daemons, WritePort(d)
  PROVE  IInv'
<1> USE DEF IInv, WritePort
<1>1. UNCHANGED <<fd, held, lockName, inodes, tokenFile, pidFile>>
  BY DEF lock
<1>2. /\ \A e \in Daemons : pc'[e] = IF e = d THEN "port" ELSE pc[e]
      /\ pc' \in [Daemons -> {"off", "born", "serving", "dead"} \cup Starting \cup Ending]
      /\ held' \subseteq {e \in Daemons : Alive(e)' /\ fd'[e] # 0}
      /\ d \in held /\ Onward /\ LockInv'
  BY <1>1, ClaimKeeps
<1>3. TypeOK' /\ FileInv'
  BY <1>1, <1>2 DEF TypeOK, FileInv
<1>4. CmdInv'
  BY <1>1, <1>2, CmdsStay
<1>5. QED BY <1>2, <1>3, <1>4

LEMMA ServeStep ==
  ASSUME IInv, NEW d \in Daemons, Serve(d)
  PROVE  IInv'
<1>1. d \in held
  BY DEF IInv, Serve, LockInv, Holding
<1>2. ~disturbed => tokenFile = d /\ pidFile = d
  BY DEF IInv, Serve, FileInv
<1>3. QED BY <1>1, <1>2, GotoStep DEF Serve, Holding, Starting, Ending, Cleaning

LEMMA LeaveStep ==
  ASSUME IInv, NEW d \in Daemons, SeeTerm(d) \/ Drained(d) \/ ServerError(d)
  PROVE  IInv'
<1>1. d \in held
  BY DEF IInv, SeeTerm, Drained, ServerError, LockInv, Holding
<1>2. QED BY <1>1, GotoStep
             DEF SeeTerm, Drained, ServerError, Holding, Starting, Ending, Cleaning

LEMMA ReleaseStep ==
  ASSUME IInv, NEW d \in Daemons, Release(d)
  PROVE  IInv'
<1> USE DEF IInv, Release
<1>1. /\ \A e \in Daemons : pc'[e] = IF e = d THEN pc'[d] ELSE pc[e]
      /\ \A e \in Daemons : fd'[e] = IF e = d THEN 0 ELSE fd[e]
      /\ pc'[d] \in {"rmPid", "closing"} /\ pc[d] \in {"release", "err"}
      /\ held' = held \ {d}
  BY DEF Goto, TypeOK
<1>2. UNCHANGED <<lockName, inodes, tokenFile, pidFile, portFile>>
  BY DEF files
<1>3. Onward
  BY <1>1 DEF Onward
<1>4. TypeOK'
  <2>1. pc' \in [Daemons -> {"off", "born", "serving", "dead"} \cup Starting \cup Ending]
    BY DEF Goto, TypeOK, Ending, Cleaning
  <2>2. fd' \in [Daemons -> Nat]
    BY DEF TypeOK
  <2>3. held' \subseteq {e \in Daemons : Alive(e)' /\ fd'[e] # 0}
    BY <1>1, <1>2 DEF TypeOK, Alive
  <2>4. QED BY <1>2, <2>1, <2>2, <2>3 DEF TypeOK
<1>5. LockInv'
  BY <1>1, <1>2 DEF LockInv, Holding, Alive, TypeOK
<1>6. FileInv'
  BY <1>1, <1>2 DEF FileInv
<1>7. CmdInv'
  BY <1>2, <1>3, CmdsStay
<1>8. QED BY <1>4, <1>5, <1>6, <1>7

\* A cleanup for x, which itself has ended or is about to, leaves the files of every
\* other daemon alone, or it is said to have disturbed them.
LEMMA RemoveKeeps ==
  ASSUME TypeOK, LockInv, FileInv, NEW x \in Daemons, NEW l \in Cleaning, Remove(x, l),
         UNCHANGED <<fd, held, inodes, tokenFile>>,
         \A e \in Daemons \ {x} : pc'[e] = pc[e],
         pc'[x] \in Cleaning \cup {"release", "dead"},
         pc'[x] = "dead" \/ l = "rmLock" => fd[x] = 0 \/ pc'[x] = "release",
         pc[x] # "release"
  PROVE  /\ lockName' \in 0..inodes /\ disturbed' \in BOOLEAN
         /\ pidFile' \in {pidFile, Nobody} /\ portFile' \in {portFile, Nobody}
         /\ FileInv'
<1> USE DEF Remove, Cleaning
<1>1. lockName' \in 0..inodes
  <2>1. lockName' = 0 \/ lockName' = lockName
    OBVIOUS
  <2>2. inodes \in Nat /\ lockName \in 0..inodes
    BY DEF TypeOK
  <2>3. QED BY <2>1, <2>2
<1>2. disturbed' \in BOOLEAN
  <2>1. disturbed' = TRUE \/ disturbed' = FALSE
    BY Zenon DEF TypeOK
  <2>2. QED BY <2>1
<1>3. pidFile' \in {pidFile, Nobody} /\ portFile' \in {portFile, Nobody}
  OBVIOUS
<1>4. FileInv'
  <2> SUFFICES ASSUME ~disturbed', NEW e \in Daemons
               PROVE  /\ fd[e] # 0 /\ pc'[e] # "release" => fd[e] = lockName'
                      /\ pc'[e] \in {"ready", "pid", "port", "serving"} => tokenFile = e
                      /\ pc'[e] \in {"pid", "port", "serving"} => pidFile' = e
    BY DEF FileInv
  <2>1. ~disturbed
    OBVIOUS
  <2>2. CASE e = x
    BY <2>1, <2>2 DEF FileInv
  <2>3. CASE e # x
    <3>1. pc'[e] = pc[e]
      BY <2>3
    <3>2. pidFile' # pidFile => ~(Alive(e) /\ pidFile = e)
      BY <2>3
    <3>3. lockName' # lockName => ~(Alive(e) /\ fd[e] # 0 /\ fd[e] = lockName)
      BY <2>3
    <3>4. QED BY <2>1, <3>1, <3>2, <3>3 DEF FileInv, LockInv, Alive
  <2>4. QED BY <2>2, <2>3
<1>5. QED BY <1>1, <1>2, <1>3, <1>4

LEMMA CleanupOwnStep ==
  ASSUME IInv, NEW d \in Daemons, CleanupOwn(d)
  PROVE  IInv'
<1> USE DEF IInv, CleanupOwn
<1>1. /\ \A e \in Daemons \ {d} : pc'[e] = pc[e]
      /\ pc'[d] = IF pc[d] # "rmLock" THEN After(pc[d])
                  ELSE IF d \in held THEN "release" ELSE "dead"
      /\ pc[d] \in Cleaning
  BY DEF Goto, TypeOK
<1>2. fd[d] # 0 => d \in held
  BY <1>1 DEF LockInv, Cleaning
<1>3. /\ pc'[d] \in Cleaning \cup {"release", "dead"}
      /\ pc'[d] = "release" => d \in held
      /\ pc'[d] = "dead" => d \notin held
      /\ pc[d] = "rmLock" => d \notin held \/ pc'[d] = "release"
  BY <1>1 DEF After, Cleaning
<1>4. /\ lockName' \in 0..inodes /\ disturbed' \in BOOLEAN
      /\ pidFile' \in {pidFile, Nobody} /\ portFile' \in {portFile, Nobody}
      /\ FileInv'
  <2>1. pc[d] # "release"
    BY <1>1 DEF Cleaning
  <2>2. pc'[d] = "dead" \/ pc[d] = "rmLock" => fd[d] = 0 \/ pc'[d] = "release"
    BY <1>2, <1>3
  <2>3. QED BY <1>1, <1>3, <2>1, <2>2, RemoveKeeps
<1>5. Onward
  BY <1>1, <1>3 DEF Onward, Cleaning
<1>6. TypeOK'
  <2>1. pc' \in [Daemons -> {"off", "born", "serving", "dead"} \cup Starting \cup Ending]
    <3>1. pc'[d] \in {"off", "born", "serving", "dead"} \cup Starting \cup Ending
      BY <1>3 DEF Ending
    <3>2. QED BY <3>1 DEF Goto, TypeOK
  <2>2. held' \subseteq {e \in Daemons : Alive(e)' /\ fd'[e] # 0}
    BY <1>1, <1>3 DEF TypeOK, Alive, Cleaning
  <2>3. QED BY <1>4, <2>1, <2>2 DEF TypeOK
<1>7. LockInv'
  BY <1>1, <1>2, <1>3 DEF LockInv, Holding, Alive, Cleaning, TypeOK
<1>8. CmdInv'
  BY <1>4, <1>5, CmdsStay
<1>9. QED BY <1>4, <1>6, <1>7, <1>8

-----------------------------------------------------------------------------
(* The steps of the commands.                                              *)

Places == {"idle", "check", "wait", "start", "done"} \cup Cleaning

LEMMA MoveKeepsType ==
  ASSUME TypeOK, NEW k \in Cmds, NEW l \in Places, CmdAt(k, l)
  PROVE  /\ cmd' \in [Cmds -> [at : Places, target : Daemons \cup {Nobody},
                               child : Daemons \cup {Nobody}]]
         /\ \A j \in Cmds : /\ cmd'[j].at = IF j = k THEN l ELSE cmd[j].at
                            /\ cmd'[j].target = cmd[j].target
                            /\ cmd'[j].child = cmd[j].child
BY DEF TypeOK, CmdAt, Places

\* A command that has not started its child moves on: whatever it cleans up after is dead.
LEMMA CmdMoves ==
  ASSUME TypeOK, CmdInv, Onward, NEW k \in Cmds, NEW l \in Places, CmdAt(k, l),
         pidFile' = pidFile \/ pidFile' = Nobody, cmd[k].at # "done",
         l # "done" => cmd[k].at \in {"check", "wait", "start"} \cup Cleaning,
         l \in {"start"} \cup Cleaning => pc'[cmd[k].target] = "dead"
  PROVE  CmdInv'
<1>1. \A j \in Cmds : /\ cmd'[j].at = IF j = k THEN l ELSE cmd[j].at
                      /\ cmd'[j].target = cmd[j].target
                      /\ cmd'[j].child = cmd[j].child
  BY MoveKeepsType
<1>2. pidFile' # Nobody => pc'[pidFile'] # "off"
  BY DEF TypeOK, CmdInv, Onward
<1>3. ASSUME NEW j \in Cmds, j # k
      PROVE  /\ cmd'[j].at \in {"check", "wait", "start"} \cup Cleaning =>
                  cmd'[j].target \in Daemons /\ pc'[cmd'[j].target] # "off"
             /\ cmd'[j].at \in {"start"} \cup Cleaning => pc'[cmd'[j].target] = "dead"
             /\ cmd'[j].child # Nobody => cmd'[j].at = "done"
                  /\ pc'[cmd'[j].target] = "dead" /\ cmd'[j].target \in Daemons
  BY <1>1, <1>3 DEF CmdInv, Onward
<1>4. /\ cmd'[k].at \in {"check", "wait", "start"} \cup Cleaning =>
           cmd'[k].target \in Daemons /\ pc'[cmd'[k].target] # "off"
      /\ cmd'[k].at \in {"start"} \cup Cleaning => pc'[cmd'[k].target] = "dead"
      /\ cmd'[k].child = Nobody
  BY <1>1 DEF CmdInv, Onward, Cleaning
<1>5. QED BY <1>2, <1>3, <1>4 DEF CmdInv

\* A command that only looks, and moves.
LEMMA LookStep ==
  ASSUME IInv, NEW k \in Cmds, NEW l \in Places, CmdAt(k, l), cmd[k].at # "done",
         l # "done" => cmd[k].at \in {"check", "wait", "start"} \cup Cleaning,
         l \in {"start"} \cup Cleaning => pc[cmd[k].target] = "dead",
         UNCHANGED <<pc, lock, files, term, disturbed>>
  PROVE  IInv'
<1>1. UNCHANGED <<fd, held, lockName, inodes, pidFile, portFile, tokenFile>>
  BY DEF lock, files
<1>2. TypeOK'
  BY <1>1, MoveKeepsType DEF IInv, TypeOK, Alive, Places
<1>3. LockInv' /\ FileInv' /\ Onward
  BY <1>1 DEF IInv, LockInv, FileInv, Alive, Onward
<1>4. CmdInv'
  BY <1>1, <1>3, CmdMoves DEF IInv
<1>5. QED BY <1>2, <1>3, <1>4 DEF IInv

LEMMA ReadPIDStep ==
  ASSUME IInv, NEW k \in Cmds, ReadPID(k)
  PROVE  IInv'
<1> USE DEF IInv, ReadPID
<1>1. CASE pidFile = Nobody
  BY <1>1, LookStep DEF CmdAt, Places, Cleaning
<1>2. CASE pidFile # Nobody
  <2>1. UNCHANGED <<fd, held, lockName, inodes, pidFile, portFile, tokenFile>>
    BY DEF lock, files
  <2>2. pidFile \in Daemons
    BY <1>2 DEF TypeOK
  <2>3. /\ cmd' = [cmd EXCEPT ![k].at = "check", ![k].target = pidFile]
        /\ cmd' \in [Cmds -> [at : {"idle", "check", "wait", "start", "done"} \cup Cleaning,
                      target : Daemons \cup {Nobody}, child : Daemons \cup {Nobody}]]
    <3>1. cmd' = [cmd EXCEPT ![k].at = "check", ![k].target = pidFile]
      BY <1>2
    <3>2. cmd \in [Cmds -> [at : {"idle", "check", "wait", "start", "done"} \cup Cleaning,
                      target : Daemons \cup {Nobody}, child : Daemons \cup {Nobody}]]
      BY DEF TypeOK
    <3> HIDE DEF IInv, ReadPID
    <3>3. QED BY <2>2, <3>1, <3>2
  <2>4. TypeOK'
    BY <2>1, <2>3 DEF TypeOK, Alive
  <2>5. LockInv' /\ FileInv'
    BY <2>1 DEF LockInv, FileInv, Alive
  <2>6. /\ cmd'[k].at = "check" /\ cmd'[k].target = pidFile
        /\ cmd'[k].child = cmd[k].child /\ cmd[k].child = Nobody
        /\ \A j \in Cmds \ {k} : cmd'[j] = cmd[j]
    BY <2>3 DEF CmdInv, TypeOK
  <2>7. CmdInv'
    <3>1. pc' = pc /\ pc[pidFile] # "off" /\ CmdInv
      BY <1>2 DEF CmdInv
    <3> HIDE DEF IInv, ReadPID
    <3>2. QED BY <2>1, <2>2, <2>6, <3>1 DEF CmdInv, Cleaning
  <2>8. QED BY <2>4, <2>5, <2>7
<1>3. QED BY <1>1, <1>2

\* The process a command has found: it was started, and is dead when it is not alive.
LEMMA Found ==
  ASSUME IInv, NEW k \in Cmds, cmd[k].at \in {"check", "wait"} \cup Cleaning
  PROVE  /\ cmd[k].target \in Daemons
         /\ ~Alive(cmd[k].target) => pc[cmd[k].target] = "dead"
BY DEF IInv, CmdInv, Alive

LEMMA GoneStep ==
  ASSUME IInv, NEW k \in Cmds, StalePID(k) \/ Exited(k)
  PROVE  IInv'
<1>1. pc[cmd[k].target] = "dead" /\ cmd[k].at \in {"check", "wait"}
  BY Found DEF StalePID, Exited
<1>2. CmdAt(k, "rmPid") /\ UNCHANGED <<pc, lock, files, term, disturbed>>
  BY DEF StalePID, Exited
<1>3. QED BY <1>1, <1>2, LookStep DEF Places, Cleaning

\* A command that kills its target, and moves.
LEMMA KillStep ==
  ASSUME IInv, NEW k \in Cmds, NEW l \in Places, CmdAt(k, l), l \in {"wait", "rmPid"},
         cmd[k].at \in {"check", "wait"}, Alive(cmd[k].target), Die(cmd[k].target),
         UNCHANGED <<lockName, inodes, files, term, disturbed>>
  PROVE  IInv'
<1>1. UNCHANGED <<pidFile, portFile, tokenFile>>
  BY DEF files
<1>2. cmd[k].target \in Daemons
  BY Found
<1>3. /\ pc' \in [Daemons -> {"off", "born", "serving", "dead"} \cup Starting \cup Ending]
      /\ fd' \in [Daemons -> Nat]
      /\ held' \subseteq {e \in Daemons : Alive(e)' /\ fd'[e] # 0}
      /\ Onward /\ LockInv' /\ FileInv' /\ pc'[cmd[k].target] = "dead"
  BY <1>1, <1>2, DieKeeps DEF IInv
<1>4. TypeOK'
  BY <1>1, <1>3, MoveKeepsType DEF IInv, TypeOK, Places
<1>5. CmdInv'
  BY <1>1, <1>3, CmdMoves DEF IInv
<1>6. QED BY <1>3, <1>4, <1>5 DEF IInv

LEMMA SendTermStep ==
  ASSUME IInv, NEW k \in Cmds, SendTerm(k)
  PROVE  IInv'
<1>1. cmd[k].at = "check" /\ Alive(cmd[k].target) /\ CmdAt(k, "wait")
      /\ UNCHANGED <<lockName, inodes, files, disturbed>>
  BY DEF SendTerm
<1>2. CASE pc[cmd[k].target] \in {"born"} \cup Starting
  <2>1. Die(cmd[k].target) /\ UNCHANGED term
    BY <1>2 DEF SendTerm
  <2>2. QED BY <1>1, <2>1, KillStep DEF Places
<1>3. CASE pc[cmd[k].target] \notin {"born"} \cup Starting
  <2>1. term' = term \cup {cmd[k].target} /\ UNCHANGED <<pc, fd, held>>
    BY <1>3 DEF SendTerm
  <2>2. cmd[k].target \in Daemons
    BY <1>1, Found
  <2>3. UNCHANGED <<pidFile, portFile, tokenFile>>
    BY <1>1 DEF files
  <2>4. TypeOK'
    BY <1>1, <2>1, <2>2, <2>3, MoveKeepsType DEF IInv, TypeOK, Alive, Places
  <2>5. LockInv' /\ FileInv' /\ Onward
    BY <1>1, <2>1, <2>3 DEF IInv, LockInv, FileInv, Alive, Onward
  <2>6. CmdInv'
    BY <1>1, <2>3, <2>5, CmdMoves DEF IInv, Places, Cleaning
  <2>7. QED BY <2>4, <2>5, <2>6 DEF IInv
<1>4. QED BY <1>2, <1>3

LEMMA TimeOutStep ==
  ASSUME IInv, NEW k \in Cmds, TimeOut(k)
  PROVE  IInv'
<1>1. cmd[k].at = "wait" /\ Alive(cmd[k].target)
      /\ UNCHANGED <<lockName, inodes, files, term, disturbed>>
  BY DEF TimeOut
<1>2. CASE CmdAt(k, "done") /\ UNCHANGED <<pc, fd, held>>
  BY <1>1, <1>2, LookStep DEF lock, Places, Cleaning
<1>3. CASE CmdAt(k, "rmPid") /\ Die(cmd[k].target)
  BY <1>1, <1>3, KillStep DEF Places, Cleaning
<1>4. QED BY <1>2, <1>3 DEF TimeOut

LEMMA CleanupTargetStep ==
  ASSUME IInv, NEW k \in Cmds, CleanupTarget(k)
  PROVE  IInv'
<1> DEFINE x == cmd[k].target
           l == cmd[k].at
           m == IF l # "rmLock" THEN After(l) ELSE IF k \in Restarts THEN "start" ELSE "done"
<1>1. /\ l \in Cleaning /\ Remove(x, l) /\ CmdAt(k, m)
      /\ UNCHANGED <<pc, fd, held, inodes, tokenFile, term>>
  BY DEF CleanupTarget
<1>2. x \in Daemons /\ pc[x] = "dead"
  BY <1>1 DEF IInv, CmdInv
<1>3. fd[x] = 0
  BY <1>2 DEF IInv, LockInv, Alive
<1>4. m \in Places /\ l # "done"
  BY <1>1 DEF Places, Cleaning, After
<1> HIDE DEF m
<1>5. /\ lockName' \in 0..inodes /\ disturbed' \in BOOLEAN
      /\ pidFile' \in {pidFile, Nobody} /\ portFile' \in {portFile, Nobody}
      /\ FileInv'
  BY <1>1, <1>2, <1>3, RemoveKeeps DEF IInv
<1>6. TypeOK'
  BY <1>1, <1>4, <1>5, MoveKeepsType DEF IInv, TypeOK, Alive, Places
<1>7. LockInv' /\ Onward
  BY <1>1 DEF IInv, LockInv, Alive, Onward
<1>8. CmdInv'
  BY <1>1, <1>2, <1>4, <1>5, <1>7, CmdMoves DEF IInv
<1>9. QED BY <1>5, <1>6, <1>7, <1>8 DEF IInv

LEMMA StartAgainStep ==
  ASSUME IInv, NEW k \in Cmds, StartAgain(k)
  PROVE  IInv'
<1>1. CASE pidFile # Nobody /\ Alive(pidFile)
  BY <1>1, LookStep DEF StartAgain, Places, Cleaning
<1>2. CASE ~(pidFile # Nobody /\ Alive(pidFile))
  <2>1. PICK d \in Daemons :
          /\ pc[d] = "off" /\ Goto(d, "born")
          /\ cmd' = [cmd EXCEPT ![k].at = "done", ![k].child = d]
    BY <1>2 DEF StartAgain
  <2>2. /\ UNCHANGED <<fd, held, lockName, inodes, pidFile, portFile, tokenFile>>
        /\ UNCHANGED <<term, disturbed>> /\ cmd[k].at = "start"
    BY DEF StartAgain, lock, files
  <2>3. \A e \in Daemons : pc'[e] = IF e = d THEN "born" ELSE pc[e]
    BY <2>1 DEF IInv, TypeOK, Goto
  <2>4. d \notin held /\ fd[d] = 0
    BY <2>1 DEF IInv, TypeOK, Alive, LockInv
  <2>5. TypeOK'
    <3>1. pc' \in [Daemons -> {"off", "born", "serving", "dead"} \cup Starting \cup Ending]
      BY <2>1 DEF IInv, TypeOK, Goto
    <3>2. cmd' \in [Cmds -> [at : {"idle", "check", "wait", "start", "done"} \cup Cleaning,
                      target : Daemons \cup {Nobody}, child : Daemons \cup {Nobody}]]
      <4>1. cmd' = [cmd EXCEPT ![k].at = "done", ![k].child = d]
        BY <2>1
      <4>2. cmd \in [Cmds -> [at : {"idle", "check", "wait", "start", "done"} \cup Cleaning,
                      target : Daemons \cup {Nobody}, child : Daemons \cup {Nobody}]]
        BY DEF IInv, TypeOK
      <4>3. QED BY <4>1, <4>2
    <3>3. \A e \in Daemons : Alive(e) => Alive(e)'
      BY <2>3 DEF Alive
    <3>4. QED BY <2>2, <3>1, <3>2, <3>3 DEF IInv, TypeOK
  <2>6. LockInv' /\ FileInv'
    BY <2>1, <2>2, <2>3, <2>4 DEF IInv, TypeOK, LockInv, FileInv, Alive, Holding, Cleaning
  <2>7. Onward
    BY <2>1, <2>3 DEF Onward
  <2>8. /\ cmd'[k].at = "done" /\ cmd'[k].target = cmd[k].target
        /\ \A j \in Cmds \ {k} : cmd'[j] = cmd[j]
        /\ cmd[k].target \in Daemons /\ pc[cmd[k].target] = "dead"
    BY <2>1, <2>2 DEF IInv, TypeOK, CmdInv
  <2>9. CmdInv'
    BY <2>2, <2>7, <2>8 DEF IInv, TypeOK, CmdInv, Onward, Cleaning
  <2>10. QED BY <2>5, <2>6, <2>9 DEF IInv
<1>3. QED BY <1>1, <1>2

-----------------------------------------------------------------------------
\* The steps by which a daemon is gone at once.
LEMMA GoneAtOnceStep ==
  ASSUME IInv, NEW d \in Daemons,
         LockRefused(d) \/ StartFails(d) \/ CloseAll(d) \/ Crash(d)
  PROVE  IInv'
<1>1. Alive(d) /\ Die(d) /\ UNCHANGED <<lockName, inodes, files, term, cmd, disturbed>>
  BY DEF LockRefused, StartFails, CloseAll, Crash, Alive
<1>2. QED BY <1>1, DieStep

\* One lemma per action, and no other step changes anything.
LEMMA StepInv == IInv /\ [Next]_vars => IInv'
<1> SUFFICES ASSUME IInv, [Next]_vars PROVE IInv'
  OBVIOUS
<1>1. ASSUME NEW d \in Daemons, Launch(d) \/ StartNext(d) \/ EndNext(d)
                                \/ ServerError(d) \/ Crash(d)
      PROVE  IInv'
  <2>1. CASE Launch(d) \/ ServerError(d) \/ Crash(d)
    BY <2>1, LaunchStep, LeaveStep, GoneAtOnceStep
  <2>2. CASE StartNext(d)
    BY <2>2, OpenLockStep, TakeLockStep, GoneAtOnceStep, WriteTokenStep, WritePIDStep,
       WritePortStep, ServeStep DEF StartNext
  <2>3. CASE EndNext(d)
    BY <2>3, LeaveStep, ReleaseStep, GoneAtOnceStep, CleanupOwnStep DEF EndNext
  <2>4. QED BY <1>1, <2>1, <2>2, <2>3
<1>2. ASSUME NEW k \in Cmds, CmdNext(k)
      PROVE  IInv'
  BY <1>2, ReadPIDStep, GoneStep, SendTermStep, TimeOutStep, CleanupTargetStep,
     StartAgainStep DEF CmdNext
<1>3. CASE UNCHANGED vars
  BY <1>3 DEF vars, lock, files, IInv, TypeOK, LockInv, FileInv, CmdInv, Alive
<1>4. QED BY <1>1, <1>2, <1>3 DEF Next

\* The lock, the files and the commands stay consistent in every behaviour of any
\* number of daemons and commands, crashes at any moment included.
THEOREM Inductive == Spec => []IInv
<1>1. QED BY InitInv, StepInv, PTL DEF Spec

\* As long as no cleanup has removed a file of another live process, at most one daemon
\* serves, and the PID file and the bootstrap token are its own (AcquireLock, WritePID,
\* CleanupRunFiles of internal/daemon).
THEOREM RunFilesTrusted == Spec => []RunFilesTrustworthy
<1>1. IInv => RunFilesTrustworthy
  <2> SUFFICES ASSUME IInv, ~disturbed
               PROVE  /\ Cardinality(Serving) <= 1
                      /\ \A d \in Serving : pidFile = d /\ tokenFile = d
    BY DEF RunFilesTrustworthy, IInv
  <2>1. \A d \in Serving : pidFile = d /\ tokenFile = d
    BY DEF IInv, FileInv, Serving
  <2>2. CASE Serving = {}
    BY <2>1, <2>2, FS_EmptySet
  <2>3. CASE Serving # {}
    <3>1. Serving = {pidFile}
      BY <2>1, <2>3
    <3>2. QED BY <2>1, <3>1, FS_Singleton
  <2>4. QED BY <2>2, <2>3
<1>2. QED BY <1>1, Inductive, PTL

\* The process a restart stopped is gone before the one it starts exists, whoever else
\* starts, stops or kills daemons meanwhile (the restart command of cmd/server.go).
THEOREM RestartsSequential == Spec => []RestartIsSequential
<1>1. IInv => RestartIsSequential
  BY DEF IInv, CmdInv, RestartIsSequential, Alive
<1>2. QED BY <1>1, Inductive, PTL
=============================================================================
