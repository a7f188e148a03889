-------------------------- MODULE DaemonLifecycle --------------------------
(***************************************************************************)
(* The daemon's life as the file system and other processes see it:        *)
(* runForeground of cmd/server.go with the lock, PID and port files of     *)
(* internal/daemon, and the commands `vedox server stop` and `restart`.    *)
(*                                                                         *)
(* A member of Daemons is one process.  A file is modelled by whose it is, *)
(* the lock file also by its inode: flock locks the inode a process has    *)
(* open, CleanupRunFiles removes the name.  Processes crash at any moment; *)
(* the kernel then releases their locks and their files stay.              *)
(***************************************************************************)
EXTENDS Naturals, FiniteSets

CONSTANTS Daemons,   \* processes of `server start --foreground`
          Cmds,      \* invocations of `server stop` and `server restart`
          Restarts,  \* those that are a restart
          Nobody     \* no process, no file

ASSUME CmdsAssumption   == Restarts \subseteq Cmds
ASSUME NobodyAssumption == Nobody \notin Daemons

VARIABLES
  pc,         \* pc[d]: how far runForeground of d got
  fd,         \* fd[d]: the inode of the lock file that d has open, 0 if none
  held,       \* the daemons whose flock succeeded and was not released
  lockName,   \* the inode the lock file's name refers to, 0 if there is no name
  inodes,     \* how many inodes were created for it
  pidFile, portFile, tokenFile,  \* whose record the file holds
  term,       \* daemons whose signal handler has seen SIGTERM
  cmd,        \* cmd[k]: [at, target, child] of a stop or restart
  disturbed   \* history: a cleanup removed a file of another live process

files == <<pidFile, portFile, tokenFile>>
lock  == <<fd, held, lockName, inodes>>
vars  == <<pc, lock, files, term, cmd, disturbed>>

Starting == {"opened", "locked", "ready", "pid", "port"}
Cleaning == {"rmPid", "rmPort", "rmLock"}
Ending   == {"drain", "release", "closing", "err"} \cup Cleaning
Alive(d) == pc[d] \notin {"off", "dead"}

TypeOK ==
  /\ pc \in [Daemons -> {"off", "born", "serving", "dead"} \cup Starting \cup Ending]
  /\ fd \in [Daemons -> Nat]
  /\ held \subseteq {d \in Daemons : Alive(d) /\ fd[d] # 0}
  /\ inodes \in Nat /\ lockName \in 0..inodes
  /\ {pidFile, portFile, tokenFile} \subseteq Daemons \cup {Nobody}
  /\ term \subseteq Daemons
  /\ cmd \in [Cmds -> [at : {"idle", "check", "wait", "start", "done"} \cup Cleaning,
                      target : Daemons \cup {Nobody}, child : Daemons \cup {Nobody}]]
  /\ disturbed \in BOOLEAN

Init ==
  /\ pc = [d \in Daemons |-> "off"]
  /\ fd = [d \in Daemons |-> 0] /\ held = {}
  /\ lockName = 0 /\ inodes = 0
  /\ pidFile = Nobody /\ portFile = Nobody /\ tokenFile = Nobody
  /\ term = {}
  /\ cmd = [k \in Cmds |-> [at |-> "idle", target |-> Nobody, child |-> Nobody]]
  /\ disturbed = FALSE

Goto(d, l) == pc' = [pc EXCEPT ![d] = l]

\* The process is gone; the kernel closes its file and drops its lock.
Die(d) ==
  /\ Goto(d, "dead")
  /\ fd' = [fd EXCEPT ![d] = 0]
  /\ held' = held \ {d}

-----------------------------------------------------------------------------
(* runForeground: start.                                                   *)

\* A process is started: by hand, by the OS, or as the child of Daemonize.
Launch(d) ==
  /\ pc[d] = "off"
  /\ Goto(d, "born")
  /\ UNCHANGED <<lock, files, term, cmd, disturbed>>

\* AcquireLock: open with O_CREATE (and O_TRUNC: what the file says is not modelled) ...
OpenLock(d) ==
  /\ pc[d] = "born"
  /\ IF lockName = 0
       THEN inodes' = inodes + 1 /\ lockName' = inodes + 1
       ELSE UNCHANGED <<inodes, lockName>>
  /\ fd' = [fd EXCEPT ![d] = lockName']
  /\ Goto(d, "opened")
  /\ UNCHANGED <<held, files, term, cmd, disturbed>>

LockFree(d) == \A e \in held : fd[e] # fd[d]

\* Mutant: the error of flock is ignored.
TakeLockUnchecked(d) ==
  /\ pc[d] = "opened"
  /\ held' = held \cup {d}
  /\ Goto(d, "locked")
  /\ UNCHANGED <<fd, lockName, inodes, files, term, cmd, disturbed>>

\* ... then flock without waiting.
TakeLock(d) ==
  /\ pc[d] = "opened"
  /\ LockFree(d)
  /\ held' = held \cup {d}
  /\ Goto(d, "locked")
  /\ UNCHANGED <<fd, lockName, inodes, files, term, cmd, disturbed>>

\* ErrAlreadyRunning.
LockRefused(d) ==
  /\ pc[d] = "opened"
  /\ ~LockFree(d)
  /\ Die(d)
  /\ UNCHANGED <<lockName, inodes, files, term, cmd, disturbed>>

\* SelectPort and the bootstrap token; an error releases the lock.
WriteToken(d) ==
  /\ pc[d] = "locked"
  /\ tokenFile' = d
  /\ Goto(d, "ready")
  /\ UNCHANGED <<lock, pidFile, portFile, term, cmd, disturbed>>

WritePID(d) ==
  /\ pc[d] = "ready"
  /\ pidFile' = d
  /\ Goto(d, "pid")
  /\ UNCHANGED <<lock, portFile, tokenFile, term, cmd, disturbed>>

StartFails(d) ==
  /\ pc[d] \in {"locked", "ready"}
  /\ Die(d)
  /\ UNCHANGED <<lockName, inodes, files, term, cmd, disturbed>>

\* A failure to write the port sidecar is logged and ignored.
WritePort(d) ==
  /\ pc[d] = "pid"
  /\ portFile' \in {d, portFile}
  /\ Goto(d, "port")
  /\ UNCHANGED <<lock, pidFile, tokenFile, term, cmd, disturbed>>

\* The signal handler is installed; the pipelines and the HTTP server start.
Serve(d) ==
  /\ pc[d] = "port"
  /\ Goto(d, "serving")
  /\ UNCHANGED <<lock, files, term, cmd, disturbed>>

-----------------------------------------------------------------------------
(* runForeground: the two ways out.                                        *)

SeeTerm(d) ==
  /\ pc[d] = "serving"
  /\ d \in term
  /\ Goto(d, "drain")
  /\ UNCHANGED <<lock, files, term, cmd, disturbed>>

\* srv.Shutdown returns, drained or after its 30 s.
Drained(d) ==
  /\ pc[d] = "drain"
  /\ Goto(d, "rmPid")
  /\ UNCHANGED <<lock, files, term, cmd, disturbed>>

\* ListenAndServe fails, for instance because the port was taken meanwhile.
ServerError(d) ==
  /\ pc[d] = "serving"
  /\ Goto(d, "err")
  /\ UNCHANGED <<lock, files, term, cmd, disturbed>>

Release(d) ==
  /\ pc[d] \in {"release", "err"}
  /\ held' = held \ {d}
  /\ fd' = [fd EXCEPT ![d] = 0]
  /\ Goto(d, IF pc[d] = "err" THEN "rmPid" ELSE "closing")
  /\ UNCHANGED <<lockName, inodes, files, term, cmd, disturbed>>

\* The collectors flush and the databases close, after the lock was released.
CloseAll(d) ==
  /\ pc[d] = "closing"
  /\ Die(d)
  /\ UNCHANGED <<lockName, inodes, files, term, cmd, disturbed>>

\* CleanupRunFiles, one os.Remove at a time, by process x at stage l.  It
\* disturbs another live process that wrote the file or has the lock file open.
Remove(x, l) ==
  LET Others(s) == \E d \in Daemons \ {x} : Alive(d) /\ d \in s IN
  CASE l = "rmPid"  -> /\ pidFile' = Nobody
                       /\ disturbed' = (disturbed \/ Others({pidFile}))
                       /\ UNCHANGED <<portFile, lockName>>
    [] l = "rmPort" -> /\ portFile' = Nobody
                       /\ disturbed' = (disturbed \/ Others({portFile}))
                       /\ UNCHANGED <<pidFile, lockName>>
    [] l = "rmLock" -> /\ lockName' = 0
                       /\ disturbed' = (disturbed \/ Others({d \in Daemons :
                                          fd[d] # 0 /\ fd[d] = lockName}))
                       /\ UNCHANGED <<pidFile, portFile>>

After(l) == CASE l = "rmPid" -> "rmPort" [] l = "rmPort" -> "rmLock"

\* Mutant: the cleanup stops at a file that is already gone.
CleanupStopsAtMissing(d) ==
  /\ pc[d] \in Cleaning
  /\ pc[d] = "rmPid" => pidFile # Nobody
  /\ Remove(d, pc[d])
  /\ Goto(d, IF pc[d] # "rmLock" THEN After(pc[d])
             ELSE IF d \in held THEN "release" ELSE "dead")
  /\ UNCHANGED <<fd, held, inodes, tokenFile, term, cmd>>

CleanupOwn(d) ==
  /\ pc[d] \in Cleaning
  /\ Remove(d, pc[d])
  /\ Goto(d, IF pc[d] # "rmLock" THEN After(pc[d])
             ELSE IF d \in held THEN "release" ELSE "dead")
  /\ UNCHANGED <<fd, held, inodes, tokenFile, term, cmd>>

\* kill -9, a panic, the machine: at any moment.
Crash(d) ==
  /\ Alive(d)
  /\ Die(d)
  /\ UNCHANGED <<lockName, inodes, files, term, cmd, disturbed>>

-----------------------------------------------------------------------------
(* runServerStop and restart.                                              *)

CmdAt(k, l) == cmd' = [cmd EXCEPT ![k].at = l]

ReadPID(k) ==
  /\ cmd[k].at = "idle"
  /\ cmd' = IF pidFile = Nobody THEN [cmd EXCEPT ![k].at = "done"]
            ELSE [cmd EXCEPT ![k].at = "check", ![k].target = pidFile]
  /\ UNCHANGED <<pc, lock, files, term, disturbed>>

StalePID(k) ==
  /\ cmd[k].at = "check"
  /\ ~Alive(cmd[k].target)
  /\ CmdAt(k, "rmPid")
  /\ UNCHANGED <<pc, lock, files, term, disturbed>>

\* SIGTERM kills a process that has not installed its handler yet.
SendTerm(k) ==
  LET d == cmd[k].target IN
  /\ cmd[k].at = "check"
  /\ Alive(d)
  /\ IF pc[d] \in {"born"} \cup Starting
       THEN Die(d) /\ UNCHANGED term
       ELSE term' = term \cup {d} /\ UNCHANGED <<pc, fd, held>>
  /\ CmdAt(k, "wait")
  /\ UNCHANGED <<lockName, inodes, files, disturbed>>

Exited(k) ==
  /\ cmd[k].at = "wait"
  /\ ~Alive(cmd[k].target)
  /\ CmdAt(k, "rmPid")
  /\ UNCHANGED <<pc, lock, files, term, disturbed>>

\* Mutant: a restart goes on when the grace window is over.
TimeOutGoesOn(k) ==
  /\ cmd[k].at = "wait"
  /\ Alive(cmd[k].target)
  /\ CmdAt(k, "rmPid")
  /\ UNCHANGED <<pc, lock, files, term, disturbed>>

\* The grace window is over: give up, or SIGKILL with --force (never a restart).
TimeOut(k) ==
  /\ cmd[k].at = "wait"
  /\ Alive(cmd[k].target)
  /\ \/ CmdAt(k, "done") /\ UNCHANGED <<pc, fd, held>>
     \/ k \notin Restarts /\ CmdAt(k, "rmPid") /\ Die(cmd[k].target)
  /\ UNCHANGED <<lockName, inodes, files, term, disturbed>>

CleanupTarget(k) ==
  /\ cmd[k].at \in Cleaning
  /\ Remove(cmd[k].target, cmd[k].at)
  /\ CmdAt(k, IF cmd[k].at # "rmLock" THEN After(cmd[k].at)
              ELSE IF k \in Restarts THEN "start" ELSE "done")
  /\ UNCHANGED <<pc, fd, held, inodes, tokenFile, term>>

\* runNoSupervisor: refuses when the PID file names a live process, else
\* launches a child.
StartAgain(k) ==
  /\ cmd[k].at = "start"
  /\ IF pidFile # Nobody /\ Alive(pidFile)
       THEN CmdAt(k, "done") /\ UNCHANGED pc
       ELSE \E d \in Daemons :
              /\ pc[d] = "off"
              /\ Goto(d, "born")
              /\ cmd' = [cmd EXCEPT ![k].at = "done", ![k].child = d]
  /\ UNCHANGED <<lock, files, term, disturbed>>

-----------------------------------------------------------------------------
StartNext(d) ==
  \/ OpenLock(d) \/ TakeLock(d) \/ LockRefused(d) \/ WriteToken(d)
  \/ WritePID(d) \/ StartFails(d) \/ WritePort(d) \/ Serve(d)

EndNext(d) ==
  SeeTerm(d) \/ Drained(d) \/ Release(d) \/ CloseAll(d) \/ CleanupOwn(d)

CmdNext(k) ==
  \/ ReadPID(k) \/ StalePID(k) \/ SendTerm(k) \/ Exited(k) \/ TimeOut(k)
  \/ CleanupTarget(k) \/ StartAgain(k)

Next ==
  \/ \E d \in Daemons : Launch(d) \/ StartNext(d) \/ EndNext(d)
                        \/ ServerError(d) \/ Crash(d)
  \/ \E k \in Cmds : CmdNext(k)

Spec == Init /\ [][Next]_vars

(* Processes run; Shutdown and WaitForExit have their own deadlines.  No   *)
(* one has to start a daemon, and a server need not fail, nor crash.       *)
Fairness ==
  /\ \A d \in Daemons : WF_vars(StartNext(d)) /\ WF_vars(EndNext(d))
  /\ \A k \in Cmds : WF_vars(CmdNext(k) /\ cmd[k].at # "idle")

FairSpec == Spec /\ Fairness

-----------------------------------------------------------------------------
Serving == {d \in Daemons : pc[d] = "serving"}

\* Removing files is the one thing that breaks the exclusion: as long as no
\* cleanup has hit another live process, one daemon serves at a time and
\* `server stop` and `status` find it through the PID file.  Every variable has its type.
RunFilesTrustworthy ==
  /\ TypeOK
  /\ ~disturbed => /\ Cardinality(Serving) <= 1
                   /\ \A d \in Serving : pidFile = d /\ tokenFile = d

\* A restart is "a sequential stop + start": the process it stopped is gone
\* before the one it starts exists, so they never serve together (server.go:702-704).
RestartIsSequential ==
  \A k \in Cmds : cmd[k].child # Nobody => ~Alive(cmd[k].target)

\* A daemon that was told to stop goes, through every cleanup step.
TermLeadsToExit == \A d \in Daemons : (d \in term) ~> (pc[d] = "dead")

\* stop ends, and restart gets to its start, whatever becomes of the daemon they
\* wait for.
CommandsReturn ==
  \A k \in Cmds : (cmd[k].at = "check") ~> (cmd[k].at \in {"start", "done"})

\* Whoever stops a daemon sees an end of it: the daemon goes, and the command returns.
StopsEnd == TermLeadsToExit /\ CommandsReturn

\* "Returns ErrAlreadyRunning if another process holds the lock"
\* (daemon.go:277-279): two daemons never serve from the same home.  They can,
\* when the lock file was unlinked under a process that has it open.
OneDaemonServes == Cardinality(Serving) <= 1
=============================================================================
