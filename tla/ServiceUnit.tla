---------------------------- MODULE ServiceUnit -----------------------------
(***************************************************************************)
(* `vedox server install` and `uninstall` (internal/daemon/supervisor.go): *)
(* a unit file for systemd or a plist for launchd, and the calls that tell *)
(* the manager of it.  Every step of a command may fail, and between any   *)
(* two of them daemons are started, stopped and killed, the manager starts *)
(* them again, and the machine is rebooted.  One command runs at a time.   *)
(* What the managers do is external, as far as the files written here ask  *)
(* it of them.                                                             *)
(***************************************************************************)
EXTENDS Integers

CONSTANTS Binaries,        \* paths of vedox, as os.Executable gives them
          NoUnit,
          RestartLimit,    \* StartLimitBurst of the unit
          MaxMishaps       \* bound: kills, reboots and starts by hand

VARIABLES
    manager,    \* "systemd" or "launchd"
    unitFile,   \* the unit file or plist: binary and RunAtLoad
    known,      \* the unit that the manager has read
    enabled,    \* systemd starts it at login
    daemon,     \* the process that serves: none, one of the manager's or a bare one
    runs,       \* the unit the manager has started its process from
    retries,    \* starts that the manager has still to try, -1 when none is due
    pidFile,    \* vedoxd.pid: none, of the daemon that serves, or of one that is gone
    command,    \* the command that is running: operation, flags, binary, step
    told,       \* what the last command ended with
    unreached,  \* history: a command of the last uninstall did not reach the manager
    mishaps

serviceVars == << manager, unitFile, known, enabled, daemon, runs, retries, pidFile,
                  command, told, unreached, mishaps >>

Units == [bin : Binaries, atLoad : BOOLEAN]
ASSUME ServiceAssumption == NoUnit \notin Units /\ RestartLimit \in Nat
NoCommand == [op |-> "none", auto |-> FALSE, force |-> FALSE, bin |-> NoUnit, at |-> "end"]
CommandStates ==
    [op : {"none", "install", "uninstall"}, auto : BOOLEAN, force : BOOLEAN,
     bin : Binaries \cup {NoUnit},
     at : {"write", "reload", "enable", "bootstrap", "kickstart", "stop", "disable",
           "remove", "forget", "pid", "end"}]
At(op, step) == command.op = op /\ command.at = step
Step(step) == command' = [command EXCEPT !.at = step] /\ told' = told
EndCommand(result) == command' = NoCommand /\ told' = result
Mishap == mishaps < MaxMishaps /\ mishaps' = mishaps + 1
managerVars == << known, enabled, daemon, runs, retries >>

ServiceInit ==
    /\ manager \in {"systemd", "launchd"}
    /\ unitFile = NoUnit /\ known = NoUnit /\ enabled = FALSE
    /\ daemon = "none" /\ runs = NoUnit /\ retries = -1 /\ pidFile = "none"
    /\ command = NoCommand /\ told = "none" /\ unreached = FALSE /\ mishaps = 0

-----------------------------------------------------------------------------
(* What the manager does.                                                  *)

\* It starts vedox server start --foreground; with another daemon there that ends at
\* the lock, which is a failure and tried again.
Launched(unit) ==
    IF unit = NoUnit \/ daemon = "supervised" THEN UNCHANGED << daemon, runs, retries, pidFile >>
    ELSE IF daemon = "bare" THEN retries' = RestartLimit /\ UNCHANGED << daemon, runs, pidFile >>
    ELSE /\ daemon' = "supervised" /\ runs' = unit /\ retries' = -1 /\ pidFile' = "live"

\* It ends its process with SIGTERM, which removes its files and is not started again.
Ended ==
    /\ retries' = -1 /\ runs' = NoUnit
    /\ IF daemon = "supervised" THEN daemon' = "none" /\ pidFile' = "none"
       ELSE UNCHANGED << daemon, pidFile >>

\* Restart=on-failure, KeepAlive: a start that is due, until RestartLimit was reached.
ManagerRestarts ==
    /\ retries >= 0 /\ known # NoUnit
    /\ IF daemon = "bare"
         THEN /\ retries' = (IF manager = "systemd" THEN retries - 1 ELSE retries)
              /\ UNCHANGED << daemon, runs, pidFile >>
         ELSE Launched(known)
    /\ UNCHANGED << manager, unitFile, known, enabled, command, told, unreached, mishaps >>

\* A crash, or the SIGKILL of `vedox server stop --force`, which removes the files: an
\* exit that is not clean.
KillDaemon ==
    /\ daemon # "none" /\ Mishap
    /\ retries' = IF daemon = "supervised" THEN RestartLimit ELSE retries
    /\ daemon' = "none" /\ runs' = NoUnit
    /\ pidFile' \in (IF pidFile = "live" THEN {"none", "stale"} ELSE {pidFile})
    /\ UNCHANGED << manager, unitFile, known, enabled, command, told, unreached >>

\* `vedox server stop`: SIGTERM to the process in the PID file, which exits with 0.
StopDaemon ==
    /\ daemon # "none" /\ pidFile = "live"
    /\ daemon' = "none" /\ runs' = NoUnit /\ pidFile' = "none"
    /\ UNCHANGED << manager, unitFile, known, enabled, retries, command, told, unreached,
                    mishaps >>

\* `vedox server start`: registers nothing and starts a bare process.
StartBare ==
    /\ daemon = "none" /\ Mishap
    /\ daemon' = "bare" /\ pidFile' = "live"
    /\ UNCHANGED << manager, unitFile, known, enabled, runs, retries, command, told, unreached >>

\* At login systemd starts what is enabled; launchd loads every plist in LaunchAgents
\* and starts its job, whatever RunAtLoad says: KeepAlive has a SuccessfulExit, which
\* implies it.
Reboot ==
    /\ Mishap /\ command' = NoCommand /\ UNCHANGED told
    /\ known' = unitFile /\ retries' = -1
    /\ LET starts == unitFile # NoUnit /\ (manager = "systemd" => enabled)
       IN  IF starts THEN daemon' = "supervised" /\ runs' = unitFile /\ pidFile' = "live"
           ELSE /\ daemon' = "none" /\ runs' = NoUnit
                /\ pidFile' = IF pidFile = "none" THEN "none" ELSE "stale"
    /\ UNCHANGED << manager, unitFile, enabled, unreached >>

-----------------------------------------------------------------------------
(* InstallSystemd and InstallLaunchd.                                      *)

Install(auto, force, bin) ==
    /\ command = NoCommand
    /\ IF unitFile # NoUnit /\ ~force
         THEN EndCommand("refused")
         ELSE /\ command' = [op |-> "install", auto |-> auto, force |-> force, bin |-> bin,
                             at |-> "write"]
              /\ told' = "none"
    /\ UNCHANGED << manager, unitFile, managerVars, pidFile, unreached, mishaps >>

\* RenderUnit and RenderPlist: the binary, and RunAtLoad, which a unit file has not.
Rendered(c) == [bin |-> c.bin, atLoad |-> manager = "launchd" /\ c.auto]

\* writeFileAtomic: all or nothing.
WriteUnit ==
    /\ At("install", "write")
    /\ unitFile' = Rendered(command)
    /\ IF manager = "systemd" THEN Step("reload")
       ELSE IF command.auto THEN Step("bootstrap") ELSE EndCommand("installed")
    /\ UNCHANGED << manager, managerVars, pidFile, unreached, mishaps >>

\* daemon-reload; the unit of a process that runs stays until it ends.
DaemonReload ==
    /\ At("install", "reload")
    /\ known' = unitFile /\ Step("enable")
    /\ UNCHANGED << manager, unitFile, enabled, daemon, runs, retries, pidFile, unreached,
                    mishaps >>

\* enable, with --now if auto-start was asked for.
Enable ==
    /\ At("install", "enable") /\ unitFile # NoUnit
    /\ enabled' = TRUE
    /\ IF command.auto THEN Launched(known) ELSE UNCHANGED << daemon, runs, retries, pidFile >>
    /\ EndCommand(IF command.auto THEN "started" ELSE "installed")
    /\ UNCHANGED << manager, unitFile, known, unreached, mishaps >>

\* bootstrap, refused for a label that is loaded; it starts the job.
Bootstrap ==
    /\ At("install", "bootstrap") /\ known = NoUnit
    /\ known' = unitFile /\ Launched(unitFile) /\ Step("kickstart")
    /\ UNCHANGED << manager, unitFile, enabled, unreached, mishaps >>

\* kickstart -k: whatever it ends with, the command says started.
Kickstart ==
    /\ At("install", "kickstart")
    /\ IF daemon = "bare" THEN Launched(known)
       ELSE daemon' = "supervised" /\ runs' = known /\ retries' = -1 /\ pidFile' = "live"
    /\ EndCommand("started")
    /\ UNCHANGED << manager, unitFile, known, enabled, unreached, mishaps >>

KickstartFails ==
    /\ At("install", "kickstart") /\ EndCommand("started")
    /\ UNCHANGED << manager, unitFile, managerVars, pidFile, unreached, mishaps >>

\* The other steps end the command; what is done stays done.
InstallFails ==
    /\ command.op = "install" /\ command.at # "kickstart"
    /\ EndCommand("error")
    /\ UNCHANGED << manager, unitFile, managerVars, pidFile, unreached, mishaps >>

-----------------------------------------------------------------------------
(* UninstallSystemd and UninstallLaunchd: a call that fails is a warning.  *)

Uninstall ==
    /\ command = NoCommand
    /\ command' = [NoCommand EXCEPT !.op = "uninstall", !.at = "stop"]
    /\ told' = "none" /\ unreached' = FALSE
    /\ UNCHANGED << manager, unitFile, managerVars, pidFile, mishaps >>

\* systemctl stop; a unit the manager does not know is a warning too.
StopService ==
    /\ At("uninstall", "stop") /\ manager = "systemd"
    /\ Ended /\ Step("disable")
    /\ UNCHANGED << manager, unitFile, known, enabled, unreached, mishaps >>

Disable ==
    /\ At("uninstall", "disable")
    /\ enabled' = FALSE /\ Step("remove")
    /\ UNCHANGED << manager, unitFile, known, daemon, runs, retries, pidFile, unreached,
                    mishaps >>

\* launchctl bootout ends the process and forgets the agent.
Bootout ==
    /\ At("uninstall", "stop") /\ manager = "launchd"
    /\ Ended /\ known' = NoUnit /\ Step("remove")
    /\ UNCHANGED << manager, unitFile, enabled, unreached, mishaps >>

\* Mutant: a file that cannot be removed is a warning like the others.
RemoveUnitOrWarn ==
    /\ At("uninstall", "remove")
    /\ unitFile' \in {unitFile, NoUnit}
    /\ Step(IF manager = "systemd" THEN "forget" ELSE "pid")
    /\ UNCHANGED << manager, managerVars, pidFile, unreached, mishaps >>

RemoveUnit ==
    /\ At("uninstall", "remove")
    /\ \/ /\ unitFile' = NoUnit
          /\ Step(IF manager = "systemd" THEN "forget" ELSE "pid")
       \/ UNCHANGED unitFile /\ EndCommand("error")
    /\ UNCHANGED << manager, managerVars, pidFile, unreached, mishaps >>

ForgetUnit ==
    /\ At("uninstall", "forget")
    /\ known' = unitFile /\ Step("pid")
    /\ UNCHANGED << manager, unitFile, enabled, daemon, runs, retries, pidFile, unreached,
                    mishaps >>

\* A call to the manager fails: a warning, and the next step.
UninstallWarns ==
    /\ command.op = "uninstall" /\ command.at \in {"stop", "disable", "forget"}
    /\ unreached' = TRUE
    /\ Step(CASE command.at = "stop" -> (IF manager = "systemd" THEN "disable" ELSE "remove")
              [] command.at = "disable" -> "remove"
              [] command.at = "forget" -> "pid")
    /\ UNCHANGED << manager, unitFile, managerVars, pidFile, mishaps >>

\* cleanupPIDIfExists removes the file whosever it is.
RemovePid ==
    /\ At("uninstall", "pid")
    /\ pidFile' \in {"none", pidFile}
    /\ EndCommand("uninstalled")
    /\ UNCHANGED << manager, unitFile, managerVars, unreached, mishaps >>

ServiceNext ==
    \/ \E auto, force \in BOOLEAN, bin \in Binaries : Install(auto, force, bin)
    \/ WriteUnit \/ DaemonReload \/ Enable \/ Bootstrap \/ Kickstart \/ KickstartFails
    \/ InstallFails
    \/ Uninstall \/ StopService \/ Disable \/ Bootout \/ RemoveUnit \/ ForgetUnit
    \/ UninstallWarns \/ RemovePid
    \/ ManagerRestarts \/ KillDaemon \/ StopDaemon \/ StartBare \/ Reboot

-----------------------------------------------------------------------------
(* Properties.                                                             *)

ServiceTypeOK ==
    /\ unitFile \in Units \cup {NoUnit} /\ known \in Units \cup {NoUnit}
    /\ runs \in Units \cup {NoUnit} /\ enabled \in BOOLEAN /\ retries \in -1..RestartLimit
    /\ daemon \in {"none", "supervised", "bare"} /\ pidFile \in {"none", "live", "stale"}
    /\ command \in CommandStates

\* After an uninstall that reached the manager nothing of the service is left and
\* nothing starts it again, not a kill in the middle and not a reboot; after an
\* install that said so the manager has the unit it wrote, on systemd for the next
\* login too, and on launchd if it was asked to start.
ServiceIsAsTold ==
    /\ told = "uninstalled" /\ ~unreached =>
         unitFile = NoUnit /\ known = NoUnit /\ ~enabled /\ daemon # "supervised"
    /\ told \in {"installed", "started"} => unitFile # NoUnit
    /\ told \in {"installed", "started"} /\ manager = "systemd" => enabled /\ known = unitFile
    /\ told = "started" => known = unitFile
    /\ daemon = "supervised" => runs # NoUnit

\* "start it immediately" (cmd/server.go:959): not what runs already.  An install with
\* --force leaves the process of the older binary, and one beside a bare daemon none.
StartedIsNew ==
    told = "started" /\ daemon = "supervised" => runs = unitFile

\* "so 'vedox server stop' keeps the daemon off" (cmd/server.go:773) while the PID file
\* names it; uninstall takes that of a daemon that is not the manager's.
DaemonHasItsFile == daemon # "none" /\ command = NoCommand => pidFile = "live"
=============================================================================
