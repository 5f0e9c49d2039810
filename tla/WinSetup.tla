------------------------------ MODULE WinSetup ------------------------------
(***************************************************************************)
(* Installation, update and removal on Windows (distribution_windows.go,    *)
(* distribution_hooks_windows.go, distribution_health_windows.go,           *)
(* distribution_notifications_windows.go and service_windows.go of          *)
(* internal/laodi).  Versions lie side by side in directories that never    *)
(* change, one record selects one of them, two stable launchers start the   *)
(* selected one, a task starts the launcher, and the hooks of the clients   *)
(* call it.  An update writes a journal, stops the monitor, selects the new *)
(* version and starts it; what is left of an update that failed or was      *)
(* killed is undone by the next installation.  Every step is a write of one *)
(* file that is complete and durable when it is visible; a command may be   *)
(* killed between any two of them.  Commands exclude one another with the   *)
(* lock "distribution-management".                                          *)
(***************************************************************************)
EXTENDS Naturals, FiniteSets

CONSTANTS
    Version,     \* versions
    Client,      \* clients with verified hooks
    None,        \* no file, no process, no value
    Fault,       \* failures of this instance
    MaxCommands, \* bound: commands
    MaxFaults,   \* bound: steps that fail
    MaxKills,    \* bound: commands killed, sessions that end
    MaxCrashes,  \* bound: monitors that crash
    MaxEdits     \* bound: changes by the user

ASSUME WinSetupAssumption ==
    /\ MaxCommands \in Nat /\ MaxFaults \in Nat /\ MaxKills \in Nat
    /\ MaxCrashes \in Nat /\ MaxEdits \in Nat
    /\ Fault \subseteq {"write", "service", "health", "restart", "helper"}
ASSUME WinSetupNoneAssumption == None \notin Version \cup Client
\* The values are told apart.
ASSUME WinSetupDataAssumption ==
    /\ "off" \notin Version /\ None \notin [old : Version, new : Version]
    /\ None \notin {"own", "edited"}

VARIABLES
    versions,  \* the version directories that were published
    launcher,  \* the version that each stable launcher is from
    current,   \* current-version.json
    journal,   \* windows-upgrade.json: the old and the new version
    task,      \* the scheduled task: None, "own" or "edited"
    receipt,   \* service-install.json
    monitor,   \* "off", "starting" or the version that runs
    crashed,   \* the scheduler may start the task again
    hooked,    \* clients whose configuration has the hooks and their receipt
    recorded,  \* clients in windows-integration.json
    notice,    \* the registration for notifications: "none", "pending" or "done"
    enabled,   \* windows-notifications.json: notifications are wanted
    helper,    \* versions that contain LaodiNotify.exe
    working,   \* versions whose monitor publishes a heartbeat
    proved,    \* versions that a command has seen doing so
    cmd,       \* the command
    budget     \* steps taken, for the bounds

runtime == <<versions, launcher, current, journal>>
service == <<task, receipt, monitor, crashed>>
hooks   == <<hooked, recorded>>
notices == <<notice, enabled>>
ghost   == <<helper, working, proved>>
vars    == <<runtime, service, hooks, notices, ghost, cmd, budget>>

NoCommand == [kind |-> None, pc |-> "idle", version |-> None, clients |-> {}, then |-> "idle"]
Count(what, bound) == budget[what] < bound /\ budget' = [budget EXCEPT ![what] = @ + 1]
At(pc)     == cmd.pc = pc
Goto(pc)   == cmd' = [cmd EXCEPT !.pc = pc]
Finish     == cmd' = NoCommand
Works      == UNCHANGED budget
Fails(what) == what \in Fault /\ Count("faults", MaxFaults)

-----------------------------------------------------------------------------
(* The service. *)

\* inspectWindowsTask: an error, or whether the task is owned.
Owned     == task = "own" /\ receipt
Unowned   == task = None /\ ~receipt
Inspected == Owned \/ Unowned

\* stopWindowsVersion: the monitor of this version, or none, and no running task.
Stoppable(v) == Inspected /\ monitor \in {"off", v}

\* Variant: a process of the version is enough.
HealthyProcess == monitor = current

\* windowsDistributionHealthy: a fresh heartbeat of the selected version.
Healthy == monitor = current /\ current \in working

\* startWindowsService, the task's "run": nothing if it runs.
Started == IF monitor = "off" THEN monitor' = "starting" /\ crashed' = FALSE
           ELSE UNCHANGED <<monitor, crashed>>

-----------------------------------------------------------------------------
(* The beginning of a command. *)

\* Hooks are checked first: what the receipt names has to be in place.
HooksIntact == recorded \subseteq hooked

\* validateWindowsNotificationUpgrade
NoticeAllows(v) == notice # "none" => v \in helper

BeginInstall ==
    /\ cmd = NoCommand /\ HooksIntact /\ Count("commands", MaxCommands)
    /\ journal # None => current # None
    /\ \E v \in Version, found \in SUBSET Client :
          /\ NoticeAllows(v)
          /\ cmd' = [NoCommand EXCEPT !.kind = "install", !.pc = "stage", !.version = v,
                                      !.clients = found \cup recorded]
    /\ UNCHANGED <<runtime, service, hooks, notices, ghost>>

BeginRemove ==
    /\ cmd = NoCommand /\ HooksIntact /\ Count("commands", MaxCommands)
    /\ journal = None /\ current # None
    /\ cmd' = [NoCommand EXCEPT !.kind = "remove", !.pc = "unhook", !.clients = recorded]
    /\ UNCHANGED <<runtime, service, hooks, notices, ghost>>

\* Variant: a pending recovery is no reason to refuse.
BeginNoticeAnyway ==
    /\ cmd = NoCommand /\ current \in helper /\ Count("commands", MaxCommands)
    /\ \E pc \in {"notify", "unnotify"} : cmd' = [NoCommand EXCEPT !.kind = "notice", !.pc = pc]
    /\ UNCHANGED <<runtime, service, hooks, notices, ghost>>

\* ManageWindowsNotifications; a registration waits for the recovery.
BeginNotice ==
    /\ cmd = NoCommand /\ current \in helper /\ Count("commands", MaxCommands)
    /\ \E pc \in {"notify", "unnotify"} :
          /\ pc = "notify" => journal = None
          /\ cmd' = [NoCommand EXCEPT !.kind = "notice", !.pc = pc]
    /\ UNCHANGED <<runtime, service, hooks, notices, ghost>>

-----------------------------------------------------------------------------
(* Files of the version. *)

\* Where an installation goes on when files are in place.
Fresh == current = None
Prepared == IF Fresh THEN "laodi.exe" ELSE IF journal # None THEN "recover" ELSE "decide"

\* stageWindowsVersion: a directory of its own that is renamed when complete.
Stage ==
    /\ At("stage")
    /\ \/ /\ Works /\ versions' = versions \cup {cmd.version}
          /\ cmd' = [cmd EXCEPT !.pc = Prepared, !.then = "decide"]
       \/ cmd.version \notin versions /\ Fails("write") /\ Finish /\ UNCHANGED versions
    /\ UNCHANGED <<launcher, current, journal, service, hooks, notices, ghost>>

\* Variant: one launcher is enough.
NextFileSkips == "current"

NextFile == IF At("laodi.exe") THEN "laodi-host.exe" ELSE "current"

\* An existing launcher has to be that of this version.
Launchers ==
    /\ cmd.pc \in DOMAIN launcher
    /\ \/ /\ Works /\ launcher[cmd.pc] \in {None, cmd.version}
          /\ launcher' = [launcher EXCEPT ![cmd.pc] = cmd.version]
          /\ Goto(NextFile)
       \/ /\ IF launcher[cmd.pc] = None THEN Fails("write") ELSE Works /\ launcher[cmd.pc] # cmd.version
          /\ Finish /\ UNCHANGED launcher
    /\ UNCHANGED <<versions, current, journal, service, hooks, notices, ghost>>

\* The first selection.
FirstCurrent ==
    /\ At("current")
    /\ \/ Works /\ current' = cmd.version /\ Goto("decide")
       \/ Fails("write") /\ Finish /\ UNCHANGED current
    /\ UNCHANGED <<versions, launcher, journal, service, hooks, notices, ghost>>

\* The same version is connected again; another one is an update, for which the
\* task of the old version is restored first if it is gone.
Decide ==
    /\ At("decide") /\ Works
    /\ cmd' = IF current # cmd.version /\ Owned THEN [cmd EXCEPT !.pc = "journal"]
              ELSE [cmd EXCEPT !.pc = "register",
                               !.then = IF current = cmd.version THEN "notify" ELSE "journal"]
    /\ UNCHANGED <<runtime, service, hooks, notices, ghost>>

-----------------------------------------------------------------------------
(* InstallService. *)

Register ==
    /\ At("register")
    /\ CASE Owned   -> Works /\ Goto("run") /\ UNCHANGED task
         [] Unowned -> \/ Works /\ task' = "own" /\ Goto("receipt")
                       \/ Fails("service") /\ Finish /\ UNCHANGED task
         [] OTHER   -> Works /\ Finish /\ UNCHANGED task
    /\ UNCHANGED <<runtime, receipt, monitor, crashed, hooks, notices, ghost>>

\* Without a receipt the task that was just created is deleted again.
WriteReceipt ==
    /\ At("receipt") \/ At("unregister")
    /\ \/ At("receipt") /\ Works /\ receipt' = TRUE /\ Goto("run") /\ UNCHANGED task
       \/ At("receipt") /\ Fails("write") /\ Goto("unregister") /\ UNCHANGED <<task, receipt>>
       \/ /\ At("unregister") /\ Works /\ Finish /\ UNCHANGED receipt
          /\ task' = IF task = "own" THEN None ELSE task
       \/ At("unregister") /\ Fails("service") /\ Finish /\ UNCHANGED <<task, receipt>>
    /\ UNCHANGED <<runtime, monitor, crashed, hooks, notices, ghost>>

Run ==
    /\ At("run")
    /\ \/ Works /\ Owned /\ Started /\ Goto("health")
       \/ Finish /\ UNCHANGED <<monitor, crashed>> /\ IF Owned THEN Fails("service") ELSE Works
    /\ UNCHANGED <<runtime, task, receipt, hooks, notices, ghost>>

\* waitWindowsDistributionHealth: after fifteen seconds without a heartbeat of
\* the selected version it gives up.
Health ==
    /\ At("health")
    /\ \/ Works /\ Healthy /\ proved' = proved \cup {current} /\ Goto(cmd.then)
       \/ Finish /\ UNCHANGED proved /\ IF Healthy THEN Fails("health") ELSE Works
    /\ UNCHANGED <<runtime, service, hooks, notices, helper, working>>

-----------------------------------------------------------------------------
(* An update. *)

Journal ==
    /\ At("journal")
    /\ \/ /\ Works /\ HooksIntact /\ Owned /\ Goto("stop")
          /\ journal' = [old |-> current, new |-> cmd.version]
       \/ Finish /\ UNCHANGED journal /\ IF HooksIntact /\ Owned THEN Fails("write") ELSE Works
    /\ UNCHANGED <<versions, launcher, current, service, hooks, notices, ghost>>

\* stopWindowsVersion of the selected version, for an update, for its recovery and
\* for a removal.  If it fails a journal stays.
Stop ==
    /\ cmd.pc \in {"stop", "recover", "stop all"}
    /\ \/ /\ Works /\ Stoppable(current) /\ monitor' = "off"
          /\ At("recover") => Owned
          /\ Goto(CASE At("stop") -> "select" [] At("recover") -> "restore" [] OTHER -> "unregister all")
       \/ /\ IF Stoppable(current) /\ (At("recover") => Owned) THEN Fails("service") ELSE Works
          /\ Finish /\ UNCHANGED monitor
    /\ UNCHANGED <<runtime, task, receipt, crashed, hooks, notices, ghost>>

\* A failure from here on is undone at once.
Undo == cmd' = [cmd EXCEPT !.pc = "recover", !.then = "idle"]

Select ==
    /\ At("select")
    /\ \/ Works /\ current' = cmd.version /\ Goto("start")
       \/ Fails("write") /\ Undo /\ UNCHANGED current
    /\ UNCHANGED <<versions, launcher, journal, service, hooks, notices, ghost>>

StartNew ==
    /\ At("start")
    /\ \/ Works /\ Owned /\ Started /\ Goto("new health")
       \/ Undo /\ UNCHANGED <<monitor, crashed>> /\ IF Owned THEN Fails("service") ELSE Works
    /\ UNCHANGED <<runtime, task, receipt, hooks, notices, ghost>>

\* Variant: a monitor that was started counts as healthy.
NewHealthUnchecked ==
    /\ At("new health") /\ Works /\ Goto("done")
    /\ UNCHANGED <<runtime, service, hooks, notices, ghost>>

NewHealth ==
    /\ At("new health")
    /\ \/ Works /\ Healthy /\ proved' = proved \cup {current} /\ Goto("done")
       \/ Undo /\ UNCHANGED proved /\ IF Healthy THEN Fails("health") ELSE Works
    /\ UNCHANGED <<runtime, service, hooks, notices, helper, working>>

\* removeWindowsJournal, after an update and after a recovery.
Unjournal ==
    /\ At("done") \/ At("recovered")
    /\ \/ /\ Works /\ journal' = None
          /\ \/ At("done") /\ Goto("notify")
             \/ At("recovered") /\ IF cmd.then = "idle" THEN Finish ELSE Goto(cmd.then)
       \/ Fails("write") /\ Finish /\ UNCHANGED journal
    /\ UNCHANGED <<versions, launcher, current, service, hooks, notices, ghost>>

\* recoverWindowsUpgrade, after Stop: the old version is selected and started.
Restore ==
    /\ At("restore")
    /\ \/ Works /\ current' = journal.old /\ Goto("restart")
       \/ Fails("write") /\ Finish /\ UNCHANGED current
    /\ UNCHANGED <<versions, launcher, journal, service, hooks, notices, ghost>>

Restart ==
    /\ At("restart")
    /\ \/ Works /\ Owned /\ Started /\ Goto("old health")
       \/ Finish /\ UNCHANGED <<monitor, crashed>> /\ IF Owned THEN Fails("service") ELSE Works
    /\ UNCHANGED <<runtime, task, receipt, hooks, notices, ghost>>

OldHealth ==
    /\ At("old health")
    /\ \/ Works /\ Healthy /\ proved' = proved \cup {current} /\ Goto("recovered")
       \/ Finish /\ UNCHANGED proved /\ IF Healthy THEN Fails("health") ELSE Works
    /\ UNCHANGED <<runtime, service, hooks, notices, helper, working>>

-----------------------------------------------------------------------------
(* Notifications: the helper registers with the system, then the preference is *)
(* written.                                                                    *)

\* prepareWindowsNotifications, if asked for and possible, and the command
\* "enable"; an installation goes on if the helper fails, which may leave its
\* registration pending.
Notify ==
    /\ At("notify")
    /\ \/ Works /\ cmd.kind = "install" /\ Goto("hook") /\ UNCHANGED notice
       \/ Works /\ current \in helper /\ notice' = "done" /\ Goto("prefer")
       \/ /\ current \in helper /\ Fails("helper")
          /\ notice' \in {notice, IF notice = "none" THEN "pending" ELSE notice}
          /\ IF cmd.kind = "install" THEN Goto("hook") ELSE Finish
    /\ UNCHANGED <<runtime, service, hooks, enabled, ghost>>

\* removeWindowsNotifications and the command "disable".
Unnotify ==
    /\ At("unnotify")
    /\ \/ Works /\ notice # "none" /\ current \in helper /\ notice' = "none" /\ Goto("prefer")
       \/ Works /\ (notice = "none" \/ current \notin helper) /\ Finish /\ UNCHANGED notice
       \/ Fails("helper") /\ Finish /\ UNCHANGED notice
    /\ UNCHANGED <<runtime, service, hooks, enabled, ghost>>

\* The preference follows the registration.
Prefer ==
    /\ At("prefer")
    /\ \/ Works /\ enabled' = (notice = "done")
          /\ IF cmd.kind = "install" THEN Goto("hook") ELSE Finish
       \/ Fails("write") /\ Finish /\ UNCHANGED enabled
    /\ UNCHANGED <<runtime, service, hooks, notice, ghost>>

-----------------------------------------------------------------------------
(* The hooks of the clients, one after the other. *)

\* applyWindowsDistributionHooks: InstallHookConfig, then the record.
Hook ==
    /\ At("hook") /\ Works
    /\ IF cmd.clients = {} THEN Finish /\ UNCHANGED hooked
       ELSE \E c \in cmd.clients :
               /\ hooked' = hooked \cup {c}
               /\ cmd' = [cmd EXCEPT !.pc = "record", !.then = c, !.clients = @ \ {c}]
    /\ UNCHANGED <<runtime, service, recorded, notices, ghost>>

Record ==
    /\ At("record")
    /\ \/ Works /\ recorded' = recorded \cup {cmd.then} /\ Goto("hook")
       \/ Fails("write") /\ Finish /\ UNCHANGED recorded
    /\ UNCHANGED <<runtime, service, hooked, notices, ghost>>

\* removeWindowsDistributionHooks: UninstallHookConfig, then the record.
Unhook ==
    /\ At("unhook") /\ Works
    /\ IF cmd.clients = {} THEN Goto("stop all") /\ UNCHANGED hooked
       ELSE \E c \in cmd.clients :
               IF c \in hooked
               THEN /\ hooked' = hooked \ {c}
                    /\ cmd' = [cmd EXCEPT !.pc = "unrecord", !.then = c, !.clients = @ \ {c}]
               ELSE Finish /\ UNCHANGED hooked
    /\ UNCHANGED <<runtime, service, recorded, notices, ghost>>

Unrecord ==
    /\ At("unrecord")
    /\ \/ Works /\ recorded' = recorded \ {cmd.then} /\ Goto("unhook")
       \/ Fails("write") /\ Finish /\ UNCHANGED recorded
    /\ UNCHANGED <<runtime, service, hooked, notices, ghost>>

\* Variant: the task is deleted while it runs.
IdleOrNot == TRUE

\* UninstallService: a monitor that runs again is stopped again, the task is
\* deleted unless it runs, and then its receipt.
Idle == monitor = "off"
Unregister ==
    /\ cmd.pc \in {"unregister all", "delete", "drop receipt"}
    /\ \/ /\ At("unregister all") /\ Works /\ UNCHANGED <<task, receipt>>
          /\ IF Owned /\ Stoppable(current) THEN monitor' = "off" /\ Goto("delete")
             ELSE Finish /\ UNCHANGED monitor
       \/ /\ At("delete") /\ Works /\ UNCHANGED <<receipt, monitor>>
          /\ IF task = "own" /\ Idle THEN task' = None /\ Goto("drop receipt")
             ELSE Finish /\ UNCHANGED task
       \/ At("drop receipt") /\ Works /\ receipt' = FALSE /\ Goto("unnotify") /\ UNCHANGED <<task, monitor>>
       \/ Fails("service") /\ Finish /\ UNCHANGED <<task, receipt, monitor>>
    /\ crashed' = (crashed /\ task' # None)
    /\ UNCHANGED <<runtime, hooks, notices, ghost>>

-----------------------------------------------------------------------------
(* The monitor, the scheduler, and what else happens. *)

\* WindowsRoute: the launcher starts the version that is selected now.
Route ==
    /\ monitor = "starting" /\ monitor' = current
    /\ UNCHANGED <<runtime, task, receipt, crashed, hooks, notices, ghost, cmd, budget>>

Crash ==
    /\ monitor \in Version /\ Count("crashes", MaxCrashes)
    /\ monitor' = "off" /\ crashed' = TRUE
    /\ UNCHANGED <<runtime, task, receipt, hooks, notices, ghost, cmd>>

\* RestartOnFailure of the task.
SchedulerRestarts ==
    /\ "restart" \in Fault /\ crashed /\ task # None /\ monitor = "off"
    /\ monitor' = "starting" /\ crashed' = FALSE
    /\ UNCHANGED <<runtime, task, receipt, hooks, notices, ghost, cmd, budget>>

Logon ==
    /\ cmd = NoCommand /\ task # None /\ monitor = "off" /\ Count("commands", MaxCommands)
    /\ monitor' = "starting" /\ crashed' = FALSE
    /\ UNCHANGED <<runtime, task, receipt, hooks, notices, ghost, cmd>>

\* The command is killed; with the session the monitor ends as well.
Kill ==
    /\ cmd # NoCommand \/ monitor # "off"
    /\ Count("kills", MaxKills) /\ Finish
    /\ \/ UNCHANGED <<monitor, crashed>>
       \/ monitor' = "off" /\ crashed' = FALSE
    /\ UNCHANGED <<runtime, task, receipt, hooks, notices, ghost>>

Edit ==
    /\ Count("edits", MaxEdits)
    /\ \/ task = "own" /\ task' = "edited" /\ UNCHANGED hooked
       \/ \E c \in hooked : hooked' = hooked \ {c} /\ UNCHANGED task
    /\ UNCHANGED <<runtime, receipt, monitor, crashed, recorded, notices, ghost, cmd>>

-----------------------------------------------------------------------------
Init ==
    /\ versions = {} /\ launcher = [f \in {"laodi.exe", "laodi-host.exe"} |-> None]
    /\ current = None /\ journal = None
    /\ task = None /\ receipt = FALSE /\ monitor = "off" /\ crashed = FALSE
    /\ hooked = {} /\ recorded = {} /\ notice = "none" /\ enabled = FALSE
    /\ helper \in SUBSET Version /\ working \in SUBSET Version /\ proved = {}
    /\ cmd = NoCommand
    /\ budget = [commands |-> 0, faults |-> 0, kills |-> 0, crashes |-> 0, edits |-> 0]

Install == Stage \/ Launchers \/ FirstCurrent \/ Decide \/ Register \/ WriteReceipt \/ Run \/ Health
Update  == Journal \/ Stop \/ Select \/ StartNew \/ NewHealth \/ Unjournal \/ Restore \/ Restart \/ OldHealth
Notice  == Notify \/ Unnotify \/ Prefer
Hooks   == Hook \/ Record \/ Unhook \/ Unrecord \/ Unregister
Other   == Route \/ Crash \/ SchedulerRestarts \/ Logon \/ Kill \/ Edit

Next == BeginInstall \/ BeginRemove \/ BeginNotice \/ Install \/ Update \/ Notice \/ Hooks \/ Other
Spec == Init /\ [][Next]_vars

-----------------------------------------------------------------------------
(* Properties. *)

\* Type correctness.
TypeOK ==
    /\ versions \subseteq Version /\ current \in Version \cup {None}
    /\ \A f \in DOMAIN launcher : launcher[f] \in Version \cup {None}
    /\ journal # None => journal.old \in Version /\ journal.new \in Version
    /\ task \in {None, "own", "edited"} /\ receipt \in BOOLEAN
    /\ monitor \in {"off", "starting"} \cup Version /\ crashed \in BOOLEAN
    /\ hooked \subseteq Client /\ recorded \subseteq Client /\ proved \subseteq working
    /\ notice \in {"none", "pending", "done"} /\ enabled \in BOOLEAN
    /\ cmd.clients \subseteq Client

\* Whatever failed or was killed, a task or a monitor finds a complete version to
\* run: the record selects a published directory, both launchers are in place,
\* and a journal names two complete versions of which one is selected.
Routable ==
    /\ task # None \/ monitor # "off" \/ journal # None => current # None
    /\ current # None => current \in versions /\ \A f \in DOMAIN launcher : launcher[f] # None
    /\ journal # None => {journal.old, journal.new} \subseteq versions /\ current \in {journal.old, journal.new}

\* Once a version has been seen working, no other is left selected without having
\* been seen as well, unless the journal that leads back is there.
OnlyProvenSelected == proved # {} => current \in proved \/ journal # None

\* No monitor outlives its task: a removal that deletes the task has stopped the
\* monitor, also one that the scheduler has started again after a crash.
RemovedIsStopped == task = None => monitor = "off"

\* The system never holds a registration that the selected version cannot serve
\* or take back, although updates and their recovery change the version.
NoticeHasHelper == notice # "none" => current \in helper

\* The hooks of the receipt are in place when no command runs and the user has
\* changed nothing, so that a removal that was cut short can be resumed.
RemovalCanResume == cmd = NoCommand /\ budget.edits = 0 => HooksIntact
=============================================================================
