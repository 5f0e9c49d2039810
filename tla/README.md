# A verification project for Laodi

Laodi watches, on the user's machine, what coding clients leave behind: it
reports archived workspaces, suspicious tool output and the failures of its own
checks, and can guard the client's archive directories with access rules.  The
monitor is one process started by the system's service manager.  Clients start a
short-lived hook process for each tool call; command-line invocations install,
guard, upgrade and remove.  All of them meet only in files.

This directory holds TLA+ modules translated from the Go source, TLC
configurations that model-check them, and proofs for TLAPS.  All paths below are
relative to the repository; source files without a directory are in
`internal/laodi`.

## 1. Inventory

| component | state | operations | meets |
|---|---|---|---|
| watcher (`runner.go`) | state in memory, recovery list, ten-minute windows, broken rounds, two channels | detection cycle, claim and status of a notice, stop | state file, inbox, scanner, guard check, helper |
| state store (`store.go`) | `state.json`: cursors (`seen`), at most 256 events, diagnostics | load, apply a report, save by rename | watcher, `status`, `incidents`, `doctor` |
| hook inbox (`hook_inbox.go`) | directory `hook-inbox`: records, MAC key, gap marker, advisory lock | submit, read, acknowledge | hook processes, watcher |
| hook inspector (`hooks.go`, `hook_powershell.go`, ...) | none | classify one JSON document | inbox |
| snapshot scanner (`scanner.go`) | rotation cursors | bounded scan of artifacts and workspaces | watcher |
| protection monitor (`protection_monitor.go`) | cached verdict and client verification | check | guard, watcher |
| archive guard (`archive_guard.go`, `archive_guard_windows.go`) | receipt file, access rules on client directories | enable, inspect, disable, roll back | client, protection monitor, command line |
| hook configuration (`hook_config*.go`) | entries in the clients' settings files, ownership receipt | install, uninstall | clients, distribution |
| distribution on macOS (`distribution.go`) | runtime directory and its receipt | install, install again, remove | service, hook configuration, archive guard's lock |
| upgrade on macOS (`distribution_upgrade.go`, `runtime_swap_darwin.go`) | stages, upgrade journal | update, roll back, recover | service, watcher |
| service on macOS (`service.go`) | launch agent's file, its receipt, launchd's registration | install, uninstall | watcher |
| distribution on Windows (`distribution_windows.go`, `distribution_hooks_windows.go`, `distribution_health_windows.go`, `distribution_notifications_windows.go`) | version directories, two launchers, current version, journal, integration receipt, notification registration | install, update, recover, remove, notifications on and off | service, hook configuration, watcher |
| service on Windows (`service_windows.go`) | scheduled task, its receipt | install, start, stop, uninstall | watcher |
| start-up backend on Windows (`service_startup_windows.go`, `startup_supervisor_windows.go`, `watch_stop_windows.go`, `cmd/laodi/route_windows.go`) | shortcut, receipts of three processes, stop events, two locks | install, start, stop, uninstall, bounded restarts | watcher |
| private files (`security_files_*.go`, `lock_*.go`) | none | locked, synced, private writes | everything that stores |
| summaries, command line | none | projection, dispatch | users |

What is hard, and what makes each component correct:

* **Watcher.**  Two goroutines exchange messages over bounded channels while the
  file may fail to be written and the process may die anywhere.  Correct means:
  the helper runs at most once per event, never before the claim is durable;
  nothing consumed from the inbox is lost; no event that should be announced is
  forgotten while the process lives; the loop can always end.
* **Inbox.**  Writers are killed by their host, the lock wait is bounded, the
  reader acknowledges later than it reads, the power can fail between rename and
  directory sync.  Correct means: an accepted record is pending until an event
  for it has been saved; a refused one has left the gap marker; leftovers never
  make the directory unreadable.
* **Archive guard.**  Access rules and receipt are changed one after the other
  while the client may make and remove directories.  Correct means: every rule
  is accounted for by a receipt, whatever the step at which a process stops.
* **Hook configuration.**  Two files change one after the other while editors
  write one of them.  Correct means: an entry and its receipt do not part, foreign
  content is untouched, a removal takes back exactly what was added.
* **Distribution and service.**  Runtime, hooks, agent or task and their receipts
  change one after the other, any step may be the last, and clients, launchd or
  the scheduler go on.  Correct means: whatever runs can be found and stopped, a
  removal that succeeds leaves nothing, what is selected is complete.
* **Updates.**  Correct means: a complete runtime remains, an unproven version
  stays only while a journal leads back, recovery is decided by the journal.
* **Start-up backend.**  Three processes of their own, each of which may die and
  leave a receipt that names nobody.  Correct means: a stop that reports success
  has stopped everything that ran, and a crashed worker comes back.
* **Store, scanner.**  Bounded windows and cursors.  Correct means: an item is
  not reported twice while it is in the window, and every item is reached.

PROJECT.json lists each hazard at its line with the properties that cover it.

## 2. Plan

Written, in this order; each module is checked and has a module of proofs:

1. **Watch**, with the abstract **NoticeLedger** - the pipeline from evidence to
   notice (`WatchProofs`).
2. **HookInbox**, with the abstract **Inbox** - the hook side of the pipeline
   (`HookInboxProofs`).
3. **ArchiveGuard** - receipt phases against access rules on either system
   (`ArchiveGuardProofs`).
4. **Upgrade** - journal, exchange of directories, rollback, recovery on macOS
   (`UpgradeProofs`).
5. **HookConfig** - receipt and settings file of a client (`HookConfigProofs`).
6. **Setup**, which extends HookConfig - installation and removal on macOS across
   runtime, hooks, launch agent and guard (`SetupProofs`, which extends
   `HookConfigProofs`).
7. **WinSetup** - installation, update, recovery and removal on Windows
   (`WinSetupProofs`).
8. **Startup** - launcher, supervisor and worker of the start-up backend on
   Windows (`StartupProofs`).

Every invariant, every action property and both refinements that a run checks are
also theorems; the temporal properties under fairness are model-checked (section 11).

Left:

* **Store** - the bounded hook window, the capacity latch of snapshot keys and
  the migration of old cursors, compared with the set-based `ApplyReport` of
  Watch; **Scanner** - rotation of the bounded cursors.

## 3. Module Watch

### Correspondence with the code

The program's steps become actions at the points where another actor, a crash
or a failing operation can be observed:

| action | code |
|---|---|
| `Start` | `Watch` up to the first cycle: load, `dispatching` becomes `unknown_after_restart`, the recovery list, the windows that are still running |
| `ObserveReadable`, `ObserveUnreadable`, `ObserveUnnotified` | the cycle up to `SaveState`: scan, recovery of health cursors, inbox read, guard check, `ApplyReport`, classification |
| `SaveCycle` | `SaveState` of the cycle; its failure ends `Watch` |
| `AckRecord`, `AckFails` | `AckHookInbox`, record by record; a failure adds a diagnostic and saves again |
| `Enqueue` | the non-blocking send to the goroutine |
| `ApplyNotice` | `applyNotice`: the status is saved, then the claim is answered |
| `WorkerTake`, `Send`, `SendReturns`, `SendSkipped`, `WorkerReturns` | the notification goroutine and `sendNotice` |
| `Stop`, `Exit`, `Crash` | the end of the context, the deferred functions, the death of the process |
| `Submit`, `Reject`, `EvidenceChanges`, `SourceChanges`, `GuardChanges` | hook processes, client and guard as the cycle sees them |

Between two observable points nothing else can happen to the state of the main
goroutine, so one action covers them.  `mem` is the state in memory, `disk` the
file.  A save may fail before or after the rename, so `SaveFails` leaves either
content.  An event is `<<finding, time>>`; the code's identifier is a hash of
exactly these.  The bounded list is a function from identifiers to statuses: the
list is always ordered by time and by the order of the report, so the order is
a function of the identifier (`Older`).  `recorded`, `claimed`, `accepted` and
`sent` are history variables.

The ten-minute window of a kind is a set `recent`; whether ten minutes have
passed is a choice when a cycle makes new events.  The thirty-second refresh is
a choice as well: a cycle with nothing to announce may save or not.

`Workspace` is the family of findings for which an upgraded state makes a baseline
of its own: while a state has no `generation` (`WorkspaceSnapshotGeneration` of the
code), the first valid scan records what it finds of them as
`suppressed_upgrade_baseline` and announces nothing (`Uninspected`, `Upgraded`).
A fresh installation meets this too, when its first scan is degraded and finds
nothing.

### What the runs show

*watch_pipeline* - two records of one tool call with the same cursor key, one
snapshot that comes or goes, a list of three events, one place in the channel,
one failure (of a save, an inbox operation, the notifier, the scanned directory or
the guard) and one crash, in all interleavings.
`AtMostOneSend` and `PersistBeforeSend`: the helper runs once per event and only
after its claim is in the file.  `NoLostRecord`: an accepted record is in the
inbox or an event for it has been durable.  It holds because the inbox read is
bounded and hook events are last in the order of a report; it assumes that the
records of one read fit in the event list, as 32 records of at most a few
signals fit in 256 events.  `NoOrphanedNotice`: between cycles, every event
that is still to be announced is with the recovery list, the channel, or the
goroutine.  `ImplementsLedger`: seen through file and helper, each step is a
step of `NoticeLedger`, where a status never goes back.
`IdleIsDurable`: a cycle saves only when it has something to announce
(`runner.go:255`), although it may have moved a cursor, recorded a quiet event or
set the generation.  What the waiting loop knows beyond the file is only what a
restart from the file finds again and is as quiet about; what only the file holds is
older than all that the loop still has.  The snapshot of this run is of the workspace
family and the directory may be damaged, so the first scan may be the degraded one.

*watch_live* - one record while the directory that the scanner reads is damaged
or disappears, the guard fails and heals, a save or an acknowledgement fails, and
the process crashes once.  Under fairness: `InboxDrains`, `NoticesSettle`,
`StopCompletes`.

### Bounds

Two records of one key are the smallest number for which the cursor alternates
and the group and kind rules choose between events; a third event exceeds the
channel (one place) and the list (three events) once recovery or an alarm joins
in.  `BatchLimit = 2` and one-record inboxes both occur.  One crash suffices for
each property about "before" and "after" a restart, because a restart reads only
the file; one failure suffices because a failed save ends the loop.  `MaxClock`
bounds reports that create events and is above what the other bounds allow to be
used in a run; section 11 proves the safety properties for every bound.  A damaged
directory multiplies the reports, so *watch_pipeline* raises the coverage alarm in
the first broken cycle (`BrokenLimit = 1`); in *watch_live*, with one record and no
snapshot, it takes two, and the counter starts again with the process (the code
counts three).  A guard that is broken from the start counts as the one failure;
that it heals does not.

### Assumptions

`ReportAssumption` is what the proofs need to know of a report.  Findings are
finitely many.  The records follow the scan, the coverage and the gap, and after a
record comes only the finding of the guard, since an unreadable inbox has no records
(`runner.go:180-202`).  The records of one read are fewer than the events that the
file keeps (`BatchLimit < MaxEvents`): a read has at most 32 records
(`runner.go:187`) of at most three signals (`hook_inbox.go:309`), and the file keeps
256 events (`store.go:23`).  Otherwise a batch could push its own first event out
of the list before it is written, and `NoLostRecord` would not hold.  The findings
of an invalid record and of the scan limit, which are at most two and follow the
records, are not in the model.

### Fairness

`LiveSpec` assumes that the ticker keeps firing and a cycle saves at the latest
thirty seconds after the last write, that each started step of the cycle ends,
that the goroutine is scheduled, that the helper answers or is killed after
twelve seconds, that `select` serves a waiting message sooner or later (it
chooses at random among ready cases, so strong fairness), and that the service
manager starts the monitor again.  Failures, crashes and everything the
environment does are not fair.

## 4. Module HookInbox

Each operation on the directory is an action, since a hook may be killed and the
power may fail between any two: lock, key, duplicate test, count, temporary
file, rename, directory sync, gap marker; on the monitor's side read, save,
lock, each removal, sync.  `synced` is the directory as of the last sync, and
`Outage` keeps any subset of the changes since then.  The MAC key has a
generation, since a power loss may undo a new key and the next hook draws
another one; a record counts as readable only under the key that exists.
Temporary files carry the number of their submission, since the code draws a
random name.

*inbox* - two hooks and the monitor, two kills, one failing operation and one
power loss between any two operations of four submissions. `ImplementsInbox`:
an accepted record stays pending and verifiable until saved (the refinement of
module Inbox). `RefusalIsMarked`: a submission that returned an error has left
the gap marker, unless the marker itself could not be created. `TypeOK` bounds
what killed writers leave: the directory never gets longer than the monitor can
list, unless more writers were killed than the inbox holds. A single place
makes each second submission meet a full inbox; two kills exceed it.
`WrittenIsDurable`: what a submission published and reported as accepted
survives, together with the key that verifies it. A *duplicate* is reported as
accepted without a sync of its own, so the property speaks of the record's own
writer.

Hook processes are short-lived: they may all have ended with nothing left to
do, so this run does not check for deadlock.  The Watch runs do: a monitor
always has a next step.

## 5. Module ArchiveGuard

One module for both systems, since they share the phases of the receipt and the
order of the steps; `platform` is chosen in `Init` and decides where they differ:

| step | macOS | Windows |
|---|---|---|
| change a list of entries (`Change`) | `chmod +a# 0` / `-a# 0`, by path and position | the whole list, through an exclusive handle (`SetDACL`, `Pinned`) |
| recorded path is absent (`NothingToDo`, `Sweep`) | done, and retired from the receipt | an error, and it stays recorded |
| new workspace that inherited (`InheritedChange`) | no other entry allowed | other entries are kept |

| action | code |
|---|---|
| `BeginEnable`, `Prepare`, `MakeCache`, `ListCache`, `Record`, `FinishEnable` | the enable command: plan, lock, receipt "preparing", directory, layout with present entries, receipt "enabling", the rules, receipt "enabled" |
| `BeginDisable`, `SaveDisabling`, `Sweep`, `RecordSweep`, `RemoveReceipt` | the disable command: receipt "disabling", the root's rule, the workspaces that inherited it, receipt, the other rules, removal of the receipt |
| `Check`, `Change`, `Verify`, `CheckedAll` | `archiveApply` / `windowsArchiveApply` for one recorded object, then the next one |
| `InspectLoad`, `InspectList`, `InspectNode` | `archiveInspect` / `windowsArchiveInspect` in the monitor, without the lock |
| `Make*`, `Remove`, `Discard`, `Import`, `Edit`, `Move`, `MoveBack` | client, users and other programs on the cache |
| `Kill` | the end of a command's process |

A directory is an inode number with a list of entries: "own", "inherited" and
"other".  An unsupported workspace stands for names that the layout refuses, an
artifact for what the guard refuses once a rule is there.  A save may fail before
or after the rename and a chmod may fail before or after its effect.  A user who
calls enable while a receipt exists only gets an inspection, which is the same
one as the monitor's.

*guard* - one failure or foreign change and two kills at any moment, both systems.
`Accounted`: a rule of the guard is on a path that the receipt names, an
inherited one only while there is a receipt, so a removed receipt means a cache
without rules.  `HealthyMeansGuarded`: a verdict of the inspection, which reads
piece by piece while the client works, lasts.  `MovedStaysRecorded`: on Windows
the receipt keeps the identity of what was moved away with its rule.
`OthersKeptUnlessRaced`: a command adds or removes an entry of somebody else only on
the path whose change it has checked and not yet made, and only if another program
edited that list, or moved a directory to that path, in between (`raced`).
`InterruptedIsRecovered`: under the fairness that a running command goes on
(`Running`) and that a user who is told about the recovery calls disable
(`Recover`), an interrupted change ends without receipt, or there is something
that the guard refuses to touch, or the receipt is the one that *guard_discard*
shows.  The cache has a root, a workspace with an artifact and a workspace with an
unsupported name; three directories are made, so one may be replaced.  One enable
command is enough: the next one starts when there is no receipt, and then the cache
has no rule, as at first.

*guard_discard* shows a disagreement between code and documents (see "findings"
in PROJECT.json): enable ignores that the layout is missing after the plan has
seen it, and saves a receipt that no command loads any more.

On macOS `chmod` names a path and a position, so an entry that somebody puts in front
between check and change is removed in place of the guard's own.  The code does not
close this window (`archive_guard.go:552`), although docs/PROTECTION.md:78 says without
exception that only own entries are revoked.  The model has the window: other
programs act in it as at any other time, and `OthersKeptUnlessRaced` says that it is
the only way in which an entry of others is touched - a list that came to differ before the check, and
what the client makes or removes at any time, never is.  Entries of others are all
alike in the model, so their number says which are there (`Others`).

All commands may have ended for good, so these runs do not check for deadlock.
Not in the model: moves on macOS, where an absent path is given up by design;
power loss; the limit on the number of entries; control bits of Windows
lists; the self-test in its own directory; the identity check of the client.

## 6. Module Upgrade

The update of an installed runtime on macOS, from the plan of a command to the
removal of the backup.  A directory has a number and a content; the state
directory names runtime and stages, so an exchange swaps two names.

| action | code |
|---|---|
| `Begin`, `Plan`, `Reinstall` | `InstallDistribution` under its lock: recovery first if there is a journal, then update or start of what is not registered |
| `MakeStage`, `CopyStage`, `Publish` | stage, payload and journal |
| `Stop`, `Wait`, `Check`, `Swap`, `Start`, `Health` | bootout, wait for the monitor's lock, inspection, exchange and sync, bootstrap, heartbeat; shared by update and rollback (`cmd.back`) |
| `Clear`, `RemoveJournal`, `SyncRemoval`, `Cleanup` | `clearUpgradeJournal` |
| `Rollback`, `Fail` | `rollbackDistributionUpgrade`, from the deferred function or as recovery |
| `MonitorStarts`, `MonitorEnds`, `Unload` | launchd, the monitor's process, the user |
| `Kill`, `Outage`, `Edit`, `EditService` | end of the command, power loss, other programs |

`past` holds the states of the state directory since its last sync; a power loss
brings back any one of them (the file system keeps the order of changes within
one directory), and launchd starts the agent again.  Files of a stage are synced
one by one before the journal and count as durable.

*upgrade* - two updates between two versions, three failures or foreign changes,
two kills or power losses, both with a connected service and without.
`Recoverable`: any journal left behind passes the inspection of the next
command; so the backup is complete, whatever the last step was.
`OnlyProvenStays`: a version without a heartbeat is there only while a journal
tells the way back.  `EditedIsKept`:
edited files are neither overwritten nor removed; edits between the last
inspection and the removal of the backup are excluded, the code cannot see them.
`UpdateSettles`: an interrupted update ends without journal and with the service
registered, unless something was edited.  Its fairness: a running command goes
on, launchd starts what is registered and a monitor told to end ends, and the
user, who gets the error, runs the installation again (`Again`).  Three failures
let an update, its rollback and the following recovery fail; two updates let
one follow an unfinished one.  A command may never be run again when nothing is
pending, so the run does not check for deadlock.

## 7. Module HookConfig

The settings file of a client belongs to its user.  Laodi adds one entry per
event, after a receipt of what it adds, and takes exactly that away again.  An
entry is the program it starts, or `Foreign`; settings are what the code tells
apart: `hooks`, its map of events, the switch (`hooks.enabled` of ZCode,
`disableAllHooks` of Claude Code), and the entries of each event.  Everything
that is not strict JSON of the known form is one value.

| action | code |
|---|---|
| `Command`, `BeginHook` | `laodi hooks install` / `uninstall`: the lock "hook-management", tried once |
| `ReadInstall`, `ReadRemove` | read, decode, compare with the receipt, and every early return |
| `PublishReceipt`, `SyncReceipt` | `replaceHookConfigFile` of a receipt that must not exist: link, directory sync |
| `Replace`, `SyncSettings` | comparison and rename of the settings, directory sync |
| `Drop` | removal of the receipt: the undo of a failed installation, the end of a removal |
| `Kill`, `PowerLoss`, `Edit` | the command ends; unsynced directory entries are lost; other programs write the file |

`WithEntry`, `ReceiptOf` and `WithoutEntry` are `installHookConfig` and
`UninstallHookConfig` on that data, with the maps and names they create, the
switch they turn, and what they leave if somebody has used hooks since.  `safe`
holds both files as of the last directory sync.  Comparison and rename are one
action: docs/TOOL-HOOKS.md:71 tells the user that a race with an editor that saves
in between cannot be excluded.  An editor's own writes count as synced.

*hook_config* - three commands of two processes and two programs, two events,
each client, eleven or so starting states, one edit, one failing write or sync
(of either directory) and one kill or power loss anywhere.  `ForeignKept`: a step
that is not the user's never changes the entries of others nor whether they run.
`Undone`: after a removal the settings mean what they meant before the installation,
if nobody edited them in between.  `PartedOnlyByUndo`: an entry without a receipt
could never be removed; no kill, power loss, edit or failure parts the two, but for
an installation that could not replace or sync the settings and takes its
receipt back although the settings are not as it has read them.
Two events are enough for a file in which Laodi finds some names and
creates others; the third command lets another program meet what the first two
left.  The two clients' files share only the lock, so an instance has one client.

*hook_config_sync* shows the disagreement behind that exception.  The comment at
`hook_config.go:265` says that the receipt is published first so that an edit cannot
become unowned; but when the directory sync fails after the settings were renamed
into place, the error path (`hook_config.go:273`) removes the receipt and leaves the
entries (`EntryHasReceipt`).

## 8. Module Setup

Installation, repeated installation and removal on macOS.  It extends HookConfig,
whose steps run inside the commands (`Hooks`, `Hooked`), and adds the runtime
directory, the launch agent's file, its receipt, launchd's registration, the mode
in the saved state and the archive guard's lock.

| action | code |
|---|---|
| `BeginInstall`, `BeginRemove` | lock "distribution-management", plan and preflight (`Preflight`); the removal also holds the guard's lock |
| `Payload`, `Copy` | the runtime directory, whose receipt comes last |
| `Hooks`, `Hooked` | `InstallHookConfig` / `UninstallHookConfig` client by client |
| `InstallService`, `WriteServiceReceipt`, `Load`, `Undo`, `DropServiceReceipt` | `InstallService` with its undo |
| `RemoveService`, `Unload`, `DropFile` | `UninstallService` |
| `BeginProtect`, `Protect` | the guard's commands, as far as a removal sees them |
| `MonitorRuns`, `Restart`, `ChangeTools`, `EditFiles`, `KillCommand` | the monitor's first save, a restart of the machine, clients that come and go, edits, kills |

*setup* - three commands in two processes, including hook commands of another
program, with one edit, one failure (a sync of the settings directory included) and
one kill or restart.
`RegisteredHasFile`: what launchd runs can be found and removed.
`NoRestartLoop`: a registered agent never has a mode that the saved state refuses,
which launchd would answer by starting it for ever.  `RemovalLeavesNothing`: a
removal that succeeds leaves no agent, no receipt of hooks and no rule that
nothing watches, although clients come or go and guard commands run.  Three
commands are the smallest number that has an installation, a change and a removal,
or a removal beside a guard command.

Settings are edited in HookConfig, not here.  An error of launchctl has no late
effect (see the comment at `service.go:186`).  A removal killed between bootout and
deletion of the file cannot be repeated until the agent is loaded again by an
installation or a restart: bootout of an unregistered agent is refused by design
(`service.go:222`).

## 9. Module WinSetup

On Windows versions lie side by side; `current-version.json` selects one; two stable
launchers start the selected one; a task starts the launcher.  A command is a
sequence of steps (`cmd.pc`); each writes one file that is complete when visible.

| action | code |
|---|---|
| `BeginInstall`, `BeginRemove`, `BeginNotice` | lock, hooks preflight, notification preflight |
| `Stage`, `Launchers`, `FirstCurrent` | version directory, launchers, first selection |
| `Decide` | connect again, restore a lost task, or update |
| `Register`, `WriteReceipt`, `Run`, `Health` | `InstallService` with its undo, start, heartbeat |
| `Journal`, `Stop`, `Select`, `StartNew`, `NewHealth`, `Unjournal` | the update |
| `Stop`, `Restore`, `Restart`, `OldHealth`, `Unjournal` | `recoverWindowsUpgrade`, at once after a failure or by the next installation |
| `Notify`, `Unnotify`, `Prefer` | registration of the helper, preference |
| `Hook`, `Record`, `Unhook`, `Unrecord` | hooks and integration receipt, client by client |
| `Unregister` | `UninstallService` of a removal |
| `Route`, `Crash`, `SchedulerRestarts`, `Logon`, `Kill`, `Edit` | launcher, monitor, task scheduler, session, end of a command, user |

`helper` and `working` say which versions contain the notification helper and get
a heartbeat out; `proved` is history.  Whatever can be read back at once (PowerShell's
answers, health) is a choice of success or failure.

*win_setup* - four commands or logons, one failing step, two kills or ends of
session, one crash, one change by the user, the scheduler's restart.  `Routable`: the
selection, the launchers and both versions of a journal are always complete.
`OnlyProvenSelected`: an unproven version stays only with a journal.
`RemovedIsStopped`: no monitor outlives its task.  `NoticeHasHelper`: a registration
can be served and taken back by the selected version.  Two versions and four
commands allow an update, its recovery, and a second update or a removal; two
kills interrupt an update and its recovery.

*windows_hooks* shows another disagreement: a removal takes the hooks of a
client away before the integration receipt says so.  A kill or a failed write in
between leaves a receipt that every later installation or removal takes for a
change by the user and refuses, while the comment at
`distribution_hooks_windows.go:223` says that a partial failure can be resumed.

What the model shows and no property claims: a kill between the task's creation and
its receipt, or between its deletion and the receipt's removal, leaves a state
that later commands refuse; a kill between `InstallHookConfig` and the record
leaves hooks that `remove` skips until the installation is repeated; an old
monitor that the scheduler starts again between stop and selection keeps running
under the new selection, and the recovery refuses to stop it.  The task backend
stands for both service backends here (module Startup has the other one); the guard's
lock at a removal is modelled in Setup; the logo file is the same in all versions.

## 10. Module Startup

Where the task scheduler is denied, a shortcut starts the launcher, which starts the
supervisor of the selected version, which starts the worker.  A process is a member
of `Pid` and stands for number and creation time: it is given out again only when
neither a receipt nor the command names it.  The exit status of a worker stays until
its supervisor reads it.

| action | code |
|---|---|
| `Route`, `LauncherEnds` | `routeWindowsExecutable` |
| `Supervise`, `Publish`, `Check`, `StartWorker`, `Reap`, `PassOn`, `Delay`, `SupervisorEnds` | `RunWindowsStartupSupervisor` and `runStartupRecovery`, `windowsProcessContext` |
| `Work`, `WorkerStops` | lock, receipt and event of the worker |
| `Begin`, `Create`, `Run`, `Record` | `installWindowsStartup`, `launchWindowsStartupMonitor` |
| `Signal`, `Signalled`, `Wait`, `Select`, `Delete` | `StopMonitor`, `stopWindowsStartup`, `waitWindowsStartupStopped`, the update's selection, `UninstallService` |
| `Logon`, `Logoff`, `Crash`, `KillProcess`, `KillCommand`, `Edit` | sessions, failures, the user |

*startup* - two commands or logons on a new installation or on one of an earlier session,
two crashes, one kill or end of session, one edit or failed write, six processes,
one restart of a failed worker (three in the code; one is enough to reach the
limit).  Commands begin, sessions start the entry and processes are killed at any
moment, also when a process has just been started and holds no lock yet.  A command
that tests the locks in that moment takes it for stopped; the code has nothing that
closes this window (`service_startup_windows.go:511`).  The model keeps, as history,
which processes have escaped a command in this way (`cmd.unseen`): those at their start
when it found both locks free, what they start, and what a session starts since.
`StoppedUnlessUnseen`: while the files are removed or exchanged there is no other
monitor or supervisor, whichever of them had crashed, was waiting for its next attempt,
had lost its parent or had not published its receipt.  TLC finds states in which an
escaped worker watches while the command removes the files, so the exception is
not an empty one.
`CrashIsRecovered`: under weak fairness of processes and commands a supervised
worker that crashed runs again, unless the supervisor is killed, told to stop or
finds its installation changed.  The code justifies it: processes run, waits are
bounded, the delay is a timer.  One condition for all of them suffices, since within
the bounds no process takes infinitely many steps.  A worker that fails because
another monitor holds the lock is not meant: all its attempts may meet that monitor.

An earlier installation, a logon and a removal is the shortest story in which a session
starts the entry beside a removal; a new installation with two commands has the
launcher, supervisor or worker at its start.  The short lock that the idle test
itself takes is left out, so a process that starts in this instant and ends for it
is not in the model; a shortcut the user deletes is like one the user edits.

The commands of HookConfig, Setup, WinSetup and Startup may all have ended with the
bounds used up, so these runs do not check for deadlock.

## 11. Proofs

The theorems hold for every value of the constants that satisfies the named
assumptions of the modules, and without any bound on commands, failures, kills or
edits: each run shows a property on a small instance, the theorem for all of them.

| module | invariant | theorems |
|---|---|---|
| `WatchProofs` | `NoticesHold`, `FileAgrees` | `TypeCorrect`, `NoDuplicateNotice` (AtMostOneSend), `ClaimBeforeSend` (PersistBeforeSend), `NothingOrphaned` (NoOrphanedNotice), `SavedWhenIdle` (IdleIsDurable), `RecordsKept` (NoLostRecord), `KeepsLedger` (ImplementsLedger) |
| `HookInboxProofs` | `InboxInvariant` | `TypeCorrect`, `RefusalsMarked` (RefusalIsMarked), `PublishedIsDurable` (WrittenIsDurable), `KeepsPromise` (ImplementsInbox), `NothingAcceptedIsLost` |
| `ArchiveGuardProofs` | `GuardInvariant` | `TypeCorrect`, `RulesAccounted` (Accounted), `MovedRecorded` (MovedStaysRecorded), `HealthyLasts` (HealthyMeansGuarded), `OthersStay` (OthersKeptUnlessRaced) |
| `UpgradeProofs` | `UpgradeInvariant` | `TypeCorrect`, `JournalRecovers` (Recoverable), `ProvenOrJournal` (OnlyProvenStays), `EditsAreKept` (EditedIsKept) |
| `HookConfigProofs` | `HookInvariant`, `KeptInvariant` | `HookTypes`, `EntriesPartedOnlyByUndo` (PartedOnlyByUndo), `OthersUntouched` (ForeignKept), `RemovalRestores` (Undone), `RemovalUndoesInstallation` |
| `SetupProofs` | `ServiceInvariant`, `SetupInvariant`, `SettingsInvariant` | `TypeCorrect`, `RunningHasFile` (RegisteredHasFile), `ModeFitsHistory` (NoRestartLoop), `RemovedIsGone` (RemovalLeavesNothing), `SetupPartsOnlyByUndo` (PartedOnlyByUndo), `OthersUntouchedBySetup` (ForeignKept), `SetupRestores` (Undone) |
| `WinSetupProofs` | `WinInvariant` | `TypeCorrect`, `AlwaysRoutable` (Routable), `UnprovenHasJournal` (OnlyProvenSelected), `RemovedMonitorStopped` (RemovedIsStopped), `RegistrationServed` (NoticeHasHelper) |
| `StartupProofs` | `StartupInvariant` | `TypeCorrect`, `StopStopsWhatRan` (StoppedUnlessUnseen) |

### Hypotheses

No theorem has a hypothesis on the faults, kills or interleavings: each holds for every
step of the specification that its run checks.

Of the constants the proofs use that the values the code tells apart are different
(`None` is no process, version or settings, and so on), that the bounds are natural
numbers, and for Watch `ReportAssumption` (section 3).  TLC evaluates each
assumption in the runs.

### Arguments

None of the properties is inductive, but for some types.  Each module begins with the
parts of its inductive invariant; there is one lemma per action or per group of actions
that touch the same parts.  TLC has checked the invariants on the instances of the
runs before they were proved.

**Watch.**  `NoticeInv` strengthens `AtMostOneSend` by: an event that
still waits for its claim is in exactly one place and is not claimed
(`OnePlace`); the recovery list exists only before the first cycle, when the
goroutine has nothing (`Phases`); a claim in the channel is the goroutine's own
and its only one until the loop has ended (`Claims`); a claimed event is never
again in a status that start-up queues (`NeverReopened`); and events carry times
of the past, so that a report makes new ones (`Past`).  The central step is
`ApplyNotice`: the answer lets the goroutine
send only after the write made the event claimed, `OnePlace` says that it was
not claimed before, so it is in no other place and not among the sent ones.  A
crash moves everything open back to the file, where `NeverReopened` keeps
claimed events out of what start-up queues.

`FileInv` relates file, memory and goroutine: the file has held what the loop has in
memory, but for what it is about to save (`OnFile`); what still has to be notified is
with somebody (`Placed`, `Waiting`); an event that is retryable in memory is so in the
file (`Reopenable`); and the goroutine reports only what it was allowed to send
(`Reported`).  From it follow `NoOrphanedNotice` and, action by action, the
refinement: a save moves events forward only.

`SavedInv` says of memory and file that the two health cursors agree with coverage and
diagnostics and that the list is already as short as retention makes it (`Fits`).  While
the loop acknowledges, queues and waits, the file is `Behind` the memory by a baseline
of the workspace family at most, and by nothing before that has been made (`Saved`).
So a cycle without anything to announce adds evidence that a restart from the file
has not looked for either.

`RecordInv` adds to `NoLostRecord` that a cursor at a record and every record of the
batch have an event (`Remembered`); the order of a report keeps the events of one
batch among the newest.

**HookInbox.**  The lock excludes two writers, and the writer from an acknowledgement
(`Exclusive`).  A record in the directory is named by a key that is
there or older than the power cycle (`Generations`, `KeyKnown`), so what a writer
published is readable at its sync (`Visible`), and once it has reported success file and
key are in both versions of the directory (`Durable`).  Who is about to refuse has left the
marker (`Marked`).  `Room` counts entries against the capacity and gives the bound
on leftovers: a kill adds at most one temporary file.  With these the steps of the
directory map to those of module Inbox: the rename is `Appear`, the end of a
submission `Accept`, the save `Save`, each removal `Consume`, all others stutter.
`NothingAcceptedIsLost` carries the promise of module Inbox over to the code.

**ArchiveGuard.**  `Named` says that no rule comes before a receipt that names its path,
on Windows with its identity; `Phases` ties the receipt to the step of the command;
`Swept` says how far a disable has come: the root is without its rule, so nothing
inherits any more, and then all rules that are left are among what is still to do.
So a receipt is removed from a cache without rules.  `Watched` is the inspection: what it has
passed stays guarded, or the root will fail its check later; hence a verdict that is
reached in pieces lasts.  For `OthersKeptUnlessRaced`, `Careful` says what the check leaves behind
for a change that nobody races with: on Windows the list is still as recorded, with or
without the rule, because the handle pins it; on macOS the entry that is taken by
position is not somebody else's, even if the client removed the directory and made it again.

**Upgrade.**  A power loss may bring back any state of the directory since its last sync, so the
invariant holds for every one of these states while contents change underneath
(`Layout`: each has a runtime that was seen working, or a journal with the two
versions it names).  `Phase` adds what each step of the command has
established: a new stage is in no earlier state yet, the monitor is stopped
before the exchange, the journal was inspected before it is removed, and its removal is
durable before the backup goes.

**HookConfig.**  `PartedOnlyByUndo` speaks of steps; a kill or a power loss may part
what only looked joined.  `EntryInv` therefore says that what a power loss may leave of
the settings has no entry of a program that is neither in the settings nor in the
receipt, and that a receipt whose entry is anywhere is durable (`Agree`); and what the command
holding the lock has established at each step (`Protocol`): its receipt is durable before
the entries are written, and the entries are durably gone before the receipt is dropped.
What is left is the undo: it keeps the two joined if the settings are as the
installation has read them, since it has read no entry of its own.

`KeptInv` is for the two step properties.  The file and its durable version mean the
same to others (`Alike`), since Laodi's own steps change nothing they see.  Unless
somebody edited, a file with entries that the receipt names is what an installation made of the settings
found before it, and that receipt the one of the installation (`Faithful`), so a removal
gives these settings back (`RemovalUndoesInstallation`).  A command
on its way still knows what it has read (`Knows`, `Owns`, `Returned`).

**Setup.**  What is to be shown speaks of three files and launchd; what makes it true is
what each command knows at each step (`Served`: the agent is not registered while
its files are written or removed) and that two commands which write the same files
exclude each other (`Exclusive`).  `AgentsFit` ties the registered agent to its file
and the saved mode.  For a removal, `HookInv` says that a client it has passed has
no hook receipt of the runtime, but for the one whose hooks it removes just now or has failed
to remove, which keeps it from its end.
The steps of HookConfig run inside the commands and beside them, as the commands of
another program, so `EntryInv` and `KeptInv` are carried over; the settings are not
edited in Setup, and no step of it changes what others see of them (`SettingsNext`).

**WinSetup.**  `Commands` says for each step
of a command what it relies on - the version is published, the launchers are there,
there is a journal or there is none, the journal names the version, the
selected version has been proved - and the lock keeps that from other commands.
Kills need nothing of it, since they end the command; what remains is decided by the
files: either version of a journal is complete and can serve a registration
(`Journaled`), and a task that is gone leaves nothing to start a monitor again
(`Stopped`).  Actions that share a shape share a step lemma
(`QuietStep`, `ServiceStep`, `ProofStep`, `GotoPlain`, `GotoUpdate`).

**Startup.**  Two free locks say nothing of a process that has been started and has not
taken its lock.  `OnlyUnseenStart` says that once a command has found everything
stopped, a process which has not escaped it is a launcher that waits for its child.
Such a launcher starts nothing, so what escaped and what a session starts are the only
ones that can start more, and their children escape with them.

### Model-checked only

Temporal properties under fairness are out of reach of the prover, which has no rules
for ENABLED: `InboxDrains`, `NoticesSettle` and `StopCompletes` of Watch,
`InterruptedIsRecovered` of ArchiveGuard, `UpdateSettles` of Upgrade,
`CrashIsRecovered` of Startup.  Their runs check the specifications with fairness.

## 12. Not modelled

* The content of events, messages and files, and the classification of hook input
  (`hooks.go`, `hook_powershell.go`): pure functions; nothing in the properties
  depends on them.
* `summary.go`, `monitoring_summary.go` and the command line: they keep no state.
* The native notification programs and PowerShell scripts: their set of answers.
* Checks of file owners, modes and access lists (`security_files_*.go`), paths, volumes
  and shortcut bytes: they decide whether a command starts.
* Download and update channel on Windows; the request for notification permission on
  macOS (`distribution.go` 607-650); the command line's own service commands, which
  call the modelled functions without the distribution's lock.
* The window of hook keys and the migration of cursors in `store.go`, the rotation of
  the scanner's cursors, the caches of the protection monitor: see the plan.
