------------------------------ MODULE Upgrade ------------------------------
(***************************************************************************)
(* The update of an installed runtime on macOS:                             *)
(* internal/laodi/distribution_upgrade.go, called by InstallDistribution of *)
(* distribution.go.  The new runtime is prepared in a stage directory, a    *)
(* journal is written, the monitor is stopped, runtime and stage are        *)
(* exchanged, the monitor is started, and only after its first heartbeat    *)
(* journal and stage are removed.  An error goes back, a killed command     *)
(* leaves the journal to the next one.                                      *)
(*                                                                         *)
(* A directory is a number with a content; the state directory names the    *)
(* runtime (entry 0) and the stages (entry k for the k-th update).          *)
(***************************************************************************)
EXTENDS Naturals

CONSTANTS
    Version,      \* release payloads
    None,         \* no directory, no version, no process
    Fault,        \* failures and foreign changes of this instance
    MaxUpdates,   \* bound: stages
    MaxFaults,    \* bound: failures and foreign changes
    MaxKills      \* bound: killed commands and power losses

ASSUME BoundAssumption ==
    /\ MaxUpdates \in Nat /\ MaxFaults \in Nat /\ MaxKills \in Nat
    /\ Fault \subseteq {"save", "launchctl", "health", "monitor", "edit", "unload", "outage"}
\* What a directory holds is told apart: nothing, a part, an edit, a payload.
ASSUME NoneAssumption ==
    /\ None \notin Version \cup Nat \cup {"absent", "partial", "edited"}
    /\ Version \cap {"absent", "partial", "edited"} = {}

VARIABLES
    dir,         \* the state directory: its entries and the journal
    past,        \* its earlier states that a power loss may bring back
    content,     \* what each directory holds
    service,     \* the launch agent: "none", "owned" or "edited"
    registered,  \* launchd has it
    monitor,     \* the version that runs
    cmd,         \* the command that holds the distribution lock
    proven,      \* history: versions whose monitor published a heartbeat
    budget       \* steps taken, for the bounds

launchd == <<service, registered, monitor>>
vars == <<dir, past, content, launchd, cmd, proven, budget>>

Number == 0..MaxUpdates
NoJournal == [stage |-> 0, old |-> None, new |-> None, owned |-> FALSE]
Idle == [pc |-> "idle", target |-> None, old |-> None, stage |-> 0,
         back |-> FALSE, again |-> FALSE]

\* ownedDistributionFiles of the entry k: its version, if it is as released.
At(d, k)  == IF d.at[k] = None THEN "absent" ELSE content[d.at[k]]
Installed == At(dir, 0)
Pending   == dir.journal # NoJournal

\* inspectUpgradeJournal: runtime and stage are old and new, in either order.
Inspected ==
    LET j == dir.journal
    IN  /\ Pending /\ {Installed, At(dir, j.stage)} \subseteq Version
        /\ <<Installed, At(dir, j.stage)>> \in {<<j.old, j.new>>, <<j.new, j.old>>}

Count(what, bound) == budget[what] < bound /\ budget' = [budget EXCEPT ![what] = @ + 1]
Fails(what) == what \in Fault /\ Count("faults", MaxFaults)

\* A change of the directory, and the sync of its entries.  The file system
\* keeps the order of changes in one directory.
Change(d)  == dir' = d /\ past' = past \cup {dir}
Durable(d) == dir' = d /\ past' = {}

Goto(pc) == cmd' = [cmd EXCEPT !.pc = pc]
\* An error: back to the old runtime once the journal is written, and the end
\* of the command before that and on the way back.
Fail == IF cmd.pc \in {"copy", "publish"} \/ cmd.back THEN cmd' = Idle
        ELSE cmd' = [cmd EXCEPT !.pc = "rollback", !.back = TRUE]

-----------------------------------------------------------------------------
(* InstallDistribution under its lock. *)

Plan(v) == [Idle EXCEPT !.target = v, !.pc = IF Installed = v THEN "reinstall" ELSE "stage"]

\* The plan refuses an edited runtime, a journal that does not fit and foreign
\* service files; with a journal the command recovers first.
Begin(v) ==
    /\ cmd = Idle /\ Installed \in Version /\ service # "edited"
    /\ Pending => Inspected
    /\ ~Pending /\ Installed # v => budget.updates < MaxUpdates
    /\ cmd' = IF Pending
              THEN [Idle EXCEPT !.target = v, !.pc = "rollback", !.back = TRUE, !.again = TRUE]
              ELSE Plan(v)
    /\ UNCHANGED <<dir, past, content, launchd, proven, budget>>

\* The same payload again: InstallService starts what is not registered.
Reinstall ==
    /\ cmd.pc = "reinstall"
    /\ cmd' = Idle
    /\ \/ (service = "owned" => registered) /\ UNCHANGED <<registered, budget>>
       \/ service = "owned" /\ ~registered
          /\ \/ registered' = TRUE /\ UNCHANGED budget
             \/ Fails("launchctl") /\ registered' \in BOOLEAN
    /\ UNCHANGED <<dir, past, content, service, monitor, proven>>

-----------------------------------------------------------------------------
(* upgradeDistribution: stage and journal. *)

\* Variant: the runtime may have been edited since the plan.
MakeStageUnchecked ==
    /\ cmd.pc = "stage" /\ budget.updates < MaxUpdates
    /\ LET k == budget.updates + 1
       IN  /\ Change([dir EXCEPT !.at[k] = k])
           /\ content' = [content EXCEPT ![k] = "partial"]
           /\ cmd' = [cmd EXCEPT !.pc = "copy", !.stage = k, !.old = Installed]
           /\ Count("updates", MaxUpdates)
    /\ UNCHANGED <<launchd, proven>>

\* The runtime is inspected again; what it holds now is the old version.
MakeStage ==
    /\ cmd.pc = "stage"
    /\ LET k == budget.updates + 1
       IN  IF k > MaxUpdates \/ Installed \notin Version \/ service = "edited"
           THEN cmd' = Idle /\ UNCHANGED <<dir, past, content, budget>>
           ELSE /\ Change([dir EXCEPT !.at[k] = k])
                /\ content' = [content EXCEPT ![k] = "partial"]
                /\ cmd' = [cmd EXCEPT !.pc = "copy", !.stage = k, !.old = Installed]
                /\ Count("updates", MaxUpdates)
    /\ UNCHANGED <<launchd, proven>>

DropStage == [dir EXCEPT !.at[cmd.stage] = None]

\* installDistributionPayload and its verification.
CopyStage ==
    /\ cmd.pc = "copy"
    /\ \/ /\ content' = [content EXCEPT ![cmd.stage] = cmd.target]
          /\ Goto("publish")
          /\ UNCHANGED <<dir, past, budget>>
       \/ /\ Fails("save") /\ Change(DropStage) /\ Fail
          /\ UNCHANGED content
    /\ UNCHANGED <<launchd, proven>>

\* publishUpgradeJournal: after an error the stage goes only if there is no
\* journal.
Publish ==
    /\ cmd.pc = "publish"
    /\ LET d == [dir EXCEPT !.journal = [stage |-> cmd.stage, old |-> cmd.old,
                                         new |-> cmd.target, owned |-> service # "none"]]
       IN  \/ Durable(d) /\ Goto("stop") /\ UNCHANGED budget
           \/ Fails("save") /\ (Change(d) \/ Change(DropStage)) /\ Fail
    /\ UNCHANGED <<content, launchd, proven>>

-----------------------------------------------------------------------------
(* Stop, exchange and start, in either direction. *)

\* stopUpgradeService: bootout unless launchctl print fails, then the wait for
\* the monitor's lock.
Stop ==
    /\ cmd.pc = "stop"
    /\ \/ service = "none" /\ Goto("check") /\ UNCHANGED <<registered, budget>>
       \/ service # "none" /\ Goto("wait") /\ registered' = FALSE /\ UNCHANGED budget
       \/ service # "none" /\ Goto("wait") /\ registered /\ Fails("launchctl") /\ UNCHANGED registered
       \/ service # "none" /\ registered /\ Fails("launchctl") /\ Fail /\ UNCHANGED registered
    /\ UNCHANGED <<dir, past, content, service, monitor, proven>>

\* Variant: bootout has returned, so the monitor is taken for stopped.
WaitNot ==
    /\ cmd.pc = "wait" /\ Goto("check")
    /\ UNCHANGED <<dir, past, content, launchd, proven, budget>>

\* A monitor that is still registered does not end; another one may take too
\* long.
Wait ==
    /\ cmd.pc = "wait"
    /\ \/ monitor = None /\ Goto("check") /\ UNCHANGED budget
       \/ monitor # None /\ registered /\ Fail /\ UNCHANGED budget
       \/ monitor # None /\ Fails("monitor") /\ Fail
    /\ UNCHANGED <<dir, past, content, launchd, proven>>

\* On the way back the exchange is needed only if the new runtime is in place.
Check ==
    /\ cmd.pc = "check"
    /\ \/ ~cmd.back /\ Inspected /\ Goto("swap")
       \/ ~cmd.back /\ ~Inspected /\ Fail
       \/ cmd.back /\ Installed \notin Version /\ Fail
       \/ /\ cmd.back /\ Installed \in Version
          /\ Goto(IF Installed = dir.journal.new THEN "swap" ELSE "start")
    /\ UNCHANGED <<dir, past, content, launchd, proven, budget>>

\* exchangeUpgrade: the two names are exchanged at once, then synced.
Swap ==
    /\ cmd.pc = "swap"
    /\ LET k == dir.journal.stage
           d == [dir EXCEPT !.at[0] = dir.at[k], !.at[k] = dir.at[0]]
       IN  \/ Durable(d) /\ Goto("start") /\ UNCHANGED budget
           \/ Fails("save") /\ (Change(d) \/ UNCHANGED <<dir, past>>) /\ Fail
    /\ UNCHANGED <<content, launchd, proven>>

\* Variant: the way back leaves the monitor stopped.
StartForward ==
    /\ cmd.pc = "start"
    /\ \/ (service = "none" \/ cmd.back) /\ Goto("clear") /\ UNCHANGED <<registered, budget>>
       \/ service # "none" /\ ~cmd.back /\ ~registered
          /\ registered' = TRUE /\ Goto("health") /\ UNCHANGED budget
    /\ UNCHANGED <<dir, past, content, service, monitor, proven>>

\* launchctl bootstrap; an error may have had its effect.
Start ==
    /\ cmd.pc = "start"
    /\ \/ service = "none" /\ Goto("clear") /\ UNCHANGED <<registered, budget>>
       \/ service # "none" /\ registered /\ Fail /\ UNCHANGED <<registered, budget>>
       \/ service # "none" /\ ~registered
          /\ \/ registered' = TRUE /\ Goto("health") /\ UNCHANGED budget
             \/ Fails("launchctl") /\ registered' \in BOOLEAN /\ Fail
    /\ UNCHANGED <<dir, past, content, service, monitor, proven>>

\* waitDistributionHealth and launchctl print.
Health ==
    /\ cmd.pc = "health"
    /\ \/ monitor # None /\ proven' = proven \cup {monitor} /\ Goto("clear") /\ UNCHANGED budget
       \/ Fails("health") /\ Fail /\ UNCHANGED proven
    /\ UNCHANGED <<dir, past, content, launchd>>

-----------------------------------------------------------------------------
(* clearUpgradeJournal. *)

\* Variant: the backup is removed without a look at it.
ClearBlindly ==
    /\ cmd.pc = "clear" /\ Goto("remove")
    /\ UNCHANGED <<dir, past, content, launchd, proven, budget>>

Clear ==
    /\ cmd.pc = "clear"
    /\ IF Inspected THEN Goto("remove") ELSE Fail
    /\ UNCHANGED <<dir, past, content, launchd, proven, budget>>

\* Variant: the backup goes together with the journal, before the sync.
RemoveBoth ==
    /\ cmd.pc = "remove"
    /\ Change([dir EXCEPT !.journal = NoJournal])
    /\ content' = [content EXCEPT ![dir.at[dir.journal.stage]] = "partial"]
    /\ cmd' = [cmd EXCEPT !.pc = "sync", !.stage = dir.journal.stage]
    /\ UNCHANGED <<launchd, proven, budget>>

RemoveJournal ==
    /\ cmd.pc = "remove"
    /\ \/ /\ Change([dir EXCEPT !.journal = NoJournal])
          /\ cmd' = [cmd EXCEPT !.pc = "sync", !.stage = dir.journal.stage]
          /\ UNCHANGED budget
       \/ Fails("save") /\ Fail /\ UNCHANGED <<dir, past>>
    /\ UNCHANGED <<content, launchd, proven>>

\* The journal is gone: an error now ends the command, with a warning only or
\* as an error of the recovery.
SyncRemoval ==
    /\ cmd.pc = "sync"
    /\ \/ Durable(dir) /\ Goto("cleanup") /\ UNCHANGED budget
       \/ Fails("save") /\ cmd' = Idle /\ UNCHANGED <<dir, past>>
    /\ UNCHANGED <<content, launchd, proven>>

\* RemoveAll of the stage; after a recovery the command plans again.
Cleanup ==
    /\ cmd.pc = "cleanup"
    /\ content' = [content EXCEPT ![dir.at[cmd.stage]] = "partial"]
    /\ \/ Change(DropStage) /\ UNCHANGED budget
          /\ cmd' = IF cmd.again THEN Plan(cmd.target) ELSE Idle
       \/ Fails("save") /\ cmd' = Idle /\ UNCHANGED <<dir, past>>
    /\ UNCHANGED <<launchd, proven>>

-----------------------------------------------------------------------------
(* rollbackDistributionUpgrade, after an error and as recovery. *)

Rollback ==
    /\ cmd.pc = "rollback"
    /\ IF Inspected /\ service = (IF dir.journal.owned THEN "owned" ELSE "none")
       THEN Goto("stop") ELSE cmd' = Idle
    /\ UNCHANGED <<dir, past, content, launchd, proven, budget>>

-----------------------------------------------------------------------------
(* launchd and monitor, kills, power losses and foreign changes. *)

MonitorStarts ==
    /\ registered /\ monitor = None
    /\ monitor' = Installed
    /\ UNCHANGED <<dir, past, content, service, registered, cmd, proven, budget>>

MonitorEnds ==
    /\ monitor # None
    /\ \/ ~registered /\ UNCHANGED budget
       \/ registered /\ Fails("monitor")
    /\ monitor' = None
    /\ UNCHANGED <<dir, past, content, service, registered, cmd, proven>>

\* A user takes the agent out of launchd; no update is pending.
Unload ==
    /\ registered /\ cmd = Idle /\ ~Pending
    /\ Fails("unload")
    /\ registered' = FALSE
    /\ UNCHANGED <<dir, past, content, service, monitor, cmd, proven>>

Kill ==
    /\ cmd # Idle
    /\ Count("kills", MaxKills)
    /\ cmd' = Idle
    /\ UNCHANGED <<dir, past, content, launchd, proven>>

\* After a restart launchd loads the agent's file.
Outage ==
    /\ "outage" \in Fault /\ Count("kills", MaxKills)
    /\ dir' \in {dir} \cup past /\ past' = {}
    /\ registered' = (service # "none") /\ monitor' = None
    /\ cmd' = Idle
    /\ UNCHANGED <<content, service, proven>>

\* Another program edits the runtime, or the backup of a pending update; not
\* between the last look at the backup and its removal.
Edit(k) ==
    /\ k = 0 \/ (Pending /\ k = dir.journal.stage)
    /\ At(dir, k) \in Version /\ cmd.pc \notin {"remove", "sync", "cleanup"}
    /\ Fails("edit")
    /\ content' = [content EXCEPT ![dir.at[k]] = "edited"]
    /\ UNCHANGED <<dir, past, launchd, cmd, proven>>

EditService ==
    /\ service = "owned" /\ Fails("edit")
    /\ service' = "edited"
    /\ UNCHANGED <<dir, past, content, registered, monitor, cmd, proven>>

-----------------------------------------------------------------------------
\* An installed runtime, connected or not.
Init ==
    /\ \E v \in Version :
          /\ content = [d \in Number |-> IF d = 0 THEN v ELSE "partial"]
          /\ proven = {v}
          /\ \/ service = "none" /\ registered = FALSE /\ monitor = None
             \/ service = "owned" /\ registered = TRUE /\ monitor = v
    /\ dir = [at |-> [k \in Number |-> IF k = 0 THEN 0 ELSE None], journal |-> NoJournal]
    /\ past = {} /\ cmd = Idle
    /\ budget = [updates |-> 0, faults |-> 0, kills |-> 0]

Forward  == MakeStage \/ CopyStage \/ Publish
Exchange == Stop \/ Wait \/ Check \/ Swap \/ Start \/ Health
Finish   == Clear \/ RemoveJournal \/ SyncRemoval \/ Cleanup
Command  == Reinstall \/ Forward \/ Exchange \/ Finish \/ Rollback
Others   == Kill \/ Outage \/ Unload \/ EditService \/ \E k \in Number : Edit(k)

Next == Command \/ Others \/ MonitorStarts \/ MonitorEnds \/ \E v \in Version : Begin(v)

Spec == Init /\ [][Next]_vars

\* A running command goes on; launchd starts what is registered and a stopped
\* monitor ends; the next installation or update comes when one is pending.
Again == Pending /\ \E v \in Version : Begin(v)
Fairness == WF_vars(Command) /\ WF_vars(MonitorStarts)
            /\ WF_vars(~registered /\ MonitorEnds) /\ WF_vars(Again)

LiveSpec == Spec /\ Fairness
-----------------------------------------------------------------------------
(* Properties. *)

Content  == Version \cup {"partial", "edited"}
Directory ==
    [at : [Number -> Number \cup {None}],
     journal : {NoJournal} \cup [stage : Number \ {0}, old : Version, new : Version, owned : BOOLEAN]]

\* Type correctness.
TypeOK ==
    /\ dir \in Directory /\ \A d \in past : d \in Directory
    /\ content \in [Number -> Content]
    /\ service \in {"none", "owned", "edited"} /\ registered \in BOOLEAN
    /\ monitor \in Version \cup {"edited", None}
    /\ cmd.pc \in {"idle", "reinstall", "stage", "copy", "publish", "stop", "wait", "check", "swap",
                   "start", "health", "clear", "remove", "sync", "cleanup", "rollback"}
    /\ cmd.target \in Version \cup {None} /\ cmd.old \in Version \cup {None}
    /\ cmd.stage \in Number /\ cmd.back \in BOOLEAN /\ cmd.again \in BOOLEAN
    /\ proven \subseteq Version \cup {"edited"}
    /\ budget \in [updates : Number, faults : 0..MaxFaults, kills : 0..MaxKills]

Disturbed == service = "edited" \/ \E d \in Number : content[d] = "edited"

\* Whatever step was the last one before an error, a kill or a power loss: the
\* journal that it leaves passes the inspection of the next command, so runtime
\* and backup are complete.
Recoverable == Pending /\ ~Disturbed => Inspected

\* A version whose monitor never published a heartbeat is not there for good:
\* while it is installed, the journal says how to go back.
OnlyProvenStays ==
    ~Pending /\ service = "owned" /\ ~Disturbed => Installed \in proven

\* What somebody edited is not removed, neither as runtime nor as backup.
Named(d) == {d.at[k] : k \in Number}
EditedIsKept ==
    [][budget'.kills = budget.kills => \A d \in Number :
          content[d] = "edited" /\ d \in Named(dir) => content'[d] = "edited" /\ d \in Named(dir')]_vars

\* An interrupted update ends: without journal and with the monitor registered,
\* unless something was edited.
UpdateSettles ==
    Pending ~> (~Pending /\ (service = "owned" => registered)) \/ Disturbed
=============================================================================
