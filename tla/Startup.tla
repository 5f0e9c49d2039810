------------------------------- MODULE Startup -------------------------------
(***************************************************************************)
(* The background monitor on Windows when the task scheduler is denied: a   *)
(* shortcut in the Startup folder, the stable launcher that it starts, the  *)
(* supervisor in the selected version, and the supervised worker            *)
(* (service_startup_windows.go, startup_supervisor_windows.go,              *)
(* watch_stop_windows.go of internal/laodi).  The three are processes of    *)
(* their own: each may crash, and what is left of it is a receipt that      *)
(* names a process that is gone.  Management commands start, stop, replace  *)
(* and remove them by receipts, by an event of each process and by two      *)
(* locks, and exclude one another with the lock "service-management".       *)
(*                                                                         *)
(* A member of Pid stands for a process with its creation time: it is given *)
(* out again only when no receipt names it, so a reused process number is   *)
(* a different member, as the creation time makes it for the code.          *)
(***************************************************************************)
EXTENDS Naturals, FiniteSets

CONSTANTS
    Pid,         \* processes
    Version,     \* installed versions
    None,        \* no file, no process, no value
    Retries,     \* restarts of a failed worker (3 in the code)
    Fault,       \* failures and changes of this instance
    MaxCommands, \* bound: management commands and sessions that begin
    MaxCrashes,  \* bound: workers that crash
    MaxKills,    \* bound: other processes killed, and sessions that end
    MaxEdits     \* bound: changes by the user and failed writes

ASSUME StartupAssumption ==
    /\ Retries \in Nat /\ Version # {}
    /\ MaxCommands \in Nat /\ MaxCrashes \in Nat /\ MaxKills \in Nat /\ MaxEdits \in Nat
    /\ Fault \subseteq {"write"}
ASSUME StartupNoneAssumption == None \notin Pid \cup Version

VARIABLES
    link,      \* the shortcut: None, "own" or "edited"
    sreceipt,  \* service-install.json: the number of the installation
    approval,  \* what the system has on this start-up entry; opaque
    selected,  \* the version in current-version.json
    proc,      \* the processes
    named,     \* the processes that the three process receipts name
    event,     \* the processes whose stop event is set
    cmd,       \* the management command; "unseen" is history (see Inherits)
    budget     \* steps taken, for the bounds

files == <<link, sreceipt, approval, selected>>
vars  == <<files, proc, named, event, cmd, budget>>

Count(what, bound) == budget[what] < bound /\ budget' = [budget EXCEPT ![what] = @ + 1]

-----------------------------------------------------------------------------
(* Processes, receipts and locks. *)

NewProcess(role, version) ==
    [role |-> role, version |-> version, pc |-> "start", child |-> None, tries |-> 0,
     install |-> None, approved |-> None]
NoProcess == [NewProcess(None, None) EXCEPT !.pc = "gone"]
NoCommand == [kind |-> None, pc |-> "idle", expected |-> None, target |-> None, unseen |-> {}]

\* An exit status stays until the supervisor has read it.
Alive(i) == i # None /\ proc[i].pc \notin {"gone", "ok", "failed"}
Free     == {i \in Pid : /\ ~Alive(i) /\ i \notin {cmd.target} \cup {named[r] : r \in DOMAIN named}
                         /\ \A p \in Pid : Alive(p) => proc[p].child # i}
NextPid    == CHOOSE i \in Free : TRUE

Is(i, role, pcs) == proc[i].role = role /\ proc[i].pc \in pcs

\* acquireWindowsNamedLock: ".startup-supervisor.lock" and ".lock".
SupervisorLock == {i \in Pid : Is(i, "supervisor", {"locked", "check", "go", "run", "delay", "ending"})}
WriterLock     == {i \in Pid : Is(i, "worker", {"locked", "watch", "ending"})}

\* Variant: only the supervisor has to be gone.
SupervisorIdle == SupervisorLock = {}

\* windowsStartupLocksIdle
LocksIdle == SupervisorLock = {} /\ WriterLock = {}

\* startupLauncherRunning
LauncherRunning == Alive(named.launcher)

At(i, pc) == proc' = [proc EXCEPT ![i].pc = pc]
Exit(i)   == proc' = [proc EXCEPT ![i] = NoProcess]
Ends(i, status) ==
    /\ IF \E p \in Pid : Is(p, "supervisor", {"run"}) /\ proc[p].child = i
       THEN At(i, status) ELSE Exit(i)
    /\ event' = event \ {i}
Names(r, i) == named' = [named EXCEPT ![r] = i]
Forgets(r, i) == named' = [named EXCEPT ![r] = IF @ = i THEN None ELSE @]

\* What a command does once it has found everything stopped.
Acting == cmd.pc \in {"select", "delete link", "delete receipt"}

\* History, read by no guard: when a command finds the locks free, processes that
\* have been started and hold no lock yet escape it, and so does what they start
\* and what a new session starts.
Starting == {i \in Pid : proc[i].pc = "start"}
Inherits(i, j) == cmd' = [cmd EXCEPT !.unseen = IF i \in @ THEN @ \cup {j} ELSE @ \ {j}]

-----------------------------------------------------------------------------
(* The stable launcher, the supervisor and the worker. *)

\* routeWindowsExecutable: the selected version is started and waited for.
Route(i) ==
    /\ Is(i, "launcher", {"start"}) /\ Free # {}
    /\ proc' = [proc EXCEPT ![i].pc = "wait", ![i].child = NextPid,
                            ![NextPid] = NewProcess("supervisor", selected)]
    /\ event' = event \ {NextPid}
    /\ Inherits(i, NextPid)
    /\ UNCHANGED <<files, named, budget>>

LauncherEnds(i) ==
    /\ Is(i, "launcher", {"wait"}) /\ ~Alive(proc[i].child)
    /\ Exit(i)
    /\ UNCHANGED <<files, named, event, cmd, budget>>

\* RunWindowsStartupSupervisor: without a receipt, or not as the selected version,
\* the process is a monitor without supervisor.
Supervise(i) ==
    /\ Is(i, "supervisor", {"start"})
    /\ IF sreceipt = None \/ selected # proc[i].version
       THEN proc' = [proc EXCEPT ![i].role = "worker"]
       ELSE IF SupervisorLock = {}
            THEN proc' = [proc EXCEPT ![i].pc = "locked", ![i].install = sreceipt]
            ELSE Exit(i)
    /\ UNCHANGED <<files, named, event, cmd, budget>>

\* windowsProcessContext, then startupApprovalSnapshot.
Publish(i) ==
    /\ Is(i, "supervisor", {"locked"})
    /\ proc' = [proc EXCEPT ![i].pc = "check", ![i].approved = approval]
    /\ Names("supervisor", i)
    /\ UNCHANGED <<files, event, cmd, budget>>

\* check: receipt, shortcut, version and approval are what they were.
Allowed(i) ==
    /\ sreceipt = proc[i].install /\ link = "own"
    /\ selected = proc[i].version /\ approval = proc[i].approved

Check(i) ==
    /\ Is(i, "supervisor", {"check"})
    /\ At(i, IF i \notin event /\ Allowed(i) THEN "go" ELSE "ending")
    /\ UNCHANGED <<files, named, event, cmd, budget>>

StartWorker(i) ==
    /\ Is(i, "supervisor", {"go"}) /\ Free # {}
    /\ proc' = [proc EXCEPT ![i].pc = "run", ![i].child = NextPid,
                            ![NextPid] = NewProcess("worker", proc[i].version)]
    /\ event' = event \ {NextPid}
    /\ Inherits(i, NextPid)
    /\ UNCHANGED <<files, named, budget>>

\* Variant: a failed worker is not started again.
NeverAgain(i) == TRUE

\* Variant: it is started once too often.
OnceMore(i) == proc[i].tries > Retries

\* attempt >= retries
Exhausted(i) == proc[i].tries >= Retries

\* runStartupRecovery: a normal exit and a stop end it, and so do enough failures.
Reap(i) ==
    /\ Is(i, "supervisor", {"run"}) /\ ~Alive(proc[i].child)
    /\ proc' = [proc EXCEPT
          ![proc[i].child] = NoProcess, ![i].child = None,
          ![i].pc = IF proc[proc[i].child].pc = "ok" \/ i \in event \/ Exhausted(i)
                    THEN "ending" ELSE "delay"]
    /\ UNCHANGED <<files, named, event, cmd, budget>>

\* The stop is passed on once the worker has published its event, or given up
\* after ten seconds, whatever the worker has come to by then.
PassOn(i) ==
    /\ Is(i, "supervisor", {"run"}) /\ i \in event /\ Alive(proc[i].child)
    /\ \/ /\ named.monitor = proc[i].child /\ proc[i].child \notin event
          /\ event' = event \cup {proc[i].child} /\ UNCHANGED proc
       \/ At(i, "ending") /\ UNCHANGED event
    /\ UNCHANGED <<files, named, cmd, budget>>

\* A minute, or the stop.
Delay(i) ==
    /\ Is(i, "supervisor", {"delay"})
    /\ proc' = IF i \in event THEN [proc EXCEPT ![i].pc = "ending"]
               ELSE [proc EXCEPT ![i].pc = "check", ![i].tries = @ + 1]
    /\ UNCHANGED <<files, named, event, cmd, budget>>

\* The event is closed and the receipt removed, then the lock is released.
SupervisorEnds(i) ==
    /\ Is(i, "supervisor", {"ending"})
    /\ Forgets("supervisor", i) /\ Exit(i) /\ event' = event \ {i}
    /\ UNCHANGED <<files, cmd, budget>>

\* Watch: the lock, WatchContext, the loop.
Work(i) ==
    /\ \/ Is(i, "worker", {"start"}) /\ WriterLock = {} /\ At(i, "locked") /\ UNCHANGED <<named, event>>
       \/ Is(i, "worker", {"start"}) /\ WriterLock # {} /\ Ends(i, "failed") /\ UNCHANGED named
       \/ Is(i, "worker", {"locked"}) /\ At(i, "watch") /\ Names("monitor", i) /\ UNCHANGED event
    /\ UNCHANGED <<files, cmd, budget>>

WorkerStops(i) ==
    /\ \/ /\ Is(i, "worker", {"watch"}) /\ i \in event
          /\ At(i, "ending") /\ Forgets("monitor", i) /\ UNCHANGED event
       \/ Is(i, "worker", {"ending"}) /\ Ends(i, "ok") /\ UNCHANGED named
    /\ UNCHANGED <<files, cmd, budget>>

-----------------------------------------------------------------------------
(* Management commands. *)

Goto(pc) == cmd' = [cmd EXCEPT !.pc = pc]
Finish   == cmd' = NoCommand

\* A command begins with inspectWindowsStartup: an entry that is not exactly the
\* recorded one ends it.  A new installation follows the scheduler's refusal.
Begin ==
    /\ cmd = NoCommand /\ Count("commands", MaxCommands)
    /\ \E kind \in {"install", "uninstall", "upgrade"}, pc \in {"create", "run", "stop"} :
          /\ CASE sreceipt # None /\ link = "own" -> pc = IF kind = "install" THEN "run" ELSE "stop"
               [] sreceipt = None /\ link = None   -> pc = "create" /\ kind = "install"
               [] OTHER                            -> FALSE
          /\ cmd' = [NoCommand EXCEPT !.kind = kind, !.pc = pc, !.expected = selected]
    /\ UNCHANGED <<files, proc, named, event>>

\* installWindowsStartup: the shortcut, then its receipt, or the shortcut goes.
Create ==
    /\ cmd.pc \in {"create", "receipt", "undo"}
    /\ \/ /\ cmd.pc = "create" /\ link' = "own" /\ Goto("receipt")
          /\ UNCHANGED <<sreceipt, budget>>
       \/ /\ cmd.pc = "receipt" /\ sreceipt' = budget.commands /\ Goto("run")
          /\ UNCHANGED <<link, budget>>
       \/ /\ cmd.pc = "receipt" /\ "write" \in Fault /\ Count("edits", MaxEdits) /\ Goto("undo")
          /\ UNCHANGED <<link, sreceipt>>
       \/ /\ cmd.pc = "undo" /\ link' = (IF link = "own" THEN None ELSE link) /\ Finish
          /\ UNCHANGED <<sreceipt, budget>>
    /\ UNCHANGED <<approval, selected, proc, named, event>>

\* launchWindowsStartupMonitor: not if the entry has changed, a launcher runs or
\* the writer lock is held, whoever holds it.
Run ==
    /\ cmd.pc = "run"
    /\ IF link # "own" \/ LauncherRunning \/ WriterLock # {}
       THEN Finish /\ UNCHANGED <<proc, event>>
       ELSE /\ Free # {}
            /\ proc' = [proc EXCEPT ![NextPid] = NewProcess("launcher", None)]
            /\ event' = event \ {NextPid}
            /\ cmd' = [cmd EXCEPT !.pc = "record", !.target = NextPid]
    /\ UNCHANGED <<files, named, budget>>

Record ==
    /\ cmd.pc = "record"
    /\ Names("launcher", cmd.target) /\ Finish
    /\ UNCHANGED <<files, proc, event, budget>>

\* StopMonitor: the supervisor of the receipt, and if it is gone the monitor.
\* Only a live process of the expected version is signalled.
Signal ==
    /\ cmd.pc = "stop"
    /\ LET t == IF Alive(named.supervisor) THEN named.supervisor ELSE named.monitor
       IN  IF Alive(t) /\ proc[t].version = cmd.expected
           THEN event' = event \cup {t} /\ cmd' = [cmd EXCEPT !.pc = "signalled", !.target = t]
           ELSE Goto("signalled") /\ UNCHANGED event
    /\ UNCHANGED <<files, proc, named, budget>>

\* It waits some seconds for the end of that process.  An error counts as stopped
\* if the locks are free; the update looks at one of them.
Signalled ==
    /\ cmd.pc = "signalled"
    /\ IF \/ cmd.target # None /\ ~Alive(cmd.target)
          \/ LocksIdle
          \/ cmd.kind = "upgrade" /\ WriterLock = {}
       THEN cmd' = [cmd EXCEPT !.pc = "wait", !.target = None] ELSE Finish
    /\ UNCHANGED <<files, proc, named, event, budget>>

\* waitWindowsStartupStopped, which gives up as well.
Wait ==
    /\ cmd.pc = "wait"
    /\ IF ~LauncherRunning /\ LocksIdle
       THEN cmd' = [cmd EXCEPT !.pc = IF cmd.kind = "upgrade" THEN "select" ELSE "delete link",
                               !.unseen = Starting]
       ELSE Finish
    /\ UNCHANGED <<files, proc, named, event, budget>>

\* The update selects another version and starts it.
Select ==
    /\ cmd.pc = "select"
    /\ selected' \in Version \ {selected} /\ cmd' = [cmd EXCEPT !.pc = "run", !.unseen = {}]
    /\ UNCHANGED <<link, sreceipt, approval, proc, named, event, budget>>

\* UninstallService: the shortcut if it is unchanged, then the receipt.
Delete ==
    /\ cmd.pc \in {"delete link", "delete receipt"}
    /\ \/ /\ cmd.pc = "delete link"
          /\ IF link = "own" THEN link' = None /\ Goto("delete receipt") ELSE Finish /\ UNCHANGED link
          /\ UNCHANGED sreceipt
       \/ cmd.pc = "delete receipt" /\ sreceipt' = None /\ Finish /\ UNCHANGED link
    /\ UNCHANGED <<approval, selected, proc, named, event, budget>>

-----------------------------------------------------------------------------
(* Sessions, crashes and the user. *)

\* Windows starts an approved shortcut some time after a session has begun, also
\* beside a command.
Logon ==
    /\ \A i \in Pid : ~Alive(i)
    /\ link = "own" /\ approval = "first" /\ Count("commands", MaxCommands) /\ Free # {}
    /\ proc' = [proc EXCEPT ![NextPid] = NewProcess("launcher", None)]
    /\ event' = event \ {NextPid}
    /\ cmd' = [cmd EXCEPT !.unseen = IF Acting THEN @ \cup {NextPid} ELSE @]
    /\ UNCHANGED <<files, named>>

Logoff ==
    /\ \E i \in Pid : Alive(i)
    /\ Count("kills", MaxKills)
    /\ proc' = [i \in Pid |-> NoProcess] /\ event' = {} /\ cmd' = NoCommand
    /\ UNCHANGED <<files, named>>

Crash(i) ==
    /\ Is(i, "worker", {"watch"}) /\ Count("crashes", MaxCrashes)
    /\ Ends(i, "failed")
    /\ UNCHANGED <<files, named, cmd>>

KillProcess(i) ==
    /\ Alive(i) /\ proc[i].role # "worker" /\ Count("kills", MaxKills)
    /\ Exit(i) /\ event' = event \ {i}
    /\ UNCHANGED <<files, named, cmd>>

KillCommand ==
    /\ cmd # NoCommand /\ Count("kills", MaxKills)
    /\ Finish
    /\ UNCHANGED <<files, proc, named, event>>

\* The user disables or enables the start-up entry, or changes its file.
Edit ==
    /\ Count("edits", MaxEdits)
    /\ \/ approval' = (IF approval = "first" THEN "second" ELSE "first") /\ UNCHANGED link
       \/ link = "own" /\ link' = "edited" /\ UNCHANGED approval
    /\ UNCHANGED <<sreceipt, selected, proc, named, event, cmd>>

-----------------------------------------------------------------------------
\* Nothing is installed, or an earlier installation waits for its session.  One
\* version is as good as another.
Init ==
    /\ \/ link = None /\ sreceipt = None
       \/ link = "own" /\ sreceipt = 0
    /\ approval = "first"
    /\ selected = CHOOSE v \in Version : TRUE
    /\ proc = [i \in Pid |-> NoProcess]
    /\ named = [r \in {"launcher", "supervisor", "monitor"} |-> None]
    /\ event = {} /\ cmd = NoCommand
    /\ budget = [commands |-> 0, crashes |-> 0, kills |-> 0, edits |-> 0]

Process(i) ==
    \/ Route(i) \/ LauncherEnds(i) \/ Supervise(i) \/ Publish(i) \/ Check(i) \/ StartWorker(i)
    \/ Reap(i) \/ PassOn(i) \/ Delay(i) \/ SupervisorEnds(i) \/ Work(i) \/ WorkerStops(i)
Manage == Create \/ Run \/ Record \/ Signal \/ Signalled \/ Wait \/ Select \/ Delete

Next ==
    \/ Begin \/ Manage \/ Logon \/ Logoff \/ KillCommand \/ Edit
    \/ \E i \in Pid : Process(i) \/ Crash(i) \/ KillProcess(i)

\* Processes run, and timers and waits end.  One condition is enough: no process
\* takes infinitely many steps in these bounds.
Spec == Init /\ [][Next]_vars /\ WF_vars(Manage \/ \E i \in Pid : Process(i))

-----------------------------------------------------------------------------
(* Properties. *)

\* Type correctness.
TypeOK ==
    /\ link \in {None, "own", "edited"} /\ sreceipt \in {None} \cup (0..MaxCommands)
    /\ approval \in {"first", "second"} /\ selected \in Version
    /\ \A i \in Pid : /\ proc[i].role \in {None, "launcher", "supervisor", "worker"}
                      /\ proc[i].child \in Pid \cup {None} /\ proc[i].tries \in 0..Retries
                      /\ proc[i].role = "worker" => proc[i].pc \notin {"check", "run", "delay"}
    /\ \A r \in DOMAIN named : named[r] \in Pid \cup {None}
    /\ event \subseteq Pid
    /\ cmd.target \in Pid \cup {None} /\ cmd.unseen \subseteq Pid

Monitoring == {i \in Pid : Alive(i) /\ proc[i].role \in {"supervisor", "worker"}}

\* A stop that reports success has stopped everything that ran: while the files
\* are removed or exchanged a monitor or supervisor is there only if it, or what
\* started it, had been started and held no lock yet when the command looked, or
\* came with a session since (windowsStartupLocksIdle does not see those).  What
\* had crashed, was waiting for its next attempt, had lost its parent or had not
\* published its receipt is gone, and so is what it could have started.
StoppedUnlessUnseen == Acting => Monitoring \subseteq cmd.unseen

\* A supervised worker that crashes runs again, unless the supervisor is killed,
\* was told to stop, or finds receipt, shortcut, version or approval changed.  (A
\* worker that fails because another monitor holds the lock is not meant: there is
\* a monitor, and the attempts may all find it there until it has ended.)
CrashIsRecovered ==
    \A k \in 0..MaxKills :
        (/\ budget.kills = k
         /\ \E i \in Pid : /\ Is(i, "supervisor", {"run"}) /\ proc[proc[i].child].pc = "failed"
                           /\ proc[i].tries < Retries /\ WriterLock = {})
        ~> (\/ budget.kills > k \/ \E w \in Pid : Is(w, "worker", {"watch"})
            \/ \E i \in SupervisorLock : i \in event \/ ~Allowed(i))
=============================================================================
