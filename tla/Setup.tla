------------------------------- MODULE Setup -------------------------------
(***************************************************************************)
(* First installation, repeated installation and removal on macOS:          *)
(* InstallDistribution and UninstallDistribution of                         *)
(* internal/laodi/distribution.go with InstallService and UninstallService  *)
(* of service.go, over the hook operations of module HookConfig.  Nothing   *)
(* here is one transaction: runtime, hooks, the launch agent's file and its *)
(* receipt are written one after the other, a command may end between any   *)
(* two, and other commands, launchd, the client's installer and the archive *)
(* guard go on meanwhile.  The update of a runtime is module Upgrade.       *)
(***************************************************************************)
EXTENDS HookConfig

CONSTANT Runtime    \* the installed executable

\* The application is a client; None is no name of a command, mode or stage, and no file.
ASSUME RuntimeAssumption ==
    /\ Runtime \in Program /\ "zcode" \in Client
    /\ None \notin {"install", "remove", "protect", "unprotect", "app", "hooks", "partial", "complete", "edited"}
    /\ None \notin [by : Program \cup {Foreign}, mode : {"app", "hooks"}]

VARIABLES
    app,         \* the application of ZCode is installed
    runtime,     \* the runtime directory
    plist,       \* the launch agent's file
    sreceipt,    \* service-install.json: the file that Laodi wrote
    registered,  \* the agent as launchd has it
    history,     \* the monitoring mode of the saved state
    rules,       \* the archive guard has rules in place
    cmd          \* what each process runs

service  == <<plist, sreceipt, registered>>
outside  == <<tools, app, history>>
setupVars == <<hookVars, app, runtime, service, history, rules, cmd>>

NoCommand == [kind |-> None, pc |-> "idle", mode |-> None, left |-> {}, new |-> FALSE]

\* Variant: the monitor is for the application only.
ModeOfApp == IF app THEN "app" ELSE None

Mode == IF app THEN "app" ELSE "hooks"

\* PlanService: the agent starts the installed executable in one mode.
Agent(mode) == [by |-> Runtime, mode |-> mode]

\* inspectServiceOwnership
Service == IF plist = None /\ sreceipt = None THEN "none"
           ELSE IF plist # None /\ plist = sreceipt THEN "owned" ELSE "foreign"

Running(kinds) == {p \in Proc : cmd[p].kind \in kinds}
\* The locks "distribution-management", "archive-guard", "service-management".
DistributionLock == Running({"install", "remove"})
GuardLock        == Running({"remove", "protect", "unprotect"})
ServicePc   == {"receipt", "load", "unload", "undo", "undo receipt", "drop file", "drop receipt"}
ServiceLock == {p \in Proc : cmd[p].pc \in ServicePc}

Step(p, pc) == cmd' = [cmd EXCEPT ![p].pc = pc]
Finish(p)   == cmd' = [cmd EXCEPT ![p] = NoCommand]

-----------------------------------------------------------------------------
(* Plan and preflight. *)

\* distributionFiles finds the files of the receipt and nothing else.
OwnedRuntime == runtime = "complete"

\* Variant: the history of another mode is no reason to refuse.
PreflightAnyMode(removal) ==
    IF runtime = None
    THEN Service = "none" /\ \A a \in Client : receipt[a] = None
    ELSE /\ OwnedRuntime /\ Service # "foreign"
         /\ Service = "owned" /\ ~removal => plist = Agent(Mode)
         /\ \A a \in Client : receipt[a] # None => receipt[a].entry = Runtime

\* Without a runtime there must be no trace of another installation; with one,
\* it must be as released, and service and hooks must be those of this plan.
Preflight(removal) ==
    /\ removal \/ history \in {None, Mode}
    /\ IF runtime = None
       THEN Service = "none" /\ \A a \in Client : receipt[a] = None
       ELSE /\ OwnedRuntime /\ Service # "foreign"
            /\ Service = "owned" /\ ~removal => plist = Agent(Mode)
            /\ \A a \in Client : receipt[a] # None => receipt[a].entry = Runtime

Begin(p, c) ==
    /\ cmd[p] = NoCommand /\ hook.by # p
    /\ cmd' = [cmd EXCEPT ![p] = c]
    /\ UNCHANGED <<outside, config, receipt, safe, hook, outcome, before, runtime, service, rules>>

\* A command that its preflight refuses has changed nothing.
BeginInstall(p) ==
    /\ DistributionLock = {} /\ Preflight(FALSE)
    /\ Begin(p, [kind |-> "install", pc |-> "payload", mode |-> Mode, left |-> tools, new |-> FALSE])

\* Variant: the removal does not take the lock of the archive guard.
BeginRemoveUnlocked(p) ==
    /\ DistributionLock = {} /\ Preflight(TRUE) /\ runtime # None /\ ~rules
    /\ Begin(p, [kind |-> "remove", pc |-> "service", mode |-> Mode, left |-> Client, new |-> FALSE])

\* The removal holds the archive guard's lock to its end, and looks at the hooks
\* of every client, the ones that are gone included.
BeginRemove(p) ==
    /\ DistributionLock = {} /\ GuardLock = {} /\ Preflight(TRUE) /\ runtime # None /\ ~rules
    /\ Begin(p, [kind |-> "remove", pc |-> "service", mode |-> Mode, left |-> Client, new |-> FALSE])

\* The archive guard's own commands, as far as the removal sees them.
BeginProtect(p) ==
    /\ GuardLock = {}
    /\ Begin(p, [NoCommand EXCEPT !.kind = IF rules THEN "unprotect" ELSE "protect", !.pc = "rules"])

Protect(p) ==
    /\ cmd[p].pc = "rules"
    /\ rules' = (cmd[p].kind = "protect")
    /\ Finish(p)
    /\ UNCHANGED <<hookVars, app, runtime, service, history>>

-----------------------------------------------------------------------------
(* Runtime and hooks. *)

\* installDistributionPayload: nothing if there is a runtime, else Mkdir.
Payload(p) ==
    /\ cmd[p].pc = "payload"
    /\ IF runtime = None THEN runtime' = "partial" /\ Step(p, "copy")
       ELSE UNCHANGED runtime /\ (IF cmd[p].left = {} THEN Finish(p) ELSE Step(p, "hooks"))
    /\ UNCHANGED <<hookVars, app, service, history, rules>>

\* The receipt comes last.  Without a tool the command ends with a warning.
Copy(p) ==
    /\ cmd[p].pc = "copy"
    /\ \/ runtime' = "complete" /\ UNCHANGED budget
          /\ IF cmd[p].left = {} THEN Finish(p) ELSE Step(p, "hooks")
       \/ Fails("write") /\ Finish(p) /\ UNCHANGED runtime
    /\ UNCHANGED <<tools, config, receipt, safe, hook, outcome, before, app, service, history, rules>>

\* One client after the other; the removal skips those without a receipt.
Hooks(p) ==
    /\ cmd[p].pc = "hooks"
    /\ IF cmd[p].left = {}
       THEN /\ IF cmd[p].kind = "install" THEN Step(p, "service") ELSE Finish(p)
            /\ UNCHANGED hookVars
       ELSE LET a == IF "zcode" \in cmd[p].left THEN "zcode" ELSE "claude-code"
                next == [cmd EXCEPT ![p].left = @ \ {a}]
            IN  \/ /\ cmd[p].kind = "remove" /\ receipt[a] = None
                   /\ cmd' = next /\ UNCHANGED hookVars
                \/ /\ cmd[p].kind = "install" \/ receipt[a] # None
                   /\ BeginHook(p, cmd[p].kind, a, Runtime)
                   /\ cmd' = [next EXCEPT ![p].pc = "hooked"]
                   /\ UNCHANGED <<tools, budget>>
    /\ UNCHANGED <<app, runtime, service, history, rules>>

Hooked(p) ==
    /\ cmd[p].pc = "hooked" /\ hook.by # p
    /\ IF outcome[p] = "ok" THEN Step(p, "hooks") ELSE Finish(p)
    /\ UNCHANGED <<hookVars, app, runtime, service, history, rules>>

-----------------------------------------------------------------------------
(* InstallService. *)

untouched == <<tools, config, receipt, safe, hook, outcome, before, app, runtime, history, rules>>

\* Under its lock: an identical agent is started if it is not registered, a
\* different one is refused, and a new file is linked, which replaces nothing.
InstallService(p) ==
    /\ cmd[p].pc = "service" /\ cmd[p].kind = "install"
    /\ \/ /\ \/ ServiceLock # {} \/ Service = "foreign"
             \/ Service = "owned" /\ (plist # Agent(cmd[p].mode) \/ registered # None)
          /\ Finish(p) /\ UNCHANGED <<service, budget>>
       \/ ServiceLock = {} /\ Service = "owned" /\ plist = Agent(cmd[p].mode) /\ registered = None
          /\ Step(p, "load") /\ UNCHANGED <<service, budget>>
       \/ ServiceLock = {} /\ Service = "none" /\ UNCHANGED <<sreceipt, registered>>
          /\ \/ /\ plist' = Agent(cmd[p].mode) /\ UNCHANGED budget
                /\ cmd' = [cmd EXCEPT ![p].pc = "receipt", ![p].new = TRUE]
             \/ Fails("write") /\ plist' \in {None, Agent(cmd[p].mode)} /\ Finish(p)
    /\ UNCHANGED untouched

WriteServiceReceipt(p) ==
    /\ cmd[p].pc = "receipt"
    /\ LET r == Agent(cmd[p].mode)
       IN  \/ sreceipt = None /\ sreceipt' = r /\ Step(p, "load") /\ UNCHANGED budget
           \/ Fails("write") /\ sreceipt' \in {sreceipt, r}
              /\ cmd' = [cmd EXCEPT ![p].pc = "undo", ![p].new = FALSE]
    /\ UNCHANGED <<plist, registered, untouched>>

\* launchctl bootstrap of the file as it is now.
Load(p) ==
    /\ cmd[p].pc = "load"
    /\ \/ plist # None /\ registered = None /\ registered' = plist /\ Finish(p) /\ UNCHANGED budget
       \/ /\ \/ (plist = None \/ registered # None) /\ UNCHANGED budget
             \/ Fails("launchctl")
          /\ IF cmd[p].new THEN Step(p, "undo") ELSE Finish(p)
          /\ UNCHANGED registered
    /\ UNCHANGED <<plist, sreceipt, untouched>>

\* After an error the files go that this command wrote, if they are unchanged.
Undo(p) ==
    /\ cmd[p].pc = "undo"
    /\ \/ plist = Agent(cmd[p].mode) /\ plist' = None /\ UNCHANGED budget
          /\ IF cmd[p].new THEN Step(p, "undo receipt") ELSE Finish(p)
       \/ /\ \/ plist # Agent(cmd[p].mode) /\ UNCHANGED budget
             \/ Fails("write")
          /\ Finish(p) /\ UNCHANGED plist
    /\ UNCHANGED <<sreceipt, registered, untouched>>

\* Also the last step of a removal.
DropServiceReceipt(p) ==
    /\ cmd[p].pc \in {"undo receipt", "drop receipt"}
    /\ \/ sreceipt' = None /\ UNCHANGED budget
          /\ IF cmd[p].kind = "remove" THEN Step(p, "hooks") ELSE Finish(p)
       \/ Fails("write") /\ Finish(p) /\ UNCHANGED sreceipt
    /\ UNCHANGED <<plist, registered, untouched>>

-----------------------------------------------------------------------------
(* UninstallService. *)

RemoveService(p) ==
    /\ cmd[p].pc = "service" /\ cmd[p].kind = "remove"
    /\ CASE Service = "none" -> Step(p, "hooks")
         [] Service = "owned" /\ ServiceLock = {} -> Step(p, "unload")
         [] OTHER -> Finish(p)
    /\ UNCHANGED <<service, budget, untouched>>

\* Variant: an agent that cannot be stopped is removed nevertheless.
UnloadAnyway(p) ==
    /\ cmd[p].pc = "unload"
    /\ \/ registered' = None /\ UNCHANGED budget
       \/ registered # None /\ Fails("launchctl") /\ UNCHANGED registered
    /\ Step(p, "drop file")
    /\ UNCHANGED <<plist, sreceipt, untouched>>

\* launchctl bootout fails if the agent is not registered.
Unload(p) ==
    /\ cmd[p].pc = "unload"
    /\ \/ registered # None /\ registered' = None /\ Step(p, "drop file") /\ UNCHANGED budget
       \/ registered = None /\ Finish(p) /\ UNCHANGED <<registered, budget>>
       \/ registered # None /\ Fails("launchctl") /\ registered' \in {registered, None} /\ Finish(p)
    /\ UNCHANGED <<plist, sreceipt, untouched>>

\* removeServiceFile compares the file with the receipt once more.
DropFile(p) ==
    /\ cmd[p].pc = "drop file"
    /\ \/ plist = sreceipt /\ plist' = None /\ Step(p, "drop receipt") /\ UNCHANGED budget
       \/ /\ \/ plist # sreceipt /\ UNCHANGED budget
             \/ Fails("write")
          /\ Finish(p) /\ UNCHANGED plist
    /\ UNCHANGED <<sreceipt, registered, untouched>>

-----------------------------------------------------------------------------
(* launchd, the monitor, kills and other programs. *)

\* The first cycle of the monitor saves its mode.
MonitorRuns ==
    /\ registered # None /\ registered.by = Runtime /\ history = None
    /\ history' = registered.mode
    /\ UNCHANGED <<hookVars, app, runtime, service, rules, cmd>>

KillCommand(p) ==
    /\ cmd[p] # NoCommand \/ hook.by = p
    /\ Count("kills", MaxKills)
    /\ Finish(p) /\ hook' = IF hook.by = p THEN NoHook ELSE hook
    /\ UNCHANGED <<outside, config, receipt, safe, outcome, before, runtime, service, rules>>

\* After a restart launchd loads the file that it finds.
Restart ==
    /\ "restart" \in Fault /\ Count("kills", MaxKills)
    /\ cmd' = [p \in Proc |-> NoCommand] /\ hook' = NoHook
    /\ registered' = plist
    /\ UNCHANGED <<outside, config, receipt, safe, outcome, before, runtime, plist, sreceipt, rules>>

\* A client comes or goes.
ChangeTools ==
    /\ "tools" \in Fault /\ Count("edits", MaxEdits)
    /\ \/ app' = ~app /\ tools' = IF app THEN tools \ {"zcode"} ELSE tools \cup {"zcode"}
       \/ UNCHANGED app /\ tools' = tools \ {"claude-code"}
    /\ UNCHANGED <<config, receipt, safe, hook, outcome, before, runtime, service, history, rules, cmd>>

EditFiles ==
    /\ "edit" \in Fault /\ Count("edits", MaxEdits)
    /\ \/ /\ plist # None /\ plist' = [plist EXCEPT !.by = Foreign] /\ UNCHANGED <<runtime, registered>>
       \/ /\ runtime = "complete" /\ runtime' = "edited" /\ UNCHANGED <<plist, registered>>
       \/ /\ registered # None /\ registered' = None /\ UNCHANGED <<plist, runtime>>
    /\ UNCHANGED <<outside, config, receipt, safe, hook, outcome, before, sreceipt, rules, cmd>>

-----------------------------------------------------------------------------
\* Nothing installed; settings with hooks of others or none.
Init ==
    /\ app \in BOOLEAN /\ tools \in SUBSET Client /\ (app => "zcode" \in tools)
    /\ \E c \in {None, [hooks |-> TRUE, events |-> TRUE, switch |-> "on",
                       at |-> [e \in Event |-> [NoEntries EXCEPT ![Foreign] = 1]]]} :
          config = [a \in Client |-> c]
    /\ receipt = [a \in Client |-> None] /\ safe = [config |-> config, receipt |-> receipt]
    /\ hook = NoHook /\ outcome = [p \in Proc |-> None]
    /\ before = [a \in Client |-> [settings |-> None, edited |-> FALSE]]
    /\ runtime = None /\ plist = None /\ sreceipt = None /\ registered = None
    /\ history = None /\ rules = FALSE
    /\ cmd = [p \in Proc |-> NoCommand]
    /\ budget = [commands |-> 0, edits |-> 0, faults |-> 0, kills |-> 0]

Install(p)   == Payload(p) \/ Copy(p) \/ Hooks(p) \/ Hooked(p)
ServiceStep(p) == InstallService(p) \/ WriteServiceReceipt(p) \/ Load(p) \/ Undo(p) \/ DropServiceReceipt(p)
                  \/ RemoveService(p) \/ Unload(p) \/ DropFile(p)
Start(p) ==
    /\ Count("commands", MaxCommands)
    /\ \/ BeginInstall(p) \/ BeginRemove(p) \/ BeginProtect(p)
       \/ cmd[p] = NoCommand /\ hook.by # p
          /\ \E kind \in {"install", "remove"}, a \in tools, x \in Program \ {Runtime} :
                 BeginHook(p, kind, a, x)
          /\ UNCHANGED <<outside, runtime, service, rules, cmd>>
HookCommand ==
    /\ HookStep
    /\ UNCHANGED <<outside, runtime, service, rules, cmd>>

Next ==
    \/ \E p \in Proc : Start(p) \/ Install(p) \/ ServiceStep(p) \/ Protect(p) \/ KillCommand(p)
    \/ HookCommand \/ MonitorRuns \/ Restart \/ ChangeTools \/ EditFiles

Spec == Init /\ [][Next]_setupVars
-----------------------------------------------------------------------------
(* Properties. *)

Agents == [by : {Runtime, Foreign}, mode : {"app", "hooks"}]

\* Type correctness.
TypeOK ==
    /\ HookTypeOK /\ tools \subseteq Client /\ app \in BOOLEAN /\ rules \in BOOLEAN
    /\ runtime \in {None, "partial", "complete", "edited"}
    /\ {plist, sreceipt, registered} \subseteq Agents \cup {None}
    /\ history \in {None, "app", "hooks"}
    /\ \A p \in Proc : cmd[p].left \subseteq Client /\ cmd[p].new \in BOOLEAN

\* The agent that launchd has can be found and stopped: its file is there.
RegisteredHasFile == registered # None => plist # None

\* The agent never runs in a mode that its own history refuses, which would end
\* in launchd starting it for ever.
NoRestartLoop == registered # None => history \in {None, registered.mode}

\* A removal that gets to its end leaves neither agent nor hook receipt of the
\* runtime, although clients may have come or gone and other commands are running, and it
\* leaves no rule of the archive guard that nothing watches over any more.
RemovalLeavesNothing ==
    [][\A p \in Proc :
          cmd[p].kind = "remove" /\ cmd[p].pc = "hooks" /\ cmd[p].left = {} /\ cmd'[p] = NoCommand
          /\ budget' = budget
          => /\ ~rules /\ registered = None /\ plist = None /\ sreceipt = None
             /\ \A a \in Client : receipt[a] # None => receipt[a].entry # Runtime]_setupVars
=============================================================================
