---------------------------- MODULE HookConfig ----------------------------
(***************************************************************************)
(* The hook entries of Laodi in the settings files of the clients:          *)
(* internal/laodi/hook_config.go and hook_config_files_other.go.  A         *)
(* settings file belongs to its user; Laodi adds one entry per event,       *)
(* writes a receipt of what it added before it does, and takes exactly that *)
(* away again.  Commands exclude each other with the lock "hook-management",*)
(* editors do not, and the command may end between any two operations.      *)
(*                                                                         *)
(* An entry is the program that it starts, or Foreign.  The switch is       *)
(* hooks.enabled of ZCode, which runs hooks only if it is on, and           *)
(* disableAllHooks of Claude Code, which runs them unless it is off.        *)
(***************************************************************************)
EXTENDS Naturals, FiniteSets

CONSTANTS
    Proc,         \* processes that run commands
    Client,       \* adapters, of {"zcode", "claude-code"}
    Event,        \* hook events
    Program,      \* executables whose hooks may be installed
    None,         \* no file, no entry, no process
    Malformed,    \* settings that are not strict JSON or not of the known form
    Fault,        \* failures and foreign changes of this instance
    MaxCommands,  \* bound: commands
    MaxEdits,     \* bound: changes by other programs
    MaxFaults,    \* bound: failing operations
    MaxKills      \* bound: killed commands and power losses

ASSUME HookAssumption ==
    /\ Client \subseteq {"zcode", "claude-code"} /\ IsFiniteSet(Event) /\ Event # {}
    /\ MaxCommands \in Nat /\ MaxEdits \in Nat /\ MaxFaults \in Nat /\ MaxKills \in Nat
ASSUME HookNoneAssumption == None \notin Proc \cup Program \cup {Malformed}

VARIABLES
    tools,      \* the clients on this machine
    config,     \* the settings file of each client
    receipt,    \* hook-install-<adapter>.json of each client
    safe,       \* both as a power loss leaves them
    hook,       \* the command that holds the lock "hook-management"
    outcome,    \* what the last hook command of a process reported
    before,     \* history: the settings that the last installation replaced
    budget      \* steps taken, for the bounds

hookVars == <<tools, config, receipt, safe, hook, outcome, before, budget>>

Foreign   == "foreign"
Entry     == Program \cup {Foreign}

\* hooks, its switch, its map of events, and the entries of the events it names.
Settings == [hooks : BOOLEAN, switch : {"absent", "on", "off"}, events : BOOLEAN,
             at : [Event -> {None} \cup [Entry -> 0..2]]]
Empty    == [hooks |-> FALSE, switch |-> "absent", events |-> FALSE, at |-> [e \in Event |-> None]]
Receipt  == [entry : Program, switch : {"absent", "on", "off"}, hooks : BOOLEAN,
             events : BOOLEAN, names : SUBSET Event]
NoHook   == [by |-> None, pc |-> "idle", kind |-> None, client |-> None, entry |-> None,
             seen |-> None]

\* The values are told apart.
ASSUME HookDataAssumption ==
    /\ Foreign \notin Program /\ None \notin Receipt
    /\ None \notin Settings /\ Malformed \notin Settings
    /\ None \notin [Entry -> 0..2]

Count(what, bound) == budget[what] < bound /\ budget' = [budget EXCEPT ![what] = @ + 1]
Fails(what) == what \in Fault /\ Count("faults", MaxFaults)

-----------------------------------------------------------------------------
(* Settings as JSON objects. *)

\* decodeHookConfig: an absent file is an empty object.
Decoded(c) == IF c = None THEN Empty ELSE c

\* hookConfigMaps without create.
HasMaps(c) == c.hooks /\ c.events

Occurrences(c, e, x) == IF c.at[e] = None THEN 0 ELSE c.at[e][x]

HasEntries(c) == \E e \in Event, x \in Entry : Occurrences(c, e, x) > 0

\* checkHookEnabled
Enabled(c, a) == IF a = "zcode" THEN HasMaps(c) /\ c.switch = "on" ELSE c.switch # "off"

\* ownedHookEntries: exactly one in every event.
Owned(c, r) == HasMaps(c) /\ \A e \in Event : Occurrences(c, e, r.entry) = 1

NoEntries == [x \in Entry |-> 0]
Named(c, e) == IF c.at[e] = None THEN NoEntries ELSE c.at[e]

\* installHookConfig: what it refuses, adds and records.
Acceptable(c, a, x) ==
    /\ \A e \in Event : Occurrences(c, e, x) = 0
    /\ IF a = "zcode" THEN c.switch = "on" \/ ~HasEntries(c) ELSE Enabled(c, a)

WithEntry(c, a, x) ==
    [hooks |-> TRUE, events |-> TRUE, switch |-> IF a = "zcode" THEN "on" ELSE c.switch,
     at |-> [e \in Event |-> [Named(c, e) EXCEPT ![x] = @ + 1]]]

ReceiptOf(c, a, x) ==
    [entry |-> x, hooks |-> ~c.hooks, names |-> {e \in Event : c.at[e] = None},
     switch |-> IF a = "zcode" THEN c.switch ELSE "absent", events |-> a = "zcode" /\ ~c.events]

\* Variant: the switch stays as the installation set it.
WithoutEntryOnly(c, a, r) ==
    [c EXCEPT !.at = [e \in Event |-> IF [c.at[e] EXCEPT ![r.entry] = 0] = NoEntries /\ e \in r.names
                                      THEN None ELSE [c.at[e] EXCEPT ![r.entry] = 0]]]

\* UninstallHookConfig: own entries, the names and maps that the installation
\* created, and its change of the switch, unless somebody uses hooks by now.
WithoutEntry(c, a, r) ==
    LET left(e)  == [Named(c, e) EXCEPT ![r.entry] = 0]
        at       == [e \in Event |->
                        IF left(e) = NoEntries /\ e \in r.names THEN None ELSE left(e)]
        d        == [c EXCEPT !.at = at]
        switch   == IF a = "zcode" /\ ~HasEntries(d) /\ c.switch = "on" THEN r.switch ELSE c.switch
        nameless == \A e \in Event : at[e] = None
        events   == ~(IF a = "zcode" THEN r.events /\ nameless ELSE r.hooks /\ nameless)
        hooks    == ~(r.hooks /\ ~events /\ (a = "zcode" => switch = "absent"))
    IN  [hooks |-> hooks, events |-> events, switch |-> switch, at |-> at]

-----------------------------------------------------------------------------
(* A command under the lock. *)

Goto(pc) == hook' = [hook EXCEPT !.pc = pc]
End(result) == hook' = NoHook /\ outcome' = [outcome EXCEPT ![hook.by] = result]

\* The lock is tried once.
BeginHook(p, kind, a, x) ==
    /\ IF hook.by = None
       THEN /\ hook' = [by |-> p, pc |-> "read", kind |-> kind, client |-> a, entry |-> x, seen |-> None]
            /\ outcome' = [outcome EXCEPT ![p] = None]
       ELSE outcome' = [outcome EXCEPT ![p] = "failed"] /\ UNCHANGED hook
    /\ UNCHANGED <<config, receipt, safe, before>>

ReadInstall ==
    /\ hook.pc = "read" /\ hook.kind = "install"
    /\ LET a == hook.client
           c == Decoded(config[a])
       IN  \/ c = Malformed /\ End("failed")
           \/ /\ c # Malformed /\ receipt[a] # None
              /\ End(IF Owned(c, receipt[a]) /\ hook.entry = receipt[a].entry /\ Enabled(c, a)
                     THEN "ok" ELSE "failed")
           \/ /\ c # Malformed /\ receipt[a] = None
              /\ IF Acceptable(c, a, hook.entry)
                 THEN hook' = [hook EXCEPT !.pc = "receipt", !.seen = config[a]] /\ UNCHANGED outcome
                 ELSE End("failed")
    /\ UNCHANGED <<config, receipt, safe, before, budget>>

\* replaceHookConfigFile of a file that must not exist: a link, then the sync
\* of the directory.
PublishReceipt ==
    /\ hook.pc = "receipt"
    /\ \/ /\ receipt' = [receipt EXCEPT ![hook.client] =
                            ReceiptOf(Decoded(hook.seen), hook.client, hook.entry)]
          /\ Goto("sync receipt") /\ UNCHANGED <<outcome, budget>>
       \/ Fails("write") /\ End("failed") /\ UNCHANGED receipt
    /\ UNCHANGED <<config, safe, before>>

\* Variant: the receipt is in place, the directory is not synced.
ReceiptUnsynced ==
    /\ hook.pc = "sync receipt" /\ Goto("replace")
    /\ UNCHANGED <<config, receipt, safe, outcome, before, budget>>

\* An error leaves the receipt without entries.
SyncReceipt ==
    /\ hook.pc = "sync receipt"
    /\ \/ /\ safe' = [safe EXCEPT !.receipt[hook.client] = receipt[hook.client]]
          /\ Goto("replace") /\ UNCHANGED <<outcome, budget>>
       \/ Fails("sync") /\ End("failed") /\ UNCHANGED safe
    /\ UNCHANGED <<config, receipt, before>>

ReadRemove ==
    /\ hook.pc = "read" /\ hook.kind = "remove"
    /\ LET a == hook.client
       IN  IF receipt[a] # None /\ config[a] \notin {None, Malformed} /\ Owned(config[a], receipt[a])
           THEN hook' = [hook EXCEPT !.pc = "replace", !.seen = config[a]] /\ UNCHANGED outcome
           ELSE End("failed")
    /\ UNCHANGED <<config, receipt, safe, before, budget>>

\* The new settings, and where the command goes after an error.
Replacement ==
    LET c == Decoded(hook.seen)
        a == hook.client
    IN  IF hook.kind = "install" THEN WithEntry(c, a, hook.entry) ELSE WithoutEntry(c, a, receipt[a])
Give == IF hook.kind = "install" THEN Goto("undo") /\ UNCHANGED outcome ELSE End("failed")

Remember == before' = [before EXCEPT ![hook.client] =
                          IF hook.kind = "install" THEN [settings |-> hook.seen, edited |-> FALSE] ELSE @]

\* Variant: the file is replaced without another look at it.
ReplaceUnchecked ==
    /\ hook.pc = "replace"
    /\ config' = [config EXCEPT ![hook.client] = Replacement]
    /\ Remember /\ Goto("sync")
    /\ UNCHANGED <<receipt, safe, outcome, budget>>

\* The file must be as it was read.
Replace ==
    /\ hook.pc = "replace"
    /\ \/ /\ config[hook.client] = hook.seen
          /\ config' = [config EXCEPT ![hook.client] = Replacement]
          /\ Remember /\ Goto("sync") /\ UNCHANGED <<outcome, budget>>
       \/ /\ \/ config[hook.client] # hook.seen /\ UNCHANGED budget
             \/ Fails("write")
          /\ Give /\ UNCHANGED <<config, before>>
    /\ UNCHANGED <<receipt, safe>>

SyncSettings ==
    /\ hook.pc = "sync"
    /\ \/ /\ safe' = [safe EXCEPT !.config[hook.client] = config[hook.client]]
          /\ \/ hook.kind = "install" /\ End("ok")
             \/ hook.kind = "remove" /\ Goto("drop") /\ UNCHANGED outcome
          /\ UNCHANGED budget
       \/ Fails("sync settings") /\ Give /\ UNCHANGED safe
    /\ UNCHANGED <<config, receipt, before>>

\* removeServiceFile of the receipt, after an error or at the end.
Drop ==
    /\ hook.pc \in {"undo", "drop"}
    /\ \/ /\ receipt' = [receipt EXCEPT ![hook.client] = None]
          /\ End(IF hook.pc = "undo" THEN "failed" ELSE "ok") /\ UNCHANGED budget
       \/ Fails("write") /\ End("failed") /\ UNCHANGED receipt
    /\ UNCHANGED <<config, safe, before>>

HookStep ==
    ReadInstall \/ PublishReceipt \/ SyncReceipt \/ ReadRemove \/ Replace \/ SyncSettings \/ Drop

-----------------------------------------------------------------------------
(* Kills, power losses and other programs. *)

Kill ==
    /\ hook.by # None
    /\ Count("kills", MaxKills)
    /\ hook' = NoHook
    /\ UNCHANGED <<config, receipt, safe, outcome, before>>

\* A file whose directory was not synced may be as it was.
Revert ==
    \E lost \in SUBSET (Client \X {"config", "receipt"}) :
        /\ config'  = [a \in Client |-> IF <<a, "config">> \in lost THEN safe.config[a] ELSE config[a]]
        /\ receipt' = [a \in Client |-> IF <<a, "receipt">> \in lost THEN safe.receipt[a] ELSE receipt[a]]
        /\ safe' = [config |-> config', receipt |-> receipt']

PowerLoss ==
    /\ "power" \in Fault /\ Count("kills", MaxKills)
    /\ Revert /\ hook' = NoHook
    /\ UNCHANGED <<outcome, before>>

\* What a user or another program makes of the settings: it turns the switch,
\* adds or removes an entry, copies one of Laodi's that it finds, or deletes or
\* breaks the file.
Switched(c, a) ==
    {[c EXCEPT !.switch = s, !.hooks = @ \/ a = "zcode"] : s \in {"on", "off"}}
Put(c, e, x, n) == [Named(c, e) EXCEPT ![x] = n]
Opened(c) == [c EXCEPT !.hooks = TRUE, !.events = TRUE]
OtherHooks(c) ==
    {[Opened(c) EXCEPT !.at[e] = Put(c, e, Foreign, n)] : e \in Event, n \in 0..1}
Found(c) == {x \in Program : \E e \in Event : Occurrences(c, e, x) > 0}
Copies(c) ==
    {[c EXCEPT !.at[e] = Put(c, e, x, n)] :
        n \in 0..2, e \in {f \in Event : c.at[f] # None}, x \in Found(c)}
Edits(c, a) ==
    IF c = Malformed THEN {Empty}
    ELSE {None, Malformed} \cup Switched(c, a) \cup OtherHooks(c) \cup Copies(c)

Edit(a) ==
    /\ "edit" \in Fault /\ Count("edits", MaxEdits)
    /\ \E c \in Edits(Decoded(config[a]), a) :
          config' = [config EXCEPT ![a] = c] /\ safe' = [safe EXCEPT !.config[a] = c]
    /\ before' = [before EXCEPT ![a].edited = TRUE]
    /\ UNCHANGED <<receipt, hook, outcome>>

-----------------------------------------------------------------------------
(* The commands "laodi hooks install" and "laodi hooks uninstall".  The files of *)
(* two clients share nothing but the lock: this instance has one at a time.     *)

\* Settings in use: no file, an empty object, hooks of others, a switch.
Used(a) ==
    {None, Empty, [Empty EXCEPT !.hooks = TRUE, !.events = TRUE, !.switch = "off"]}
    \cup {[hooks |-> TRUE, events |-> TRUE, switch |-> s,
           at |-> [e \in Event |-> IF e \in named THEN [NoEntries EXCEPT ![Foreign] = n] ELSE None]] :
              s \in {"absent", "on"}, named \in SUBSET Event, n \in 0..1}
    \cup (IF a = "zcode" THEN {[Empty EXCEPT !.hooks = TRUE, !.switch = "on"]} ELSE {})

HookInit ==
    /\ \E a \in Client : tools = {a}
    /\ config \in {c \in [Client -> UNION {Used(a) : a \in Client}] :
                      \A a \in Client : c[a] \in IF a \in tools THEN Used(a) ELSE {None}}
    /\ receipt = [a \in Client |-> None]
    /\ safe = [config |-> config, receipt |-> receipt]
    /\ hook = NoHook /\ outcome = [p \in Proc |-> None]
    /\ before = [a \in Client |-> [settings |-> None, edited |-> FALSE]]
    /\ budget = [commands |-> 0, edits |-> 0, faults |-> 0, kills |-> 0]

Command ==
    \E p \in Proc, kind \in {"install", "remove"}, a \in tools, x \in Program :
        /\ hook.by # p
        /\ Count("commands", MaxCommands)
        /\ BeginHook(p, kind, a, x)

HookNext ==
    /\ HookStep \/ Command \/ Kill \/ PowerLoss \/ \E a \in tools : Edit(a)
    /\ UNCHANGED tools

HookSpec == HookInit /\ [][HookNext]_hookVars
-----------------------------------------------------------------------------
(* Properties. *)

\* Type correctness.
HookTypeOK ==
    /\ \A a \in Client : {config[a], safe.config[a]} \subseteq Settings \cup {None, Malformed}
    /\ \A a \in Client : {receipt[a], safe.receipt[a]} \subseteq Receipt \cup {None}
    /\ hook.by \in Proc \cup {None} /\ hook.kind \in {"install", "remove", None}
    /\ hook.pc \in {"idle", "read", "receipt", "sync receipt", "replace", "sync", "undo", "drop"}
    /\ hook.client \in Client \cup {None} /\ hook.entry \in Program \cup {None}
    /\ hook.seen \in Settings \cup {None}
    /\ outcome \in [Proc -> {None, "ok", "failed"}]

\* What others see of their settings: their entries, whether these run, and the
\* global switch of Claude Code.
View(c, a) ==
    IF c = Malformed THEN c
    ELSE LET d == Decoded(c)
             foreign == [e \in Event |-> Occurrences(d, e, Foreign)]
         IN  [entries |-> foreign, run |-> (\E e \in Event : foreign[e] > 0) /\ Enabled(d, a),
              off |-> a # "zcode" /\ d.switch = "off"]

\* Commands, kills and power losses leave the hooks of others as they are: none
\* is lost, none that was disabled runs, and none that ran is disabled, although
\* the user may edit the file between the command's reading and its writing.
ForeignKept ==
    [][budget'.edits = budget.edits => \A a \in Client : View(config'[a], a) = View(config[a], a)]_hookVars

\* Every entry of Laodi has a receipt that names it, whatever the operation at
\* which a command ended: an entry without one could not be removed any more.
\* hook_config.go:265 gives this as the reason for publishing the receipt first;
\* the code breaks it when the sync after the rename of the settings fails.
EntryHasReceipt ==
    \A a \in Client : config[a] \notin {None, Malformed} =>
        \A e \in Event, x \in Program :
            Occurrences(config[a], e, x) > 0 => receipt[a] # None /\ receipt[a].entry = x

\* What does hold: an entry and its receipt part nowhere but where an installation
\* that could not replace or sync the settings takes its receipt back although they
\* are not as it has read them.  No kill, power loss, edit or other failure parts
\* them, in whatever order these meet.
PartedOnlyByUndo ==
    [][EntryHasReceipt => EntryHasReceipt' \/
          (hook.pc = "undo" /\ config[hook.client] # hook.seen)]_hookVars

\* A removal that reports success has left the settings as they were before the
\* installation, if nobody else changed them since.
Undone ==
    [][\A a \in Client :
          hook.pc = "drop" /\ hook.client = a /\ receipt'[a] = None /\ ~before[a].edited
          => Decoded(config[a]) = Decoded(before[a].settings)]_hookVars
=============================================================================
