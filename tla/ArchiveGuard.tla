---------------------------- MODULE ArchiveGuard ----------------------------
(***************************************************************************)
(* The archive guard of internal/laodi/archive_guard.go and                 *)
(* archive_guard_windows.go: access rules on the client's cache, and the    *)
(* receipt that says which rules are the guard's own.  Rules and receipt    *)
(* are changed one after the other, by a command that may be killed between *)
(* any two changes, while the client makes and removes directories.  The    *)
(* monitor inspects without a lock.  The two systems share the phases of    *)
(* the receipt and the order of the steps; where they differ, "platform"    *)
(* decides.                                                                *)
(*                                                                         *)
(* The list of access entries of a directory holds "own" (the rule for its  *)
(* kind), "inherited" (what a new workspace gets from the rule on the       *)
(* root) and "other" (an entry of somebody else).  An inode stands for the  *)
(* recorded identity: device, inode, owner and mode.                        *)
(***************************************************************************)
EXTENDS Naturals, Sequences, FiniteSets

CONSTANTS
    Root,         \* the checkpoints directory
    Workspace,    \* its direct subdirectories
    Unsupported,  \* those whose names are no workspace's
    Artifact,     \* entries that the guard refuses in a workspace
    WorkspaceOf,  \* artifact -> workspace
    None,         \* no path
    Platform,     \* the systems of this instance
    Fault,        \* failures and foreign changes of this instance
    MaxInodes,    \* bound: directories ever made
    MaxEnables,   \* bound: enable commands
    MaxFaults,    \* bound: failures and foreign changes
    MaxKills      \* bound: killed commands

Path == {Root} \cup Workspace \cup Artifact

ASSUME PathAssumption ==
    /\ Root \notin Workspace \cup Artifact /\ Workspace \cap Artifact = {}
    /\ Unsupported \subseteq Workspace /\ None \notin Path /\ WorkspaceOf \in [Artifact -> Workspace]

ASSUME BoundAssumption ==
    /\ MaxInodes \in Nat /\ MaxEnables \in Nat /\ MaxFaults \in Nat /\ MaxKills \in Nat
    /\ Fault \subseteq {"save", "chmod", "import", "edit", "discard", "move"}
    /\ Platform \subseteq {"darwin", "windows"}

VARIABLES
    platform,  \* the system, chosen once
    away,      \* what was moved out of the cache, by its path there
    fs,        \* the cache: inode (0: absent) and access entries of each path
    receipt,   \* receipt.json; phase "none" when it does not exist
    cmd,       \* the command that holds the lock
    insp,      \* the inspection of the monitor
    verdict,   \* what the last inspection found
    raced,     \* history: between a check and its change, another program edited the
               \* entries of that path or moved a directory to it
    tampered,  \* history: since that inspection began the cache was discarded, a
               \* directory imported, an entry edited, or a command removed rules
    budget     \* steps taken, for the bounds

outside == <<platform, away, raced>>
vars == <<outside, fs, receipt, cmd, insp, verdict, tampered, budget>>

Absent == [inode |-> 0, acl |-> <<>>]
Present == {p \in Path : fs[p] # Absent}
\* archiveLayout accepts the cache.
Supported == Present \cap Unsupported = {}
Listed(acl) == {acl[n] : n \in 1..Len(acl)}
Entries(p) == Listed(fs[p].acl)

\* A path and everything below it.
Within(p) == IF p = Root THEN Path
             ELSE {p} \cup {a \in Artifact : WorkspaceOf[a] = p}

NoChanges == [p \in {} |-> Absent]
NoReceipt == [phase |-> "none", changes |-> NoChanges]
Idle      == [pc |-> "idle", op |-> "none", changes |-> NoChanges, todo |-> {},
              next |-> "idle", at |-> None, creates |-> FALSE]
Goto(pc)  == cmd' = [cmd EXCEPT !.pc = pc]
Resting   == [pc |-> "idle", changes |-> NoChanges, todo |-> {}]

Count(what, bound) == budget[what] < bound /\ budget' = [budget EXCEPT ![what] = @ + 1]
Fails(what) == what \in Fault /\ Count("faults", MaxFaults)

-----------------------------------------------------------------------------
(* The client, and whoever else changes the cache. *)

Make(p, acl) ==
    /\ fs[p] = Absent
    /\ Count("inodes", MaxInodes)
    /\ fs' = [fs EXCEPT ![p] = [inode |-> budget'.inodes, acl |-> acl]]

\* A new workspace inherits the rule of the root; it goes no further down.
MakeWorkspace(w) ==
    /\ fs[Root] # Absent
    /\ Make(w, IF "own" \in Entries(Root) THEN <<"inherited">> ELSE <<>>)
    /\ UNCHANGED <<outside, receipt, cmd, insp, verdict, tampered>>

\* The system refuses an artifact where either rule is present.
MakeArtifact(a) ==
    /\ fs[WorkspaceOf[a]] # Absent
    /\ Entries(WorkspaceOf[a]) \cap {"own", "inherited"} = {}
    /\ Make(a, <<>>)
    /\ UNCHANGED <<outside, receipt, cmd, insp, verdict, tampered>>

MakeRoot == Make(Root, <<>>) /\ UNCHANGED <<outside, receipt, cmd, insp, verdict, tampered>>

Erase(p) == fs' = [q \in Path |-> IF q \in Within(p) THEN Absent ELSE fs[q]]

\* The change of one of these paths is checked, but not made.
Races(paths) == raced' = (raced \/ (cmd.pc = "chmod" /\ cmd.at \in paths))

\* The exclusive handle of windowsArchiveApply: its object stays where it is.
Pinned(p) == platform = "windows" /\ cmd.at # None /\ cmd.at \in Within(p)

Remove(p) ==
    /\ p # Root /\ fs[p] # Absent /\ ~Pinned(p)
    /\ Erase(p)
    /\ UNCHANGED <<outside, receipt, cmd, insp, verdict, tampered, budget>>

\* The whole cache is removed.
Discard ==
    /\ fs[Root] # Absent /\ ~Pinned(Root)
    /\ Fails("discard")
    /\ Erase(Root)
    /\ tampered' = TRUE
    /\ UNCHANGED <<outside, receipt, cmd, insp, verdict>>

\* A directory from elsewhere is moved in: it inherits nothing.
Import(w) ==
    /\ fs[Root] # Absent /\ fs[w] = Absent
    /\ "import" \in Fault /\ budget.faults < MaxFaults /\ budget.inodes < MaxInodes
    /\ budget' = [budget EXCEPT !.faults = @ + 1, !.inodes = @ + 1]
    /\ \E acl \in {<<>>, <<"other">>} :
          fs' = [fs EXCEPT ![w] = [inode |-> budget'.inodes, acl |-> acl]]
    /\ tampered' = TRUE /\ Races({w})
    /\ UNCHANGED <<platform, away, receipt, cmd, insp, verdict>>

\* Another program adds an entry or removes the first one.
Edit(p) ==
    /\ fs[p] # Absent
    /\ Fails("edit")
    /\ \/ fs' = [fs EXCEPT ![p].acl = <<"other">> \o @]
       \/ fs[p].acl # <<>> /\ fs' = [fs EXCEPT ![p].acl = Tail(@)]
    /\ tampered' = TRUE /\ Races({p})
    /\ UNCHANGED <<platform, away, receipt, cmd, insp, verdict>>

\* A protected object is moved out of the cache, with what is below it, and
\* back to its place.  (A workspace that only inherited its rule takes it along
\* on either system, and a darwin receipt gives up what is not in its place.)
Move(p) ==
    /\ platform = "windows" /\ p # Root /\ fs[p] # Absent /\ ~Pinned(p)
    /\ \A q \in Within(p) : away[q] = Absent /\ "inherited" \notin Entries(q)
    /\ Fails("move")
    /\ away' = [q \in Path |-> IF q \in Within(p) THEN fs[q] ELSE away[q]]
    /\ Erase(p)
    /\ UNCHANGED <<platform, raced, receipt, cmd, insp, verdict, tampered>>

MoveBack(p) ==
    /\ away[p] # Absent /\ fs[p] = Absent
    /\ fs[IF p \in Workspace THEN Root ELSE WorkspaceOf[p]] # Absent
    /\ fs' = [q \in Path |-> IF q \in Within(p) THEN away[q] ELSE fs[q]]
    /\ away' = [q \in Path |-> IF q \in Within(p) THEN Absent ELSE away[q]]
    /\ tampered' = TRUE /\ Races(Within(p))
    /\ UNCHANGED <<platform, receipt, cmd, insp, verdict, budget>>

-----------------------------------------------------------------------------
(* Receipt and rules, as both commands change them. *)

\* archiveSave, and what the command does then; an error ends the command,
\* before the rename or in the directory sync after it.
SaveThen(r, next) ==
    /\ \/ receipt' = r /\ cmd' = next /\ UNCHANGED budget
       \/ Fails("save") /\ receipt' \in {receipt, r} /\ cmd' = Idle
    /\ UNCHANGED <<outside, fs, insp, verdict>>

\* What archiveLoad accepts: the root is always the first recorded change, and
\* only a preparing receipt records none.
Loadable(r) == (r.phase = "preparing") <=> (r.changes = NoChanges)

\* The entries of a recorded object with the rule: its own rule comes first, an
\* inherited one after the explicit entries.
Expected(c) == IF c.rule = "own" THEN <<"own">> \o c.before ELSE Append(c.before, "inherited")

\* Variant: any list that starts with the rule counts as installed.
StateByFirst(p, c) ==
    IF fs[p] = Absent THEN "missing"
    ELSE IF fs[p].inode # c.inode THEN "refused"
    ELSE IF c.rule \in Entries(p) THEN "installed"
    ELSE IF fs[p].acl = c.before THEN "plain" ELSE "refused"

\* archiveChangeState: the recorded object with exactly the recorded entries,
\* with or without the rule in front.
State(p, c) ==
    IF fs[p] = Absent THEN "missing"
    ELSE IF fs[p].inode # c.inode THEN "refused"
    ELSE IF fs[p].acl = Expected(c) THEN "installed"
    ELSE IF fs[p].acl = c.before THEN "plain" ELSE "refused"

Wanted == IF cmd.op = "enable" THEN "installed" ELSE "plain"

\* Variant: the command keeps its place.
DoneInPlace(p) == cmd' = [cmd EXCEPT !.pc = "check", !.todo = @ \ {p}]

Done(p) == cmd' = [cmd EXCEPT !.pc = "check", !.at = None, !.todo = @ \ {p}]

\* Variant: on either system an absent path is done, or on either an error.
AbsentIsDone(state)    == state \in {"missing", Wanted}
AbsentIsRefused(state) == state = Wanted

\* Nothing is left to do: darwin gives up an absent path, windows does not,
\* since an object that was renamed keeps its rule.
NothingToDo(state) == state = Wanted \/ (state = "missing" /\ platform = "darwin")

\* archiveApply: check, change, verify.  The root comes first, the others in
\* the order of their names, which are arbitrary.
Check ==
    /\ cmd.pc = "check"
    /\ \E p \in cmd.todo :
          /\ Root \in cmd.todo => p = Root
          /\ LET state == State(p, cmd.changes[p])
             IN  IF NothingToDo(state) THEN Done(p)
                 ELSE IF state \in {"refused", "missing"} THEN cmd' = Idle
                 ELSE cmd' = [cmd EXCEPT !.pc = "chmod", !.at = p]
    /\ UNCHANGED <<outside, fs, receipt, insp, verdict, tampered, budget>>

\* chmod +a# 0 or -a# 0: it names the path and the position, nothing else.
Chmod(p) ==
    IF cmd.op = "enable"
    THEN fs[p] # Absent /\ fs' = [fs EXCEPT ![p].acl = <<cmd.changes[p].rule>> \o @]
    ELSE fs[p].acl # <<>> /\ fs' = [fs EXCEPT ![p].acl = Tail(@)]

NoEntryToTake == fs[cmd.at].acl = <<>> /\ (fs[cmd.at] = Absent \/ cmd.op = "disable")

\* windowsArchiveSetDACL writes the whole list.
SetDACL(p) ==
    fs' = [fs EXCEPT ![p].acl = IF cmd.op = "enable" THEN Expected(cmd.changes[p])
                                ELSE cmd.changes[p].before]

\* The change succeeds, or an error is reported with or without it.
Change ==
    /\ cmd.pc = "chmod"
    /\ LET done == IF platform = "darwin" THEN Chmod(cmd.at) ELSE SetDACL(cmd.at)
       IN  \/ done /\ Goto("verify") /\ UNCHANGED budget
           \/ done /\ Fails("chmod") /\ cmd' = Idle
           \/ Fails("chmod") /\ cmd' = Idle /\ UNCHANGED fs
           \/ platform = "darwin" /\ NoEntryToTake /\ cmd' = Idle /\ UNCHANGED <<fs, budget>>
    /\ raced' = FALSE
    /\ UNCHANGED <<platform, away, receipt, insp, verdict, tampered>>

Verify ==
    /\ cmd.pc = "verify"
    /\ IF State(cmd.at, cmd.changes[cmd.at]) = Wanted THEN Done(cmd.at) ELSE cmd' = Idle
    /\ UNCHANGED <<outside, fs, receipt, insp, verdict, tampered, budget>>

CheckedAll ==
    /\ cmd.pc = "check" /\ cmd.todo = {}
    /\ Goto(cmd.next)
    /\ UNCHANGED <<outside, fs, receipt, insp, verdict, tampered, budget>>

-----------------------------------------------------------------------------
(* EnableArchiveGuard. *)

\* The plan is made before the lock.  With a receipt the command only inspects,
\* as it does when it has finished (see Inspect).
BeginEnable ==
    /\ cmd = Idle /\ receipt.phase = "none" /\ Supported
    /\ Count("enables", MaxEnables)
    /\ cmd' = [Idle EXCEPT !.pc = "prepare", !.op = "enable", !.creates = fs[Root] = Absent]
    /\ UNCHANGED <<outside, fs, receipt, insp, verdict, tampered>>

Prepare ==
    /\ cmd.pc = "prepare"
    /\ SaveThen([phase |-> "preparing", changes |-> NoChanges], [cmd EXCEPT !.pc = "mkdir"])
    /\ UNCHANGED tampered

MakeCache ==
    /\ cmd.pc = "mkdir"
    /\ \/ cmd.creates /\ Make(Root, <<>>) /\ Goto("list")
       \/ cmd.creates /\ fs[Root] # Absent /\ cmd' = Idle /\ UNCHANGED <<fs, budget>>
       \/ ~cmd.creates /\ Goto("list") /\ UNCHANGED <<fs, budget>>
    /\ UNCHANGED <<outside, receipt, insp, verdict, tampered>>

Ambiguous == IF platform = "darwin" THEN {"own", "inherited"} ELSE {"own"}

\* Layout and present entries; a rule that is there already is nobody's.  On
\* windows an inherited entry differs from the rule.
ListCache ==
    /\ cmd.pc = "list"
    /\ IF ~Supported \/ \E p \in Present : Entries(p) \cap Ambiguous # {}
       THEN cmd' = Idle
       ELSE cmd' = [cmd EXCEPT !.pc = "record", !.changes =
               [p \in Present |-> [inode |-> fs[p].inode, rule |-> "own", before |-> fs[p].acl]]]
    /\ UNCHANGED <<outside, fs, receipt, insp, verdict, tampered, budget>>

\* Every change is in the receipt before the first rule is.
Record ==
    /\ cmd.pc = "record" /\ cmd.op = "enable"
    /\ SaveThen([phase |-> "enabling", changes |-> cmd.changes],
                [cmd EXCEPT !.pc = "check", !.todo = DOMAIN cmd.changes, !.next = "finish"])
    /\ UNCHANGED tampered

FinishEnable ==
    /\ cmd.pc = "finish"
    /\ SaveThen([phase |-> "enabled", changes |-> cmd.changes], Idle)
    /\ UNCHANGED tampered

-----------------------------------------------------------------------------
(* DisableArchiveGuard. *)

\* Variant: an interrupted enable is taken for one that changed nothing yet.
BeginDisableEnabling ==
    /\ cmd = Idle /\ receipt.phase # "none" /\ Loadable(receipt)
    /\ cmd' = [Idle EXCEPT !.op = "disable", !.changes = receipt.changes,
                  !.pc = IF receipt.phase \in {"preparing", "enabling"} THEN "remove" ELSE "disabling"]
    /\ tampered' = TRUE
    /\ UNCHANGED <<outside, fs, receipt, insp, verdict, budget>>

BeginDisable ==
    /\ cmd = Idle /\ receipt.phase # "none" /\ Loadable(receipt)
    /\ cmd' = [Idle EXCEPT !.op = "disable", !.changes = receipt.changes,
                           !.pc = IF receipt.phase = "preparing" THEN "remove" ELSE "disabling"]
    /\ tampered' = TRUE
    /\ UNCHANGED <<outside, fs, receipt, insp, verdict, budget>>

\* The rule of the root goes first, so that no further workspace inherits it.
SaveDisabling ==
    /\ cmd.pc = "disabling"
    /\ SaveThen([phase |-> "disabling", changes |-> cmd.changes],
                [cmd EXCEPT !.pc = "check", !.todo = {Root}, !.next = "sweep"])
    /\ UNCHANGED tampered

\* An inherited entry comes after the explicit ones.
Explicit(acl) == SubSeq(acl, 1, Len(acl) - 1)

\* The change of a workspace that inherited the rule: darwin accepts no other
\* entry, windows keeps the others, in their order.
InheritedChange(w) ==
    [inode |-> fs[w].inode, rule |-> "inherited",
     before |-> IF platform = "darwin" THEN <<>> ELSE Explicit(fs[w].acl)]
HasInherited(w) == "inherited" \in Entries(w)
\* The rule is there twice, or not where the system puts it.
Unclear(w) ==
    HasInherited(w) /\ ("inherited" \in Listed(InheritedChange(w).before)
                         \/ State(w, InheritedChange(w)) # "installed")

\* Workspaces that inherited the rule are added; darwin retires absent paths.
Sweep ==
    /\ cmd.pc = "sweep"
    /\ LET known == {p \in DOMAIN cmd.changes :
                        p = Root \/ fs[p] # Absent \/ platform = "windows"}
           new   == {w \in Workspace \ known : HasInherited(w)}
       IN  IF \E w \in new : Unclear(w)
           THEN cmd' = Idle
           ELSE cmd' = [cmd EXCEPT !.pc = "record", !.changes =
                   [p \in known \cup new |->
                       IF p \in known THEN cmd.changes[p] ELSE InheritedChange(p)]]
    /\ UNCHANGED <<outside, fs, receipt, insp, verdict, tampered, budget>>

RecordSweep ==
    /\ cmd.pc = "record" /\ cmd.op = "disable"
    /\ SaveThen([phase |-> "disabling", changes |-> cmd.changes],
                [cmd EXCEPT !.pc = "check", !.todo = DOMAIN cmd.changes \ {Root}, !.next = "remove"])
    /\ UNCHANGED tampered

\* Only now the receipt is removed.
RemoveReceipt ==
    /\ cmd.pc = "remove"
    /\ SaveThen(NoReceipt, Idle)
    /\ UNCHANGED tampered

\* The command is killed; its lock is freed.
Kill ==
    /\ cmd # Idle
    /\ Count("kills", MaxKills)
    /\ cmd' = Idle /\ raced' = FALSE
    /\ UNCHANGED <<platform, away, fs, receipt, insp, verdict, tampered>>

-----------------------------------------------------------------------------
(* archiveInspect, which takes no lock. *)

InspectLoad ==
    /\ insp = Resting /\ receipt.phase = "enabled" /\ Loadable(receipt)
    /\ insp' = [pc |-> "list", changes |-> receipt.changes, todo |-> {}]
    /\ verdict' = "none"
    /\ tampered' = (cmd # Idle)
    /\ UNCHANGED <<outside, fs, receipt, cmd, budget>>

\* Variant: a workspace that the receipt does not name is not looked at.
InspectListKnown ==
    /\ insp.pc = "list"
    /\ insp' = IF fs[Root] = Absent \/ ~Supported \/ (Present \cap Artifact) \ DOMAIN insp.changes # {}
               THEN Resting
               ELSE [insp EXCEPT !.pc = "node", !.todo = Present \cap DOMAIN insp.changes]
    /\ UNCHANGED <<outside, fs, receipt, cmd, verdict, tampered, budget>>

\* An unknown artifact is refused; an unknown workspace must have inherited.
InspectList ==
    /\ insp.pc = "list"
    /\ insp' = IF fs[Root] = Absent \/ ~Supported \/ (Present \cap Artifact) \ DOMAIN insp.changes # {}
               THEN Resting
               ELSE [pc |-> "node", todo |-> Present, changes |->
                        [p \in Present |-> IF p \in DOMAIN insp.changes
                                           THEN insp.changes[p] ELSE InheritedChange(p)]]
    /\ UNCHANGED <<outside, fs, receipt, cmd, verdict, tampered, budget>>

\* Windows reads identity and entries of a workspace at once.
InspectNode ==
    /\ insp.pc = "node"
    /\ \E p \in insp.todo :
          IF State(p, IF platform = "windows" /\ insp.changes[p].rule = "inherited"
                      THEN InheritedChange(p) ELSE insp.changes[p]) # "installed"
          THEN insp' = Resting /\ UNCHANGED verdict
          ELSE IF insp.todo = {p}
               THEN insp' = Resting /\ verdict' = "healthy"
               ELSE insp' = [insp EXCEPT !.todo = @ \ {p}] /\ UNCHANGED verdict
    /\ UNCHANGED <<outside, fs, receipt, cmd, tampered, budget>>

-----------------------------------------------------------------------------
Init ==
    /\ platform \in Platform /\ away = [p \in Path |-> Absent] /\ raced = FALSE
    /\ fs = [p \in Path |-> Absent] /\ receipt = NoReceipt
    /\ cmd = Idle /\ insp = Resting /\ verdict = "none" /\ tampered = FALSE
    /\ budget = [inodes |-> 0, enables |-> 0, faults |-> 0, kills |-> 0]

Environment == MakeRoot \/ Discard \/ (\E a \in Artifact : MakeArtifact(a))
               \/ (\E w \in Workspace : MakeWorkspace(w) \/ Import(w))
               \/ \E p \in Path : Remove(p) \/ Edit(p) \/ Move(p) \/ MoveBack(p)
Enable  == BeginEnable \/ Prepare \/ MakeCache \/ ListCache \/ Record \/ FinishEnable
Disable == BeginDisable \/ SaveDisabling \/ Sweep \/ RecordSweep \/ RemoveReceipt
Apply   == Check \/ Change \/ Verify \/ CheckedAll
Inspect == InspectLoad \/ InspectList \/ InspectNode

Next == Environment \/ Enable \/ Disable \/ Apply \/ Kill \/ Inspect

Spec == Init /\ [][Next]_vars

\* A command that runs goes on; a user who is told that recovery is needed
\* runs disable.
Running  == cmd # Idle /\ (Enable \/ Disable \/ Apply)
Recover  == receipt.phase # "enabled" /\ BeginDisable
Fairness == WF_vars(Running) /\ WF_vars(Recover)

LiveSpec == Spec /\ Fairness
-----------------------------------------------------------------------------
(* Properties. *)

Acl == Seq({"own", "inherited", "other"})
AreChanges(f) ==
    /\ DOMAIN f \subseteq Path
    /\ \A p \in DOMAIN f : f[p] \in [inode : 1..MaxInodes, rule : {"own", "inherited"}, before : Acl]
Phase == {"preparing", "enabling", "enabled", "disabling"}

\* Type correctness; a recorded receipt names its phase.
TypeOK ==
    /\ platform \in Platform
    /\ {fs, away} \subseteq [Path -> [inode : 0..MaxInodes, acl : Acl]]
    /\ receipt.phase \in Phase \cup {"none"} /\ AreChanges(receipt.changes)
    /\ cmd.pc \in {"idle", "prepare", "mkdir", "list", "record", "check", "chmod", "verify",
                   "finish", "disabling", "sweep", "remove"}
    /\ cmd.op \in {"none", "enable", "disable"} /\ AreChanges(cmd.changes)
    /\ cmd.todo \subseteq DOMAIN cmd.changes /\ cmd.at \in cmd.todo \cup {None}
    /\ cmd.next \in {"idle", "finish", "sweep", "remove"} /\ cmd.creates \in BOOLEAN
    /\ insp.pc \in {"idle", "list", "node"} /\ AreChanges(insp.changes)
    /\ insp.todo \subseteq DOMAIN insp.changes
    /\ verdict \in {"none", "healthy"} /\ tampered \in BOOLEAN /\ raced \in BOOLEAN
    /\ budget \in [inodes : 0..MaxInodes, enables : 0..MaxEnables,
                   faults : 0..MaxFaults, kills : 0..MaxKills]

\* Every rule in the cache is accounted for by the receipt, at whatever step a
\* command was killed or failed: the guard's own entries by path, the inherited
\* ones by the presence of a receipt.  So a cache without receipt has no rule.
Accounted ==
    \A p \in Present :
        /\ "own" \in Entries(p) => p \in DOMAIN receipt.changes
        /\ "inherited" \in Entries(p) => receipt.phase # "none"

\* The entries of somebody else are alike here: their number tells which are there.
Others(acl) == Cardinality({n \in 1..Len(acl) : acl[n] = "other"})

TouchesOthers(p) == fs'[p].inode = fs[p].inode /\ Others(fs'[p].acl) # Others(fs[p].acl)

\* A command takes an entry of somebody else, or adds one, only where the list of
\* the path in hand was edited, or a directory moved to it, after the check, since
\* the change names a path and a position: no list that differs from the recorded
\* one passes the check, at whatever time it came to differ, and what the client
\* makes between check and change is not taken for the recorded directory.
OthersKeptUnlessRaced ==
    [][cmd' # cmd => \A p \in Path : TouchesOthers(p) => p = cmd.at /\ raced]_vars

\* A healthy verdict lasts: unless the cache was discarded, a directory
\* imported, an entry edited or a disable begun since the inspection started,
\* every directory is guarded, those the client made since then included.
HealthyMeansGuarded ==
    verdict = "healthy" /\ ~tampered =>
        \A p \in Present : Entries(p) \cap {"own", "inherited"} # {}

\* The receipt that a command leaves behind can be loaded again, so that
\* disable is able to recover from whatever interrupted it.
ReceiptIsUsable == receipt.phase # "none" => Loadable(receipt)

\* Something that the guard refuses to touch: a replaced directory or a list of
\* entries that is neither as recorded nor as left behind; on windows also an
\* absent directory.
Disturbed ==
    \/ \E p \in DOMAIN receipt.changes :
          \/ State(p, receipt.changes[p]) = "refused"
          \/ State(p, receipt.changes[p]) = "missing" /\ platform = "windows"
    \/ \E w \in Workspace : Unclear(w)

\* A protected object that was moved out of the cache keeps its rule; the
\* receipt keeps the object's identity for as long (windows).
MovedStaysRecorded ==
    \A p \in Path : "own" \in Listed(away[p].acl) =>
        p \in DOMAIN receipt.changes /\ receipt.changes[p].inode = away[p].inode

\* An interrupted change is recovered by repeated disable commands, unless
\* there is something that the guard refuses to touch, or the receipt cannot be
\* loaded (ReceiptIsUsable says when that is).
InterruptedIsRecovered ==
    cmd = Idle /\ receipt.phase \in Phase \ {"enabled"} ~>
        receipt.phase = "none" \/ Disturbed \/ ~Loadable(receipt)
=============================================================================
