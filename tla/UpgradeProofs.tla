--------------------------- MODULE UpgradeProofs ---------------------------
(***************************************************************************)
(* Theorems of the update on macOS, for every set of payloads and every     *)
(* bound: the journal that an error, a kill or a power loss leaves passes   *)
(* the inspection of the next command, and a runtime that was never seen    *)
(* working does not stay without the journal that leads back.               *)
(*                                                                         *)
(* Neither is inductive.  A power loss may bring back any earlier state of  *)
(* the directory, so what holds of the directory must hold of every one of  *)
(* these states (Sound, Ready), while the contents of the directories that  *)
(* they name change underneath; and each step of the command relies on what *)
(* it has established before (Phase).                                       *)
(***************************************************************************)
EXTENDS Upgrade, TLAPS

USE BoundAssumption, NoneAssumption
-----------------------------------------------------------------------------
(* The inductive invariant. *)

Journals == [stage : Number \ {0}, old : Version, new : Version, owned : BOOLEAN]
Whole    == Version \cup {"edited"}
Pcs      == {"idle", "reinstall", "stage", "copy", "publish", "stop", "wait", "check", "swap",
             "start", "health", "clear", "remove", "sync", "cleanup", "rollback"}
Commands == [pc : Pcs, target : Version \cup {None}, old : Version \cup {None}, stage : Number,
             back : BOOLEAN, again : BOOLEAN]

Types ==
    /\ dir \in Directory /\ past \subseteq Directory
    /\ content \in [Number -> Content] /\ cmd \in Commands
    /\ service \in {"none", "owned", "edited"} /\ registered \in BOOLEAN
    /\ monitor \in Whole \cup {None} /\ proven \subseteq Whole
    /\ budget \in [updates : Number, faults : 0..MaxFaults, kills : 0..MaxKills]

\* Directories that no update has used yet are empty.
Unused == \A k \in Number : k > budget.updates => content[k] = "partial"

\* A state of the directory: each entry is the one of an update that began, and
\* another directory that an update has used; there is a runtime, and a backup if there is a journal.
Sound(d) ==
    /\ \A i \in Number : d.at[i] # None => i <= budget.updates /\ d.at[i] <= budget.updates
    /\ \A i, j \in Number : d.at[i] = d.at[j] /\ d.at[i] # None => i = j
    /\ d.at[0] # None /\ content[d.at[0]] \in Whole
    /\ d.journal # NoJournal => d.at[d.journal.stage] # None /\ content[d.at[d.journal.stage]] \in Whole

\* The way back: a journal says what runtime and backup are, the old version has
\* run, and without a journal the runtime has.
Pair(d) == <<content[d.at[0]], content[d.at[d.journal.stage]]>>
Ready(d) ==
    IF d.journal = NoJournal
    THEN service = "owned" => content[d.at[0]] \in proven
    ELSE /\ Pair(d) \in {<<d.journal.old, d.journal.new>>, <<d.journal.new, d.journal.old>>}
         /\ service = "owned" => d.journal.old \in proven

States == {dir} \cup past

\* What a command has established at its steps.
Before == {"reinstall", "stage", "copy", "publish"}
Within == {"rollback", "stop", "wait", "check", "swap", "start", "health", "clear", "remove"}
After  == {"sync", "cleanup"}
Journalled ==
    /\ cmd.pc \in Before \cup After => ~Pending
    /\ cmd.pc \in Within => Pending
    /\ cmd.pc # "idle" => cmd.target \in Version
Staged ==
    /\ cmd.pc \in {"copy", "publish"} =>
          /\ cmd.stage \in 1..budget.updates /\ dir.at[cmd.stage] = cmd.stage
          /\ cmd.old \in Version /\ (~Disturbed => content[dir.at[0]] = cmd.old)
    /\ cmd.pc = "copy" => /\ content[cmd.stage] = "partial"
                          /\ \A d \in past : \A i \in Number : d.at[i] # cmd.stage
    /\ cmd.pc = "publish" => content[cmd.stage] = cmd.target
Stopped ==
    /\ cmd.pc \in {"check", "swap", "start"} => service = "none" \/ registered \/ monitor = None
    /\ cmd.pc = "health" /\ ~Disturbed => monitor \in {None, content[dir.at[0]]}
    /\ cmd.pc \in {"clear", "remove"} /\ service = "owned" /\ ~Disturbed => content[dir.at[0]] \in proven
Removing ==
    /\ cmd.pc = "remove" => Inspected
    /\ cmd.pc \in After =>
          /\ cmd.stage # 0 /\ dir.at[cmd.stage] # None
          /\ content[dir.at[cmd.stage]] \in Version /\ content[dir.at[0]] \in Version
    /\ cmd.pc = "cleanup" => past = {}

Phase == Journalled /\ Staged /\ Stopped /\ Removing

Good(d) == Sound(d) /\ (~Disturbed => Ready(d))
Layout == Unused /\ \A d \in States : Good(d)

IInv == Types /\ Layout /\ Phase

-----------------------------------------------------------------------------
(* Lemmas. *)

\* What the marks of a directory and the payloads are not.
LEMMA Apart ==
    /\ None \notin Whole /\ None \notin Number /\ "absent" \notin Whole /\ "partial" \notin Whole
    /\ NoJournal \notin Journals /\ 0 \in Number /\ \A n \in Number : n \in Nat
BY DEF Whole, Number, NoJournal, Journals

\* The parts of a state of the directory.
LEMMA DirectoryParts ==
    ASSUME NEW d \in Directory
    PROVE  /\ \A i \in Number : d.at[i] \in Number \cup {None}
           /\ d.at \in [Number -> Number \cup {None}]
           /\ d.journal # NoJournal => /\ d.journal \in Journals /\ d.journal.stage \in Number \ {0}
                                       /\ d.journal.old \in Version /\ d.journal.new \in Version
                                       /\ d.journal.owned \in BOOLEAN
BY DEF Directory, Journals

\* What the runtime holds, and what the inspection of the journal compares.
LEMMA InstalledIs ==
    ASSUME Types, Sound(dir)
    PROVE  /\ dir.at[0] \in Number /\ Installed = content[dir.at[0]] /\ Installed \in Whole
           /\ Pending => /\ dir.at[dir.journal.stage] \in Number
                         /\ At(dir, dir.journal.stage) = content[dir.at[dir.journal.stage]]
                         /\ dir.at[dir.journal.stage] # dir.at[0]
<1>1. dir \in Directory
  BY DEF Types
<1>2. dir.at[0] \in Number
  BY <1>1, DirectoryParts, Apart DEF Sound
<1>3. Installed = content[dir.at[0]] /\ Installed \in Whole
  BY <1>2, Apart DEF Installed, At, Sound
<1>4. ASSUME Pending
      PROVE  /\ dir.at[dir.journal.stage] \in Number
             /\ At(dir, dir.journal.stage) = content[dir.at[dir.journal.stage]]
             /\ dir.at[dir.journal.stage] # dir.at[0]
  <2>1. dir.journal # NoJournal /\ dir.journal.stage \in Number \ {0}
    BY <1>1, <1>4, DirectoryParts DEF Pending
  <2>2. dir.at[dir.journal.stage] # None
    BY <2>1 DEF Sound
  <2>3. dir.at[dir.journal.stage] \in Number
    BY <1>1, <2>1, <2>2, DirectoryParts
  <2>4. dir.at[dir.journal.stage] # dir.at[0]
    BY <2>1, <2>2, Apart DEF Sound
  <2> QED BY <2>2, <2>3, <2>4 DEF At
<1> QED BY <1>2, <1>3, <1>4

\* A journal that fits passes the inspection.
LEMMA ReadyInspected ==
    ASSUME Types, Sound(dir), Ready(dir), Pending
    PROVE  Inspected
<1>1. /\ Installed = content[dir.at[0]]
      /\ At(dir, dir.journal.stage) = content[dir.at[dir.journal.stage]]
  BY InstalledIs
<1>2. dir.journal.old \in Version /\ dir.journal.new \in Version /\ dir.journal # NoJournal
  BY DirectoryParts DEF Types, Pending
<1>3. Pair(dir) \in {<<dir.journal.old, dir.journal.new>>, <<dir.journal.new, dir.journal.old>>}
  BY <1>2 DEF Ready
<1>4. \/ Installed = dir.journal.old /\ At(dir, dir.journal.stage) = dir.journal.new
      \/ Installed = dir.journal.new /\ At(dir, dir.journal.stage) = dir.journal.old
  BY <1>1, <1>3 DEF Pair
<1>5. Installed \in Version /\ At(dir, dir.journal.stage) \in Version
  BY <1>2, <1>4
<1>6. <<Installed, At(dir, dir.journal.stage)>> \in
          {<<dir.journal.old, dir.journal.new>>, <<dir.journal.new, dir.journal.old>>}
  BY <1>4
<1>7. {Installed, At(dir, dir.journal.stage)} \subseteq Version
  BY ONLY <1>5
<1> QED BY <1>6, <1>7 DEF Inspected

\* What a state of the directory needs of what lies in it.
LEMMA KeepsGood ==
    ASSUME Types, NEW d \in Directory, Good(d),
           content'[d.at[0]] = content[d.at[0]],
           d.journal # NoJournal => content'[d.at[d.journal.stage]] = content[d.at[d.journal.stage]],
           budget.updates <= budget'.updates, budget'.updates \in Nat,
           service' \in {service, "edited"}, proven \subseteq proven', Disturbed => Disturbed'
    PROVE  Good(d)'
<1>1. Sound(d)'
  <2>1. \A i \in Number : d.at[i] # None => i <= budget'.updates /\ d.at[i] <= budget'.updates
    <3>1. \A i \in Number : d.at[i] # None => /\ i <= budget.updates /\ i \in Nat
                                             /\ d.at[i] <= budget.updates /\ d.at[i] \in Nat
      BY DirectoryParts DEF Good, Sound, Number
    <3>2. budget.updates \in Nat
      BY DEF Types, Number
    <3> QED BY <3>1, <3>2
  <2> QED BY <2>1 DEF Good, Sound
<1>2. ASSUME ~Disturbed', Ready(d) PROVE Ready(d)'
  <2>1. service' = service
    BY <1>2 DEF Disturbed
  <2>2. CASE d.journal = NoJournal
    BY <1>2, <2>1, <2>2 DEF Ready
  <2>3. CASE d.journal # NoJournal
    BY <1>2, <2>1, <2>3 DEF Ready, Pair
  <2> QED BY <2>2, <2>3
<1> QED BY <1>1, <1>2 DEF Good

\* A step of the command that leaves the state directory alone.
LEMMA QuietLayout ==
    ASSUME IInv, dir' = dir, past' = past, content' = content,
           budget'.updates = budget.updates, service' \in {service, "edited"}, proven \subseteq proven'
    PROVE  Layout' /\ (Disturbed => Disturbed') /\ (Pending <=> Pending') /\ (Inspected <=> Inspected')
           /\ Installed' = Installed
<1>1. Disturbed => Disturbed'
  BY DEF Disturbed
<1>2. budget.updates \in Nat
  BY DEF IInv, Types, Number
<1>3. ASSUME NEW d \in States' PROVE Good(d)'
  <2>1. d \in States /\ d \in Directory
    BY DEF States, IInv, Types
  <2> QED BY <1>1, <1>2, <2>1, KeepsGood DEF IInv, Layout
<1>4. Unused'
  BY DEF IInv, Layout, Unused
<1>5. /\ Pending <=> Pending'
      /\ Inspected <=> Inspected'
      /\ Installed' = Installed
  BY DEF Pending, Inspected, Installed, At
<1> QED BY <1>1, <1>3, <1>4, <1>5 DEF Layout

-----------------------------------------------------------------------------
(* The command. *)

\* A process without a command.
LEMMA IdleIs == Idle \in Commands /\ Idle.pc = "idle"
BY Apart DEF Idle, Commands, Pcs

\* The next step of a command.
LEMMA GotoIs ==
    ASSUME cmd \in Commands, NEW pc \in Pcs, Goto(pc)
    PROVE  /\ cmd' \in Commands /\ cmd'.pc = pc /\ cmd'.target = cmd.target /\ cmd'.old = cmd.old
           /\ cmd'.stage = cmd.stage /\ cmd'.back = cmd.back /\ cmd'.again = cmd.again
BY DEF Goto, Commands

\* Several fields of a command, one after the other.
PcBack(c, pc, b)        == [[c EXCEPT !.pc = pc] EXCEPT !.back = b]
PcStage(c, pc, k)       == [[c EXCEPT !.pc = pc] EXCEPT !.stage = k]
PcStageOld(c, pc, k, w) == [PcStage(c, pc, k) EXCEPT !.old = w]
Fresh(v, pc)            == [[Idle EXCEPT !.target = v] EXCEPT !.pc = pc]
Recovery(v)             == [PcBack([Idle EXCEPT !.target = v], "rollback", TRUE) EXCEPT !.again = TRUE]

\* The fields of a command that changes its step and its direction.
LEMMA PcBackIs ==
    ASSUME NEW c \in Commands, NEW pc \in Pcs, NEW b \in BOOLEAN
    PROVE  PcBack(c, pc, b) \in Commands /\ PcBack(c, pc, b).pc = pc /\ PcBack(c, pc, b).target = c.target
<1> DEFINE d == [c EXCEPT !.pc = pc]
<1>1. d \in Commands /\ d.pc = pc /\ d.target = c.target
  BY DEF Commands
<1>2. PcBack(c, pc, b) = [d EXCEPT !.back = b]
  BY DEF PcBack
<1> HIDE DEF d
<1> QED BY <1>1, <1>2 DEF Commands

\* Its step and its stage.
LEMMA PcStageIs ==
    ASSUME NEW c \in Commands, NEW pc \in Pcs, NEW k \in Number
    PROVE  /\ PcStage(c, pc, k) \in Commands /\ PcStage(c, pc, k).pc = pc
           /\ PcStage(c, pc, k).target = c.target /\ PcStage(c, pc, k).stage = k
<1> DEFINE d == [c EXCEPT !.pc = pc]
<1>1. d \in Commands /\ d.pc = pc /\ d.target = c.target
  BY DEF Commands
<1>2. PcStage(c, pc, k) = [d EXCEPT !.stage = k]
  BY DEF PcStage
<1> HIDE DEF d
<1> QED BY <1>1, <1>2 DEF Commands

\* Its step, its stage and the version it found.
LEMMA PcStageOldIs ==
    ASSUME NEW c \in Commands, NEW pc \in Pcs, NEW k \in Number, NEW w \in Version
    PROVE  /\ PcStageOld(c, pc, k, w) \in Commands /\ PcStageOld(c, pc, k, w).pc = pc
           /\ PcStageOld(c, pc, k, w).target = c.target /\ PcStageOld(c, pc, k, w).stage = k
           /\ PcStageOld(c, pc, k, w).old = w
<1> DEFINE d == PcStage(c, pc, k)
<1>1. d \in Commands /\ d.pc = pc /\ d.target = c.target /\ d.stage = k
  BY PcStageIs
<1>2. PcStageOld(c, pc, k, w) = [d EXCEPT !.old = w]
  BY DEF PcStageOld
<1> HIDE DEF d
<1> QED BY <1>1, <1>2 DEF Commands

\* A new command.
LEMMA FreshIs ==
    ASSUME NEW v \in Version, NEW pc \in Pcs
    PROVE  Fresh(v, pc) \in Commands /\ Fresh(v, pc).pc = pc /\ Fresh(v, pc).target = v
<1> DEFINE d == [Idle EXCEPT !.target = v]
<1>1. d \in Commands /\ d.target = v
  BY IdleIs DEF Commands
<1>2. Fresh(v, pc) = [d EXCEPT !.pc = pc]
  BY DEF Fresh
<1> HIDE DEF d
<1> QED BY <1>1, <1>2 DEF Commands

\* A new command that recovers first.
LEMMA RecoveryIs ==
    ASSUME NEW v \in Version
    PROVE  Recovery(v) \in Commands /\ Recovery(v).pc = "rollback" /\ Recovery(v).target = v
<1> DEFINE d == [Idle EXCEPT !.target = v]
           e == PcBack(d, "rollback", TRUE)
<1>1. d \in Commands /\ d.target = v
  BY IdleIs DEF Commands
<1>2. Recovery(v) = [e EXCEPT !.again = TRUE]
  BY DEF Recovery
<1>3. "rollback" \in Pcs /\ TRUE \in BOOLEAN
  BY DEF Pcs
<1> HIDE DEF d
<1>4. e \in Commands /\ e.pc = "rollback" /\ e.target = v
  BY <1>1, <1>3, PcBackIs
<1> HIDE DEF e
<1> QED BY <1>2, <1>4 DEF Commands

\* What an error makes of the command.
LEMMA FailIs ==
    ASSUME cmd \in Commands, Fail
    PROVE  /\ cmd' \in Commands
           /\ \/ cmd'.pc = "idle"
              \/ cmd'.pc = "rollback" /\ cmd'.target = cmd.target /\ cmd.pc \notin {"copy", "publish"}
<1>1. CASE cmd' = Idle
  BY <1>1, IdleIs
<1>2. CASE cmd.pc \notin {"copy", "publish"} /\ cmd' = [cmd EXCEPT !.pc = "rollback", !.back = TRUE]
  <2>1. "rollback" \in Pcs
    BY DEF Pcs
  <2>2. cmd' = PcBack(cmd, "rollback", TRUE)
    BY <1>2, Zenon DEF PcBack
  <2>3. cmd' \in Commands /\ cmd'.pc = "rollback" /\ cmd'.target = cmd.target
    BY <2>1, <2>2, PcBackIs
  <2> QED BY <1>2, <2>3
<1> QED BY <1>1, <1>2 DEF Fail

\* A new plan.
LEMMA PlanIs ==
    ASSUME NEW v \in Version
    PROVE  Plan(v) \in Commands /\ Plan(v).pc \in {"reinstall", "stage"} /\ Plan(v).target = v
<1> DEFINE pc == IF Installed = v THEN "reinstall" ELSE "stage"
<1>1. pc \in Pcs /\ pc \in {"reinstall", "stage"}
  BY DEF Pcs
<1>2. Plan(v) = Fresh(v, pc)
  BY Zenon DEF Plan, Fresh
<1> HIDE DEF pc
<1> QED BY <1>1, <1>2, FreshIs

\* The steps that rely only on there being a journal or none.
LEMMA EasyPhase ==
    ASSUME cmd' \in Commands,
           cmd'.pc \in {"idle", "reinstall", "stage", "rollback", "stop", "wait"},
           cmd'.pc # "idle" => cmd'.target \in Version,
           cmd'.pc \in {"reinstall", "stage"} => ~Pending',
           cmd'.pc \in {"rollback", "stop", "wait"} => Pending'
    PROVE  Phase'
BY DEF Phase, Journalled, Staged, Stopped, Removing, Before, Within, After

\* No command.
LEMMA EndedPhase ==
    ASSUME cmd' = Idle
    PROVE  cmd' \in Commands /\ Phase'
<1>1. cmd' \in Commands /\ cmd'.pc = "idle"
  BY IdleIs
<1> QED BY <1>1, EasyPhase

\* An error before the journal, and with it.
LEMMA FailedPhase ==
    ASSUME cmd \in Commands, Journalled, Fail, cmd.pc \in Within => Pending',
           cmd.pc \in {"copy", "publish"} \cup Within
    PROVE  cmd' \in Commands /\ Phase'
<1>1. cmd' \in Commands
  BY FailIs
<1>2. CASE cmd'.pc = "idle"
  BY <1>1, <1>2, EasyPhase
<1>3. CASE cmd'.pc = "rollback" /\ cmd'.target = cmd.target /\ cmd.pc \notin {"copy", "publish"}
  <2>1. cmd'.target \in Version
    BY <1>3 DEF Journalled, Within
  <2>2. Pending'
    BY <1>3
  <2> QED BY <1>1, <1>3, <2>1, <2>2, EasyPhase
<1> QED BY <1>2, <1>3, FailIs

\* The bounds of what is counted.
LEMMA FailsIs ==
    ASSUME Types, NEW f, Fails(f)
    PROVE  budget'.updates = budget.updates /\ budget' \in [updates : Number, faults : 0..MaxFaults, kills : 0..MaxKills]
BY DEF Types, Fails, Count

\* A kill is counted, and nothing else.
LEMMA KillsIs ==
    ASSUME Types, Count("kills", MaxKills)
    PROVE  budget'.updates = budget.updates /\ budget' \in [updates : Number, faults : 0..MaxFaults, kills : 0..MaxKills]
BY DEF Types, Count

\* The bounds, as a type.
Budgets == [updates : Number, faults : 0..MaxFaults, kills : 0..MaxKills]

\* A step that leaves the state directory alone, in one go.
LEMMA QuietStep ==
    ASSUME IInv, dir' = dir, past' = past, content' = content,
           budget'.updates = budget.updates, budget' \in Budgets,
           service' \in {service, "edited"}, registered' \in BOOLEAN, monitor' \in Whole \cup {None},
           proven \subseteq proven', proven' \subseteq Whole,
           cmd' \in Commands, Phase'
    PROVE  IInv'
<1>1. Types'
  BY DEF IInv, Types, Budgets
<1> QED BY <1>1, QuietLayout DEF IInv

\* The monitor, while the command does not move.
LEMMA KeepsPhase ==
    ASSUME IInv, dir' = dir, past' = past, content' = content, cmd' = cmd,
           budget' .updates = budget.updates, service' \in {service, "edited"}, proven' = proven,
           Stopped'
    PROVE  Phase'
<1>1. (Disturbed => Disturbed') /\ (Pending <=> Pending') /\ (Inspected <=> Inspected')
  BY QuietLayout
<1>2. Journalled'
  BY <1>1 DEF IInv, Phase, Journalled
<1>3. Staged'
  BY <1>1 DEF IInv, Phase, Staged
<1>4. Removing'
  BY <1>1 DEF IInv, Phase, Removing
<1> QED BY <1>2, <1>3, <1>4 DEF Phase

-----------------------------------------------------------------------------
(* Steps that leave the state directory alone. *)

\* The command starts an update.
LEMMA BeginStep ==
    ASSUME IInv, NEW v \in Version, Begin(v)
    PROVE  IInv'
<1>1. UNCHANGED <<dir, past, content, service, registered, monitor, proven, budget>>
  BY DEF Begin, launchd
<1>2. Pending <=> Pending'
  BY <1>1, QuietLayout DEF IInv
<1>3. cmd' \in Commands /\ Phase'
  <2>1. CASE Pending
    <3>1. cmd' = Recovery(v)
      BY <2>1, Zenon DEF Begin, Recovery, PcBack
    <3>2. cmd' \in Commands /\ cmd'.pc = "rollback" /\ cmd'.target = v
      BY <3>1, RecoveryIs
    <3> QED BY <1>2, <2>1, <3>2, EasyPhase
  <2>2. CASE ~Pending
    <3>1. cmd' = Plan(v)
      BY <2>2 DEF Begin
    <3>2. cmd' \in Commands /\ cmd'.pc \in {"reinstall", "stage"} /\ cmd'.target = v
      BY <3>1, PlanIs
    <3> QED BY <1>2, <2>2, <3>2, EasyPhase
  <2> QED BY <2>1, <2>2
<1> QED BY <1>1, <1>3, QuietStep DEF IInv, Types, Budgets

\* The same version again: only the service is registered.
LEMMA ReinstallStep ==
    ASSUME IInv, Reinstall
    PROVE  IInv'
<1>1. UNCHANGED <<dir, past, content, service, monitor, proven>> /\ cmd' = Idle
  BY DEF Reinstall
<1>2. registered' \in BOOLEAN /\ budget' \in Budgets /\ budget'.updates = budget.updates
  BY FailsIs DEF Reinstall, IInv, Types, Budgets
<1> QED BY <1>1, <1>2, EndedPhase, QuietStep DEF IInv, Types

\* The service is stopped, or the stop fails.
LEMMA StopStep ==
    ASSUME IInv, Stop
    PROVE  IInv'
<1>1. UNCHANGED <<dir, past, content, service, monitor, proven>> /\ cmd.pc = "stop"
  BY DEF Stop
<1>2. registered' \in BOOLEAN /\ budget' \in Budgets /\ budget'.updates = budget.updates
  BY FailsIs DEF Stop, IInv, Types, Budgets
<1>3. cmd \in Commands /\ Journalled /\ (Pending <=> Pending') /\ Pending /\ cmd.target \in Version
  BY <1>1, <1>2, QuietLayout DEF IInv, Types, Phase, Journalled, Within
<1>4. CASE Fail
  BY <1>1, <1>2, <1>3, <1>4, FailedPhase, QuietStep DEF IInv, Types, Within
<1>5. CASE Goto("wait")
  <2>1. cmd' \in Commands /\ cmd'.pc = "wait" /\ cmd'.target \in Version
    BY <1>3, <1>5, GotoIs DEF Pcs
  <2>2. Phase'
    BY <1>3, <2>1, EasyPhase
  <2> QED BY <1>1, <1>2, <2>1, <2>2, QuietStep DEF IInv, Types
<1>6. CASE Goto("check") /\ service = "none"
  <2>1. cmd' \in Commands /\ cmd'.pc = "check" /\ cmd'.target \in Version
    BY <1>3, <1>6, GotoIs DEF Pcs
  <2>2. Phase'
    BY <1>1, <1>3, <1>6, <2>1 DEF Phase, Journalled, Staged, Stopped, Removing, Before, Within, After
  <2> QED BY <1>1, <1>2, <2>1, <2>2, QuietStep DEF IInv, Types
<1> QED BY <1>4, <1>5, <1>6 DEF Stop

\* A command goes on while the journal is there.
LEMMA WithinPhase ==
    ASSUME cmd \in Commands, Journalled, cmd.pc \in Within, Pending',
           NEW pc \in Within, Goto(pc), Stopped', pc = "remove" => Inspected'
    PROVE  cmd' \in Commands /\ Phase'
<1>1. cmd' \in Commands /\ cmd'.pc = pc /\ cmd'.target = cmd.target
  BY GotoIs DEF Pcs, Within
<1>2. cmd.target \in Version
  BY DEF Journalled, Within
<1> QED BY <1>1, <1>2 DEF Phase, Journalled, Staged, Removing, Before, Within, After

\* The wait for the monitor to go.
LEMMA WaitStep ==
    ASSUME IInv, Wait
    PROVE  IInv'
<1>1. UNCHANGED <<dir, past, content, service, registered, monitor, proven>> /\ cmd.pc = "wait"
  BY DEF Wait, launchd
<1>2. budget' \in Budgets /\ budget'.updates = budget.updates
  BY FailsIs DEF Wait, IInv, Types, Budgets
<1>3. cmd \in Commands /\ Journalled /\ Pending' /\ cmd.pc \in Within
  BY <1>1, <1>2, QuietLayout DEF IInv, Types, Phase, Journalled, Within
<1>4. cmd' \in Commands /\ Phase'
  <2>1. CASE Fail
    BY <1>3, <2>1, FailedPhase
  <2>2. CASE Goto("check") /\ monitor = None
    <3>1. cmd'.pc = "check"
      BY <1>3, <2>2, GotoIs DEF Pcs
    <3>2. Stopped'
      BY <1>1, <2>2, <3>1 DEF Stopped
    <3> QED BY <1>3, <2>2, <3>2, WithinPhase DEF Within
  <2> QED BY <2>1, <2>2 DEF Wait
<1> QED BY <1>1, <1>2, <1>4, QuietStep DEF IInv, Types

\* The inspection before the exchange decides where the command goes on.
LEMMA CheckStep ==
    ASSUME IInv, Check
    PROVE  IInv'
<1>1. /\ UNCHANGED <<dir, past, content, service, registered, monitor, proven, budget>>
      /\ cmd.pc = "check"
  BY DEF Check, launchd
<1>2. cmd \in Commands /\ Journalled /\ Stopped /\ Pending' /\ cmd.pc \in Within
  BY <1>1, QuietLayout DEF IInv, Types, Phase, Journalled, Within
<1>3. cmd' \in Commands /\ Phase'
  <2>1. CASE Fail
    BY <1>2, <2>1, FailedPhase
  <2>2. ASSUME NEW pc \in {"swap", "start"}, Goto(pc) PROVE cmd' \in Commands /\ Phase'
    <3>1. cmd'.pc = pc
      BY <1>2, <2>2, GotoIs DEF Pcs
    <3>2. Stopped'
      BY <1>1, <1>2, <2>2, <3>1 DEF Stopped
    <3> QED BY <1>2, <2>2, <3>2, WithinPhase DEF Within
  <2>3. Fail \/ \E pc \in {"swap", "start"} : Goto(pc)
    BY DEF Check
  <2> QED BY <2>1, <2>2, <2>3
<1> QED BY <1>1, <1>3, QuietStep DEF IInv, Types, Budgets

\* The service is started from the new runtime.
LEMMA StartStep ==
    ASSUME IInv, Start
    PROVE  IInv'
<1>1. UNCHANGED <<dir, past, content, service, monitor, proven>> /\ cmd.pc = "start"
  BY DEF Start
<1>2. registered' \in BOOLEAN /\ budget' \in Budgets /\ budget'.updates = budget.updates
  BY FailsIs DEF Start, IInv, Types, Budgets
<1>3. cmd \in Commands /\ Journalled /\ Stopped /\ Pending' /\ cmd.pc \in Within
  BY <1>1, <1>2, QuietLayout DEF IInv, Types, Phase, Journalled, Within
<1>4. cmd' \in Commands /\ Phase'
  <2>1. CASE Fail
    BY <1>3, <2>1, FailedPhase
  <2>2. CASE service = "none" /\ Goto("clear")
    <3>1. cmd'.pc = "clear"
      BY <1>3, <2>2, GotoIs DEF Pcs
    <3>2. Stopped'
      BY <1>1, <2>2, <3>1 DEF Stopped
    <3> QED BY <1>3, <2>2, <3>2, WithinPhase DEF Within
  <2>3. CASE service # "none" /\ ~registered /\ Goto("health")
    <3>1. cmd'.pc = "health"
      BY <1>3, <2>3, GotoIs DEF Pcs
    <3>2. monitor = None
      BY <1>1, <1>3, <2>3 DEF Stopped
    <3>3. Stopped'
      BY <1>1, <3>1, <3>2 DEF Stopped
    <3> QED BY <1>3, <2>3, <3>3, WithinPhase DEF Within
  <2> QED BY <2>1, <2>2, <2>3 DEF Start
<1> QED BY <1>1, <1>2, <1>4, QuietStep DEF IInv, Types

\* A heartbeat proves the version, or the time runs out.
LEMMA HealthStep ==
    ASSUME IInv, Health
    PROVE  IInv'
<1>1. UNCHANGED <<dir, past, content, service, registered, monitor>> /\ cmd.pc = "health"
  BY DEF Health, launchd
<1>2. /\ budget' \in Budgets /\ budget'.updates = budget.updates
      /\ proven \subseteq proven' /\ proven' \subseteq Whole
  BY FailsIs DEF Health, IInv, Types, Budgets
<1>3. cmd \in Commands /\ Journalled /\ Stopped /\ Pending' /\ cmd.pc \in Within /\ (Disturbed <=> Disturbed')
  BY <1>1, <1>2, QuietLayout DEF IInv, Types, Phase, Journalled, Within, Disturbed
<1>4. cmd' \in Commands /\ Phase'
  <2>1. CASE Fail
    BY <1>3, <2>1, FailedPhase
  <2>2. CASE monitor # None /\ proven' = proven \cup {monitor} /\ Goto("clear")
    <3>1. cmd'.pc = "clear"
      BY <1>3, <2>2, GotoIs DEF Pcs
    <3>2. ~Disturbed => content[dir.at[0]] \in proven'
      BY <1>1, <1>3, <2>2 DEF Stopped
    <3>3. Stopped'
      BY <1>1, <1>3, <3>1, <3>2 DEF Stopped
    <3> QED BY <1>3, <2>2, <3>3, WithinPhase DEF Within
  <2> QED BY <2>1, <2>2 DEF Health
<1> QED BY <1>1, <1>2, <1>4, QuietStep DEF IInv, Types

\* Only a journal that passes the inspection is removed.
LEMMA ClearStep ==
    ASSUME IInv, Clear
    PROVE  IInv'
<1>1. /\ UNCHANGED <<dir, past, content, service, registered, monitor, proven, budget>>
      /\ cmd.pc = "clear"
  BY DEF Clear, launchd
<1>2. /\ cmd \in Commands /\ Journalled /\ Stopped /\ Pending' /\ cmd.pc \in Within
      /\ (Inspected <=> Inspected') /\ (Disturbed <=> Disturbed')
  BY <1>1, QuietLayout DEF IInv, Types, Phase, Journalled, Within, Disturbed
<1>3. cmd' \in Commands /\ Phase'
  <2>1. CASE Fail
    BY <1>2, <2>1, FailedPhase
  <2>2. CASE Inspected /\ Goto("remove")
    <3>1. cmd'.pc = "remove"
      BY <1>2, <2>2, GotoIs DEF Pcs
    <3>2. Stopped'
      BY <1>1, <1>2, <3>1 DEF Stopped
    <3> QED BY <1>2, <2>2, <3>2, WithinPhase DEF Within
  <2> QED BY <2>1, <2>2 DEF Clear
<1> QED BY <1>1, <1>3, QuietStep DEF IInv, Types, Budgets

\* The rollback starts from an inspected journal.
LEMMA RollbackStep ==
    ASSUME IInv, Rollback
    PROVE  IInv'
<1>1. /\ UNCHANGED <<dir, past, content, service, registered, monitor, proven, budget>>
      /\ cmd.pc = "rollback"
  BY DEF Rollback, launchd
<1>2. cmd \in Commands /\ Journalled /\ Pending' /\ cmd.pc \in Within
  BY <1>1, QuietLayout DEF IInv, Types, Phase, Journalled, Within
<1>3. cmd' \in Commands /\ Phase'
  <2>1. CASE cmd' = Idle
    BY <2>1, EndedPhase
  <2>2. CASE Goto("stop")
    <3>1. cmd'.pc = "stop"
      BY <1>2, <2>2, GotoIs DEF Pcs
    <3>2. Stopped'
      BY <3>1 DEF Stopped
    <3> QED BY <1>2, <2>2, <3>2, WithinPhase DEF Within
  <2> QED BY <2>1, <2>2 DEF Rollback
<1> QED BY <1>1, <1>3, QuietStep DEF IInv, Types, Budgets

\* The monitor and launchd on their own, a kill and an edit of the property list.
LEMMA MonitorStep ==
    ASSUME IInv, MonitorStarts \/ MonitorEnds \/ Unload \/ Kill \/ EditService
    PROVE  IInv'
<1>1. /\ UNCHANGED <<dir, past, content, proven>>
      /\ service' \in {service, "edited"} /\ registered' \in BOOLEAN
  BY DEF MonitorStarts, MonitorEnds, Unload, Kill, EditService, IInv, Types, launchd
<1>2. budget' \in Budgets /\ budget'.updates = budget.updates
  BY FailsIs, KillsIs DEF MonitorStarts, MonitorEnds, Unload, Kill, EditService, IInv, Types, Budgets
<1>3. Installed \in Whole /\ Installed = content[dir.at[0]]
  BY InstalledIs DEF IInv, Layout, Good, States
<1>4. monitor' \in Whole \cup {None}
  BY <1>3 DEF MonitorStarts, MonitorEnds, Unload, Kill, EditService, IInv, Types, launchd
<1>5. Disturbed => Disturbed'
  BY <1>1 DEF Disturbed
<1>6. Stopped /\ cmd \in Commands
  BY DEF IInv, Phase, Types
<1>7. CASE cmd' = Idle
  BY <1>1, <1>2, <1>4, <1>7, EndedPhase, QuietStep DEF IInv, Types
<1>8. CASE cmd' = cmd /\ Stopped'
  BY <1>1, <1>2, <1>4, <1>6, <1>8, KeepsPhase, QuietStep DEF IInv, Types
<1>9. ASSUME MonitorStarts PROVE cmd' = cmd /\ Stopped'
  BY <1>1, <1>3, <1>6, <1>9 DEF MonitorStarts, Stopped, Disturbed
<1>10. ASSUME MonitorEnds PROVE cmd' = cmd /\ Stopped'
  BY <1>1, <1>6, <1>10 DEF MonitorEnds, Stopped, Disturbed
<1>11. ASSUME EditService PROVE cmd' = cmd /\ Stopped'
  BY <1>1, <1>6, <1>11 DEF EditService, Stopped, Disturbed
<1>12. ASSUME Unload \/ Kill PROVE cmd' = Idle
  BY <1>12 DEF Unload, Kill
<1> QED BY <1>7, <1>8, <1>9, <1>10, <1>11, <1>12

-----------------------------------------------------------------------------
(* Changes of the state directory. *)

Put(d, k, x) == [d EXCEPT !.at[k] = x]
Log(d, j)    == [d EXCEPT !.journal = j]

\* One entry of a directory.
LEMMA PutIs ==
    ASSUME NEW d \in Directory, NEW k \in Number, NEW x \in Number \cup {None}
    PROVE  /\ Put(d, k, x) \in Directory /\ Put(d, k, x).journal = d.journal
           /\ Put(d, k, x).at[k] = x
           /\ \A i \in Number : i # k => Put(d, k, x).at[i] = d.at[i]
BY DEF Put, Directory

\* Two entries in each other's place.
Exchanged(d, k) == Put(Put(d, 0, d.at[k]), k, d.at[0])

\* The exchange of two entries.
LEMMA ExchangedIs ==
    ASSUME NEW d \in Directory, NEW k \in Number, k # 0
    PROVE  /\ Exchanged(d, k) \in Directory /\ Exchanged(d, k).journal = d.journal
           /\ Exchanged(d, k).at[0] = d.at[k] /\ Exchanged(d, k).at[k] = d.at[0]
           /\ \A i \in Number : i # 0 /\ i # k => Exchanged(d, k).at[i] = d.at[i]
<1> DEFINE x == d.at[0]
           y == d.at[k]
           e == Put(d, 0, y)
           f == Put(e, k, x)
<1>1. 0 \in Number /\ x \in Number \cup {None} /\ y \in Number \cup {None}
  BY DirectoryParts, Apart
<1>2. x = d.at[0] /\ y = d.at[k] /\ Exchanged(d, k) = f
  BY DEF Exchanged
<1> HIDE DEF x, y
<1>3. /\ e \in Directory /\ e.journal = d.journal /\ e.at[0] = y
      /\ \A i \in Number : i # 0 => e.at[i] = d.at[i]
  BY <1>1, PutIs
<1> HIDE DEF e
<1>4. /\ f \in Directory /\ f.journal = e.journal /\ f.at[k] = x
      /\ \A i \in Number : i # k => f.at[i] = e.at[i]
  <2>1. e \in Directory /\ k \in Number /\ x \in Number \cup {None}
    BY <1>1, <1>3
  <2> QED BY ONLY <2>1, PutIs
<1> HIDE DEF f
<1> QED BY <1>1, <1>2, <1>3, <1>4

\* Its journal.
LEMMA LogIs ==
    ASSUME NEW d \in Directory, NEW j \in Journals \cup {NoJournal}
    PROVE  Log(d, j) \in Directory /\ Log(d, j).journal = j /\ Log(d, j).at = d.at
BY DEF Log, Directory, Journals

\* A step that adds at most one state of the directory, the new one, and leaves
\* what the others name.
LEMMA LayoutStep ==
    ASSUME IInv, dir' \in Directory, States' \subseteq States \cup {dir'},
           budget.updates <= budget'.updates, budget'.updates \in Number, Unused',
           service' = service, proven' = proven, Disturbed => Disturbed',
           \A d \in States :
              /\ content'[d.at[0]] = content[d.at[0]]
              /\ d.journal # NoJournal => content'[d.at[d.journal.stage]] = content[d.at[d.journal.stage]],
           dir' \in States \/ (Sound(dir)' /\ (~Disturbed' => Ready(dir)'))
    PROVE  Layout'
<1>1. ASSUME NEW d \in States PROVE Good(d)'
  <2>1. d \in Directory /\ Good(d) /\ budget'.updates \in Nat
    BY DEF States, IInv, Types, Layout, Number
  <2> QED BY <2>1, KeepsGood DEF IInv
<1>2. ASSUME NEW d \in States', d = dir', dir' \notin States PROVE Good(d)'
  BY <1>2 DEF Good, Sound, Ready, Pair
<1>3. ASSUME NEW d \in States' PROVE Good(d)'
  BY <1>1, <1>2
<1> QED BY <1>3 DEF Layout

\* The directory of a running command, with the facts that its steps start from.
LEMMA Here ==
    ASSUME IInv
    PROVE  /\ dir \in Directory /\ dir \in States /\ Sound(dir) /\ (~Disturbed => Ready(dir))
           /\ cmd \in Commands /\ Journalled /\ Staged /\ Stopped /\ Removing
           /\ content \in [Number -> Content] /\ budget.updates \in Nat
           /\ dir.at[0] \in Number /\ Unused
           /\ \A d \in States : d \in Directory /\ Good(d)
<1>1. dir \in States
  BY DEF States
<1>2. Sound(dir) /\ (~Disturbed => Ready(dir))
  BY <1>1 DEF IInv, Layout, Good
<1>3. dir.at[0] \in Number
  BY <1>2, InstalledIs DEF IInv
<1> QED BY <1>1, <1>2, <1>3 DEF IInv, Layout, Types, Phase, States, Number

\* A stage that is made has a number nothing used before.
LEMMA MakeStageStep ==
    ASSUME IInv, MakeStage
    PROVE  IInv'
<1>1. CASE cmd' = Idle /\ UNCHANGED <<dir, past, content, budget>>
  BY <1>1, EndedPhase, QuietStep DEF MakeStage, launchd, IInv, Types, Budgets
<1> DEFINE k == budget.updates + 1
<1>2. CASE /\ k <= MaxUpdates /\ Installed \in Version
           /\ Change([dir EXCEPT !.at[k] = k])
           /\ content' = [content EXCEPT ![k] = "partial"]
           /\ cmd' = [cmd EXCEPT !.pc = "copy", !.stage = k, !.old = Installed]
           /\ Count("updates", MaxUpdates)
  <2>1. /\ k \in Number /\ k # 0 /\ k > budget.updates /\ budget'.updates = k
        /\ budget' \in [updates : Number, faults : 0..MaxFaults, kills : 0..MaxKills]
    BY <1>2 DEF IInv, Types, Number, Count
  <2>2. cmd.pc = "stage" /\ UNCHANGED <<service, registered, monitor, proven>>
    BY DEF MakeStage, launchd
  <2>3. ~Pending /\ cmd.target \in Version
    BY <2>2, Here DEF Journalled, Before
  <2>4. content' = content
    BY <1>2, <2>1, Here DEF Unused
  <2>5. dir' = Put(dir, k, k) /\ past' = past \cup {dir}
    BY <1>2 DEF Change, Put
  <2>6. /\ dir' \in Directory /\ dir'.journal = dir.journal /\ dir'.at[k] = k
        /\ \A i \in Number : i # k => dir'.at[i] = dir.at[i]
    <3>1. dir \in Directory /\ k \in Number /\ k \in Number \cup {None}
      BY <2>1, Here
    <3> HIDE DEF k
    <3> QED BY <2>5, <3>1, PutIs
  <2>7. cmd' = PcStageOld(cmd, "copy", k, Installed)
    BY <1>2, Zenon DEF PcStageOld, PcStage
  <2>8. /\ cmd' \in Commands /\ cmd'.pc = "copy" /\ cmd'.target \in Version
        /\ cmd'.stage = k /\ cmd'.old = Installed
    <3>1. "copy" \in Pcs
      BY DEF Pcs
    <3> QED BY <1>2, <2>1, <2>3, <2>7, <3>1, Here, PcStageOldIs
  <2> HIDE DEF k
  <2>9. \A d \in States : \A i \in Number : d.at[i] # k
    <3>1. ASSUME NEW d \in States, NEW i \in Number, d.at[i] = k PROVE FALSE
      <4>1. d.at[i] <= budget.updates
        BY <2>1, <3>1, Here, Apart DEF Good, Sound
      <4> QED BY <2>1, <3>1, <4>1, Here DEF Number
    <3> QED BY <3>1
  <2>10. Sound(dir)'
    <3>1. dir'.at[0] = dir.at[0]
      BY <2>1, <2>6, Apart
    <3>2. \A i \in Number : dir'.at[i] # None => i <= k /\ dir'.at[i] <= k
      <4>1. ASSUME NEW i \in Number, i # k, dir.at[i] # None PROVE i <= k /\ dir.at[i] <= k
        <5>1. i <= budget.updates /\ dir.at[i] <= budget.updates /\ dir.at[i] \in Number
          BY <4>1, Here, DirectoryParts DEF Sound
        <5> QED BY <2>1, <5>1, Here DEF Number
      <4>2. k <= k
        BY <2>1 DEF Number
      <4> QED BY <2>6, <4>1, <4>2
    <3>3. \A i, j \in Number : dir'.at[i] = dir'.at[j] /\ dir'.at[i] # None => i = j
      BY <2>6, <2>9, Here DEF Sound
    <3> QED BY <2>1, <2>3, <2>4, <2>6, <3>1, <3>2, <3>3, Here DEF Sound, Pending
  <2>11. ~Disturbed' => Ready(dir)'
    BY <2>1, <2>2, <2>3, <2>4, <2>6, Here, Apart DEF Ready, Disturbed, Pending
  <2>12. Layout'
    <3>1. Unused'
      BY <2>1, <2>4, Here DEF Unused, Number
    <3>2. budget.updates <= budget'.updates /\ budget'.updates \in Number
      BY <1>2, <2>1, Here DEF Count, Number
    <3>3. States' \subseteq States \cup {dir'} /\ (Disturbed => Disturbed')
      BY <2>2, <2>4, <2>5 DEF States, Disturbed
    <3> QED BY <2>2, <2>4, <2>6, <2>10, <2>11, <3>1, <3>2, <3>3, LayoutStep
  <2>13. Types'
    BY <2>1, <2>2, <2>4, <2>5, <2>6, <2>8, Here DEF IInv, Types
  <2>14. Staged'
    <3>1. cmd'.stage \in 1..budget'.updates
      BY <2>1, <2>8 DEF Number
    <3>2. content'[dir'.at[0]] = cmd'.old
      BY <2>1, <2>4, <2>6, <2>8, Here, InstalledIs, Apart DEF IInv
    <3>3. content'[k] = "partial"
      BY <2>1, <2>4, Here DEF Unused
    <3>4. \A d \in past' : \A i \in Number : d.at[i] # k
      BY <2>5, <2>9 DEF States
    <3> QED BY <1>2, <2>6, <2>8, <3>1, <3>2, <3>3, <3>4 DEF Staged
  <2>15. Phase'
    BY <2>3, <2>6, <2>8, <2>14 DEF Phase, Journalled, Stopped, Removing, Before, Within, After, Pending
  <2> QED BY <2>12, <2>13, <2>15 DEF IInv
<1> QED BY <1>1, <1>2, Here DEF MakeStage, IInv, Types, Number

\* The stage is gone and there is no journal: the runtime stays.
LEMMA Dropped ==
    ASSUME IInv, dir' = DropStage, ~Pending, cmd.stage # 0, content'[dir.at[0]] = content[dir.at[0]],
           budget'.updates = budget.updates, service' = service, proven' = proven, Disturbed => Disturbed'
    PROVE  dir' \in Directory /\ ~Pending' /\ Sound(dir)' /\ (~Disturbed' => Ready(dir)')
<1> DEFINE s == cmd.stage
<1>1. dir \in Directory /\ s \in Number /\ None \in Number \cup {None} /\ s # 0
  BY Here DEF Commands
<1>2. dir' = Put(dir, s, None)
  BY DEF DropStage, Put
<1> HIDE DEF s
<1>3. /\ dir' \in Directory /\ dir'.journal = dir.journal /\ dir'.at[s] = None
      /\ \A i \in Number : i # s => dir'.at[i] = dir.at[i]
  BY <1>1, <1>2, PutIs
<1>4. dir'.journal = NoJournal /\ dir.journal = NoJournal
  BY <1>3 DEF Pending
<1>5. dir'.at[0] = dir.at[0]
  BY <1>1, <1>3, Apart
<1>6. Sound(dir)'
  BY <1>3, <1>4, <1>5, Here DEF Sound
<1>7. ~Disturbed' => Ready(dir)'
  BY <1>4, <1>5, Here DEF Ready
<1> QED BY <1>3, <1>4, <1>6, <1>7 DEF Pending

\* An error before the journal is written: stage away, command over.
LEMMA DropStep ==
    ASSUME IInv, Change(DropStage), cmd' = Idle, ~Pending, cmd.stage # 0,
           UNCHANGED <<content, service, registered, monitor, proven>>,
           budget' \in Budgets, budget'.updates = budget.updates
    PROVE  IInv'
<1>1. dir' = DropStage /\ past' = past \cup {dir} /\ (Disturbed <=> Disturbed')
  BY DEF Change, Disturbed
<1>2. dir' \in Directory /\ Sound(dir)' /\ (~Disturbed' => Ready(dir)')
  BY <1>1, Dropped
<1>3. Layout'
  <2>1. Unused' /\ States' \subseteq States \cup {dir'}
    BY <1>1, Here DEF Unused, States
  <2>2. budget.updates <= budget'.updates /\ budget'.updates \in Number
    BY DEF IInv, Types, Number
  <2> QED BY <1>1, <1>2, <2>1, <2>2, LayoutStep
<1>4. cmd' \in Commands /\ Phase'
  BY EndedPhase
<1>5. Types'
  BY <1>1, <1>2, <1>4 DEF IInv, Types, Budgets
<1> QED BY <1>3, <1>4, <1>5 DEF IInv

\* The stage gets its content, whole or in part.
LEMMA CopyStageStep ==
    ASSUME IInv, CopyStage
    PROVE  IInv'
<1> DEFINE s == cmd.stage
<1>1. cmd.pc = "copy" /\ UNCHANGED <<service, registered, monitor, proven>>
  BY DEF CopyStage, launchd
<1>2. /\ s \in Number /\ s # 0 /\ s <= budget.updates /\ dir.at[s] = s /\ content[s] = "partial"
      /\ ~Pending /\ cmd.target \in Version /\ \A d \in past : \A i \in Number : d.at[i] # s
      /\ cmd.old \in Version /\ (~Disturbed => content[dir.at[0]] = cmd.old)
  BY <1>1, Here DEF Staged, Journalled, Before, Commands
<1>3. CASE Fails("save") /\ Change(DropStage) /\ Fail /\ UNCHANGED content
  <2>1. cmd' = Idle
    BY <1>1, <1>3 DEF Fail
  <2> QED BY <1>1, <1>2, <1>3, <2>1, FailsIs, DropStep DEF IInv, Budgets
<1>4. CASE content' = [content EXCEPT ![s] = cmd.target] /\ Goto("publish") /\ UNCHANGED <<dir, past, budget>>
  <2>1. /\ cmd' \in Commands /\ cmd'.pc = "publish" /\ cmd'.target = cmd.target /\ cmd'.stage = s
        /\ cmd'.old = cmd.old
    BY <1>4, Here, GotoIs DEF Pcs
  <2> HIDE DEF s
  <2>2. /\ content' \in [Number -> Content] /\ content'[s] = cmd.target
        /\ \A i \in Number : i # s => content'[i] = content[i]
    BY <1>2, <1>4, Here DEF Content
  <2>3. dir.at[0] # s /\ dir.at[0] \in Number /\ dir.journal = NoJournal
    BY <1>2, Here, Apart DEF Sound, Pending
  <2>4. Disturbed <=> Disturbed'
    BY <1>1, <1>2, <2>2 DEF Disturbed
  <2>5. \A d \in States :
           /\ content'[d.at[0]] = content[d.at[0]]
           /\ d.journal # NoJournal => content'[d.at[d.journal.stage]] = content[d.at[d.journal.stage]]
    <3>1. ASSUME NEW d \in past
          PROVE  /\ content'[d.at[0]] = content[d.at[0]]
                 /\ d.journal # NoJournal => content'[d.at[d.journal.stage]] = content[d.at[d.journal.stage]]
      <4>1. d \in Directory /\ Sound(d)
        BY <3>1, Here DEF States, Good
      <4>2. d.at[0] \in Number /\ d.at[0] # s
        BY <1>2, <4>1, DirectoryParts, Apart DEF Sound
      <4>3. ASSUME d.journal # NoJournal
            PROVE  d.at[d.journal.stage] \in Number /\ d.at[d.journal.stage] # s
        BY <1>2, <4>1, <4>3, DirectoryParts, Apart DEF Sound
      <4> QED BY <2>2, <4>2, <4>3
    <3> QED BY <2>2, <2>3, <3>1 DEF States
  <2>6. Layout'
    <3>1. Unused'
      <4>1. ASSUME NEW k \in Number, k > budget.updates PROVE k # s
        BY <1>2, <4>1, Here DEF Number
      <4> QED BY <1>4, <2>2, <4>1, Here DEF Unused
    <3>2. budget.updates <= budget'.updates /\ budget'.updates \in Number
      BY <1>4 DEF IInv, Types, Number
    <3>3. dir' \in Directory /\ dir' \in States /\ States' = States
      BY <1>4, Here DEF States
    <3> QED BY <1>1, <2>4, <2>5, <3>1, <3>2, <3>3, LayoutStep
  <2>7. Types'
    BY <1>1, <1>4, <2>1, <2>2 DEF IInv, Types
  <2>8. Staged'
    <3>1. cmd'.stage \in 1..budget'.updates /\ dir'.at[s] = s
      BY <1>2, <1>4, <2>1, Here DEF Number
    <3>2. ~Disturbed' => content'[dir'.at[0]] = cmd'.old
      BY <1>2, <1>4, <2>1, <2>2, <2>3, <2>4
    <3> QED BY <1>2, <2>1, <2>2, <3>1, <3>2 DEF Staged
  <2>9. Phase'
    BY <1>2, <1>4, <2>1, <2>8 DEF Phase, Journalled, Stopped, Removing, Before, Within, After, Pending
  <2> QED BY <2>6, <2>7, <2>9 DEF IInv
<1> QED BY <1>3, <1>4 DEF CopyStage

\* The journal is written only over a complete runtime and stage.
LEMMA PublishStep ==
    ASSUME IInv, Publish
    PROVE  IInv'
<1> DEFINE s == cmd.stage
           j == [stage |-> cmd.stage, old |-> cmd.old, new |-> cmd.target, owned |-> service # "none"]
<1>1. cmd.pc = "publish" /\ UNCHANGED <<content, service, registered, monitor, proven>>
  BY DEF Publish, launchd
<1>2. /\ s \in Number /\ s # 0 /\ dir.at[s] = s /\ content[s] = cmd.target
      /\ ~Pending /\ cmd.target \in Version /\ cmd.old \in Version
      /\ (~Disturbed => content[dir.at[0]] = cmd.old)
  BY <1>1, Here DEF Staged, Journalled, Before, Commands
<1>3. j \in Journals /\ j \in Journals \cup {NoJournal} /\ j # NoJournal
  <2>1. (service # "none") \in BOOLEAN
    OBVIOUS
  <2>2. j \in Journals
    BY <1>2, <2>1 DEF Journals
  <2> HIDE DEF j
  <2> QED BY <2>2, Apart
<1>4. ASSUME dir' = Log(dir, j), States' \subseteq States \cup {dir'}, past' \subseteq Directory,
             budget' \in Budgets, budget'.updates = budget.updates, cmd' \in Commands
      PROVE  Layout' /\ Types' /\ Pending'
  <2>1. dir' \in Directory /\ dir'.journal = j /\ dir'.at = dir.at
    BY <1>3, <1>4, Here, LogIs
  <2>2. j.stage = s /\ j.old = cmd.old /\ j.new = cmd.target
    OBVIOUS
  <2> HIDE DEF j
  <2>3. Sound(dir)'
    BY <1>1, <1>2, <1>4, <2>1, <2>2, Here, Apart DEF Sound, Whole
  <2>4. Disturbed <=> Disturbed'
    BY <1>1 DEF Disturbed
  <2>5. ASSUME ~Disturbed' PROVE Ready(dir)'
    <3>1. Pair(dir)' = <<cmd.old, cmd.target>>
      BY <1>1, <1>2, <2>1, <2>2, <2>4, <2>5 DEF Pair
    <3>2. service = "owned" => cmd.old \in proven
      BY <1>2, <2>4, <2>5, Here DEF Ready, Pending
    <3> QED BY <1>1, <1>3, <2>1, <2>2, <3>1, <3>2 DEF Ready
  <2>6. Unused' /\ budget.updates <= budget'.updates /\ budget'.updates \in Number
    BY <1>1, <1>4, Here DEF Unused, IInv, Types, Number
  <2>7. Layout'
    BY <1>1, <1>4, <2>1, <2>3, <2>4, <2>5, <2>6, LayoutStep
  <2> QED BY <1>1, <1>3, <1>4, <2>1, <2>7 DEF IInv, Types, Budgets, Pending
<1>5. CASE Durable(Log(dir, j)) /\ Goto("stop") /\ UNCHANGED budget
  <2>1. cmd' \in Commands /\ cmd'.pc = "stop" /\ cmd'.target = cmd.target
    BY <1>5, Here, GotoIs DEF Pcs
  <2>2. dir' = Log(dir, j) /\ past' = {}
    BY <1>5 DEF Durable
  <2>3. States' \subseteq States \cup {dir'} /\ past' \subseteq Directory
    BY <2>2 DEF States
  <2>4. Layout' /\ Types' /\ Pending'
    BY <1>4, <1>5, <2>1, <2>2, <2>3 DEF IInv, Types, Budgets
  <2> QED BY <1>2, <2>1, <2>4, EasyPhase DEF IInv
<1>6. CASE Fails("save") /\ Change(Log(dir, j)) /\ Fail
  <2>1. cmd' = Idle
    BY <1>1, <1>6 DEF Fail
  <2>2. dir' = Log(dir, j) /\ past' = past \cup {dir}
    BY <1>6 DEF Change
  <2>3. States' \subseteq States \cup {dir'} /\ past' \subseteq Directory
    BY <2>2, Here DEF States, IInv, Types
  <2>4. budget' \in Budgets /\ budget'.updates = budget.updates
    BY <1>6, FailsIs DEF IInv, Budgets
  <2> QED BY <1>4, <2>1, <2>2, <2>3, <2>4, EndedPhase DEF IInv
<1>7. CASE Fails("save") /\ Change(DropStage) /\ Fail
  <2>1. cmd' = Idle
    BY <1>1, <1>7 DEF Fail
  <2> QED BY <1>1, <1>2, <1>7, <2>1, FailsIs, DropStep DEF IInv, Budgets
<1> QED BY <1>5, <1>6, <1>7, Zenon DEF Publish, Log

\* Runtime and stage change places.
LEMMA SwapStep ==
    ASSUME IInv, Swap
    PROVE  IInv'
<1> DEFINE k == dir.journal.stage
           x == dir.at[0]
           y == dir.at[k]
           d == Exchanged(dir, k)
<1>1. cmd.pc = "swap" /\ UNCHANGED <<content, service, registered, monitor, proven>>
  BY DEF Swap, launchd
<1>2. Pending /\ cmd.pc \in Within /\ Journalled /\ Stopped /\ cmd \in Commands
  BY <1>1, Here DEF Journalled, Within
<1>3. /\ dir \in Directory /\ dir.journal # NoJournal /\ k \in Number /\ k # 0 /\ 0 \in Number
      /\ x \in Number /\ y \in Number /\ x \in Number \cup {None} /\ y \in Number \cup {None}
  <2>1. dir.at[0] \in Number /\ dir.at[dir.journal.stage] \in Number
    BY <1>2, Here, InstalledIs DEF IInv
  <2> QED BY <1>2, <2>1, Here, DirectoryParts, Apart DEF Pending
<1>4. /\ budget' \in Budgets /\ budget'.updates = budget.updates
      /\ budget.updates <= budget'.updates /\ budget'.updates \in Number
  BY FailsIs DEF Swap, IInv, Types, Budgets, Number
<1>5. Unused' /\ (Disturbed <=> Disturbed')
  BY <1>1, <1>4 DEF IInv, Layout, Unused, Disturbed
<1>6. /\ d \in Directory /\ d.journal = dir.journal /\ d.at[0] = y /\ d.at[k] = x
      /\ \A i \in Number : i # 0 /\ i # k => d.at[i] = dir.at[i]
  BY <1>3, ExchangedIs
<1>7. ASSUME dir' = d, past' \subseteq Directory, States' \subseteq States \cup {dir'}, cmd' \in Commands
      PROVE  Layout' /\ Types' /\ Pending'
  <2> HIDE DEF d
  <2>1. Sound(dir)'
    <3>1. \A i \in Number : dir'.at[i] # None => i <= budget'.updates /\ dir'.at[i] <= budget'.updates
      BY <1>3, <1>4, <1>6, <1>7, Here, Apart DEF Sound
    <3>2. \A i, j \in Number : dir'.at[i] = dir'.at[j] /\ dir'.at[i] # None => i = j
      BY <1>3, <1>6, <1>7, Here DEF Sound
    <3>3. content'[dir'.at[0]] \in Whole /\ content'[dir'.at[k]] \in Whole
      BY <1>1, <1>3, <1>6, <1>7, Here DEF Sound
    <3>4. dir'.at[0] # None /\ dir'.at[k] # None
      BY <1>3, <1>6, <1>7, Apart
    <3> QED BY <1>6, <1>7, <3>1, <3>2, <3>3, <3>4 DEF Sound
  <2>2. ASSUME ~Disturbed' PROVE Ready(dir)'
    <3>1. Pair(dir) \in {<<dir.journal.old, dir.journal.new>>, <<dir.journal.new, dir.journal.old>>}
      BY <1>3, <1>5, <2>2, Here DEF Ready
    <3>2. Pair(dir) = <<content[x], content[y]>> /\ Pair(dir)' = <<content[y], content[x]>>
      BY <1>1, <1>6, <1>7 DEF Pair
    <3>3. Pair(dir)' \in {<<dir.journal.old, dir.journal.new>>, <<dir.journal.new, dir.journal.old>>}
      BY <3>1, <3>2
    <3>4. service = "owned" => dir.journal.old \in proven
      BY <1>3, <1>5, <2>2, Here DEF Ready
    <3> QED BY <1>1, <1>3, <1>6, <1>7, <3>3, <3>4 DEF Ready
  <2>3. Layout'
    BY <1>1, <1>4, <1>5, <1>6, <1>7, <2>1, <2>2, LayoutStep
  <2> QED BY <1>1, <1>3, <1>4, <1>6, <1>7, <2>3 DEF IInv, Types, Budgets, Pending
<1>8. CASE Durable(d) /\ Goto("start")
  <2>1. cmd' \in Commands /\ cmd'.pc = "start" /\ cmd'.target = cmd.target
    BY <1>2, <1>8, GotoIs DEF Pcs
  <2>2. dir' = d /\ past' = {} /\ past' \subseteq Directory /\ States' \subseteq States \cup {dir'}
    BY <1>8 DEF Durable, States
  <2>3. Layout' /\ Types' /\ Pending'
    BY <1>7, <2>1, <2>2
  <2>4. Stopped'
    BY <1>1, <1>2, <2>1 DEF Stopped
  <2> QED BY <1>2, <1>8, <2>3, <2>4, WithinPhase DEF IInv, Within
<1>9. CASE Fails("save") /\ Change(d) /\ Fail
  <2>1. cmd' \in Commands
    BY <1>2, <1>9, FailIs
  <2>2. dir' = d /\ past' = past \cup {dir} /\ past' \subseteq Directory /\ States' \subseteq States \cup {dir'}
    BY <1>3, <1>9 DEF Change, States, IInv, Types
  <2>3. Layout' /\ Types' /\ Pending'
    BY <1>7, <2>1, <2>2
  <2> QED BY <1>2, <1>9, <2>3, FailedPhase DEF IInv
<1>10. CASE Fails("save") /\ UNCHANGED <<dir, past>> /\ Fail
  <2>1. Pending'
    BY <1>2, <1>10 DEF Pending
  <2>2. cmd' \in Commands /\ Phase'
    BY <1>2, <1>10, <2>1, FailedPhase
  <2> QED BY <1>1, <1>4, <1>10, <2>2, QuietStep DEF IInv, Types
<1>11. [dir EXCEPT !.at[0] = dir.at[dir.journal.stage], !.at[dir.journal.stage] = dir.at[0]] = d
  BY Zenon DEF Put, Exchanged
<1> QED BY <1>8, <1>9, <1>10, <1>11, Zenon DEF Swap

\* The journal goes when its exchange is proven or undone.
LEMMA RemoveJournalStep ==
    ASSUME IInv, RemoveJournal
    PROVE  IInv'
<1> DEFINE k == dir.journal.stage
<1>1. cmd.pc = "remove" /\ UNCHANGED <<content, service, registered, monitor, proven>>
  BY DEF RemoveJournal, launchd
<1>2. Pending /\ cmd.pc \in Within /\ Journalled /\ cmd \in Commands /\ cmd.target \in Version /\ Inspected
  BY <1>1, Here DEF Journalled, Removing, Within
<1>3. /\ budget' \in Budgets /\ budget'.updates = budget.updates
      /\ budget.updates <= budget'.updates /\ budget'.updates \in Number
  BY FailsIs DEF RemoveJournal, IInv, Types, Budgets, Number
<1>4. Unused' /\ (Disturbed <=> Disturbed')
  BY <1>1, <1>3 DEF IInv, Layout, Unused, Disturbed
<1>5. CASE Fails("save") /\ Fail /\ UNCHANGED <<dir, past>>
  <2>1. Pending'
    BY <1>2, <1>5 DEF Pending
  <2>2. cmd' \in Commands /\ Phase'
    BY <1>2, <1>5, <2>1, FailedPhase
  <2> QED BY <1>1, <1>3, <1>5, <2>2, QuietStep DEF IInv, Types
<1>6. CASE /\ Change([dir EXCEPT !.journal = NoJournal])
           /\ cmd' = [cmd EXCEPT !.pc = "sync", !.stage = k]
  <2>1. dir' = Log(dir, NoJournal) /\ past' = past \cup {dir}
    BY <1>6 DEF Change, Log
  <2>2. dir' \in Directory /\ dir'.journal = NoJournal /\ dir'.at = dir.at
    BY <2>1, Here, LogIs
  <2>3. /\ k \in Number /\ k # 0 /\ dir.at[k] # None /\ content[dir.at[k]] \in Version
        /\ content[dir.at[0]] \in Version
    <3>1. dir.journal # NoJournal /\ dir.journal.stage \in Number \ {0}
      BY <1>2, Here, DirectoryParts DEF Pending
    <3>2. dir.at[k] # None
      BY <3>1, Here DEF Sound
    <3>3. /\ Installed = content[dir.at[0]] /\ At(dir, k) = content[dir.at[k]]
          /\ Installed \in Version /\ At(dir, k) \in Version
      BY <1>2, Here, InstalledIs DEF IInv, Inspected
    <3> QED BY <3>1, <3>2, <3>3
  <2>4. cmd' = PcStage(cmd, "sync", k)
    BY <1>6, Zenon DEF PcStage
  <2> HIDE DEF k
  <2>5. cmd' \in Commands /\ cmd'.pc = "sync" /\ cmd'.target = cmd.target /\ cmd'.stage = k
    <3>1. "sync" \in Pcs
      BY DEF Pcs
    <3> QED BY <1>2, <2>3, <2>4, <3>1, PcStageIs
  <2>6. Sound(dir)'
    BY <1>1, <1>3, <2>2, Here DEF Sound
  <2>7. ~Disturbed' => Ready(dir)'
    BY <1>1, <1>4, <2>2, Here DEF Ready, Stopped
  <2>8. Layout'
    <3>1. States' \subseteq States \cup {dir'}
      BY <2>1 DEF States
    <3> QED BY <1>1, <1>3, <1>4, <2>2, <2>6, <2>7, <3>1, LayoutStep
  <2>9. Types'
    BY <1>1, <1>3, <2>1, <2>2, <2>5, Here DEF IInv, Types, Budgets
  <2>10. Removing'
    BY <1>1, <2>2, <2>3, <2>5 DEF Removing, After
  <2>11. Phase'
    BY <1>2, <2>2, <2>5, <2>10 DEF Phase, Journalled, Staged, Stopped, Before, Within, After, Pending
  <2> QED BY <2>8, <2>9, <2>11 DEF IInv
<1> QED BY <1>5, <1>6 DEF RemoveJournal

\* The removal of the journal reaches the disk.
LEMMA SyncRemovalStep ==
    ASSUME IInv, SyncRemoval
    PROVE  IInv'
<1>1. cmd.pc = "sync" /\ UNCHANGED <<content, service, registered, monitor, proven>> /\ dir' = dir
  BY DEF SyncRemoval, launchd, Durable
<1>2. /\ budget' \in Budgets /\ budget'.updates = budget.updates
      /\ budget.updates <= budget'.updates /\ budget'.updates \in Number
  BY FailsIs DEF SyncRemoval, IInv, Types, Budgets, Number
<1>3. CASE Fails("save") /\ cmd' = Idle /\ UNCHANGED <<dir, past>>
  BY <1>1, <1>2, <1>3, EndedPhase, QuietStep DEF IInv, Types
<1>4. CASE Durable(dir) /\ Goto("cleanup")
  <2>1. past' = {} /\ States' = {dir'} /\ dir' \in States /\ dir' \in Directory
    BY <1>1, <1>4, Here DEF Durable, States
  <2>2. Layout'
    <3>1. Unused' /\ (Disturbed => Disturbed')
      BY <1>1, <1>2 DEF IInv, Layout, Unused, Disturbed
    <3> QED BY <1>1, <1>2, <2>1, <3>1, LayoutStep
  <2>3. cmd' \in Commands /\ cmd'.pc = "cleanup" /\ cmd'.target = cmd.target /\ cmd'.stage = cmd.stage
    BY <1>4, Here, GotoIs DEF Pcs
  <2>4. Types'
    BY <1>1, <1>2, <2>1, <2>3 DEF IInv, Types, Budgets
  <2>5. Removing'
    BY <1>1, <2>1, <2>3, Here DEF Removing, After
  <2>6. Phase'
    BY <1>1, <2>3, <2>5, Here DEF Phase, Journalled, Staged, Stopped, Before, Within, After, Pending
  <2> QED BY <2>2, <2>4, <2>6 DEF IInv
<1> QED BY <1>3, <1>4 DEF SyncRemoval

\* What the journal no longer names is removed.
LEMMA CleanupStep ==
    ASSUME IInv, Cleanup
    PROVE  IInv'
<1> DEFINE k == dir.at[cmd.stage]
<1>1. /\ cmd.pc = "cleanup" /\ UNCHANGED <<service, registered, monitor, proven>>
      /\ content' = [content EXCEPT ![k] = "partial"]
  BY DEF Cleanup, launchd
<1>2. /\ budget' \in Budgets /\ budget'.updates = budget.updates
      /\ budget.updates <= budget'.updates /\ budget'.updates \in Number
  BY FailsIs DEF Cleanup, IInv, Types, Budgets, Number
<1>3. /\ past = {} /\ ~Pending /\ cmd.target \in Version /\ cmd.stage # 0 /\ cmd.stage \in Number
      /\ k \in Number /\ k # dir.at[0] /\ content[k] \in Version
  <2>1. /\ past = {} /\ ~Pending /\ cmd.target \in Version /\ cmd.stage # 0 /\ cmd.stage \in Number
        /\ dir.at[cmd.stage] # None /\ content[dir.at[cmd.stage]] \in Version
    BY <1>1, Here DEF Journalled, Removing, After, Commands
  <2>2. k \in Number
    BY <2>1, Here, DirectoryParts
  <2>3. k # dir.at[0]
    BY <2>1, Here, Apart DEF Sound
  <2> QED BY <2>1, <2>2, <2>3
<1> HIDE DEF k
<1>4. /\ content' \in [Number -> Content] /\ content'[k] = "partial"
      /\ \A i \in Number : i # k => content'[i] = content[i]
  BY <1>1, <1>3, Here DEF Content
<1>5. content'[dir.at[0]] = content[dir.at[0]]
  BY <1>3, <1>4, Here
<1>6. Disturbed => Disturbed'
  BY <1>1, <1>3, <1>4 DEF Disturbed
<1>7. Unused'
  BY <1>2, <1>4, Here DEF Unused
<1>8. dir.journal = NoJournal /\ States = {dir}
  BY <1>3 DEF Pending, States
<1>9. \A d \in States :
         /\ content'[d.at[0]] = content[d.at[0]]
         /\ d.journal # NoJournal => content'[d.at[d.journal.stage]] = content[d.at[d.journal.stage]]
  BY <1>5, <1>8
<1>10. CASE Fails("save") /\ cmd' = Idle /\ UNCHANGED <<dir, past>>
  <2>1. dir' \in States /\ dir' \in Directory /\ States' \subseteq States \cup {dir'}
    BY <1>10, Here DEF States
  <2>2. Layout'
    BY <1>1, <1>2, <1>6, <1>7, <1>9, <2>1, LayoutStep
  <2>3. Types'
    BY <1>1, <1>2, <1>4, <1>10, EndedPhase DEF IInv, Types, Budgets
  <2> QED BY <1>10, <2>2, <2>3, EndedPhase DEF IInv
<1>11. CASE Change(DropStage) /\ cmd' = IF cmd.again THEN Plan(cmd.target) ELSE Idle
  <2>1. dir' = DropStage /\ past' = past \cup {dir} /\ States' \subseteq States \cup {dir'}
    BY <1>11 DEF Change, States
  <2>2. dir' \in Directory /\ ~Pending' /\ Sound(dir)' /\ (~Disturbed' => Ready(dir)')
    BY <1>1, <1>2, <1>3, <1>5, <1>6, <2>1, Dropped
  <2>3. Layout'
    BY <1>1, <1>2, <1>6, <1>7, <1>9, <2>1, <2>2, LayoutStep
  <2>4. cmd' \in Commands /\ Phase'
    <3>1. CASE cmd' = Idle
      BY <3>1, EndedPhase
    <3>2. CASE cmd' = Plan(cmd.target)
      <4>1. cmd' \in Commands /\ cmd'.pc \in {"reinstall", "stage"} /\ cmd'.target \in Version
        BY <1>3, <3>2, PlanIs
      <4> QED BY <2>2, <4>1, EasyPhase
    <3> QED BY <1>11, <3>1, <3>2
  <2>5. Types'
    BY <1>1, <1>2, <1>4, <2>1, <2>2, <2>4, Here DEF IInv, Types, Budgets
  <2> QED BY <2>3, <2>4, <2>5 DEF IInv
<1> QED BY <1>10, <1>11 DEF Cleanup

-----------------------------------------------------------------------------
(* Power losses and edits. *)

\* After a power loss the directory is one of those it has been.
LEMMA OutageStep ==
    ASSUME IInv, Outage
    PROVE  IInv'
<1>1. /\ dir' \in States /\ past' = {} /\ cmd' = Idle /\ UNCHANGED <<content, service, proven>>
      /\ registered' \in BOOLEAN /\ monitor' = None
  BY DEF Outage, States
<1>2. budget' \in Budgets /\ budget'.updates = budget.updates /\ budget.updates <= budget'.updates
  BY KillsIs DEF Outage, IInv, Types, Budgets, Number
<1>3. dir' \in Directory
  BY <1>1, Here
<1>4. Layout'
  <2>1. Unused' /\ (Disturbed => Disturbed') /\ budget'.updates \in Number
    BY <1>1, <1>2 DEF IInv, Types, Layout, Unused, Disturbed
  <2>2. States' \subseteq States \cup {dir'}
    BY <1>1 DEF States
  <2> QED BY <1>1, <1>2, <1>3, <2>1, <2>2, LayoutStep
<1>5. Types'
  BY <1>1, <1>2, <1>3, EndedPhase DEF IInv, Types, Budgets
<1> QED BY <1>1, <1>4, <1>5, EndedPhase DEF IInv

\* Somebody edits the runtime or the backup.
LEMMA EditStep ==
    ASSUME IInv, NEW k \in Number, Edit(k)
    PROVE  IInv'
<1> DEFINE x == dir.at[k]
<1>1. /\ UNCHANGED <<dir, past, service, registered, monitor, cmd, proven>>
      /\ content' = [content EXCEPT ![x] = "edited"]
      /\ cmd.pc \notin {"remove", "sync", "cleanup"} /\ Fails("edit")
      /\ At(dir, k) \in Version /\ (k = 0 \/ Pending)
  BY DEF Edit, launchd
<1>2. budget' \in Budgets /\ budget'.updates = budget.updates
  BY <1>1, FailsIs DEF IInv, Budgets
<1>3. x \in Number /\ content[x] \in Version
  <2>1. dir.at[k] # None
    BY <1>1, Apart DEF At, Whole
  <2>2. dir.at[k] \in Number
    BY <2>1, Here, DirectoryParts
  <2> QED BY <1>1, <2>1, <2>2 DEF At
<1>4. cmd.pc \in {"copy", "publish"} => x # cmd.stage /\ x = dir.at[0]
  <2>1. ASSUME cmd.pc \in {"copy", "publish"} PROVE x # cmd.stage /\ x = dir.at[0]
    <3>1. ~Pending /\ cmd.stage \in Number /\ cmd.stage # 0 /\ dir.at[cmd.stage] = cmd.stage
      BY <2>1, Here DEF Journalled, Staged, Before, Commands
    <3>2. k = 0
      BY <1>1, <3>1
    <3>3. dir.at[0] # None /\ \A i, j \in Number : dir.at[i] = dir.at[j] /\ dir.at[i] # None => i = j
      BY Here DEF Sound
    <3> QED BY <3>1, <3>2, <3>3, Apart
  <2> QED BY <2>1
<1> HIDE DEF x
<1>5. /\ content' \in [Number -> Content] /\ content'[x] = "edited"
      /\ \A i \in Number : i # x => content'[i] = content[i]
  BY <1>1, <1>3, Here DEF Content
<1>6. Disturbed'
  BY <1>3, <1>5 DEF Disturbed
<1>7. Layout'
  <2>1. ASSUME NEW d \in States' PROVE Good(d)'
    <3>1. d \in Directory /\ Sound(d)
      BY <1>1, Here DEF States, Good
    <3>2. d.at[0] \in Number
      BY <3>1, DirectoryParts, Apart DEF Sound
    <3>3. content'[d.at[0]] \in Whole
      BY <1>5, <3>1, <3>2 DEF Sound, Whole
    <3>4. ASSUME d.journal # NoJournal PROVE content'[d.at[d.journal.stage]] \in Whole
      <4>1. d.at[d.journal.stage] \in Number
        BY <3>1, <3>4, DirectoryParts DEF Sound
      <4> QED BY <1>5, <3>1, <3>4, <4>1 DEF Sound, Whole
    <3>5. Sound(d)'
      BY <1>2, <3>1, <3>3, <3>4 DEF Sound
    <3> QED BY <1>6, <3>5 DEF Good
  <2>2. Unused'
    <3>1. ASSUME NEW i \in Number, i > budget.updates PROVE i # x
      BY <1>3, <3>1, Here, Apart DEF Unused, Whole
    <3> QED BY <1>2, <1>5, <3>1, Here DEF Unused
  <2> QED BY <2>1, <2>2 DEF Layout
<1>8. Types'
  BY <1>1, <1>2, <1>5 DEF IInv, Types, Budgets
<1>9. Journalled' /\ Stopped' /\ Removing'
  BY <1>1, <1>6, Here DEF Journalled, Stopped, Removing, Pending, After
<1>10. Staged'
  <2>1. cmd.pc \in {"copy", "publish"} => cmd.stage \in Number
    BY Here DEF Commands
  <2>2. cmd.pc \in {"copy", "publish"} => content'[cmd.stage] = content[cmd.stage]
    BY <1>4, <1>5, <2>1
  <2> QED BY <1>1, <1>2, <1>6, <2>2, Here DEF Staged
<1> QED BY <1>7, <1>8, <1>9, <1>10 DEF IInv, Phase

-----------------------------------------------------------------------------
(* Theorems. *)

\* The first state satisfies the invariant.
LEMMA InitIsGood == Init => IInv
<1> SUFFICES ASSUME Init PROVE IInv
  OBVIOUS
<1>1. PICK v \in Version :
         /\ content = [d \in Number |-> IF d = 0 THEN v ELSE "partial"]
         /\ proven = {v}
         /\ \/ service = "none" /\ registered = FALSE /\ monitor = None
            \/ service = "owned" /\ registered = TRUE /\ monitor = v
  BY DEF Init
<1>2. /\ dir = [at |-> [k \in Number |-> IF k = 0 THEN 0 ELSE None], journal |-> NoJournal]
      /\ past = {} /\ cmd = Idle /\ budget = [updates |-> 0, faults |-> 0, kills |-> 0]
  BY DEF Init
<1>3. /\ dir \in Directory /\ dir.journal = NoJournal /\ dir.at[0] = 0 /\ 0 \in Number
      /\ \A i \in Number : i # 0 => dir.at[i] = None
  BY <1>2, Apart DEF Directory
<1>4. content \in [Number -> Content] /\ content[0] = v /\ \A i \in Number : i # 0 => content[i] = "partial"
  BY <1>1, <1>3 DEF Content
<1>5. budget.updates = 0 /\ budget \in Budgets
  BY <1>2 DEF Budgets, Number
<1>6. Types
  BY <1>1, <1>2, <1>3, <1>4, <1>5, IdleIs DEF Types, Whole, Budgets
<1>7. Sound(dir) /\ Ready(dir)
  BY <1>1, <1>3, <1>4, <1>5, Apart DEF Sound, Ready, Whole
<1>8. Layout
  <2>1. Unused
    BY <1>4, <1>5, Apart DEF Unused
  <2> QED BY <1>2, <1>7, <2>1 DEF Layout, States, Good
<1>9. Phase
  BY <1>2, IdleIs DEF Phase, Journalled, Staged, Stopped, Removing, Before, Within, After
<1> QED BY <1>6, <1>8, <1>9 DEF IInv

\* Every step keeps the invariant.
LEMMA NextIsGood == IInv /\ [Next]_vars => IInv'
<1> SUFFICES ASSUME IInv, [Next]_vars PROVE IInv'
  OBVIOUS
<1>1. CASE UNCHANGED vars
  <2>1. /\ UNCHANGED <<dir, past, content, service, registered, monitor, cmd, proven, budget>>
    BY <1>1 DEF vars, launchd
  <2>2. Stopped'
    BY <2>1, Here DEF Stopped, Disturbed
  <2>3. cmd' \in Commands /\ Phase'
    BY <2>1, <2>2, Here, KeepsPhase
  <2> QED BY <2>1, <2>3, QuietStep DEF IInv, Types, Budgets
<1>2. CASE Reinstall \/ Rollback
  BY <1>2, ReinstallStep, RollbackStep
<1>3. CASE Forward
  BY <1>3, MakeStageStep, CopyStageStep, PublishStep DEF Forward
<1>4. CASE Exchange
  BY <1>4, StopStep, WaitStep, CheckStep, SwapStep, StartStep, HealthStep DEF Exchange
<1>5. CASE Finish
  BY <1>5, ClearStep, RemoveJournalStep, SyncRemovalStep, CleanupStep DEF Finish
<1>6. CASE Others \/ MonitorStarts \/ MonitorEnds
  BY <1>6, MonitorStep, OutageStep, EditStep DEF Others
<1>7. CASE \E v \in Version : Begin(v)
  BY <1>7, BeginStep
<1> QED BY <1>1, <1>2, <1>3, <1>4, <1>5, <1>6, <1>7 DEF Next, Command

\* The inductive invariant holds in every state of the update.
THEOREM UpgradeInvariant == Spec => []IInv
<1>1. Init => IInv
  BY InitIsGood
<1>2. IInv /\ [Next]_vars => IInv'
  BY NextIsGood
<1> QED BY <1>1, <1>2, PTL DEF Spec

\* Type correctness, for every set of payloads and every bound.
THEOREM TypeCorrect == Spec => []TypeOK
<1>1. IInv => TypeOK
  BY DEF IInv, Types, TypeOK, Commands, Pcs, Whole
<1> QED BY <1>1, UpgradeInvariant, PTL

\* Recoverable: the journal that an error, a kill or a power loss leaves passes
\* inspectUpgradeJournal in the next command, unless somebody edited something.
THEOREM JournalRecovers == Spec => []Recoverable
<1>1. IInv => Recoverable
  BY Here, ReadyInspected DEF IInv, Recoverable
<1> QED BY <1>1, UpgradeInvariant, PTL

\* OnlyProvenStays: without a journal the connected runtime is one whose monitor
\* published a heartbeat; clearUpgradeJournal comes after waitDistributionHealth.
THEOREM ProvenOrJournal == Spec => []OnlyProvenStays
<1>1. ASSUME IInv PROVE OnlyProvenStays
  <2>1. Installed = content[dir.at[0]]
    BY <1>1, Here, InstalledIs DEF IInv
  <2> QED BY <1>1, <2>1, Here DEF OnlyProvenStays, Ready, Pending
<1> QED BY <1>1, UpgradeInvariant, PTL

-----------------------------------------------------------------------------
(* What somebody edited. *)

Keeps ==
    \A d \in Number :
       content[d] = "edited" /\ d \in Named(dir) => content'[d] = "edited" /\ d \in Named(dir')

\* It stays edited, and an entry names it before and after.
LEMMA KeptBy ==
    ASSUME \A d \in Number : content[d] = "edited" => content'[d] = "edited",
           \A i \in Number : dir.at[i] \in Number /\ content[dir.at[i]] = "edited"
                             => \E j \in Number : dir'.at[j] = dir.at[i]
    PROVE  Keeps
BY DEF Keeps, Named

\* A stage that holds something else may go.
LEMMA KeptByDrop ==
    ASSUME IInv, dir' = DropStage, content[dir.at[cmd.stage]] # "edited",
           \A d \in Number : content[d] = "edited" => content'[d] = "edited"
    PROVE  Keeps
<1> DEFINE s == cmd.stage
<1>1. dir \in Directory /\ s \in Number /\ None \in Number \cup {None}
  BY Here DEF Commands
<1>2. dir' = Put(dir, s, None)
  BY DEF DropStage, Put
<1> HIDE DEF s
<1>3. \A i \in Number : i # s => dir'.at[i] = dir.at[i]
  BY <1>1, <1>2, PutIs
<1>4. \A i \in Number : dir.at[i] \in Number /\ content[dir.at[i]] = "edited"
                        => \E j \in Number : dir'.at[j] = dir.at[i]
  BY <1>3 DEF s
<1> QED BY <1>4, KeptBy

\* A change of the journal names the same.
LEMMA KeptByLog ==
    ASSUME IInv, NEW j \in Journals \cup {NoJournal}, dir' = Log(dir, j), content' = content
    PROVE  Keeps
<1>1. dir'.at = dir.at
  BY Here, LogIs
<1> QED BY <1>1, KeptBy

\* A new stage replaces no entry.
LEMMA KeptByMakeStage ==
    ASSUME IInv, MakeStage
    PROVE  Keeps
<1> DEFINE k == budget.updates + 1
<1>1. CASE UNCHANGED <<dir, content>>
  BY <1>1, KeptBy
<1>2. CASE /\ k <= MaxUpdates /\ Change([dir EXCEPT !.at[k] = k])
           /\ content' = [content EXCEPT ![k] = "partial"]
  <2>1. k \in Number /\ k \in Number \cup {None} /\ k > budget.updates
    BY <1>2, Here DEF Number
  <2>2. content' = content
    BY <1>2, <2>1, Here DEF Unused
  <2>3. dir' = Put(dir, k, k)
    BY <1>2 DEF Change, Put
  <2> HIDE DEF k
  <2>4. dir' \in Directory /\ dir'.at[k] = k /\ \A i \in Number : i # k => dir'.at[i] = dir.at[i]
    <3>1. dir \in Directory
      BY Here
    <3> QED BY <2>1, <2>3, <3>1, PutIs
  <2>5. dir.at[k] = None
    BY <2>1, Here DEF Sound, Number
  <2>6. \A i \in Number : dir.at[i] \in Number /\ content[dir.at[i]] = "edited"
                          => \E j \in Number : dir'.at[j] = dir.at[i]
    BY <2>4, <2>5, Apart
  <2> QED BY <2>2, <2>6, KeptBy
<1> QED BY <1>1, <1>2, Here DEF MakeStage

\* The copy writes into its own new stage.
LEMMA KeptByCopyStage ==
    ASSUME IInv, CopyStage
    PROVE  Keeps
<1>1. /\ cmd.stage \in Number /\ dir.at[cmd.stage] = cmd.stage /\ content[cmd.stage] = "partial"
      /\ cmd.target \in Version
  BY Here DEF CopyStage, Staged, Journalled, Before, Commands
<1>2. CASE Change(DropStage) /\ UNCHANGED content
  BY <1>1, <1>2, KeptByDrop DEF Change
<1>3. CASE content' = [content EXCEPT ![cmd.stage] = cmd.target] /\ UNCHANGED <<dir, past>>
  BY <1>1, <1>3, Here, KeptBy
<1> QED BY <1>2, <1>3 DEF CopyStage

\* The journal touches no entry.
LEMMA KeptByPublish ==
    ASSUME IInv, Publish
    PROVE  Keeps
<1> DEFINE j == [stage |-> cmd.stage, old |-> cmd.old, new |-> cmd.target, owned |-> service # "none"]
<1>1. /\ cmd.stage \in Number /\ cmd.stage # 0 /\ dir.at[cmd.stage] = cmd.stage
      /\ content[cmd.stage] = cmd.target /\ cmd.target \in Version /\ cmd.old \in Version
      /\ content' = content
  BY Here DEF Publish, Staged, Journalled, Before, Commands
<1>2. j \in Journals \cup {NoJournal}
  <2>1. (service # "none") \in BOOLEAN
    OBVIOUS
  <2> QED BY <1>1, <2>1 DEF Journals
<1>3. dir' = Log(dir, j) \/ dir' = DropStage
  BY Zenon DEF Publish, Change, Durable, Log
<1> HIDE DEF j
<1> QED BY <1>1, <1>2, <1>3, KeptByDrop, KeptByLog

\* The exchange keeps both directories.
LEMMA KeptBySwap ==
    ASSUME IInv, Swap
    PROVE  Keeps
<1> DEFINE k == dir.journal.stage
           d == Exchanged(dir, k)
<1>1. dir \in Directory /\ k \in Number /\ k # 0 /\ 0 \in Number /\ content' = content
  <2>1. Pending
    BY Here DEF Swap, Journalled, Within
  <2> QED BY <2>1, Here, DirectoryParts, Apart DEF Pending, Swap
<1>2. dir' = dir \/ dir' = d
  <2>1. [dir EXCEPT !.at[0] = dir.at[dir.journal.stage], !.at[dir.journal.stage] = dir.at[0]] = d
    BY Zenon DEF Put, Exchanged
  <2> QED BY <2>1, Zenon DEF Swap, Change, Durable
<1>3. CASE dir' = dir
  BY <1>1, <1>3, KeptBy
<1>4. CASE dir' = d
  <2> HIDE DEF k
  <2>1. /\ dir'.at[0] = dir.at[k] /\ dir'.at[k] = dir.at[0]
        /\ \A i \in Number : i # 0 /\ i # k => dir'.at[i] = dir.at[i]
    BY <1>1, <1>4, ExchangedIs
  <2>2. \A i \in Number : \E j \in Number : dir'.at[j] = dir.at[i]
    BY <1>1, <2>1
  <2> QED BY <1>1, <2>2, KeptBy
<1> QED BY <1>2, <1>3, <1>4

\* The end removes what it has just inspected.
LEMMA KeptByFinish ==
    ASSUME IInv, RemoveJournal \/ Cleanup
    PROVE  Keeps
<1>1. CASE RemoveJournal
  <2>1. content' = content /\ (dir' = dir \/ dir' = Log(dir, NoJournal))
    BY <1>1 DEF RemoveJournal, Change, Log
  <2>2. CASE dir' = dir
    BY <2>1, <2>2, KeptBy
  <2> QED BY <2>1, <2>2, KeptByLog
<1>2. CASE Cleanup
  <2>1. /\ content[dir.at[cmd.stage]] \in Version
        /\ content' = [content EXCEPT ![dir.at[cmd.stage]] = "partial"]
        /\ dir' = DropStage \/ dir' = dir
    BY <1>2, Here DEF Cleanup, Removing, After, Change
  <2>2. \A d \in Number : content[d] = "edited" => content'[d] = "edited"
    BY <2>1, Here
  <2>3. CASE dir' = dir
    BY <2>2, <2>3, KeptBy
  <2> QED BY <2>1, <2>2, <2>3, KeptByDrop
<1> QED BY <1>1, <1>2

\* The other steps remove nothing.
LEMMA KeptByOthers ==
    ASSUME IInv, UNCHANGED <<dir, content>> \/ \E k \in Number : Edit(k)
    PROVE  Keeps
<1>1. CASE UNCHANGED <<dir, content>>
  BY <1>1, KeptBy
<1>2. CASE \E k \in Number : Edit(k)
  <2>1. PICK k \in Number : Edit(k)
    BY <1>2
  <2>2. dir' = dir /\ content' = [content EXCEPT ![dir.at[k]] = "edited"]
    BY <2>1 DEF Edit
  <2>3. \A d \in Number : content[d] = "edited" => content'[d] = "edited"
    BY <2>2, Here
  <2> QED BY <2>2, <2>3, KeptBy
<1> QED BY <1>1, <1>2

\* EditedIsKept: between kills and power losses no step removes what somebody
\* edited, neither as runtime nor as backup; every removal follows an inspection.
THEOREM EditsAreKept == Spec => EditedIsKept
<1>1. ASSUME IInv, Next, budget'.kills = budget.kills PROVE Keeps
  <2>1. CASE Reinstall \/ Rollback \/ Stop \/ Wait \/ Check \/ Start \/ Health \/ Clear \/ SyncRemoval
    <3>1. UNCHANGED <<dir, content>>
      BY <2>1 DEF Reinstall, Rollback, Stop, Wait, Check, Start, Health, Clear, SyncRemoval, Durable
    <3> QED BY <1>1, <3>1, KeptByOthers
  <2>2. CASE MonitorStarts \/ MonitorEnds \/ Unload \/ EditService \/ \E v \in Version : Begin(v)
    <3>1. UNCHANGED <<dir, content>>
      BY <2>2 DEF MonitorStarts, MonitorEnds, Unload, EditService, Begin
    <3> QED BY <1>1, <3>1, KeptByOthers
  <2>3. CASE Kill \/ Outage
    <3>1. budget \in Budgets
      BY <1>1 DEF IInv, Types, Budgets
    <3>2. FALSE
      BY <1>1, <2>3, <3>1 DEF Kill, Outage, Count, Budgets
    <3> QED BY <3>2
  <2>4. CASE \E k \in Number : Edit(k)
    BY <1>1, <2>4, KeptByOthers
  <2>5. CASE MakeStage \/ CopyStage \/ Publish \/ Swap \/ RemoveJournal \/ Cleanup
    BY <1>1, <2>5, KeptByMakeStage, KeptByCopyStage, KeptByPublish, KeptBySwap, KeptByFinish
  <2> QED BY <1>1, <2>1, <2>2, <2>3, <2>4, <2>5
          DEF Next, Command, Forward, Exchange, Finish, Others
<1>2. ASSUME UNCHANGED vars PROVE Keeps
  BY <1>2, KeptBy DEF vars
<1>3. IInv /\ [Next]_vars =>
        [budget'.kills = budget.kills => \A d \in Number :
           content[d] = "edited" /\ d \in Named(dir) => content'[d] = "edited" /\ d \in Named(dir')]_vars
  BY <1>1, <1>2 DEF Keeps
<1> QED BY <1>3, UpgradeInvariant, PTL DEF Spec, EditedIsKept
=============================================================================
