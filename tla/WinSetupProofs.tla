---------------------------- MODULE WinSetupProofs ----------------------------
(***************************************************************************)
(* Theorems of the Windows installation, for every set of versions and      *)
(* clients and every bound: what is selected can be run, an unproven        *)
(* version stays only with a journal, no monitor outlives its task, and a   *)
(* registration for notifications has its helper.                           *)
(*                                                                         *)
(* None of the four is inductive alone.  A command relies at each step on   *)
(* what it has established before, which the lock keeps from others:        *)
(* Commands says what holds at which step.  Between commands the journal    *)
(* decides: both of its versions are complete and can serve a registration. *)
(***************************************************************************)
EXTENDS WinSetup, TLAPS

USE WinSetupAssumption, WinSetupNoneAssumption, WinSetupDataAssumption
-----------------------------------------------------------------------------
(* The inductive invariant. *)

\* The steps of an installation without a selection, without a journal and with one.
FirstSteps == {"laodi.exe", "laodi-host.exe", "current"}
Plain      == {"decide", "register", "receipt", "unregister", "run", "health", "journal"}
Undoing    == {"recover", "restore", "restart", "old health", "recovered"}
Updating   == {"stop", "select", "start", "new health", "done"} \cup Undoing
Installing == {"stage"} \cup FirstSteps \cup Plain \cup Updating
Others     == {"idle", "notify", "prefer", "hook", "record", "unnotify", "unhook", "unrecord",
               "stop all", "unregister all", "delete", "drop receipt"}

Cmds == [kind : {None, "install", "remove", "notice"}, pc : Installing \cup Others,
         version : Version \cup {None}, clients : SUBSET Client,
         then : {"idle", "decide", "notify", "journal"} \cup Client]
Monitors == {"off", "starting"} \cup Version

Typed ==
    /\ versions \subseteq Version /\ current \in Version \cup {None}
    /\ launcher \in [{"laodi.exe", "laodi-host.exe"} -> Version \cup {None}]
    /\ journal \in [old : Version, new : Version] \cup {None}
    /\ task \in {None, "own", "edited"} /\ receipt \in BOOLEAN
    /\ monitor \in Monitors /\ crashed \in BOOLEAN
    /\ hooked \subseteq Client /\ recorded \subseteq Client
    /\ notice \in {"none", "pending", "done"} /\ enabled \in BOOLEAN
    /\ helper \subseteq Version /\ proved \subseteq working
    /\ cmd \in Cmds

\* What a command has established when it is at a step.
Commands ==
    /\ cmd.pc \in Installing =>
          cmd.kind = "install" /\ cmd.version \in Version /\ NoticeAllows(cmd.version)
    /\ cmd.pc \in Installing \ {"stage"} => cmd.version \in versions
    /\ cmd.pc \in FirstSteps => current = None
    /\ cmd.pc \in {"laodi-host.exe", "current"} => launcher["laodi.exe"] # None
    /\ cmd.pc = "current" => launcher["laodi-host.exe"] # None
    /\ cmd.pc \notin FirstSteps \cup {"idle", "stage"} => current # None
    /\ cmd.pc \in Plain \cup {"notify"} => journal = None
    /\ cmd.pc \in Updating => journal # None
    /\ cmd.pc \in {"stop", "select"} => journal.new = cmd.version
    /\ cmd.pc \in {"done", "recovered"} => current \in proved
    /\ cmd.pc \in {"receipt", "unregister"} => monitor = "off" /\ ~crashed
    /\ cmd.pc \in {"register", "receipt", "unregister", "run", "health"} => cmd.then \in {"notify", "journal"}
    /\ cmd.pc \in Undoing /\ cmd.then # "idle" => cmd.then = "decide"
    /\ cmd.pc = "record" => cmd.then \in Client

\* Either version of the journal can serve a registration.
Journaled == journal # None /\ notice # "none" => {journal.old, journal.new} \subseteq helper
Proven    == (current = None => proved = {}) /\ OnlyProvenSelected
Stopped   == (task = None => ~crashed) /\ RemovedIsStopped
Served    == Journaled /\ NoticeHasHelper

WInv == Typed /\ Commands /\ Routable /\ Proven /\ Stopped /\ Served

-----------------------------------------------------------------------------
(* Steps of a command. *)

\* A command that ends has nothing to rely on.
LEMMA FinishCommand ==
    ASSUME Finish
    PROVE  cmd' \in Cmds /\ Commands'
<1>1. cmd' = NoCommand
  BY DEF Finish
<1>2. cmd'.pc = "idle"
  BY <1>1 DEF NoCommand
<1>3. Commands'
  BY <1>2 DEF Commands, Installing, FirstSteps, Plain, Undoing, Updating
<1>4. cmd' \in Cmds
  BY <1>1 DEF NoCommand, Cmds, Others
<1> QED BY <1>3, <1>4

\* A step of a command keeps what it works on.
LEMMA GotoCommand ==
    ASSUME Typed, NEW pc \in Installing \cup Others, Goto(pc)
    PROVE  /\ cmd' \in Cmds /\ cmd'.pc = pc /\ cmd'.kind = cmd.kind /\ cmd'.version = cmd.version
           /\ cmd'.clients = cmd.clients /\ cmd'.then = cmd.then
BY DEF Typed, Cmds, Goto

\* Steps outside of an installation's files need no more than a selection.
LEMMA OtherCommand ==
    ASSUME cmd'.pc \in Others \ {"idle", "notify"}, current' # None,
           cmd'.pc = "record" => cmd'.then \in Client
    PROVE  Commands'
BY DEF Commands, Others, Installing, FirstSteps, Plain, Undoing, Updating

\* Most steps leave the versions, the service and the registration alone.
LEMMA QuietStep ==
    ASSUME WInv, UNCHANGED <<runtime, service, notice, ghost>>,
           hooked' \subseteq Client, recorded' \subseteq Client, enabled' \in BOOLEAN,
           cmd' \in Cmds, Commands'
    PROVE  WInv'
<1>1. /\ versions' = versions /\ launcher' = launcher /\ current' = current /\ journal' = journal
      /\ task' = task /\ receipt' = receipt /\ monitor' = monitor /\ crashed' = crashed
      /\ notice' = notice /\ helper' = helper /\ working' = working /\ proved' = proved
  BY DEF runtime, service, ghost
<1>2. Typed'
  BY <1>1 DEF WInv, Typed
<1>3. Routable' /\ Proven' /\ Stopped'
  BY <1>1 DEF WInv, Routable, Proven, OnlyProvenSelected, Stopped, RemovedIsStopped
<1>4. Served'
  BY <1>1 DEF WInv, Served, Journaled, NoticeHasHelper
<1> QED BY <1>2, <1>3, <1>4 DEF WInv

\* A step that only moves the command on.
LEMMA CommandStep ==
    ASSUME WInv, UNCHANGED <<runtime, service, hooks, notices, ghost>>, cmd' \in Cmds, Commands'
    PROVE  WInv'
<1>1. UNCHANGED <<runtime, service, notice, ghost>>
  BY DEF notices
<1>2. hooked' \subseteq Client /\ recorded' \subseteq Client /\ enabled' \in BOOLEAN
  BY DEF WInv, Typed, hooks, notices
<1> QED BY <1>1, <1>2, QuietStep

\* What an installation without a journal relies on.
LEMMA PlainCommand ==
    ASSUME cmd'.pc \in Plain, cmd'.kind = "install", notice' # "none" => cmd'.version \in helper',
           cmd'.version \in versions' \cap Version, current' # None, journal' = None,
           cmd'.pc \in {"receipt", "unregister"} => monitor' = "off" /\ ~crashed',
           cmd'.pc \in {"decide", "journal"} \/ cmd'.then \in {"notify", "journal"}
    PROVE  Commands'
BY DEF Commands, NoticeAllows, Installing, FirstSteps, Plain, Undoing, Updating

\* What an update and its recovery rely on.
LEMMA UpdateCommand ==
    ASSUME cmd'.pc \in Updating, cmd'.kind = "install", notice' # "none" => cmd'.version \in helper',
           cmd'.version \in versions' \cap Version, current' # None, journal' # None,
           cmd'.pc \in {"stop", "select"} => journal'.new = cmd'.version,
           cmd'.pc \in {"done", "recovered"} => current' \in proved',
           cmd'.pc \in Undoing => cmd'.then \in {"idle", "decide"}
    PROVE  Commands'
BY DEF Commands, NoticeAllows, Installing, FirstSteps, Plain, Undoing, Updating

\* What an installation knows.
LEMMA InstallFacts ==
    ASSUME WInv, cmd.pc \in Installing
    PROVE  /\ cmd.kind = "install" /\ (notice # "none" => cmd.version \in helper)
           /\ cmd.pc # "stage" => cmd.version \in versions
           /\ cmd.pc \in Plain => journal = None /\ current # None
           /\ cmd.pc \in Updating => journal # None /\ current # None
           /\ cmd.pc \in Undoing => cmd.then \in {"idle", "decide"}
           /\ cmd.version \in Version
BY DEF WInv, Typed, Commands, NoticeAllows, Installing, FirstSteps, Plain, Undoing, Updating, Cmds

\* A command goes on to the hooks, the registration or the removal.
LEMMA GotoOther ==
    ASSUME WInv, NEW pc \in Others \ {"idle", "notify", "record"}, Goto(pc), current' # None
    PROVE  cmd' \in Cmds /\ Commands'
<1>1. cmd' \in Cmds /\ cmd'.pc = pc
  BY GotoCommand DEF WInv
<1> QED BY <1>1, OtherCommand

\* The registration follows when no journal is left.
LEMMA GotoNotify ==
    ASSUME WInv, Goto("notify"), current' # None, journal' = None
    PROVE  cmd' \in Cmds /\ Commands'
<1>1. cmd' \in Cmds /\ cmd'.pc = "notify"
  BY GotoCommand DEF WInv, Others
<1>2. Commands'
  BY <1>1 DEF Commands, Installing, FirstSteps, Plain, Undoing, Updating
<1> QED BY <1>1, <1>2

\* An installation goes on without a journal.
LEMMA GotoPlain ==
    ASSUME WInv, cmd.pc \in Installing \ {"stage"}, NEW pc \in Plain, Goto(pc),
           versions' = versions, current' # None, journal' = None, notice' = notice, helper' = helper,
           pc \in {"receipt", "unregister"} => monitor' = "off" /\ ~crashed',
           pc \in {"decide", "journal"} \/ cmd.then \in {"notify", "journal"}
    PROVE  cmd' \in Cmds /\ Commands'
<1>1. /\ cmd' \in Cmds /\ cmd'.pc = pc /\ cmd'.kind = cmd.kind /\ cmd'.version = cmd.version
      /\ cmd'.then = cmd.then
  BY GotoCommand DEF WInv, Installing
<1>2. /\ cmd.kind = "install" /\ (notice # "none" => cmd.version \in helper)
      /\ cmd.version \in Version /\ cmd.version \in versions
  BY InstallFacts
<1> QED BY <1>1, <1>2, PlainCommand

\* An update or its recovery goes on under the journal.
LEMMA GotoUpdate ==
    ASSUME WInv, cmd.pc \in Installing \ {"stage"}, NEW pc \in Updating, Goto(pc),
           versions' = versions, current' # None, journal' # None, notice' = notice, helper' = helper,
           pc \in {"stop", "select"} => journal'.new = cmd.version,
           pc \in {"done", "recovered"} => current' \in proved',
           pc \in Undoing => cmd.then \in {"idle", "decide"}
    PROVE  cmd' \in Cmds /\ Commands'
<1>1. /\ cmd' \in Cmds /\ cmd'.pc = pc /\ cmd'.kind = cmd.kind /\ cmd'.version = cmd.version
      /\ cmd'.then = cmd.then
  BY GotoCommand DEF WInv, Installing
<1>2. /\ cmd.kind = "install" /\ (notice # "none" => cmd.version \in helper)
      /\ cmd.version \in Version /\ cmd.version \in versions
  BY InstallFacts
<1> QED BY <1>1, <1>2, UpdateCommand

\* An update that failed is undone under its journal.
LEMMA UndoUpdate ==
    ASSUME WInv, cmd.pc \in Updating, Undo,
           versions' = versions, current' # None, journal' # None, notice' = notice, helper' = helper
    PROVE  cmd' \in Cmds /\ Commands'
<1>1. /\ cmd' \in Cmds /\ cmd'.pc = "recover" /\ cmd'.kind = cmd.kind /\ cmd'.version = cmd.version
      /\ cmd'.then = "idle"
  BY DEF Undo, WInv, Typed, Cmds, Installing, Updating, Undoing
<1>2. /\ cmd.kind = "install" /\ (notice # "none" => cmd.version \in helper)
      /\ cmd.version \in Version /\ cmd.version \in versions
  BY InstallFacts DEF Installing, Updating, Undoing
<1> QED BY <1>1, <1>2, UpdateCommand DEF Updating, Undoing

\* Changes of task, receipt and monitor with a version selected.
LEMMA ServiceStep ==
    ASSUME WInv, UNCHANGED <<runtime, hooks, notices, ghost>>, current # None,
           task' \in {None, "own", "edited"}, receipt' \in BOOLEAN, monitor' \in Monitors,
           crashed' \in BOOLEAN, task' = None => monitor' = "off" /\ ~crashed',
           cmd' \in Cmds, Commands'
    PROVE  WInv'
<1>1. /\ versions' = versions /\ launcher' = launcher /\ current' = current /\ journal' = journal
      /\ hooked' = hooked /\ recorded' = recorded /\ notice' = notice /\ enabled' = enabled
      /\ helper' = helper /\ working' = working /\ proved' = proved
  BY DEF runtime, hooks, notices, ghost
<1>2. Typed'
  BY <1>1 DEF WInv, Typed
<1>3. Routable'
  BY <1>1 DEF WInv, Routable
<1>4. Proven' /\ Stopped' /\ Served'
  BY <1>1 DEF WInv, Proven, OnlyProvenSelected, Stopped, RemovedIsStopped, Served, Journaled,
     NoticeHasHelper
<1> QED BY <1>2, <1>3, <1>4 DEF WInv

\* A command sees that the selected version works.
LEMMA ProofStep ==
    ASSUME WInv, UNCHANGED <<runtime, service, hooks, notices, helper, working>>, current # None,
           Healthy, proved' = proved \cup {current}, cmd' \in Cmds, Commands'
    PROVE  WInv'
<1>1. /\ versions' = versions /\ launcher' = launcher /\ current' = current /\ journal' = journal
      /\ task' = task /\ receipt' = receipt /\ monitor' = monitor /\ crashed' = crashed
      /\ hooked' = hooked /\ recorded' = recorded /\ notice' = notice /\ enabled' = enabled
      /\ helper' = helper /\ working' = working
  BY DEF runtime, service, hooks, notices
<1>2. Typed'
  BY <1>1 DEF WInv, Typed, Healthy
<1>3. Routable' /\ Stopped' /\ Served'
  BY <1>1 DEF WInv, Routable, Stopped, RemovedIsStopped, Served, Journaled, NoticeHasHelper
<1>4. Proven'
  BY <1>1 DEF Proven, OnlyProvenSelected
<1> QED BY <1>2, <1>3, <1>4 DEF WInv

-----------------------------------------------------------------------------
(* The actions. *)

\* A command begins at its first step with what it has checked.
LEMMA BeginKeeps ==
    ASSUME WInv, BeginInstall \/ BeginRemove \/ BeginNotice
    PROVE  WInv'
<1>1. UNCHANGED <<runtime, service, hooks, notices, ghost>>
  BY DEF BeginInstall, BeginRemove, BeginNotice
<1>2. current' = current
  BY <1>1 DEF runtime
<1>3. CASE BeginInstall
  <2>1. PICK v \in Version, found \in SUBSET Client :
            /\ NoticeAllows(v)
            /\ cmd' = [NoCommand EXCEPT !.kind = "install", !.pc = "stage", !.version = v,
                                        !.clients = found \cup recorded]
    BY <1>3 DEF BeginInstall
  <2>2. cmd'.kind = "install" /\ cmd'.pc = "stage" /\ cmd'.version = v /\ v \in Version
    BY <2>1 DEF NoCommand
  <2>3. cmd' \in Cmds
    BY <2>1 DEF NoCommand, Cmds, WInv, Typed, Installing
  <2>4. notice' = notice /\ helper' = helper
    BY <1>1 DEF notices, ghost
  <2>5. Commands'
    BY <2>1, <2>2, <2>4 DEF Commands, NoticeAllows, Installing, FirstSteps, Plain, Undoing, Updating
  <2> QED BY <1>1, <2>3, <2>5, CommandStep
<1>4. CASE BeginRemove
  <2>1. current # None /\ cmd' = [NoCommand EXCEPT !.kind = "remove", !.pc = "unhook", !.clients = recorded]
    BY <1>4 DEF BeginRemove
  <2>2. cmd'.pc = "unhook" /\ cmd' \in Cmds
    BY <2>1 DEF NoCommand, Cmds, WInv, Typed, Others
  <2>3. Commands'
    BY <1>2, <2>1, <2>2, OtherCommand DEF Others
  <2> QED BY <1>1, <2>2, <2>3, CommandStep
<1>5. CASE BeginNotice
  <2>1. PICK pc \in {"notify", "unnotify"} :
            /\ pc = "notify" => journal = None
            /\ cmd' = [NoCommand EXCEPT !.kind = "notice", !.pc = pc]
    BY <1>5 DEF BeginNotice
  <2>2. current # None
    BY <1>5 DEF BeginNotice, WInv, Typed
  <2>3. cmd'.pc = pc /\ cmd' \in Cmds
    BY <2>1 DEF NoCommand, Cmds, Others
  <2>4. journal' = journal
    BY <1>1 DEF runtime
  <2>5. Commands'
    BY <1>2, <2>1, <2>2, <2>3, <2>4 DEF Commands, Installing, FirstSteps, Plain, Undoing, Updating
  <2> QED BY <1>1, <2>3, <2>5, CommandStep
<1> QED BY <1>3, <1>4, <1>5

\* A published version is one more complete directory; the journal decides whether
\* a recovery comes first.
LEMMA StageKeeps ==
    ASSUME WInv, Stage
    PROVE  WInv'
<1>1. /\ cmd.pc = "stage" /\ launcher' = launcher /\ current' = current /\ journal' = journal
      /\ UNCHANGED <<service, hooks, notices, ghost>>
  BY DEF Stage, At
<1>2. CASE Finish /\ UNCHANGED versions
  BY <1>1, <1>2, FinishCommand, CommandStep DEF runtime
<1>3. CASE /\ versions' = versions \cup {cmd.version}
           /\ cmd' = [cmd EXCEPT !.pc = Prepared, !.then = "decide"]
  <2>1. /\ cmd.kind = "install" /\ (notice # "none" => cmd.version \in helper)
        /\ cmd.version \in Version
    BY <1>1, InstallFacts DEF Installing
  <2>2. /\ task' = task /\ receipt' = receipt /\ monitor' = monitor /\ crashed' = crashed
        /\ hooked' = hooked /\ recorded' = recorded /\ notice' = notice /\ enabled' = enabled
        /\ helper' = helper /\ working' = working /\ proved' = proved
    BY <1>1 DEF service, hooks, notices, ghost
  <2>3. Prepared \in {"laodi.exe", "recover", "decide"}
    BY DEF Prepared
  <2>4. /\ cmd' \in Cmds /\ cmd'.pc = Prepared /\ cmd'.then = "decide" /\ cmd'.kind = cmd.kind
        /\ cmd'.version = cmd.version
    BY <1>3, <2>3 DEF WInv, Typed, Cmds, Installing, FirstSteps, Plain, Updating, Undoing
  <2>5. Typed'
    BY <1>1, <1>3, <2>1, <2>2, <2>4 DEF WInv, Typed
  <2>6. Routable'
    BY <1>1, <1>3, <2>2 DEF WInv, Routable
  <2>7. Proven' /\ Stopped' /\ Served'
    BY <1>1, <2>2 DEF WInv, Proven, OnlyProvenSelected, Stopped, RemovedIsStopped,
       Served, Journaled, NoticeHasHelper
  <2>8. Commands'
    <3>1. CASE current = None
      <4>1. cmd'.pc = "laodi.exe"
        BY <2>4, <3>1 DEF Prepared, Fresh
      <4> QED BY <1>1, <1>3, <2>1, <2>2, <2>4, <3>1, <4>1
              DEF Commands, NoticeAllows, Installing, FirstSteps, Plain, Undoing, Updating
    <3>2. CASE current # None /\ journal = None
      <4>1. cmd'.pc = "decide"
        BY <2>4, <3>2 DEF Prepared, Fresh
      <4> QED BY <1>1, <1>3, <2>1, <2>2, <2>4, <3>2, <4>1, PlainCommand DEF Plain
    <3>3. CASE current # None /\ journal # None
      <4>1. cmd'.pc = "recover"
        BY <2>4, <3>3 DEF Prepared, Fresh
      <4> QED BY <1>1, <1>3, <2>1, <2>2, <2>4, <3>3, <4>1, UpdateCommand DEF Updating, Undoing
    <3> QED BY <3>1, <3>2, <3>3
  <2> QED BY <2>5, <2>6, <2>7, <2>8 DEF WInv
<1> QED BY <1>2, <1>3 DEF Stage

\* The launchers are written one after the other before anything is selected.
LEMMA LaunchersKeeps ==
    ASSUME WInv, Launchers
    PROVE  WInv'
<1>1. /\ cmd.pc \in DOMAIN launcher /\ versions' = versions /\ current' = current /\ journal' = journal
      /\ UNCHANGED <<service, hooks, notices, ghost>>
  BY DEF Launchers
<1>2. CASE Finish /\ UNCHANGED launcher
  BY <1>1, <1>2, FinishCommand, CommandStep DEF runtime
<1>3. CASE /\ launcher' = [launcher EXCEPT ![cmd.pc] = cmd.version] /\ Goto(NextFile)
  <2>0. cmd.pc \in {"laodi.exe", "laodi-host.exe"}
    BY <1>1 DEF WInv, Typed
  <2>1. /\ cmd.kind = "install" /\ (notice # "none" => cmd.version \in helper)
        /\ cmd.version \in Version /\ cmd.version \in versions /\ current = None
    BY <2>0, InstallFacts DEF Installing, FirstSteps, WInv, Commands
  <2>2. /\ task' = task /\ receipt' = receipt /\ monitor' = monitor /\ crashed' = crashed
        /\ hooked' = hooked /\ recorded' = recorded /\ notice' = notice /\ enabled' = enabled
        /\ helper' = helper /\ working' = working /\ proved' = proved
    BY <1>1 DEF service, hooks, notices, ghost
  <2>3. NextFile \in {"laodi-host.exe", "current"}
    BY DEF NextFile
  <2>4. /\ cmd' \in Cmds /\ cmd'.pc = NextFile /\ cmd'.kind = cmd.kind /\ cmd'.version = cmd.version
    BY <1>3, <2>3, GotoCommand DEF WInv, Installing, FirstSteps
  <2>5. launcher' \in [{"laodi.exe", "laodi-host.exe"} -> Version \cup {None}]
    BY <1>3, <2>1 DEF WInv, Typed
  <2>6. Typed'
    BY <1>1, <2>2, <2>4, <2>5 DEF WInv, Typed
  <2>7. Routable'
    BY <1>1, <2>1, <2>2 DEF WInv, Routable
  <2>8. Proven' /\ Stopped' /\ Served'
    BY <1>1, <2>2 DEF WInv, Proven, OnlyProvenSelected, Stopped, RemovedIsStopped,
       Served, Journaled, NoticeHasHelper
  <2>9. Commands'
    <3>1. CASE cmd.pc = "laodi.exe"
      <4>1. cmd'.pc = "laodi-host.exe" /\ launcher'["laodi.exe"] # None
        BY <1>3, <2>1, <2>4, <3>1 DEF NextFile, At, WInv, Typed
      <4> QED BY <1>1, <2>1, <2>2, <2>4, <4>1
              DEF Commands, NoticeAllows, Installing, FirstSteps, Plain, Undoing, Updating
    <3>2. CASE cmd.pc = "laodi-host.exe"
      <4>1. /\ cmd'.pc = "current" /\ launcher'["laodi.exe"] # None
            /\ launcher'["laodi-host.exe"] # None
        BY <1>3, <2>1, <2>4, <3>2 DEF NextFile, At, WInv, Typed, Commands
      <4> QED BY <1>1, <2>1, <2>2, <2>4, <4>1
              DEF Commands, NoticeAllows, Installing, FirstSteps, Plain, Undoing, Updating
    <3> QED BY <2>0, <3>1, <3>2
  <2> QED BY <2>6, <2>7, <2>8, <2>9 DEF WInv
<1> QED BY <1>2, <1>3 DEF Launchers

\* The first selection is made when version and launchers are there.
LEMMA FirstCurrentKeeps ==
    ASSUME WInv, FirstCurrent
    PROVE  WInv'
<1>1. /\ cmd.pc = "current" /\ versions' = versions /\ launcher' = launcher /\ journal' = journal
      /\ UNCHANGED <<service, hooks, notices, ghost>>
  BY DEF FirstCurrent, At
<1>2. CASE Finish /\ UNCHANGED current
  BY <1>1, <1>2, FinishCommand, CommandStep DEF runtime
<1>3. CASE current' = cmd.version /\ Goto("decide")
  <2>1. /\ cmd.kind = "install" /\ (notice # "none" => cmd.version \in helper)
        /\ cmd.version \in Version /\ cmd.version \in versions
    BY <1>1, InstallFacts DEF Installing, FirstSteps
  <2>2. /\ current = None /\ launcher["laodi.exe"] # None /\ launcher["laodi-host.exe"] # None
    BY <1>1 DEF WInv, Commands, FirstSteps
  <2>3. journal = None /\ proved = {}
    BY <2>2 DEF WInv, Routable, Proven
  <2>4. /\ task' = task /\ receipt' = receipt /\ monitor' = monitor /\ crashed' = crashed
        /\ hooked' = hooked /\ recorded' = recorded /\ notice' = notice /\ enabled' = enabled
        /\ helper' = helper /\ working' = working /\ proved' = proved
    BY <1>1 DEF service, hooks, notices, ghost
  <2>5. /\ cmd' \in Cmds /\ cmd'.pc = "decide" /\ cmd'.kind = cmd.kind /\ cmd'.version = cmd.version
    BY <1>3, GotoCommand DEF WInv, Installing, Plain
  <2>6. Typed'
    BY <1>1, <1>3, <2>1, <2>4, <2>5 DEF WInv, Typed
  <2>7. Routable'
    BY <1>1, <1>3, <2>1, <2>2, <2>3, <2>4 DEF WInv, Typed, Routable
  <2>8. Proven' /\ Stopped' /\ Served'
    BY <1>1, <1>3, <2>1, <2>3, <2>4 DEF WInv, Proven, OnlyProvenSelected, Stopped,
       RemovedIsStopped, Served, Journaled, NoticeHasHelper
  <2>9. Commands'
    BY <1>1, <1>3, <2>1, <2>3, <2>4, <2>5, PlainCommand DEF Plain
  <2> QED BY <2>6, <2>7, <2>8, <2>9 DEF WInv
<1> QED BY <1>2, <1>3 DEF FirstCurrent

\* An update registers the task first if it is gone.
LEMMA DecideKeeps ==
    ASSUME WInv, Decide
    PROVE  WInv'
<1>1. cmd.pc = "decide" /\ UNCHANGED <<runtime, service, hooks, notices, ghost>>
  BY DEF Decide, At
<1>2. /\ cmd.kind = "install" /\ (notice # "none" => cmd.version \in helper)
      /\ cmd.version \in Version /\ cmd.version \in versions /\ journal = None /\ current # None
  BY <1>1, InstallFacts DEF Installing, Plain
<1>3. /\ versions' = versions /\ current' = current /\ journal' = journal
      /\ notice' = notice /\ helper' = helper
  BY <1>1 DEF runtime, notices, ghost
<1>4. /\ cmd' \in Cmds /\ cmd'.kind = cmd.kind /\ cmd'.version = cmd.version
      /\ \/ cmd'.pc = "journal"
         \/ cmd'.pc = "register" /\ cmd'.then \in {"notify", "journal"}
  BY DEF Decide, WInv, Typed, Cmds, Installing, Plain
<1>5. Commands'
  BY <1>2, <1>3, <1>4, PlainCommand DEF Plain
<1> QED BY <1>1, <1>4, <1>5, CommandStep

\* A new task finds a version to run and no monitor.
LEMMA RegisterKeeps ==
    ASSUME WInv, Register
    PROVE  WInv'
<1>1. /\ cmd.pc = "register" /\ UNCHANGED <<runtime, hooks, notices, ghost>>
      /\ receipt' = receipt /\ monitor' = monitor /\ crashed' = crashed
  BY DEF Register, At
<1>2. journal = None /\ current # None /\ cmd.then \in {"notify", "journal"}
  BY <1>1 DEF WInv, Commands, Plain, FirstSteps
<1>3. /\ versions' = versions /\ current' = current /\ journal' = journal
      /\ notice' = notice /\ helper' = helper
  BY <1>1 DEF runtime, notices, ghost
<1>4. /\ receipt \in BOOLEAN /\ monitor \in Monitors /\ crashed \in BOOLEAN
      /\ task \in {None, "own", "edited"} /\ (task = None => monitor = "off" /\ ~crashed)
  BY DEF WInv, Typed, Stopped, RemovedIsStopped
<1>5. CASE task' = task /\ (Goto("run") \/ Finish)
  <2>1. cmd' \in Cmds /\ Commands'
    BY <1>1, <1>2, <1>3, <1>5, GotoPlain, FinishCommand DEF Installing, Plain
  <2> QED BY <1>1, <1>2, <1>4, <1>5, <2>1, ServiceStep
<1>6. CASE Unowned /\ task' = "own" /\ Goto("receipt")
  <2>1. monitor' = "off" /\ ~crashed'
    BY <1>1, <1>4, <1>6 DEF Unowned
  <2>2. cmd' \in Cmds /\ Commands'
    BY <1>1, <1>2, <1>3, <1>6, <2>1, GotoPlain DEF Installing, Plain
  <2> QED BY <1>1, <1>2, <1>4, <1>6, <2>2, ServiceStep
<1> QED BY <1>5, <1>6 DEF Register

\* A task without a receipt is deleted before anything can have started.
LEMMA WriteReceiptKeeps ==
    ASSUME WInv, WriteReceipt
    PROVE  WInv'
<1>1. /\ cmd.pc \in {"receipt", "unregister"} /\ UNCHANGED <<runtime, hooks, notices, ghost>>
      /\ monitor' = monitor /\ crashed' = crashed
  BY DEF WriteReceipt, At
<1>2. /\ journal = None /\ current # None /\ cmd.then \in {"notify", "journal"}
      /\ monitor = "off" /\ ~crashed
  BY <1>1 DEF WInv, Commands, Plain, FirstSteps
<1>3. /\ versions' = versions /\ current' = current /\ journal' = journal
      /\ notice' = notice /\ helper' = helper
  BY <1>1 DEF runtime, notices, ghost
<1>4. /\ receipt \in BOOLEAN /\ crashed \in BOOLEAN /\ task \in {None, "own", "edited"}
      /\ monitor \in Monitors
  BY DEF WInv, Typed
<1>5. /\ task' \in {task, None} /\ receipt' \in BOOLEAN
      /\ Goto("run") \/ Goto("unregister") \/ Finish
  BY <1>4 DEF WriteReceipt
<1>6. cmd' \in Cmds /\ Commands'
  BY <1>1, <1>2, <1>3, <1>5, GotoPlain, FinishCommand DEF Installing, Plain
<1> QED BY <1>1, <1>2, <1>4, <1>5, <1>6, ServiceStep

\* The task starts the launcher, unless it runs.
LEMMA StartedMonitor ==
    ASSUME WInv, Owned, Started
    PROVE  /\ monitor' \in Monitors /\ crashed' \in BOOLEAN /\ task # None
           /\ task \in {None, "own", "edited"} /\ receipt \in BOOLEAN
BY DEF WInv, Typed, Owned, Started, Monitors

\* What the service is when a step leaves it alone.
LEMMA SameService ==
    ASSUME WInv
    PROVE  /\ monitor \in Monitors /\ crashed \in BOOLEAN /\ receipt \in BOOLEAN
           /\ task \in {None, "own", "edited"} /\ (task = None => monitor = "off" /\ ~crashed)
BY DEF WInv, Typed, Stopped, RemovedIsStopped

\* The task is run for the selected version.
LEMMA RunKeeps ==
    ASSUME WInv, Run
    PROVE  WInv'
<1>1. /\ cmd.pc = "run" /\ UNCHANGED <<runtime, hooks, notices, ghost>>
      /\ task' = task /\ receipt' = receipt
  BY DEF Run, At
<1>2. journal = None /\ current # None /\ cmd.then \in {"notify", "journal"}
  BY <1>1 DEF WInv, Commands, Plain, FirstSteps
<1>3. /\ versions' = versions /\ current' = current /\ journal' = journal
      /\ notice' = notice /\ helper' = helper
  BY <1>1 DEF runtime, notices, ghost
<1>4. CASE Owned /\ Started /\ Goto("health")
  <2>1. cmd' \in Cmds /\ Commands'
    BY <1>1, <1>2, <1>3, <1>4, GotoPlain DEF Installing, Plain
  <2> QED BY <1>1, <1>2, <1>4, <2>1, StartedMonitor, ServiceStep
<1>5. CASE Finish /\ UNCHANGED <<monitor, crashed>>
  BY <1>1, <1>2, <1>5, FinishCommand, SameService, ServiceStep
<1> QED BY <1>4, <1>5 DEF Run

\* A heartbeat proves the selected version; the update goes on from there.
LEMMA HealthKeeps ==
    ASSUME WInv, Health
    PROVE  WInv'
<1>1. /\ cmd.pc = "health" /\ UNCHANGED <<runtime, service, hooks, notices, helper, working>>
  BY DEF Health, At
<1>2. journal = None /\ current # None /\ cmd.then \in {"notify", "journal"}
  BY <1>1 DEF WInv, Commands, Plain, FirstSteps
<1>3. /\ versions' = versions /\ current' = current /\ journal' = journal
      /\ notice' = notice /\ helper' = helper
  BY <1>1 DEF runtime, notices
<1>4. CASE Healthy /\ proved' = proved \cup {current} /\ Goto(cmd.then)
  <2>1. CASE cmd.then = "notify"
    <3>1. cmd' \in Cmds /\ Commands'
      BY <1>2, <1>3, <1>4, <2>1, GotoNotify
    <3> QED BY <1>1, <1>2, <1>4, <3>1, ProofStep
  <2>2. CASE cmd.then = "journal"
    <3>1. cmd' \in Cmds /\ Commands'
      BY <1>1, <1>2, <1>3, <1>4, <2>2, GotoPlain DEF Installing, Plain
    <3> QED BY <1>1, <1>2, <1>4, <3>1, ProofStep
  <2> QED BY <1>2, <2>1, <2>2
<1>5. CASE Finish /\ UNCHANGED proved
  BY <1>1, <1>5, FinishCommand, CommandStep DEF ghost
<1> QED BY <1>4, <1>5 DEF Health

\* A journal is written by a command whose version is complete and able to serve a
\* registration, as is the selected one.
LEMMA JournalKeeps ==
    ASSUME WInv, Journal
    PROVE  WInv'
<1>1. /\ cmd.pc = "journal" /\ versions' = versions /\ launcher' = launcher /\ current' = current
      /\ UNCHANGED <<service, hooks, notices, ghost>>
  BY DEF Journal, At
<1>2. CASE Finish /\ UNCHANGED journal
  BY <1>1, <1>2, FinishCommand, CommandStep DEF runtime
<1>3. CASE journal' = [old |-> current, new |-> cmd.version] /\ Goto("stop")
  <2>1. /\ (notice # "none" => cmd.version \in helper)
        /\ cmd.version \in Version /\ cmd.version \in versions /\ current # None
    BY <1>1, InstallFacts DEF Installing, Plain
  <2>2. current \in Version
    BY <2>1 DEF WInv, Typed
  <2>3. journal' \in [old : Version, new : Version] /\ journal'.old = current /\ journal'.new = cmd.version
    BY <1>3, <2>1, <2>2
  <2>4. journal' # None
    BY <2>3
  <2>5. /\ task' = task /\ receipt' = receipt /\ monitor' = monitor /\ crashed' = crashed
        /\ hooked' = hooked /\ recorded' = recorded /\ notice' = notice /\ enabled' = enabled
        /\ helper' = helper /\ working' = working /\ proved' = proved
    BY <1>1 DEF service, hooks, notices, ghost
  <2>6. cmd' \in Cmds /\ Commands'
    BY <1>1, <1>3, <2>1, <2>3, <2>4, <2>5, GotoUpdate DEF Installing, Plain, Updating, Undoing
  <2>7. Typed'
    BY <1>1, <2>3, <2>5, <2>6 DEF WInv, Typed
  <2>8. Routable'
    BY <1>1, <2>1, <2>3, <2>5 DEF WInv, Routable
  <2>9. Proven' /\ Stopped' /\ Served'
    BY <1>1, <2>1, <2>3, <2>4, <2>5 DEF WInv, Proven, OnlyProvenSelected, Stopped,
       RemovedIsStopped, Served, Journaled, NoticeHasHelper
  <2> QED BY <2>6, <2>7, <2>8, <2>9 DEF WInv
<1> QED BY <1>2, <1>3 DEF Journal

\* Stopping changes the monitor only.
LEMMA StopKeeps ==
    ASSUME WInv, Stop
    PROVE  WInv'
<1>1. /\ cmd.pc \in {"stop", "recover", "stop all"} /\ UNCHANGED <<runtime, hooks, notices, ghost>>
      /\ task' = task /\ receipt' = receipt /\ crashed' = crashed
  BY DEF Stop
<1>2. current # None
  BY <1>1 DEF WInv, Commands, FirstSteps
<1>3. /\ versions' = versions /\ current' = current /\ journal' = journal
      /\ notice' = notice /\ helper' = helper
  BY <1>1 DEF runtime, notices, ghost
<1>4. CASE monitor' = "off" /\ Goto(CASE At("stop") -> "select" [] At("recover") -> "restore"
                                     [] OTHER -> "unregister all")
  <2>1. cmd' \in Cmds /\ Commands'
    <3>1. CASE cmd.pc = "stop"
      <4>1. Goto("select")
        BY <1>4, <3>1 DEF At
      <4>2. journal # None /\ journal.new = cmd.version
        BY <3>1 DEF WInv, Commands, Updating
      <4> QED BY <1>2, <1>3, <3>1, <4>1, <4>2, GotoUpdate DEF Installing, Updating, Undoing
    <3>2. CASE cmd.pc = "recover"
      <4>1. Goto("restore")
        BY <1>4, <3>2 DEF At
      <4>2. journal # None /\ cmd.then \in {"idle", "decide"}
        BY <3>2, InstallFacts DEF Installing, Updating, Undoing
      <4> QED BY <1>2, <1>3, <3>2, <4>1, <4>2, GotoUpdate DEF Installing, Updating, Undoing
    <3>3. CASE cmd.pc = "stop all"
      <4>1. Goto("unregister all")
        BY <1>4, <3>3 DEF At
      <4> QED BY <1>2, <1>3, <4>1, GotoOther DEF Others
    <3> QED BY <1>1, <3>1, <3>2, <3>3
  <2> QED BY <1>1, <1>2, <1>4, <2>1, SameService, ServiceStep DEF Monitors
<1>5. CASE Finish /\ UNCHANGED monitor
  BY <1>1, <1>2, <1>5, FinishCommand, SameService, ServiceStep
<1> QED BY <1>4, <1>5 DEF Stop

\* The preference says nothing of the rest.
LEMMA PreferKeeps ==
    ASSUME WInv, Prefer
    PROVE  WInv'
<1>1. UNCHANGED <<runtime, service, notice, ghost>> /\ UNCHANGED hooks /\ cmd.pc = "prefer"
  BY DEF Prefer, At
<1>2. current # None /\ current' = current
  BY <1>1 DEF WInv, Commands, FirstSteps, runtime
<1>3. enabled' \in BOOLEAN
  BY DEF Prefer, WInv, Typed
<1>4. Goto("hook") \/ Finish
  BY DEF Prefer
<1>5. cmd' \in Cmds /\ Commands'
  BY <1>2, <1>4, GotoOther, FinishCommand DEF Others
<1>6. hooked' \subseteq Client /\ recorded' \subseteq Client
  BY <1>1 DEF WInv, Typed, hooks
<1> QED BY <1>1, <1>3, <1>5, <1>6, QuietStep

\* The new version is selected only under a journal that names it.
LEMMA SelectKeeps ==
    ASSUME WInv, Select
    PROVE  WInv'
<1>1. /\ cmd.pc = "select" /\ versions' = versions /\ launcher' = launcher /\ journal' = journal
      /\ UNCHANGED <<service, hooks, notices, ghost>>
  BY DEF Select, At
<1>2. /\ (notice # "none" => cmd.version \in helper) /\ cmd.version \in Version
      /\ journal # None /\ current # None
  BY <1>1, InstallFacts DEF Installing, Updating
<1>3. journal.new = cmd.version
  BY <1>1 DEF WInv, Commands
<1>4. /\ task' = task /\ receipt' = receipt /\ monitor' = monitor /\ crashed' = crashed
      /\ hooked' = hooked /\ recorded' = recorded /\ notice' = notice /\ enabled' = enabled
      /\ helper' = helper /\ working' = working /\ proved' = proved
  BY <1>1 DEF service, hooks, notices, ghost
<1>5. \/ current' = cmd.version /\ Goto("start")
      \/ current' = current /\ Undo
  BY DEF Select
<1>6. cmd' \in Cmds /\ Commands'
  <2>1. CASE current' = cmd.version /\ Goto("start")
    BY <1>1, <1>2, <1>4, <2>1, GotoUpdate DEF Installing, Updating, Undoing
  <2>2. CASE current' = current /\ Undo
    BY <1>1, <1>2, <1>4, <2>2, UndoUpdate DEF Updating
  <2> QED BY <1>5, <2>1, <2>2
<1>7. Typed'
  BY <1>1, <1>2, <1>4, <1>5, <1>6 DEF WInv, Typed
<1>8. Routable'
  BY <1>1, <1>2, <1>3, <1>4, <1>5 DEF WInv, Routable
<1>9. Proven' /\ Stopped' /\ Served'
  BY <1>1, <1>2, <1>4, <1>5 DEF WInv, Proven, OnlyProvenSelected, Stopped,
     RemovedIsStopped, Served, Journaled, NoticeHasHelper
<1> QED BY <1>6, <1>7, <1>8, <1>9 DEF WInv

\* The new version is started, or the update is undone.
LEMMA StartNewKeeps ==
    ASSUME WInv, StartNew
    PROVE  WInv'
<1>1. /\ cmd.pc = "start" /\ UNCHANGED <<runtime, hooks, notices, ghost>>
      /\ task' = task /\ receipt' = receipt
  BY DEF StartNew, At
<1>2. journal # None /\ current # None
  BY <1>1, InstallFacts DEF Installing, Updating
<1>3. /\ versions' = versions /\ current' = current /\ journal' = journal
      /\ notice' = notice /\ helper' = helper
  BY <1>1 DEF runtime, notices, ghost
<1>4. CASE Owned /\ Started /\ Goto("new health")
  <2>1. cmd' \in Cmds /\ Commands'
    BY <1>1, <1>2, <1>3, <1>4, GotoUpdate DEF Installing, Updating, Undoing
  <2> QED BY <1>1, <1>2, <1>4, <2>1, StartedMonitor, ServiceStep
<1>5. CASE Undo /\ UNCHANGED <<monitor, crashed>>
  <2>1. cmd' \in Cmds /\ Commands'
    BY <1>1, <1>2, <1>3, <1>5, UndoUpdate DEF Updating
  <2> QED BY <1>1, <1>2, <1>5, <2>1, SameService, ServiceStep
<1> QED BY <1>4, <1>5 DEF StartNew

\* The new version is proved before the journal may go.
LEMMA NewHealthKeeps ==
    ASSUME WInv, NewHealth
    PROVE  WInv'
<1>1. /\ cmd.pc = "new health" /\ UNCHANGED <<runtime, service, hooks, notices, helper, working>>
  BY DEF NewHealth, At
<1>2. journal # None /\ current # None
  BY <1>1, InstallFacts DEF Installing, Updating
<1>3. /\ versions' = versions /\ current' = current /\ journal' = journal
      /\ notice' = notice /\ helper' = helper
  BY <1>1 DEF runtime, notices
<1>4. CASE Healthy /\ proved' = proved \cup {current} /\ Goto("done")
  <2>1. cmd' \in Cmds /\ Commands'
    BY <1>1, <1>2, <1>3, <1>4, GotoUpdate DEF Installing, Updating, Undoing
  <2> QED BY <1>1, <1>2, <1>4, <2>1, ProofStep
<1>5. CASE Undo /\ UNCHANGED proved
  <2>1. cmd' \in Cmds /\ Commands'
    BY <1>1, <1>2, <1>3, <1>5, UndoUpdate DEF Updating
  <2> QED BY <1>1, <1>5, <2>1, CommandStep DEF ghost
<1> QED BY <1>4, <1>5 DEF NewHealth

\* A journal is removed only when the selected version has been seen working.
LEMMA UnjournalKeeps ==
    ASSUME WInv, Unjournal
    PROVE  WInv'
<1>1. /\ cmd.pc \in {"done", "recovered"} /\ versions' = versions /\ launcher' = launcher
      /\ current' = current /\ UNCHANGED <<service, hooks, notices, ghost>>
  BY DEF Unjournal, At
<1>2. CASE Finish /\ UNCHANGED journal
  BY <1>1, <1>2, FinishCommand, CommandStep DEF runtime
<1>3. CASE /\ journal' = None
           /\ \/ At("done") /\ Goto("notify")
              \/ At("recovered") /\ IF cmd.then = "idle" THEN Finish ELSE Goto(cmd.then)
  <2>1. /\ current # None /\ current \in proved
        /\ cmd.pc = "recovered" => cmd.then \in {"idle", "decide"}
    BY <1>1, InstallFacts DEF Installing, Updating, Undoing, WInv, Commands
  <2>2. /\ task' = task /\ receipt' = receipt /\ monitor' = monitor /\ crashed' = crashed
        /\ hooked' = hooked /\ recorded' = recorded /\ notice' = notice /\ enabled' = enabled
        /\ helper' = helper /\ working' = working /\ proved' = proved
    BY <1>1 DEF service, hooks, notices, ghost
  <2>3. cmd' \in Cmds /\ Commands'
    <3>1. CASE cmd.pc = "done"
      <4>1. Goto("notify")
        BY <1>3, <3>1 DEF At
      <4> QED BY <1>1, <1>3, <2>1, <4>1, GotoNotify
    <3>2. CASE cmd.pc = "recovered" /\ cmd.then = "idle"
      <4>1. Finish
        BY <1>3, <3>2 DEF At
      <4> QED BY <4>1, FinishCommand
    <3>3. CASE cmd.pc = "recovered" /\ cmd.then = "decide"
      <4>1. Goto("decide")
        BY <1>3, <3>3 DEF At
      <4> QED BY <1>1, <1>3, <2>1, <2>2, <3>3, <4>1, GotoPlain DEF Installing, Plain, Updating, Undoing
    <3> QED BY <1>1, <2>1, <3>1, <3>2, <3>3
  <2>4. Typed'
    BY <1>1, <1>3, <2>2, <2>3 DEF WInv, Typed
  <2>5. Routable'
    BY <1>1, <1>3, <2>1, <2>2 DEF WInv, Routable
  <2>6. Proven' /\ Stopped' /\ Served'
    BY <1>1, <1>3, <2>1, <2>2 DEF WInv, Proven, OnlyProvenSelected, Stopped,
       RemovedIsStopped, Served, Journaled, NoticeHasHelper
  <2> QED BY <2>3, <2>4, <2>5, <2>6 DEF WInv
<1> QED BY <1>2, <1>3 DEF Unjournal

\* The recovery selects the journal's old version.
LEMMA RestoreKeeps ==
    ASSUME WInv, Restore
    PROVE  WInv'
<1>1. /\ cmd.pc = "restore" /\ versions' = versions /\ launcher' = launcher /\ journal' = journal
      /\ UNCHANGED <<service, hooks, notices, ghost>>
  BY DEF Restore, At
<1>2. CASE Finish /\ UNCHANGED current
  BY <1>1, <1>2, FinishCommand, CommandStep DEF runtime
<1>3. CASE current' = journal.old /\ Goto("restart")
  <2>1. journal # None /\ current # None /\ cmd.then \in {"idle", "decide"}
    BY <1>1, InstallFacts DEF Installing, Updating, Undoing
  <2>2. journal.old \in Version /\ journal.old # None
    BY <2>1 DEF WInv, Typed
  <2>3. /\ task' = task /\ receipt' = receipt /\ monitor' = monitor /\ crashed' = crashed
        /\ hooked' = hooked /\ recorded' = recorded /\ notice' = notice /\ enabled' = enabled
        /\ helper' = helper /\ working' = working /\ proved' = proved
    BY <1>1 DEF service, hooks, notices, ghost
  <2>4. cmd' \in Cmds /\ Commands'
    BY <1>1, <1>3, <2>1, <2>2, <2>3, GotoUpdate DEF Installing, Updating, Undoing
  <2>5. Typed'
    BY <1>1, <1>3, <2>2, <2>3, <2>4 DEF WInv, Typed
  <2>6. Routable'
    BY <1>1, <1>3, <2>1, <2>2, <2>3 DEF WInv, Routable
  <2>7. Proven' /\ Stopped' /\ Served'
    BY <1>1, <1>3, <2>1, <2>2, <2>3 DEF WInv, Proven, OnlyProvenSelected, Stopped,
       RemovedIsStopped, Served, Journaled, NoticeHasHelper
  <2> QED BY <2>4, <2>5, <2>6, <2>7 DEF WInv
<1> QED BY <1>2, <1>3 DEF Restore

\* The recovery starts the old version.
LEMMA RestartKeeps ==
    ASSUME WInv, Restart
    PROVE  WInv'
<1>1. /\ cmd.pc = "restart" /\ UNCHANGED <<runtime, hooks, notices, ghost>>
      /\ task' = task /\ receipt' = receipt
  BY DEF Restart, At
<1>2. journal # None /\ current # None /\ cmd.then \in {"idle", "decide"}
  BY <1>1, InstallFacts DEF Installing, Updating, Undoing
<1>3. /\ versions' = versions /\ current' = current /\ journal' = journal
      /\ notice' = notice /\ helper' = helper
  BY <1>1 DEF runtime, notices, ghost
<1>4. CASE Owned /\ Started /\ Goto("old health")
  <2>1. cmd' \in Cmds /\ Commands'
    BY <1>1, <1>2, <1>3, <1>4, GotoUpdate DEF Installing, Updating, Undoing
  <2> QED BY <1>1, <1>2, <1>4, <2>1, StartedMonitor, ServiceStep
<1>5. CASE Finish /\ UNCHANGED <<monitor, crashed>>
  BY <1>1, <1>2, <1>5, FinishCommand, SameService, ServiceStep
<1> QED BY <1>4, <1>5 DEF Restart

\* The recovery proves the old version before the journal may go.
LEMMA OldHealthKeeps ==
    ASSUME WInv, OldHealth
    PROVE  WInv'
<1>1. /\ cmd.pc = "old health" /\ UNCHANGED <<runtime, service, hooks, notices, helper, working>>
  BY DEF OldHealth, At
<1>2. journal # None /\ current # None /\ cmd.then \in {"idle", "decide"}
  BY <1>1, InstallFacts DEF Installing, Updating, Undoing
<1>3. /\ versions' = versions /\ current' = current /\ journal' = journal
      /\ notice' = notice /\ helper' = helper
  BY <1>1 DEF runtime, notices
<1>4. CASE Healthy /\ proved' = proved \cup {current} /\ Goto("recovered")
  <2>1. cmd' \in Cmds /\ Commands'
    BY <1>1, <1>2, <1>3, <1>4, GotoUpdate DEF Installing, Updating, Undoing
  <2> QED BY <1>1, <1>2, <1>4, <2>1, ProofStep
<1>5. CASE Finish /\ UNCHANGED proved
  BY <1>1, <1>5, FinishCommand, CommandStep DEF ghost
<1> QED BY <1>4, <1>5 DEF OldHealth

\* A registration begins without a journal and with the selected version's helper.
LEMMA NotifyKeeps ==
    ASSUME WInv, Notify
    PROVE  WInv'
<1>1. cmd.pc = "notify" /\ enabled' = enabled /\ UNCHANGED <<runtime, service, hooks, ghost>>
  BY DEF Notify, At
<1>2. journal = None /\ current # None
  BY <1>1 DEF WInv, Commands, Plain, FirstSteps
<1>3. /\ versions' = versions /\ launcher' = launcher /\ current' = current /\ journal' = journal
      /\ task' = task /\ receipt' = receipt /\ monitor' = monitor /\ crashed' = crashed
      /\ hooked' = hooked /\ recorded' = recorded
      /\ helper' = helper /\ working' = working /\ proved' = proved
  BY <1>1 DEF runtime, service, hooks, ghost
<1>4. /\ notice' \in {"none", "pending", "done"} /\ (notice' = notice \/ current \in helper)
      /\ Goto("hook") \/ Goto("prefer") \/ Finish
  BY DEF Notify, WInv, Typed
<1>5. cmd' \in Cmds /\ Commands'
  BY <1>2, <1>3, <1>4, GotoOther, FinishCommand DEF Others
<1>6. Typed'
  BY <1>1, <1>3, <1>4, <1>5 DEF WInv, Typed
<1>7. Routable' /\ Proven' /\ Stopped'
  BY <1>3 DEF WInv, Routable, Proven, OnlyProvenSelected, Stopped, RemovedIsStopped
<1>8. Served'
  BY <1>2, <1>3, <1>4 DEF WInv, Served, Journaled, NoticeHasHelper
<1> QED BY <1>5, <1>6, <1>7, <1>8 DEF WInv

\* A registration that is taken back asks for nothing.
LEMMA UnnotifyKeeps ==
    ASSUME WInv, Unnotify
    PROVE  WInv'
<1>1. cmd.pc = "unnotify" /\ enabled' = enabled /\ UNCHANGED <<runtime, service, hooks, ghost>>
  BY DEF Unnotify, At
<1>2. current # None
  BY <1>1 DEF WInv, Commands, FirstSteps
<1>3. /\ versions' = versions /\ launcher' = launcher /\ current' = current /\ journal' = journal
      /\ task' = task /\ receipt' = receipt /\ monitor' = monitor /\ crashed' = crashed
      /\ hooked' = hooked /\ recorded' = recorded
      /\ helper' = helper /\ working' = working /\ proved' = proved
  BY <1>1 DEF runtime, service, hooks, ghost
<1>4. notice' \in {notice, "none"} /\ (Goto("prefer") \/ Finish)
  BY DEF Unnotify
<1>5. cmd' \in Cmds /\ Commands'
  BY <1>2, <1>3, <1>4, GotoOther, FinishCommand DEF Others
<1>6. Typed'
  BY <1>1, <1>3, <1>4, <1>5 DEF WInv, Typed
<1>7. Routable' /\ Proven' /\ Stopped'
  BY <1>3 DEF WInv, Routable, Proven, OnlyProvenSelected, Stopped, RemovedIsStopped
<1>8. Served'
  BY <1>3, <1>4 DEF WInv, Served, Journaled, NoticeHasHelper
<1> QED BY <1>5, <1>6, <1>7, <1>8 DEF WInv

\* The hooks of one client after the other.
LEMMA HookKeeps ==
    ASSUME WInv, Hook \/ Record \/ Unhook \/ Unrecord
    PROVE  WInv'
<1>1. /\ cmd.pc \in {"hook", "record", "unhook", "unrecord"}
      /\ UNCHANGED <<runtime, service, notice, ghost>> /\ enabled' = enabled
  BY DEF Hook, Record, Unhook, Unrecord, At, notices
<1>2. current' = current /\ current # None
  BY <1>1 DEF WInv, Commands, FirstSteps, runtime
<1>3. cmd \in Cmds /\ hooked \subseteq Client /\ recorded \subseteq Client /\ enabled \in BOOLEAN
  BY DEF WInv, Typed
<1>4. CASE Hook
  <2>1. CASE Finish /\ hooked' = hooked
    BY <1>1, <1>3, <1>4, <2>1, FinishCommand, QuietStep DEF Hook
  <2>2. CASE \E c \in cmd.clients :
               /\ hooked' = hooked \cup {c}
               /\ cmd' = [cmd EXCEPT !.pc = "record", !.then = c, !.clients = @ \ {c}]
    <3>1. PICK c \in cmd.clients :
               /\ hooked' = hooked \cup {c}
               /\ cmd' = [cmd EXCEPT !.pc = "record", !.then = c, !.clients = @ \ {c}]
      BY <2>2
    <3>2. c \in Client
      BY <1>3 DEF Cmds
    <3>3. cmd' \in Cmds /\ cmd'.pc = "record" /\ cmd'.then \in Client
      BY <1>3, <3>1, <3>2 DEF Cmds, Others
    <3>4. hooked' \subseteq Client /\ recorded' = recorded
      BY <1>3, <1>4, <3>1, <3>2 DEF Hook
    <3>5. Commands'
      BY <1>2, <3>3, OtherCommand DEF Others
    <3> QED BY <1>1, <1>3, <3>3, <3>4, <3>5, QuietStep
  <2> QED BY <1>4, <2>1, <2>2 DEF Hook
<1>5. CASE Unhook
  <2>1. recorded' = recorded
    BY <1>5 DEF Unhook
  <2>2. CASE (Finish \/ Goto("stop all")) /\ hooked' = hooked
    <3>1. cmd' \in Cmds /\ Commands'
      BY <1>2, <2>2, GotoOther, FinishCommand DEF Others
    <3> QED BY <1>1, <1>3, <2>1, <2>2, <3>1, QuietStep
  <2>3. CASE \E c \in cmd.clients :
               /\ hooked' = hooked \ {c}
               /\ cmd' = [cmd EXCEPT !.pc = "unrecord", !.then = c, !.clients = @ \ {c}]
    <3>1. PICK c \in cmd.clients :
               /\ hooked' = hooked \ {c}
               /\ cmd' = [cmd EXCEPT !.pc = "unrecord", !.then = c, !.clients = @ \ {c}]
      BY <2>3
    <3>2. c \in Client
      BY <1>3 DEF Cmds
    <3>3. cmd' \in Cmds /\ cmd'.pc = "unrecord"
      BY <1>3, <3>1, <3>2 DEF Cmds, Others
    <3>4. hooked' \subseteq Client
      BY <1>3, <3>1
    <3>5. Commands'
      BY <1>2, <3>3, OtherCommand DEF Others
    <3> QED BY <1>1, <1>3, <2>1, <3>3, <3>4, <3>5, QuietStep
  <2> QED BY <1>5, <2>2, <2>3 DEF Unhook
<1>6. CASE Record \/ Unrecord
  <2>1. hooked' = hooked /\ (Goto("hook") \/ Goto("unhook") \/ Finish)
    BY <1>6 DEF Record, Unrecord
  <2>2. recorded' \subseteq Client
    <3>1. CASE Record
      <4>1. cmd.pc = "record" /\ recorded' \in {recorded, recorded \cup {cmd.then}}
        BY <3>1 DEF Record, At
      <4>2. cmd.then \in Client
        BY <4>1 DEF WInv, Commands
      <4> QED BY <1>3, <4>1, <4>2
    <3>2. CASE Unrecord
      <4>1. recorded' \in {recorded, recorded \ {cmd.then}}
        BY <3>2 DEF Unrecord
      <4> QED BY <1>3, <4>1
    <3> QED BY <1>6, <3>1, <3>2
  <2>3. cmd' \in Cmds /\ Commands'
    BY <1>2, <2>1, GotoOther, FinishCommand DEF Others
  <2> QED BY <1>1, <1>3, <2>1, <2>2, <2>3, QuietStep
<1> QED BY <1>4, <1>5, <1>6

\* A task is deleted when no monitor runs, and the scheduler forgets it.
LEMMA UnregisterKeeps ==
    ASSUME WInv, Unregister
    PROVE  WInv'
<1>1. /\ cmd.pc \in {"unregister all", "delete", "drop receipt"}
      /\ UNCHANGED <<runtime, hooks, notices, ghost>> /\ crashed' = (crashed /\ task' # None)
  BY DEF Unregister
<1>2. current # None /\ current' = current
  BY <1>1 DEF WInv, Commands, FirstSteps, runtime
<1>3. /\ task' \in {task, None} /\ receipt' \in {receipt, FALSE} /\ monitor' \in {monitor, "off"}
      /\ task' = task \/ (Idle /\ monitor' = monitor)
  BY DEF Unregister
<1>4. Finish \/ Goto("delete") \/ Goto("drop receipt") \/ Goto("unnotify")
  BY DEF Unregister
<1>5. cmd' \in Cmds /\ Commands'
  BY <1>2, <1>4, GotoOther, FinishCommand DEF Others
<1>6. /\ task' \in {None, "own", "edited"} /\ receipt' \in BOOLEAN /\ monitor' \in Monitors
      /\ crashed' \in BOOLEAN /\ (task' = None => monitor' = "off" /\ ~crashed')
  <2>1. /\ task \in {None, "own", "edited"} /\ receipt \in BOOLEAN /\ monitor \in Monitors
        /\ crashed \in BOOLEAN /\ (task = None => monitor = "off" /\ ~crashed)
    BY SameService
  <2>2. monitor' \in Monitors /\ task' \in {None, "own", "edited"} /\ receipt' \in BOOLEAN
    BY <1>3, <2>1 DEF Monitors
  <2>3. crashed' \in BOOLEAN /\ (task' = None => ~crashed')
    BY <1>1, <2>1
  <2>4. task' = None => monitor' = "off"
    BY <1>3, <2>1 DEF Idle
  <2> QED BY <2>2, <2>3, <2>4
<1> QED BY <1>1, <1>2, <1>5, <1>6, ServiceStep

-----------------------------------------------------------------------------
(* Monitor, scheduler and user. *)

\* Where a monitor is, or a task may start one, a version is selected.
LEMMA MonitorStep ==
    ASSUME WInv, UNCHANGED <<runtime, hooks, notices, ghost>>, cmd' = cmd, task # None \/ monitor # "off",
           task' = task, receipt' = receipt, monitor' \in Monitors, crashed' \in BOOLEAN,
           cmd.pc \notin {"receipt", "unregister"}
    PROVE  WInv'
<1>1. task # None
  BY SameService
<1>2. current # None
  BY <1>1 DEF WInv, Routable
<1>3. /\ versions' = versions /\ launcher' = launcher /\ current' = current /\ journal' = journal
      /\ notice' = notice /\ helper' = helper /\ proved' = proved
  BY DEF runtime, notices, ghost
<1>4. Commands'
  BY <1>3 DEF WInv, Commands, NoticeAllows
<1>5. cmd' \in Cmds
  BY DEF WInv, Typed
<1> QED BY <1>1, <1>2, <1>4, <1>5, SameService, ServiceStep

\* While a task is new, nothing runs and nothing is due to be started.
LEMMA NothingRuns ==
    ASSUME WInv, crashed \/ monitor # "off"
    PROVE  task # None /\ cmd.pc \notin {"receipt", "unregister"}
BY DEF WInv, Stopped, RemovedIsStopped, Commands

\* The launcher starts the selected version.
LEMMA RouteKeeps ==
    ASSUME WInv, Route
    PROVE  WInv'
<1>1. /\ monitor = "starting" /\ monitor' = current /\ task' = task /\ receipt' = receipt
      /\ crashed' = crashed /\ cmd' = cmd /\ UNCHANGED <<runtime, hooks, notices, ghost>>
  BY DEF Route
<1>2. task # None /\ cmd.pc \notin {"receipt", "unregister"}
  BY <1>1, NothingRuns
<1>3. monitor' \in Monitors /\ crashed' \in BOOLEAN
  BY <1>1, <1>2 DEF WInv, Typed, Routable, Monitors
<1> QED BY <1>1, <1>2, <1>3, MonitorStep

\* A monitor that crashes leaves a task behind that may start it again.
LEMMA CrashKeeps ==
    ASSUME WInv, Crash
    PROVE  WInv'
<1>1. /\ monitor \in Version /\ monitor' = "off" /\ crashed' = TRUE /\ task' = task /\ receipt' = receipt
      /\ cmd' = cmd /\ UNCHANGED <<runtime, hooks, notices, ghost>>
  BY DEF Crash
<1>2. task # None /\ cmd.pc \notin {"receipt", "unregister"}
  BY <1>1, NothingRuns
<1> QED BY <1>1, <1>2, MonitorStep DEF Monitors

\* A task is started only while it exists.
LEMMA StartKeeps ==
    ASSUME WInv, SchedulerRestarts \/ Logon
    PROVE  WInv'
<1>1. /\ task # None /\ monitor' = "starting" /\ crashed' = FALSE /\ task' = task /\ receipt' = receipt
      /\ cmd' = cmd /\ UNCHANGED <<runtime, hooks, notices, ghost>>
  BY DEF SchedulerRestarts, Logon
<1>2. cmd.pc \notin {"receipt", "unregister"}
  BY NothingRuns DEF SchedulerRestarts, Logon, NoCommand
<1> QED BY <1>1, <1>2, MonitorStep DEF Monitors

\* A command that is killed leaves files that are complete.
LEMMA KillKeeps ==
    ASSUME WInv, Kill
    PROVE  WInv'
<1>1. /\ Finish /\ task' = task /\ receipt' = receipt /\ UNCHANGED <<runtime, hooks, notices, ghost>>
  BY DEF Kill
<1>2. CASE UNCHANGED <<monitor, crashed>>
  BY <1>1, <1>2, FinishCommand, CommandStep DEF service
<1>3. CASE monitor' = "off" /\ crashed' = FALSE
  <2>1. CASE current # None
    BY <1>1, <1>3, <2>1, FinishCommand, SameService, ServiceStep DEF Monitors
  <2>2. CASE current = None
    <3>1. task = None
      BY <2>2 DEF WInv, Routable
    <3>2. monitor = "off" /\ crashed = FALSE
      BY <3>1, SameService
    <3> QED BY <1>1, <1>3, <3>2, FinishCommand, CommandStep DEF service
  <2> QED BY <2>1, <2>2
<1> QED BY <1>2, <1>3 DEF Kill

\* A change by the user makes a task foreign, never absent, and takes hooks away.
LEMMA EditKeeps ==
    ASSUME WInv, Edit
    PROVE  WInv'
<1>1. /\ UNCHANGED <<runtime, notices, ghost>> /\ receipt' = receipt /\ monitor' = monitor
      /\ crashed' = crashed /\ recorded' = recorded /\ cmd' = cmd
  BY DEF Edit
<1>2. /\ versions' = versions /\ launcher' = launcher /\ current' = current /\ journal' = journal
      /\ notice' = notice /\ enabled' = enabled
      /\ helper' = helper /\ working' = working /\ proved' = proved
  BY <1>1 DEF runtime, notices, ghost
<1>3. /\ task' \in {task, "edited"} /\ (task = None <=> task' = None) /\ hooked' \subseteq hooked
  BY DEF Edit, WInv, Typed
<1>4. Typed'
  BY <1>1, <1>2, <1>3 DEF WInv, Typed
<1>5. Commands'
  BY <1>1, <1>2 DEF WInv, Commands, NoticeAllows
<1>6. Routable' /\ Proven' /\ Stopped' /\ Served'
  BY <1>1, <1>2, <1>3 DEF WInv, Routable, Proven, OnlyProvenSelected, Stopped, RemovedIsStopped,
     Served, Journaled, NoticeHasHelper
<1> QED BY <1>4, <1>5, <1>6 DEF WInv

\* A step that changes nothing.
LEMMA StutterKeeps ==
    ASSUME WInv, UNCHANGED vars
    PROVE  WInv'
<1>1. UNCHANGED <<runtime, service, hooks, notices, ghost>> /\ cmd' = cmd
  BY DEF vars
<1>2. /\ versions' = versions /\ launcher' = launcher /\ current' = current /\ journal' = journal
      /\ monitor' = monitor /\ crashed' = crashed /\ notice' = notice /\ helper' = helper /\ proved' = proved
  BY <1>1 DEF runtime, service, notices, ghost
<1>3. cmd' \in Cmds
  BY <1>1 DEF WInv, Typed
<1>4. Commands'
  BY <1>1, <1>2 DEF WInv, Commands, NoticeAllows
<1> QED BY <1>1, <1>3, <1>4, CommandStep

-----------------------------------------------------------------------------
(* The theorems. *)

\* Nothing is installed at first.
LEMMA InitHolds ==
    ASSUME Init
    PROVE  WInv
<1>1. /\ cmd = NoCommand /\ cmd.pc = "idle"
  BY DEF Init, NoCommand
<1>2. cmd \in Cmds
  BY <1>1 DEF NoCommand, Cmds, Others
<1>3. Typed
  BY <1>2 DEF Init, Typed, Monitors
<1>4. Commands
  BY <1>1 DEF Commands, Installing, FirstSteps, Plain, Undoing, Updating
<1>5. Routable /\ Proven /\ Stopped /\ Served
  BY DEF Init, Routable, Proven, OnlyProvenSelected, Stopped, RemovedIsStopped, Served, Journaled,
     NoticeHasHelper
<1> QED BY <1>3, <1>4, <1>5 DEF WInv

\* Every step of a command, of the monitor, the scheduler and the user keeps it.
LEMMA NextKeeps ==
    ASSUME WInv, Next
    PROVE  WInv'
<1>1. CASE BeginInstall \/ BeginRemove \/ BeginNotice
  BY <1>1, BeginKeeps
<1>2. CASE Install
  BY <1>2, StageKeeps, LaunchersKeeps, FirstCurrentKeeps, DecideKeeps, RegisterKeeps, WriteReceiptKeeps,
     RunKeeps, HealthKeeps DEF Install
<1>3. CASE Update
  BY <1>3, JournalKeeps, StopKeeps, SelectKeeps, StartNewKeeps, NewHealthKeeps, UnjournalKeeps,
     RestoreKeeps, RestartKeeps, OldHealthKeeps DEF Update
<1>4. CASE Notice
  BY <1>4, NotifyKeeps, UnnotifyKeeps, PreferKeeps DEF Notice
<1>5. CASE Hooks
  BY <1>5, HookKeeps, UnregisterKeeps DEF Hooks
<1>6. CASE Other
  BY <1>6, RouteKeeps, CrashKeeps, StartKeeps, KillKeeps, EditKeeps DEF Other
<1> QED BY <1>1, <1>2, <1>3, <1>4, <1>5, <1>6 DEF Next

\* The invariant holds at every moment of every sequence of commands, failures,
\* kills, crashes and changes by the user.
THEOREM WinInvariant == Spec => []WInv
<1>1. WInv /\ [Next]_vars => WInv'
  BY NextKeeps, StutterKeeps
<1> QED BY <1>1, InitHolds, PTL DEF Spec

\* Versions, files, task and command keep their types.
THEOREM TypeCorrect == Spec => []TypeOK
<1>1. WInv => TypeOK
  <2> SUFFICES ASSUME Typed PROVE TypeOK
    BY DEF WInv
  <2>1. \A f \in DOMAIN launcher : launcher[f] \in Version \cup {None}
    BY DEF Typed
  <2>2. journal # None => journal.old \in Version /\ journal.new \in Version
    BY DEF Typed
  <2>3. cmd.clients \subseteq Client
    BY DEF Typed, Cmds
  <2>4. monitor \in {"off", "starting"} \cup Version
    BY DEF Typed, Monitors
  <2> QED BY <2>1, <2>2, <2>3, <2>4 DEF Typed, TypeOK
<1> QED BY <1>1, WinInvariant, PTL

\* Whatever failed or was killed in an installation, an update or its recovery, a
\* task, a launcher and a hook find one complete version to run.
THEOREM AlwaysRoutable == Spec => []Routable
<1>1. WInv => Routable
  BY DEF WInv
<1> QED BY <1>1, WinInvariant, PTL

\* An update whose version was not seen working is never left without the journal
\* from which the next installation goes back (installWindowsDistribution).
THEOREM UnprovenHasJournal == Spec => []OnlyProvenSelected
<1>1. WInv => OnlyProvenSelected
  BY DEF WInv, Proven
<1> QED BY <1>1, WinInvariant, PTL

\* A removal deletes the task only when no monitor runs, and nothing starts one
\* afterwards (UninstallService).
THEOREM RemovedMonitorStopped == Spec => []RemovedIsStopped
<1>1. WInv => RemovedIsStopped
  BY DEF WInv, Stopped
<1> QED BY <1>1, WinInvariant, PTL

\* A registration for notifications can be served and taken back by the selected
\* version across updates and recoveries (validateWindowsNotificationUpgrade).
THEOREM RegistrationServed == Spec => []NoticeHasHelper
<1>1. WInv => NoticeHasHelper
  BY DEF WInv, Served
<1> QED BY <1>1, WinInvariant, PTL
=============================================================================
