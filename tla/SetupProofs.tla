---------------------------- MODULE SetupProofs ----------------------------
(***************************************************************************)
(* Theorems of installation and removal on macOS, for every set of          *)
(* processes, clients, events and programs and every bound: the agent that  *)
(* launchd has can be found and never runs in a mode that its history       *)
(* refuses, a removal that gets to its end leaves nothing, and types, hook  *)
(* entries and the hooks of others are kept through all of it.              *)
(*                                                                         *)
(* What is to be shown speaks of three files and launchd; what makes it     *)
(* true is what each command knows at each of its steps (Served), and that  *)
(* two commands that write the same files exclude each other (Exclusive).   *)
(***************************************************************************)
EXTENDS Setup, HookConfigProofs, TLAPS

USE HookAssumption, HookNoneAssumption, HookDataAssumption
-----------------------------------------------------------------------------
(* The inductive invariant of the service. *)

ModeName == {"app", "hooks"}
InstallPc == {"payload", "copy", "hooks", "hooked", "service", "receipt", "load", "undo", "undo receipt"}
RemovePc  == {"service", "unload", "drop file", "drop receipt", "hooks", "hooked"}
Cmd == [kind : {None, "install", "remove", "protect", "unprotect"},
        pc : InstallPc \cup RemovePc \cup {"idle", "rules"},
        mode : ModeName \cup {None}, left : SUBSET Client, new : BOOLEAN]

\* Each command has its own steps.
Fits(c) ==
    /\ c \in Cmd
    /\ c.kind = None => c = NoCommand
    /\ c.kind \in {"protect", "unprotect"} => c.pc = "rules"
    /\ c.kind = "install" => c.pc \in InstallPc /\ c.mode \in ModeName
    /\ c.kind = "remove" => c.pc \in RemovePc

\* What a command has established: the agent is not registered while its files
\* are written or removed, the history fits the mode unless there is a file of
\* somebody else, and a removal that has come to the hooks has removed the rest.
Stopped == {"receipt", "load", "undo", "undo receipt", "drop file", "drop receipt"}
Served(c) ==
    /\ c.pc \in Stopped => registered = None
    /\ c.pc = "drop receipt" => plist = None
    /\ c.kind = "install" => history \in {None, c.mode} \/ plist # None
    /\ c.kind = "remove" => ~rules
    /\ c.kind = "remove" /\ c.pc \in {"hooks", "hooked"} =>
          plist = None /\ sreceipt = None /\ registered = None

\* The locks.
Exclusive ==
    /\ \A p, q \in Running({"install", "remove"}) : p = q
    /\ \A p, q \in Running({"remove", "protect", "unprotect"}) : p = q

\* The agent that launchd has is that of the file but for an edit, and the saved
\* history goes with it.
AgentsFit ==
    /\ plist \in Agents \cup {None} /\ sreceipt \in Agents \cup {None} /\ registered \in Agents \cup {None}
    /\ registered # None => plist # None /\ plist.mode = registered.mode
    /\ plist # None => history \in {None, plist.mode}

Outer == app \in BOOLEAN /\ rules \in BOOLEAN /\ history \in ModeName \cup {None} /\ tools \subseteq Client
         /\ runtime \in {None, "partial", "complete", "edited"}

ServiceInv ==
    /\ Outer /\ AgentsFit /\ Exclusive
    /\ cmd \in [Proc -> Cmd] /\ \A p \in Proc : Fits(cmd[p]) /\ Served(cmd[p])

-----------------------------------------------------------------------------
(* Lemmas. *)

Pcs == InstallPc \cup RemovePc \cup {"idle", "rules"}

\* None is told apart from the names and files it stands beside.
LEMMA Apart ==
    /\ None \notin {"install", "remove", "protect", "unprotect", "app", "hooks", "partial", "complete", "edited"}
    /\ \A a \in Agents : a # None
    /\ \A m \in ModeName : Agent(m) \in Agents /\ Agent(m).mode = m /\ Agent(m).by = Runtime
    /\ Mode \in ModeName
BY RuntimeAssumption DEF Agents, Agent, Mode, ModeName

\* A process that has no command.
LEMMA Idle == NoCommand \in Cmd /\ Fits(NoCommand) /\ NoCommand.kind = None /\ NoCommand.pc = "idle"
BY Apart DEF NoCommand, Cmd, Fits

\* One process goes on with its command.
Moves(p) == cmd' \in [Proc -> Cmd] /\ \A q \in Proc \ {p} : cmd'[q] = cmd[q]

\* Another step of the same command, or its end.
LEMMA Stepped ==
    ASSUME cmd \in [Proc -> Cmd], NEW p \in Proc, NEW pc \in Pcs, Step(p, pc)
    PROVE  /\ Moves(p) /\ cmd'[p].pc = pc /\ cmd'[p].kind = cmd[p].kind
           /\ cmd'[p].mode = cmd[p].mode /\ cmd'[p].left = cmd[p].left /\ cmd'[p].new = cmd[p].new
<1> DEFINE c == [kind |-> cmd[p].kind, pc |-> pc, mode |-> cmd[p].mode, left |-> cmd[p].left, new |-> cmd[p].new]
<1>1. cmd[p] \in Cmd
  OBVIOUS
<1>2. c \in Cmd
  BY <1>1 DEF Cmd, Pcs
<1>3. [cmd[p] EXCEPT !.pc = pc] = c
  BY <1>1 DEF Cmd
<1>4. cmd' = [cmd EXCEPT ![p] = c]
  BY <1>3 DEF Step
<1> HIDE DEF c
<1>5. Moves(p) /\ cmd'[p] = c
  BY <1>2, <1>4 DEF Moves
<1> QED BY <1>5 DEF c

\* A step that also records whether the command wrote the files itself.
LEMMA SteppedNew ==
    ASSUME cmd \in [Proc -> Cmd], NEW p \in Proc, NEW pc \in Pcs, NEW b \in BOOLEAN,
           cmd' = [[cmd EXCEPT ![p].pc = pc] EXCEPT ![p].new = b]
    PROVE  /\ Moves(p) /\ cmd'[p].pc = pc /\ cmd'[p].kind = cmd[p].kind
           /\ cmd'[p].mode = cmd[p].mode /\ cmd'[p].left = cmd[p].left /\ cmd'[p].new = b
<1> DEFINE d == [cmd[p] EXCEPT !.pc = pc]
           f == [cmd EXCEPT ![p].pc = pc]
           u == [d EXCEPT !.new = b]
<1>1. d \in Cmd
  BY DEF Cmd, Pcs
<1>2. /\ d.kind = cmd[p].kind /\ d.pc = pc /\ d.mode = cmd[p].mode /\ d.left = cmd[p].left
  BY DEF Cmd
<1>3. f = [cmd EXCEPT ![p] = d]
  OBVIOUS
<1> HIDE DEF d, f
<1>4. u \in Cmd
  BY <1>1 DEF Cmd
<1>5. u.kind = d.kind /\ u.pc = d.pc /\ u.mode = d.mode /\ u.left = d.left /\ u.new = b
  BY <1>1 DEF Cmd
<1>6. cmd' = [f EXCEPT ![p].new = b]
  BY DEF f
<1>7. cmd' = [cmd EXCEPT ![p] = u]
  BY <1>3, <1>6
<1> HIDE DEF u
<1>8. Moves(p) /\ cmd'[p] = u
  BY <1>4, <1>7 DEF Moves
<1> QED BY <1>2, <1>5, <1>8

\* The end of a command.
LEMMA Finished ==
    ASSUME cmd \in [Proc -> Cmd], NEW p \in Proc, Finish(p)
    PROVE  Moves(p) /\ cmd'[p] = NoCommand
BY Idle DEF Finish, Moves

\* The commands of the other processes, when one that holds the lock of the
\* distribution is at work: none of them reads what that one writes.
LEMMA OthersServed ==
    ASSUME ServiceInv, NEW p \in Proc, cmd[p].kind \in {"install", "remove"}, Moves(p)
    PROVE  \A q \in Proc \ {p} : Fits(cmd'[q]) /\ Served(cmd[q])'
<1> SUFFICES ASSUME NEW q \in Proc \ {p} PROVE Fits(cmd'[q]) /\ Served(cmd[q])'
  OBVIOUS
<1>1. cmd'[q] = cmd[q] /\ Fits(cmd[q]) /\ cmd[q] \in Cmd
  BY DEF Moves, ServiceInv
<1>2. cmd[q].kind \notin {"install", "remove"}
  BY DEF ServiceInv, Exclusive, Running
<1>3. cmd[q].pc \in {"idle", "rules"}
  BY <1>1, <1>2, Idle DEF Fits, Cmd
<1> QED BY <1>1, <1>2, <1>3 DEF Served, Stopped

\* A step of an installation or removal, from what it makes of its own command.
LEMMA GoStep ==
    ASSUME ServiceInv, NEW p \in Proc, cmd[p].kind \in {"install", "remove"}, Moves(p),
           cmd'[p].kind = cmd[p].kind, cmd'[p].mode = cmd[p].mode,
           cmd[p].kind = "install" => cmd'[p].pc \in InstallPc,
           cmd[p].kind = "remove" => cmd'[p].pc \in RemovePc,
           Served(cmd[p])', AgentsFit', Outer'
    PROVE  ServiceInv'
<1>1. Fits(cmd'[p])
  <2>1. cmd'[p] \in Cmd /\ Fits(cmd[p])
    BY DEF Moves, ServiceInv
  <2>2. cmd'[p].kind \notin {None, "protect", "unprotect"}
    BY Apart
  <2> QED BY <2>1, <2>2 DEF Fits
<1>2. \A q \in Proc : Fits(cmd'[q]) /\ Served(cmd[q])'
  BY <1>1, OthersServed
<1>3. \A q \in Proc : cmd'[q].kind = cmd[q].kind
  BY DEF Moves
<1>4. Exclusive'
  BY <1>3 DEF ServiceInv, Exclusive, Running
<1> QED BY <1>2, <1>4 DEF ServiceInv, Moves

\* The end of an installation or removal, whatever it has come to.
LEMMA EndOfCommand ==
    ASSUME ServiceInv, NEW p \in Proc, cmd[p].kind \in {"install", "remove"}, Finish(p),
           AgentsFit', Outer'
    PROVE  ServiceInv'
<1>1. Moves(p) /\ cmd'[p] = NoCommand
  BY Finished DEF ServiceInv
<1>2. Fits(cmd'[p]) /\ Served(cmd[p])'
  BY <1>1, Idle, Apart DEF Served, Stopped
<1>3. \A q \in Proc : Fits(cmd'[q]) /\ Served(cmd[q])'
  BY <1>1, <1>2, OthersServed
<1>4. Exclusive'
  <2>1. ASSUME NEW q \in Proc, cmd'[q].kind # None PROVE cmd'[q] = cmd[q]
    BY <1>1, <2>1, Idle DEF Moves
  <2> QED BY <2>1, Apart DEF ServiceInv, Exclusive, Running
<1> QED BY <1>1, <1>3, <1>4 DEF ServiceInv, Moves

-----------------------------------------------------------------------------
(* Every step of the service preserves the invariant. *)

\* A step of an installation or removal that leaves agent, history and rules alone.
LEMMA QuietGo ==
    ASSUME ServiceInv, NEW p \in Proc, cmd[p].kind \in {"install", "remove"}, Moves(p),
           cmd'[p].kind = cmd[p].kind, cmd'[p].mode = cmd[p].mode,
           cmd[p].kind = "install" => cmd'[p].pc \in {"payload", "copy", "hooks", "hooked", "service"},
           cmd[p].kind = "remove" => cmd[p].pc \in {"hooks", "hooked"} /\ cmd'[p].pc \in {"hooks", "hooked"},
           UNCHANGED <<service, history, rules>>, Outer'
    PROVE  ServiceInv'
<1>1. /\ plist' = plist /\ sreceipt' = sreceipt /\ registered' = registered
      /\ history' = history /\ rules' = rules
  BY DEF service
<1>2. AgentsFit'
  BY <1>1 DEF ServiceInv, AgentsFit
<1>3. cmd'[p].pc \notin Stopped /\ cmd'[p].pc # "drop receipt"
  BY DEF Stopped
<1>4. Served(cmd[p])
  BY DEF ServiceInv
<1>5. Served(cmd[p])'
  <2>1. cmd[p].kind = "install" => history \in {None, cmd[p].mode} \/ plist # None
    BY <1>4 DEF Served
  <2>2. cmd[p].kind = "remove" => ~rules /\ plist = None /\ sreceipt = None /\ registered = None
    BY <1>4 DEF Served
  <2>3. ~rules => ~rules'
    BY ONLY <1>1, Zenon
  <2> QED BY <1>1, <1>3, <2>1, <2>2, <2>3 DEF Served, Stopped
<1> QED BY <1>2, <1>5, GoStep DEF InstallPc, RemovePc

\* The steps of an installation outside its service, and of a removal at the hooks.
LEMMA InstallStep ==
    ASSUME ServiceInv, NEW p \in Proc, Install(p)
    PROVE  ServiceInv'
<1>0. Fits(cmd[p]) /\ cmd[p] \in Cmd /\ cmd \in [Proc -> Cmd] /\ Outer /\ AgentsFit
  BY DEF ServiceInv
<1>1. /\ plist' = plist /\ sreceipt' = sreceipt /\ registered' = registered /\ app' = app
      /\ history' = history /\ rules' = rules /\ tools' = tools
  BY DEF Install, Payload, Copy, Hooks, Hooked, hookVars, service
<1>2. AgentsFit'
  BY <1>0, <1>1 DEF AgentsFit
<1>3. UNCHANGED <<service, history, rules>>
  BY <1>1 DEF service
<1>4. runtime' \in {runtime, "partial", "complete"}
  BY DEF Install, Payload, Copy, Hooks, Hooked
<1>5. Outer'
  BY <1>0, <1>1, <1>4 DEF Outer
<1>6. cmd[p].pc \in {"payload", "copy", "hooks", "hooked"}
  BY DEF Install, Payload, Copy, Hooks, Hooked
<1>7. /\ cmd[p].kind \in {"install", "remove"}
      /\ cmd[p].kind = "remove" => cmd[p].pc \in {"hooks", "hooked"}
  BY <1>0, <1>6, Idle DEF Fits, RemovePc, Cmd
<1>8. CASE Finish(p)
  BY <1>2, <1>5, <1>7, <1>8, EndOfCommand
<1>9. CASE Step(p, "copy") /\ cmd[p].pc = "payload"
  BY <1>0, <1>3, <1>5, <1>7, <1>9, QuietGo, Stepped DEF Pcs, InstallPc
<1>10. CASE Step(p, "hooks")
  BY <1>0, <1>3, <1>5, <1>7, <1>10, QuietGo, Stepped DEF Pcs, InstallPc
<1>11. CASE Step(p, "service") /\ cmd[p].kind = "install"
  BY <1>0, <1>3, <1>5, <1>7, <1>11, QuietGo, Stepped DEF Pcs, InstallPc
<1>12. CASE \E l \in SUBSET Client, pc \in {"hooks", "hooked"} :
               cmd' = [cmd EXCEPT ![p] = [kind |-> cmd[p].kind, pc |-> pc, mode |-> cmd[p].mode,
                                          left |-> l, new |-> cmd[p].new]]
  <2>1. PICK l \in SUBSET Client, pc \in {"hooks", "hooked"} :
               cmd' = [cmd EXCEPT ![p] = [kind |-> cmd[p].kind, pc |-> pc, mode |-> cmd[p].mode,
                                          left |-> l, new |-> cmd[p].new]]
    BY <1>12
  <2> DEFINE c == [kind |-> cmd[p].kind, pc |-> pc, mode |-> cmd[p].mode, left |-> l, new |-> cmd[p].new]
  <2>2. c \in Cmd
    <3>1. cmd[p] \in Cmd /\ pc \in InstallPc
      BY <1>0 DEF InstallPc
    <3> QED BY ONLY <2>1, <3>1 DEF Cmd
  <2>3. Moves(p) /\ cmd'[p] = c
    BY <1>0, <2>1, <2>2 DEF Moves
  <2> QED BY <1>3, <1>5, <1>7, <2>3, QuietGo
<1>13. CASE Hooks(p) /\ cmd[p].left # {}
  <2> DEFINE a == IF "zcode" \in cmd[p].left THEN "zcode" ELSE "claude-code"
             next == [cmd EXCEPT ![p].left = @ \ {a}]
             l == cmd[p].left \ {a}
             c(pc) == [kind |-> cmd[p].kind, pc |-> pc, mode |-> cmd[p].mode, left |-> l, new |-> cmd[p].new]
  <2>1. l \in SUBSET Client /\ cmd[p].pc = "hooks"
    BY <1>0, <1>13 DEF Cmd, Hooks
  <2> HIDE DEF l
  <2>2. [cmd[p] EXCEPT !.left = l] = c("hooks")
    BY <1>0, <2>1 DEF Cmd
  <2>3. next = [cmd EXCEPT ![p] = c("hooks")]
    BY <1>0, <2>2 DEF l
  <2>4. [c("hooks") EXCEPT !.pc = "hooked"] = c("hooked")
    OBVIOUS
  <2>5. [next EXCEPT ![p].pc = "hooked"] = [cmd EXCEPT ![p] = c("hooked")]
    BY <1>0, <2>3, <2>4
  <2>6. cmd' = next \/ cmd' = [next EXCEPT ![p].pc = "hooked"]
    BY <1>13 DEF Hooks
  <2>7. \E pc \in {"hooks", "hooked"} : cmd' = [cmd EXCEPT ![p] = c(pc)]
    BY <2>3, <2>5, <2>6
  <2> QED BY <1>12, <2>1, <2>7
<1> QED BY <1>8, <1>9, <1>10, <1>11, <1>13 DEF Install, Payload, Copy, Hooks, Hooked

\* What no step of the service changes.
LEMMA Untouched ==
    ASSUME ServiceInv, UNCHANGED untouched
    PROVE  /\ Outer' /\ tools' = tools /\ history' = history /\ hook' = hook /\ receipt' = receipt
           /\ outcome' = outcome /\ runtime' = runtime /\ (~rules => ~rules')
<1>1. /\ tools' = tools /\ app' = app /\ runtime' = runtime /\ history' = history /\ rules' = rules
      /\ hook' = hook /\ receipt' = receipt /\ outcome' = outcome
  BY DEF untouched
<1>2. ~rules => ~rules'
  BY <1>1, Zenon
<1>3. Outer'
  BY <1>1 DEF ServiceInv, Outer
<1> QED BY <1>1, <1>2, <1>3

\* The names of Service.
LEMMA ServiceNames ==
    /\ Service = "none" <=> plist = None /\ sreceipt = None
    /\ Service = "owned" <=> plist # None /\ plist = sreceipt
BY DEF Service

\* InstallService writes a file only where there is no agent.
LEMMA InstallServiceStep ==
    ASSUME ServiceInv, NEW p \in Proc, InstallService(p)
    PROVE  ServiceInv'
<1> DEFINE m == cmd[p].mode
<1>1. /\ Fits(cmd[p]) /\ cmd[p] \in Cmd /\ cmd \in [Proc -> Cmd] /\ AgentsFit /\ Served(cmd[p])
      /\ cmd[p].kind = "install" /\ cmd[p].pc = "service"
  BY DEF ServiceInv, InstallService
<1>2. UNCHANGED untouched
  BY DEF InstallService
<1>3. Outer' /\ history' = history
  BY <1>2, Untouched
<1>4. /\ m \in ModeName /\ Agent(m) \in Agents /\ Agent(m).mode = m /\ Agent(m) # None
      /\ history \in {None, m} \/ plist # None
  BY <1>1, Apart DEF Fits, Served
<1>5. CASE Finish(p) /\ UNCHANGED service
  <2>1. AgentsFit'
    BY <1>1, <1>3, <1>5 DEF AgentsFit, service
  <2> QED BY <1>1, <1>3, <1>5, <2>1, EndOfCommand
<1>6. CASE Service = "owned" /\ registered = None /\ Step(p, "load") /\ UNCHANGED service
  <2>1. /\ Moves(p) /\ cmd'[p].pc = "load" /\ cmd'[p].kind = "install" /\ cmd'[p].mode = m
    BY <1>1, <1>6, Stepped DEF Pcs, InstallPc
  <2>2. plist' = plist /\ sreceipt' = sreceipt /\ registered' = None
    BY <1>6 DEF service
  <2>3. AgentsFit'
    BY <1>1, <1>3, <2>2 DEF AgentsFit
  <2>4. Served(cmd[p])'
    BY <1>3, <1>4, <2>1, <2>2 DEF Served, Stopped
  <2> QED BY <1>1, <1>3, <2>1, <2>3, <2>4, GoStep DEF InstallPc
<1>7. ASSUME Service = "none", sreceipt' = sreceipt, registered' = registered,
             plist' \in {None, Agent(m)}
      PROVE  AgentsFit' /\ registered' = None /\ history \in {None, m}
  <2>1. plist = None /\ sreceipt = None
    BY <1>7, ServiceNames
  <2> QED BY <1>1, <1>3, <1>4, <1>7, <2>1 DEF AgentsFit
<1>8. CASE /\ Service = "none" /\ sreceipt' = sreceipt /\ registered' = registered
           /\ plist' = Agent(m) /\ cmd' = [[cmd EXCEPT ![p].pc = "receipt"] EXCEPT ![p].new = TRUE]
  <2>3. /\ Moves(p) /\ cmd'[p].kind = "install" /\ cmd'[p].pc = "receipt" /\ cmd'[p].mode = m
    <3>1. "receipt" \in Pcs /\ TRUE \in BOOLEAN
      BY DEF Pcs, InstallPc
    <3> QED BY <1>1, <1>8, <3>1, SteppedNew
  <2>4. AgentsFit' /\ registered' = None /\ history \in {None, m}
    BY <1>7, <1>8
  <2>5. Served(cmd[p])'
    BY <1>3, <2>3, <2>4 DEF Served, Stopped
  <2> QED BY <1>1, <1>3, <2>3, <2>4, <2>5, GoStep DEF InstallPc
<1>9. CASE /\ Service = "none" /\ sreceipt' = sreceipt /\ registered' = registered
           /\ plist' \in {None, Agent(m)} /\ Finish(p)
  BY <1>1, <1>3, <1>7, <1>9, EndOfCommand
<1>10. \/ Finish(p) /\ UNCHANGED service
       \/ Service = "owned" /\ registered = None /\ Step(p, "load") /\ UNCHANGED service
       \/ /\ Service = "none" /\ sreceipt' = sreceipt /\ registered' = registered
          /\ plist' = Agent(m) /\ cmd' = [[cmd EXCEPT ![p].pc = "receipt"] EXCEPT ![p].new = TRUE]
       \/ /\ Service = "none" /\ sreceipt' = sreceipt /\ registered' = registered
          /\ plist' \in {None, Agent(m)} /\ Finish(p)
  BY Zenon DEF InstallService
<1> QED BY <1>5, <1>6, <1>8, <1>9, <1>10

\* The receipt of the agent goes with its file, or is given up with it.
LEMMA WriteServiceReceiptStep ==
    ASSUME ServiceInv, NEW p \in Proc, WriteServiceReceipt(p)
    PROVE  ServiceInv'
<1> DEFINE m == cmd[p].mode
<1>1. /\ Fits(cmd[p]) /\ cmd[p] \in Cmd /\ cmd \in [Proc -> Cmd] /\ AgentsFit /\ Served(cmd[p])
      /\ cmd[p].pc = "receipt" /\ plist' = plist /\ registered' = registered /\ UNCHANGED untouched
  BY DEF ServiceInv, WriteServiceReceipt
<1>2. Outer' /\ history' = history
  BY <1>1, Untouched
<1>3. cmd[p].kind = "install"
  BY <1>1, Idle DEF Fits, RemovePc, Cmd
<1>4. /\ m \in ModeName /\ Agent(m) \in Agents /\ registered = None
      /\ history \in {None, m} \/ plist # None
  BY <1>1, <1>3, Apart DEF Fits, Served, Stopped
<1>5. sreceipt' \in {sreceipt, Agent(m)}
  BY DEF WriteServiceReceipt
<1>6. AgentsFit'
  BY <1>1, <1>2, <1>4, <1>5 DEF AgentsFit
<1>7. \/ Step(p, "load")
      \/ cmd' = [[cmd EXCEPT ![p].pc = "undo"] EXCEPT ![p].new = FALSE]
  BY Zenon DEF WriteServiceReceipt
<1>8. "load" \in Pcs /\ "undo" \in Pcs /\ FALSE \in BOOLEAN
  BY DEF Pcs, InstallPc
<1>9. Moves(p) /\ cmd'[p].kind = cmd[p].kind /\ cmd'[p].mode = m /\ cmd'[p].pc \in {"load", "undo"}
  BY <1>1, <1>7, <1>8, Stepped, SteppedNew
<1>10. Served(cmd[p])'
  BY <1>1, <1>2, <1>3, <1>4, <1>9 DEF Served, Stopped
<1> QED BY <1>1, <1>2, <1>3, <1>6, <1>9, <1>10, GoStep DEF InstallPc

\* launchd gets the file as it is, and what an edit made of it is still a file.
LEMMA LoadStep ==
    ASSUME ServiceInv, NEW p \in Proc, Load(p)
    PROVE  ServiceInv'
<1>1. /\ Fits(cmd[p]) /\ cmd[p] \in Cmd /\ cmd \in [Proc -> Cmd] /\ AgentsFit /\ Served(cmd[p])
      /\ cmd[p].pc = "load" /\ plist' = plist /\ sreceipt' = sreceipt /\ UNCHANGED untouched
  BY DEF ServiceInv, Load
<1>2. Outer' /\ history' = history
  BY <1>1, Untouched
<1>3. cmd[p].kind = "install" /\ registered = None
  BY <1>1, Idle DEF Fits, RemovePc, Cmd, Served, Stopped
<1>4. registered' \in {registered, plist}
  BY DEF Load
<1>5. AgentsFit'
  BY <1>1, <1>2, <1>4 DEF AgentsFit
<1>6. CASE Finish(p)
  BY <1>2, <1>3, <1>5, <1>6, EndOfCommand
<1>7. CASE registered' = registered /\ Step(p, "undo")
  <2>1. Moves(p) /\ cmd'[p].kind = cmd[p].kind /\ cmd'[p].mode = cmd[p].mode /\ cmd'[p].pc = "undo"
    BY <1>1, <1>7, Stepped DEF Pcs, InstallPc
  <2>2. Served(cmd[p])'
    BY <1>1, <1>2, <1>3, <1>7, <2>1 DEF Served, Stopped
  <2> QED BY <1>2, <1>3, <1>5, <2>1, <2>2, GoStep DEF InstallPc
<1> QED BY <1>6, <1>7 DEF Load

\* An installation that failed takes back its own file only, while nothing runs.
LEMMA UndoStep ==
    ASSUME ServiceInv, NEW p \in Proc, Undo(p)
    PROVE  ServiceInv'
<1>1. /\ Fits(cmd[p]) /\ cmd[p] \in Cmd /\ cmd \in [Proc -> Cmd] /\ AgentsFit /\ Served(cmd[p])
      /\ cmd[p].pc = "undo" /\ sreceipt' = sreceipt /\ registered' = registered /\ UNCHANGED untouched
  BY DEF ServiceInv, Undo
<1>2. Outer' /\ history' = history
  BY <1>1, Untouched
<1>3. cmd[p].kind = "install" /\ registered = None
  BY <1>1, Idle DEF Fits, RemovePc, Cmd, Served, Stopped
<1>4. plist' \in {None, plist} /\ (plist' = plist \/ plist = Agent(cmd[p].mode))
  BY DEF Undo
<1>5. AgentsFit'
  BY <1>1, <1>2, <1>3, <1>4 DEF AgentsFit
<1>6. CASE Finish(p)
  BY <1>2, <1>3, <1>5, <1>6, EndOfCommand
<1>7. CASE Step(p, "undo receipt") /\ plist = Agent(cmd[p].mode)
  <2>1. /\ Moves(p) /\ cmd'[p].kind = cmd[p].kind /\ cmd'[p].mode = cmd[p].mode
        /\ cmd'[p].pc = "undo receipt"
    BY <1>1, <1>7, Stepped DEF Pcs, InstallPc
  <2>2. history \in {None, cmd[p].mode}
    <3>1. cmd[p].mode \in ModeName
      BY <1>1, <1>3 DEF Fits
    <3>2. Agent(cmd[p].mode) # None /\ Agent(cmd[p].mode).mode = cmd[p].mode
      BY <3>1, Apart
    <3> QED BY <1>1, <1>7, <3>2 DEF AgentsFit
  <2>3. Served(cmd[p])'
    BY <1>1, <1>2, <1>3, <2>1, <2>2 DEF Served, Stopped
  <2> QED BY <1>2, <1>3, <1>5, <2>1, <2>3, GoStep DEF InstallPc
<1> QED BY <1>6, <1>7 DEF Undo

\* With the receipt the service is gone.
LEMMA DropServiceReceiptStep ==
    ASSUME ServiceInv, NEW p \in Proc, DropServiceReceipt(p)
    PROVE  ServiceInv'
<1>1. /\ Fits(cmd[p]) /\ cmd[p] \in Cmd /\ cmd \in [Proc -> Cmd] /\ AgentsFit /\ Served(cmd[p])
      /\ cmd[p].pc \in {"undo receipt", "drop receipt"}
      /\ plist' = plist /\ registered' = registered /\ UNCHANGED untouched
  BY DEF ServiceInv, DropServiceReceipt
<1>2. Outer' /\ history' = history /\ (~rules => ~rules')
  BY <1>1, Untouched
<1>3. cmd[p].kind \in {"install", "remove"} /\ registered = None
  BY <1>1, Idle DEF Fits, Cmd, Served, Stopped
<1>4. sreceipt' \in {None, sreceipt}
  BY DEF DropServiceReceipt
<1>5. AgentsFit'
  BY <1>1, <1>2, <1>4 DEF AgentsFit
<1>6. CASE Finish(p)
  BY <1>2, <1>3, <1>5, <1>6, EndOfCommand
<1>7. CASE cmd[p].kind = "remove" /\ Step(p, "hooks") /\ sreceipt' = None
  <2>1. Moves(p) /\ cmd'[p].kind = "remove" /\ cmd'[p].mode = cmd[p].mode /\ cmd'[p].pc = "hooks"
    BY <1>1, <1>7, Stepped DEF Pcs, InstallPc
  <2>2. plist = None /\ ~rules
    BY <1>1, <1>7 DEF Fits, RemovePc, Served
  <2>3. Served(cmd[p])'
    BY <1>1, <1>2, <1>3, <1>7, <2>1, <2>2 DEF Served, Stopped
  <2> QED BY <1>2, <1>3, <1>5, <1>7, <2>1, <2>3, GoStep DEF RemovePc
<1> QED BY <1>6, <1>7 DEF DropServiceReceipt

\* A removal without an agent goes on to the hooks, with one it stops it first.
LEMMA RemoveServiceStep ==
    ASSUME ServiceInv, NEW p \in Proc, RemoveService(p)
    PROVE  ServiceInv'
<1>1. /\ Fits(cmd[p]) /\ cmd[p] \in Cmd /\ cmd \in [Proc -> Cmd] /\ AgentsFit /\ Served(cmd[p])
      /\ cmd[p].kind = "remove" /\ UNCHANGED <<service, untouched>>
  BY DEF ServiceInv, RemoveService
<1>2. Outer' /\ history' = history /\ (~rules => ~rules')
  BY <1>1, Untouched
<1>3. plist' = plist /\ sreceipt' = sreceipt /\ registered' = registered
  BY <1>1 DEF service
<1>4. AgentsFit'
  BY <1>1, <1>2, <1>3 DEF AgentsFit
<1>5. Finish(p) \/ Step(p, "unload") \/ (Step(p, "hooks") /\ plist = None /\ sreceipt = None)
  BY ServiceNames DEF RemoveService
<1>6. CASE Finish(p)
  BY <1>1, <1>2, <1>4, <1>6, EndOfCommand
<1>7. CASE Step(p, "unload") \/ (Step(p, "hooks") /\ plist = None /\ sreceipt = None)
  <2>1. /\ Moves(p) /\ cmd'[p].kind = "remove" /\ cmd'[p].mode = cmd[p].mode
        /\ \/ cmd'[p].pc = "unload"
           \/ cmd'[p].pc = "hooks" /\ plist = None /\ sreceipt = None /\ registered = None
    <3>1. "unload" \in Pcs /\ "hooks" \in Pcs
      BY DEF Pcs, InstallPc, RemovePc
    <3> QED BY <1>1, <1>7, <3>1, Stepped DEF AgentsFit
  <2>2. Served(cmd[p])'
    BY <1>1, <1>2, <1>3, <2>1 DEF Served, Stopped
  <2> QED BY <1>1, <1>2, <1>4, <2>1, <2>2, GoStep DEF RemovePc
<1> QED BY <1>5, <1>6, <1>7

\* The file goes only after launchd has let go of it.
LEMMA UnloadStep ==
    ASSUME ServiceInv, NEW p \in Proc, Unload(p)
    PROVE  ServiceInv'
<1>1. /\ Fits(cmd[p]) /\ cmd[p] \in Cmd /\ cmd \in [Proc -> Cmd] /\ AgentsFit /\ Served(cmd[p])
      /\ cmd[p].pc = "unload" /\ plist' = plist /\ sreceipt' = sreceipt /\ UNCHANGED untouched
  BY DEF ServiceInv, Unload
<1>2. Outer' /\ history' = history /\ (~rules => ~rules')
  BY <1>1, Untouched
<1>3. cmd[p].kind = "remove"
  BY <1>1, Idle DEF Fits, InstallPc, Cmd
<1>4. registered' \in {registered, None}
  BY DEF Unload
<1>5. AgentsFit'
  BY <1>1, <1>2, <1>4 DEF AgentsFit
<1>6. CASE Finish(p)
  BY <1>2, <1>3, <1>5, <1>6, EndOfCommand
<1>7. CASE registered' = None /\ Step(p, "drop file")
  <2>1. Moves(p) /\ cmd'[p].kind = "remove" /\ cmd'[p].mode = cmd[p].mode /\ cmd'[p].pc = "drop file"
    BY <1>1, <1>3, <1>7, Stepped DEF Pcs, RemovePc
  <2>2. Served(cmd[p])'
    BY <1>1, <1>2, <1>3, <1>7, <2>1 DEF Served, Stopped
  <2> QED BY <1>2, <1>3, <1>5, <2>1, <2>2, GoStep DEF RemovePc
<1> QED BY <1>6, <1>7 DEF Unload

\* The file goes before its receipt.
LEMMA DropFileStep ==
    ASSUME ServiceInv, NEW p \in Proc, DropFile(p)
    PROVE  ServiceInv'
<1>1. /\ Fits(cmd[p]) /\ cmd[p] \in Cmd /\ cmd \in [Proc -> Cmd] /\ AgentsFit /\ Served(cmd[p])
      /\ cmd[p].pc = "drop file" /\ sreceipt' = sreceipt /\ registered' = registered /\ UNCHANGED untouched
  BY DEF ServiceInv, DropFile
<1>2. Outer' /\ history' = history /\ (~rules => ~rules')
  BY <1>1, Untouched
<1>3. cmd[p].kind = "remove" /\ registered = None
  BY <1>1, Idle DEF Fits, InstallPc, Cmd, Served, Stopped
<1>4. plist' \in {plist, None}
  BY DEF DropFile
<1>5. AgentsFit'
  BY <1>1, <1>2, <1>3, <1>4 DEF AgentsFit
<1>6. CASE Finish(p)
  BY <1>2, <1>3, <1>5, <1>6, EndOfCommand
<1>7. CASE plist' = None /\ Step(p, "drop receipt")
  <2>1. Moves(p) /\ cmd'[p].kind = "remove" /\ cmd'[p].mode = cmd[p].mode /\ cmd'[p].pc = "drop receipt"
    BY <1>1, <1>3, <1>7, Stepped DEF Pcs, RemovePc
  <2>2. Served(cmd[p])'
    BY <1>1, <1>2, <1>3, <1>7, <2>1 DEF Served, Stopped
  <2> QED BY <1>2, <1>3, <1>5, <2>1, <2>2, GoStep DEF RemovePc
<1> QED BY <1>6, <1>7 DEF DropFile

\* What a command that begins leaves alone.
LEMMA Begins ==
    ASSUME ServiceInv, NEW p \in Proc, NEW c \in Cmd, Begin(p, c)
    PROVE  /\ Moves(p) /\ cmd'[p] = c /\ cmd[p] = NoCommand
           /\ AgentsFit' /\ Outer'
           /\ \A q \in Proc \ {p} : Fits(cmd'[q]) /\ Served(cmd[q])'
<1>1. /\ plist' = plist /\ sreceipt' = sreceipt /\ registered' = registered /\ history' = history
      /\ rules' = rules /\ tools' = tools /\ app' = app /\ runtime' = runtime
      /\ cmd' = [cmd EXCEPT ![p] = c] /\ cmd \in [Proc -> Cmd] /\ cmd[p] = NoCommand
  BY DEF Begin, outside, service, ServiceInv
<1>2. ~rules => ~rules'
  BY <1>1, Zenon
<1>3. Moves(p) /\ cmd'[p] = c
  BY <1>1 DEF Moves
<1>4. AgentsFit' /\ Outer'
  BY <1>1 DEF ServiceInv, AgentsFit, Outer
<1>5. ASSUME NEW q \in Proc \ {p} PROVE Fits(cmd'[q]) /\ Served(cmd[q])'
  <2>1. cmd'[q] = cmd[q] /\ Fits(cmd[q]) /\ Served(cmd[q])
    BY <1>3 DEF Moves, ServiceInv
  <2> QED BY <1>1, <1>2, <2>1 DEF Served, Stopped
<1> QED BY <1>1, <1>3, <1>4, <1>5

\* An installation begins when no other command of the distribution runs, and only
\* with a history of its own mode.
LEMMA BeginInstallStep ==
    ASSUME ServiceInv, NEW p \in Proc, BeginInstall(p)
    PROVE  ServiceInv'
<1> DEFINE c == [kind |-> "install", pc |-> "payload", mode |-> Mode, left |-> tools, new |-> FALSE]
<1>1. c \in Cmd
  BY Apart DEF Cmd, InstallPc, ServiceInv, Outer
<1>2. Begin(p, c) /\ DistributionLock = {} /\ history \in {None, Mode}
  BY DEF BeginInstall, Preflight
<1>3. /\ Moves(p) /\ cmd'[p] = c /\ cmd[p] = NoCommand /\ AgentsFit' /\ Outer'
      /\ \A q \in Proc \ {p} : Fits(cmd'[q]) /\ Served(cmd[q])'
  BY <1>1, <1>2, Begins
<1>4. history' = history /\ Mode \in ModeName
  BY <1>2, Apart DEF Begin, outside
<1>5. cmd'[p].kind = "install" /\ cmd'[p].pc = "payload" /\ cmd'[p].mode = Mode
  BY <1>3
<1> HIDE DEF c
<1>6. Fits(cmd'[p]) /\ Served(cmd[p])'
  BY <1>1, <1>2, <1>3, <1>4, <1>5, Apart DEF Fits, InstallPc, Served, Stopped
<1>7. \A q \in Proc : cmd[q].kind \notin {"install", "remove"}
  BY <1>2 DEF DistributionLock, Running
<1>8. \A q \in Proc \ {p} : cmd'[q] = cmd[q]
  BY <1>3 DEF Moves
<1>9. Exclusive'
  BY <1>5, <1>7, <1>8 DEF ServiceInv, Exclusive, Running
<1> QED BY <1>3, <1>6, <1>9 DEF ServiceInv, Moves

\* A removal begins when no command of the distribution or of the archive guard
\* runs, and no rule is in place.
LEMMA BeginRemoveStep ==
    ASSUME ServiceInv, NEW p \in Proc, BeginRemove(p)
    PROVE  ServiceInv'
<1> DEFINE c == [kind |-> "remove", pc |-> "service", mode |-> Mode, left |-> Client, new |-> FALSE]
<1>1. c \in Cmd
  BY Apart DEF Cmd, RemovePc
<1>2. Begin(p, c) /\ DistributionLock = {} /\ GuardLock = {} /\ ~rules
  BY DEF BeginRemove
<1>3. /\ Moves(p) /\ cmd'[p] = c /\ cmd[p] = NoCommand /\ AgentsFit' /\ Outer'
      /\ \A q \in Proc \ {p} : Fits(cmd'[q]) /\ Served(cmd[q])'
  BY <1>1, <1>2, Begins
<1>4. ~rules'
  <2>1. rules' = rules
    BY <1>2 DEF Begin
  <2> QED BY <1>2, <2>1, Zenon
<1>5. cmd'[p].kind = "remove" /\ cmd'[p].pc = "service"
  BY <1>3
<1> HIDE DEF c
<1>6. Fits(cmd'[p]) /\ Served(cmd[p])'
  BY <1>1, <1>3, <1>4, <1>5, Apart DEF Fits, RemovePc, Served, Stopped
<1>7. \A q \in Proc : cmd[q].kind \notin {"install", "remove", "protect", "unprotect"}
  BY <1>2 DEF DistributionLock, GuardLock, Running
<1>8. \A q \in Proc \ {p} : cmd'[q] = cmd[q]
  BY <1>3 DEF Moves
<1>9. Exclusive'
  BY <1>5, <1>7, <1>8 DEF ServiceInv, Exclusive, Running
<1> QED BY <1>3, <1>6, <1>9 DEF ServiceInv, Moves

\* The archive guard begins when neither it nor a removal runs.
LEMMA BeginProtectStep ==
    ASSUME ServiceInv, NEW p \in Proc, BeginProtect(p)
    PROVE  ServiceInv'
<1> DEFINE k == IF rules THEN "unprotect" ELSE "protect"
           c == [kind |-> k, pc |-> "rules", mode |-> None, left |-> {}, new |-> FALSE]
<1>1. c \in Cmd
  BY DEF Cmd
<1>2. [NoCommand EXCEPT !.kind = k, !.pc = "rules"] = c
  <2> DEFINE d == [NoCommand EXCEPT !.kind = k]
             u == [d EXCEPT !.pc = "rules"]
  <2>1. NoCommand \in Cmd /\ k \in {"protect", "unprotect"}
    BY Idle
  <2>2. NoCommand.mode = None /\ NoCommand.left = {} /\ NoCommand.new = FALSE
    BY DEF NoCommand
  <2> HIDE DEF k
  <2>3. d \in Cmd /\ d.kind = k /\ d.mode = None /\ d.left = {} /\ d.new = FALSE
    BY ONLY <2>1, <2>2 DEF Cmd
  <2> HIDE DEF d
  <2>4. u \in Cmd /\ u.kind = k /\ u.pc = "rules" /\ u.mode = None /\ u.left = {} /\ u.new = FALSE
    BY ONLY <2>3 DEF Cmd
  <2> HIDE DEF u
  <2>5. u = [kind |-> u.kind, pc |-> u.pc, mode |-> u.mode, left |-> u.left, new |-> u.new]
    BY ONLY <2>4 DEF Cmd
  <2>6. u = c
    BY ONLY <2>4, <2>5
  <2> QED BY <2>6, Zenon DEF u, d
<1>3. Begin(p, c) /\ GuardLock = {}
  BY <1>2 DEF BeginProtect
<1>4. /\ Moves(p) /\ cmd'[p] = c /\ cmd[p] = NoCommand /\ AgentsFit' /\ Outer'
      /\ \A q \in Proc \ {p} : Fits(cmd'[q]) /\ Served(cmd[q])'
  BY <1>1, <1>3, Begins
<1>5. cmd'[p].kind \in {"protect", "unprotect"} /\ cmd'[p].pc = "rules"
  BY <1>4
<1> HIDE DEF c
<1>6. Fits(cmd'[p]) /\ Served(cmd[p])'
  BY <1>1, <1>4, <1>5, Apart DEF Fits, Served, Stopped
<1>7. \A q \in Proc : cmd[q].kind \notin {"remove", "protect", "unprotect"}
  BY <1>3 DEF GuardLock, Running
<1>8. \A q \in Proc \ {p} : cmd'[q] = cmd[q]
  BY <1>4 DEF Moves
<1>9. Exclusive'
  BY <1>5, <1>7, <1>8 DEF ServiceInv, Exclusive, Running
<1> QED BY <1>4, <1>6, <1>9 DEF ServiceInv, Moves

\* A step after which some processes have no command, the others the same one, that
\* leaves alone what those have established.
LEMMA EndedStep ==
    ASSUME ServiceInv, cmd' \in [Proc -> Cmd], AgentsFit', Outer',
           \A q \in Proc : cmd'[q] = NoCommand \/ (cmd'[q] = cmd[q] /\ Served(cmd[q])')
    PROVE  ServiceInv'
<1>1. ASSUME NEW q \in Proc PROVE Fits(cmd'[q]) /\ Served(cmd[q])'
  <2>1. CASE cmd'[q] = NoCommand
    BY <2>1, Idle, Apart DEF Served, Stopped
  <2>2. CASE cmd'[q] = cmd[q] /\ Served(cmd[q])'
    BY <2>2 DEF ServiceInv
  <2> QED BY <2>1, <2>2
<1>2. ASSUME NEW q \in Proc, cmd'[q].kind # None PROVE cmd'[q].kind = cmd[q].kind
  BY <1>2, Idle
<1>3. Exclusive'
  BY <1>2, Apart DEF ServiceInv, Exclusive, Running
<1> QED BY <1>1, <1>3 DEF ServiceInv

\* A step that leaves agent, history and rules alone keeps what is established.
LEMMA StaysServed ==
    ASSUME ServiceInv, UNCHANGED <<service, history, rules>>, NEW q \in Proc, cmd'[q] = cmd[q]
    PROVE  Served(cmd[q])'
<1>1. /\ plist' = plist /\ sreceipt' = sreceipt /\ registered' = registered /\ history' = history
      /\ rules' = rules
  BY DEF service
<1>2. ~rules => ~rules'
  BY ONLY <1>1, Zenon
<1>3. Served(cmd[q])
  BY DEF ServiceInv
<1> QED BY <1>1, <1>2, <1>3 DEF Served, Stopped

\* The archive guard changes its rules while no removal runs.
LEMMA ProtectStep ==
    ASSUME ServiceInv, NEW p \in Proc, Protect(p)
    PROVE  ServiceInv'
<1>1. /\ Finish(p) /\ cmd[p].pc = "rules" /\ rules' \in BOOLEAN
      /\ plist' = plist /\ sreceipt' = sreceipt /\ registered' = registered /\ history' = history
      /\ tools' = tools /\ app' = app /\ runtime' = runtime
  BY DEF Protect, service, hookVars
<1>2. Moves(p) /\ cmd'[p] = NoCommand
  BY <1>1, Finished DEF ServiceInv
<1>3. AgentsFit' /\ Outer'
  BY <1>1 DEF ServiceInv, AgentsFit, Outer
<1>4. Fits(cmd[p]) /\ cmd[p] \in Cmd
  BY DEF ServiceInv
<1>5. cmd[p].kind \in {"protect", "unprotect"}
  BY <1>1, <1>4, Idle DEF Fits, Cmd, InstallPc, RemovePc
<1>6. ASSUME NEW q \in Proc \ {p} PROVE cmd'[q] = cmd[q] /\ Served(cmd[q])'
  <2>1. cmd'[q] = cmd[q] /\ cmd[q].kind # "remove" /\ Served(cmd[q])
    BY <1>2, <1>5 DEF Moves, ServiceInv, Exclusive, Running
  <2> QED BY <1>1, <2>1 DEF Served, Stopped
<1> QED BY <1>2, <1>3, <1>6, EndedStep DEF Moves

\* A kill ends one command, a restart all of them.
LEMMA KillCommandStep ==
    ASSUME ServiceInv, NEW p \in Proc, KillCommand(p)
    PROVE  ServiceInv'
<1>1. /\ Finish(p) /\ UNCHANGED <<service, history, rules>>
      /\ plist' = plist /\ sreceipt' = sreceipt /\ registered' = registered /\ history' = history
      /\ rules' = rules /\ tools' = tools /\ app' = app /\ runtime' = runtime
  BY DEF KillCommand, service, outside
<1>2. Moves(p) /\ cmd'[p] = NoCommand
  BY <1>1, Finished DEF ServiceInv
<1>3. AgentsFit' /\ Outer'
  BY <1>1 DEF ServiceInv, AgentsFit, Outer
<1>4. ASSUME NEW q \in Proc \ {p} PROVE cmd'[q] = cmd[q] /\ Served(cmd[q])'
  <2>1. cmd'[q] = cmd[q]
    BY <1>2 DEF Moves
  <2> QED BY <1>1, <2>1, StaysServed
<1> QED BY <1>2, <1>3, <1>4, EndedStep DEF Moves

\* After a restart launchd has what the file says, edited or not.
LEMMA RestartStep ==
    ASSUME ServiceInv, Restart
    PROVE  ServiceInv'
<1>1. /\ cmd' = [q \in Proc |-> NoCommand] /\ registered' = plist
      /\ plist' = plist /\ sreceipt' = sreceipt /\ history' = history
      /\ rules' = rules /\ tools' = tools /\ app' = app /\ runtime' = runtime
  BY DEF Restart, outside
<1>2. AgentsFit' /\ Outer'
  BY <1>1 DEF ServiceInv, AgentsFit, Outer
<1>3. cmd' \in [Proc -> Cmd] /\ \A q \in Proc : cmd'[q] = NoCommand
  BY <1>1, Idle
<1> QED BY <1>2, <1>3, EndedStep

\* The monitor saves the mode of the agent, which is that of its file.
LEMMA MonitorRunsStep ==
    ASSUME ServiceInv, MonitorRuns
    PROVE  ServiceInv'
<1>1. /\ registered # None /\ history = None /\ history' = registered.mode
      /\ plist' = plist /\ sreceipt' = sreceipt /\ registered' = registered /\ cmd' = cmd
      /\ rules' = rules /\ tools' = tools /\ app' = app /\ runtime' = runtime
  BY DEF MonitorRuns, hookVars, service
<1>2. AgentsFit /\ Outer /\ cmd \in [Proc -> Cmd]
  BY DEF ServiceInv
<1>3. plist # None /\ plist.mode = registered.mode /\ registered \in Agents
  BY <1>1, <1>2 DEF AgentsFit
<1>4. history' \in ModeName
  BY <1>1, <1>3 DEF Agents, ModeName
<1>5. AgentsFit' /\ Outer'
  BY <1>1, <1>2, <1>3, <1>4 DEF AgentsFit, Outer
<1>6. ~rules => ~rules'
  BY ONLY <1>1, Zenon
<1>7. ASSUME NEW q \in Proc PROVE cmd'[q] = cmd[q] /\ Served(cmd[q])'
  <2>1. Served(cmd[q])
    BY DEF ServiceInv
  <2> QED BY <1>1, <1>3, <1>6, <2>1 DEF Served, Stopped
<1> QED BY <1>1, <1>2, <1>5, <1>7, EndedStep

\* A client that comes or goes is no matter of the service.
LEMMA ChangeToolsStep ==
    ASSUME ServiceInv, ChangeTools
    PROVE  ServiceInv'
<1>0. tools' \subseteq Client
  BY RuntimeAssumption DEF ChangeTools, ServiceInv, Outer
<1>1. /\ plist' = plist /\ sreceipt' = sreceipt /\ registered' = registered /\ history' = history
      /\ rules' = rules /\ runtime' = runtime /\ cmd' = cmd /\ UNCHANGED <<service, history, rules>>
  BY DEF ChangeTools, service
<1>2. app' \in BOOLEAN
  <2>1. app \in BOOLEAN
    BY DEF ServiceInv, Outer
  <2> QED BY <2>1, Zenon DEF ChangeTools
<1>3. AgentsFit' /\ Outer'
  BY <1>0, <1>1, <1>2 DEF ServiceInv, AgentsFit, Outer
<1>4. \A q \in Proc : cmd'[q] = cmd[q] /\ Served(cmd[q])'
  BY <1>1, StaysServed
<1> QED BY <1>1, <1>3, <1>4, EndedStep DEF ServiceInv

\* A user who edits the agent's file leaves the mode as it is; one who stops the
\* agent leaves the file.
LEMMA EditFilesStep ==
    ASSUME ServiceInv, EditFiles
    PROVE  ServiceInv'
<1>1. /\ sreceipt' = sreceipt /\ history' = history /\ rules' = rules /\ tools' = tools /\ app' = app
      /\ cmd' = cmd
  BY DEF EditFiles, outside
<1>2. AgentsFit /\ Outer /\ cmd \in [Proc -> Cmd]
  BY DEF ServiceInv
<1>3. \/ plist # None /\ plist' = [plist EXCEPT !.by = Foreign] /\ runtime' = runtime /\ registered' = registered
      \/ runtime' = "edited" /\ plist' = plist /\ registered' = registered
      \/ registered' = None /\ plist' = plist /\ runtime' = runtime
  BY DEF EditFiles
<1>4. /\ plist' \in Agents \cup {None} /\ (plist' = None <=> plist = None)
      /\ plist # None => plist'.mode = plist.mode
  <2>1. CASE plist # None /\ plist' = [plist EXCEPT !.by = Foreign]
    <3>1. plist \in Agents
      BY <1>2, <2>1 DEF AgentsFit
    <3>2. plist' \in Agents /\ plist'.mode = plist.mode
      BY <2>1, <3>1 DEF Agents
    <3> QED BY <2>1, <3>2, Apart
  <2>2. CASE plist' = plist
    BY <1>2, <2>2 DEF AgentsFit
  <2> QED BY <1>3, <2>1, <2>2
<1>5. registered' \in {registered, None} /\ runtime' \in {runtime, "edited"}
  BY <1>3
<1>6. AgentsFit'
  BY <1>1, <1>2, <1>4, <1>5 DEF AgentsFit
<1>7. Outer'
  BY <1>1, <1>2, <1>5 DEF Outer
<1>8. ~rules => ~rules'
  BY ONLY <1>1, Zenon
<1>9. ASSUME NEW q \in Proc PROVE cmd'[q] = cmd[q] /\ Served(cmd[q])'
  <2>1. Served(cmd[q])
    BY DEF ServiceInv
  <2> QED BY <1>1, <1>4, <1>5, <1>8, <2>1 DEF Served, Stopped
<1> QED BY <1>1, <1>2, <1>6, <1>7, <1>9, EndedStep

\* A step that only works at the hooks.
LEMMA OnlyHooksStep ==
    ASSUME ServiceInv, UNCHANGED <<outside, runtime, service, rules, cmd>>
    PROVE  ServiceInv'
<1>1. /\ plist' = plist /\ sreceipt' = sreceipt /\ registered' = registered /\ history' = history
      /\ rules' = rules /\ runtime' = runtime /\ cmd' = cmd /\ tools' = tools /\ app' = app
  BY DEF outside, service
<1>2. UNCHANGED <<service, history, rules>>
  BY <1>1 DEF service
<1>3. AgentsFit' /\ Outer'
  BY <1>1 DEF ServiceInv, AgentsFit, Outer
<1>4. \A q \in Proc : cmd'[q] = cmd[q] /\ Served(cmd[q])'
  BY <1>1, <1>2, StaysServed
<1> QED BY <1>1, <1>3, <1>4, EndedStep DEF ServiceInv

\* Nothing is installed at first.
LEMMA InitService == Init => ServiceInv
<1> SUFFICES ASSUME Init PROVE ServiceInv
  OBVIOUS
<1>1. /\ plist = None /\ sreceipt = None /\ registered = None /\ history = None /\ runtime = None
      /\ rules \in BOOLEAN /\ app \in BOOLEAN /\ tools \in SUBSET Client
      /\ cmd = [q \in Proc |-> NoCommand]
  BY DEF Init
<1>2. Outer /\ AgentsFit
  BY <1>1 DEF Outer, AgentsFit
<1>3. cmd \in [Proc -> Cmd] /\ \A q \in Proc : cmd[q] = NoCommand
  BY <1>1, Idle
<1>4. \A q \in Proc : Fits(cmd[q]) /\ Served(cmd[q])
  BY <1>3, Idle, Apart DEF Served, Stopped
<1>5. Exclusive
  BY <1>3, Idle, Apart DEF Exclusive, Running
<1> QED BY <1>2, <1>3, <1>4, <1>5 DEF ServiceInv

\* Every step of installation and removal preserves the invariant of the service.
LEMMA ServiceNext ==
    ASSUME ServiceInv, [Next]_setupVars
    PROVE  ServiceInv'
<1>1. CASE UNCHANGED setupVars
  <2>1. UNCHANGED <<outside, runtime, service, rules, cmd>>
    BY <1>1 DEF setupVars, outside, hookVars
  <2> QED BY <2>1, OnlyHooksStep
<1>2. ASSUME NEW p \in Proc, Start(p) PROVE ServiceInv'
  <2>1. CASE UNCHANGED <<outside, runtime, service, rules, cmd>>
    BY <2>1, OnlyHooksStep
  <2> QED BY <1>2, <2>1, BeginInstallStep, BeginRemoveStep, BeginProtectStep DEF Start
<1>3. ASSUME NEW p \in Proc, ServiceStep(p) PROVE ServiceInv'
  BY <1>3, InstallServiceStep, WriteServiceReceiptStep, LoadStep, UndoStep, DropServiceReceiptStep,
     RemoveServiceStep, UnloadStep, DropFileStep DEF ServiceStep
<1>4. CASE HookCommand
  BY <1>4, OnlyHooksStep DEF HookCommand
<1> QED BY <1>1, <1>2, <1>3, <1>4, InstallStep, ProtectStep, KillCommandStep, MonitorRunsStep,
       RestartStep, ChangeToolsStep, EditFilesStep DEF Next

-----------------------------------------------------------------------------
(* Theorems of the service. *)

\* What every command has established holds in every reachable state, whatever
\* fails, is killed, restarted or edited.
THEOREM ServiceInvariant == Spec => []ServiceInv
<1>1. ServiceInv /\ [Next]_setupVars => ServiceInv'
  BY ServiceNext
<1> QED BY <1>1, InitService, PTL DEF Spec

\* The agent that launchd has can always be found and stopped: neither a removal
\* nor the undo of a failed installation takes the file of an agent that runs.
THEOREM RunningHasFile == Spec => []RegisteredHasFile
<1>1. ServiceInv => RegisteredHasFile
  BY DEF ServiceInv, AgentsFit, RegisteredHasFile
<1> QED BY <1>1, ServiceInvariant, PTL

\* The agent never runs in a mode that its saved history refuses.
THEOREM ModeFitsHistory == Spec => []NoRestartLoop
<1>1. ServiceInv => NoRestartLoop
  BY DEF ServiceInv, AgentsFit, NoRestartLoop
<1> QED BY <1>1, ServiceInvariant, PTL

-----------------------------------------------------------------------------
(* What a removal leaves at the hooks. *)

\* The steps of a hook command of each kind.
HookPc(kind, pc) ==
    \/ kind = "install" /\ pc # "drop"
    \/ kind = "remove" /\ pc \in {"read", "replace", "sync", "drop"}

\* The command at the hooks, and the files it works on.
HookFrame ==
    /\ hook = [by |-> hook.by, pc |-> hook.pc, kind |-> hook.kind, client |-> hook.client,
               entry |-> hook.entry, seen |-> hook.seen]
    /\ receipt = [a \in Client |-> receipt[a]]
    /\ outcome = [p \in Proc |-> outcome[p]]
    /\ \/ hook = NoHook
       \/ /\ hook.by \in Proc /\ hook.client \in Client
          /\ HookPc(hook.kind, hook.pc)

\* A command at the hooks is a step of the installation or removal of its process,
\* or it is not about the runtime.
Owner(p) ==
    hook.by = p => \/ cmd[p].kind = None /\ hook.entry # Runtime
                   \/ cmd[p].kind = hook.kind /\ cmd[p].pc = "hooked"

\* A removal has removed the entries of the clients it has come past, but for the
\* one whose hooks it removes just now or has failed to remove.
Gone(a) == receipt[a] # None => receipt[a].entry # Runtime
Pending(p, a) ==
    /\ cmd[p].pc = "hooked"
    /\ hook.by = p => hook.client = a /\ hook.kind = "remove"
    /\ hook.by # p => outcome[p] # "ok"
SweptBy(p) ==
    cmd[p].kind = "remove" =>
        /\ cmd[p].pc \notin {"hooks", "hooked"} => cmd[p].left = Client
        /\ \A a \in Client \ cmd[p].left : Gone(a) \/ Pending(p, a)

HookInv == HookFrame /\ \A p \in Proc : Owner(p) /\ SweptBy(p)

\* A hook command goes on, or reports its end: a removal reports success only if
\* the receipt is gone.
GoesOn ==
    /\ outcome' = outcome
    /\ \E pc, seen : HookPc(hook.kind, pc) /\ hook' = [by |-> hook.by, pc |-> pc, kind |-> hook.kind,
                         client |-> hook.client, entry |-> hook.entry, seen |-> seen]
Ends == \E r \in {"ok", "failed"} :
    End(r) /\ (hook.kind = "remove" /\ r = "ok" => receipt'[hook.client] = None)

\* A step to another operation of the same command.
LEMMA GotoGoesOn ==
    ASSUME HookFrame, NEW pc, HookPc(hook.kind, pc), Goto(pc), outcome' = outcome
    PROVE  GoesOn
<1> DEFINE h == [by |-> hook.by, pc |-> hook.pc, kind |-> hook.kind, client |-> hook.client,
                 entry |-> hook.entry, seen |-> hook.seen]
<1>1. hook = h /\ hook' = [hook EXCEPT !.pc = pc]
  BY DEF HookFrame, Goto
<1>2. hook' = [by |-> hook.by, pc |-> pc, kind |-> hook.kind, client |-> hook.client,
               entry |-> hook.entry, seen |-> hook.seen]
  BY <1>1
<1> QED BY <1>2 DEF GoesOn

\* The same with the settings that the command has read.
LEMMA SeenGoesOn ==
    ASSUME HookFrame, NEW pc, HookPc(hook.kind, pc), NEW seen,
           hook' = [[hook EXCEPT !.pc = pc] EXCEPT !.seen = seen], outcome' = outcome
    PROVE  GoesOn
<1> DEFINE h == [by |-> hook.by, pc |-> hook.pc, kind |-> hook.kind, client |-> hook.client,
                 entry |-> hook.entry, seen |-> hook.seen]
           g == [hook EXCEPT !.pc = pc]
<1>1. hook = h
  BY DEF HookFrame
<1>2. g = [by |-> hook.by, pc |-> pc, kind |-> hook.kind, client |-> hook.client,
               entry |-> hook.entry, seen |-> hook.seen]
  BY <1>1
<1>3. hook' = [g EXCEPT !.seen = seen]
  OBVIOUS
<1> HIDE DEF g
<1>4. hook' = [by |-> hook.by, pc |-> pc, kind |-> hook.kind, client |-> hook.client,
               entry |-> hook.entry, seen |-> seen]
  BY <1>2, <1>3
<1> QED BY <1>4 DEF GoesOn

\* The kind of a command that is at work.
LEMMA HookAtWork ==
    ASSUME HookFrame, hook.pc # "idle"
    PROVE  hook.by \in Proc /\ hook.client \in Client /\ HookPc(hook.kind, hook.pc) /\ hook # NoHook
BY DEF HookFrame, NoHook

\* What each operation of a hook command makes of its command.
LEMMA HookGoes ==
    ASSUME HookFrame, HookStep
    PROVE  GoesOn \/ Ends
<1>1. CASE ReadInstall
  <2>1. hook.kind = "install"
    BY <1>1 DEF ReadInstall
  <2>2. \/ End("failed") \/ End("ok")
        \/ /\ hook' = [[hook EXCEPT !.pc = "receipt"] EXCEPT !.seen = config[hook.client]]
           /\ outcome' = outcome
    BY <1>1, Zenon DEF ReadInstall
  <2> QED BY <2>1, <2>2, SeenGoesOn DEF HookPc, Ends
<1>2. CASE PublishReceipt
  <2>1. hook.kind = "install"
    BY <1>2, HookAtWork DEF PublishReceipt, HookPc
  <2>2. End("failed") \/ (Goto("sync receipt") /\ outcome' = outcome)
    BY <1>2 DEF PublishReceipt
  <2> QED BY <2>1, <2>2, GotoGoesOn DEF HookPc, Ends
<1>3. CASE SyncReceipt
  <2>1. hook.kind = "install"
    BY <1>3, HookAtWork DEF SyncReceipt, HookPc
  <2>2. End("failed") \/ (Goto("replace") /\ outcome' = outcome)
    BY <1>3 DEF SyncReceipt
  <2> QED BY <2>1, <2>2, GotoGoesOn DEF HookPc, Ends
<1>4. CASE ReadRemove
  <2>1. hook.kind = "remove"
    BY <1>4 DEF ReadRemove
  <2>2. \/ End("failed")
        \/ /\ hook' = [[hook EXCEPT !.pc = "replace"] EXCEPT !.seen = config[hook.client]]
           /\ outcome' = outcome
    BY <1>4, Zenon DEF ReadRemove
  <2> QED BY <2>1, <2>2, SeenGoesOn DEF HookPc, Ends
<1>5. CASE Replace
  <2>1. HookPc(hook.kind, hook.pc)
    BY <1>5, HookAtWork DEF Replace
  <2>2. \/ Goto("sync") /\ outcome' = outcome
        \/ Give
    BY <1>5 DEF Replace
  <2>3. CASE Give
    BY <2>1, <2>3, GotoGoesOn DEF Give, HookPc, Ends
  <2>4. CASE Goto("sync") /\ outcome' = outcome
    BY <2>1, <2>4, GotoGoesOn DEF HookPc
  <2> QED BY <2>2, <2>3, <2>4
<1>6. CASE SyncSettings
  <2>1. HookPc(hook.kind, hook.pc)
    BY <1>6, HookAtWork DEF SyncSettings
  <2>2. \/ hook.kind = "install" /\ End("ok")
        \/ hook.kind = "remove" /\ Goto("drop") /\ outcome' = outcome
        \/ Give
    BY <1>6 DEF SyncSettings
  <2>3. CASE Give
    BY <2>1, <2>3, GotoGoesOn DEF Give, HookPc, Ends
  <2>4. CASE hook.kind = "remove" /\ Goto("drop") /\ outcome' = outcome
    BY <2>4, GotoGoesOn DEF HookPc
  <2>5. CASE hook.kind = "install" /\ End("ok")
    BY <2>5 DEF Ends
  <2> QED BY <2>2, <2>3, <2>4, <2>5
<1>7. CASE Drop
  <2>1. hook.client \in Client
    BY <1>7, HookAtWork DEF Drop
  <2>2. \/ receipt' = [receipt EXCEPT ![hook.client] = None] /\ (End("failed") \/ End("ok"))
        \/ End("failed")
    BY <1>7 DEF Drop
  <2>3. receipt' = [receipt EXCEPT ![hook.client] = None] => receipt'[hook.client] = None
    BY <2>1 DEF HookFrame
  <2> QED BY <2>2, <2>3 DEF Ends
<1> QED BY <1>1, <1>2, <1>3, <1>4, <1>5, <1>6, <1>7 DEF HookStep

\* What it makes of the receipts: an installation adds its own entry, a removal none.
LEMMA HookReceipts ==
    ASSUME HookFrame, HookStep
    PROVE  /\ receipt' = [a \in Client |-> receipt'[a]]
           /\ \A a \in Client : \/ receipt'[a] \in {receipt[a], None}
                                \/ hook.kind = "install" /\ receipt'[a].entry = hook.entry
<1>1. CASE receipt' = receipt
  BY <1>1 DEF HookFrame
<1>2. CASE receipt' = [receipt EXCEPT ![hook.client] = None]
  BY <1>2 DEF HookFrame
<1>3. CASE PublishReceipt
  <2> DEFINE v == ReceiptOf(Decoded(hook.seen), hook.client, hook.entry)
  <2>1. hook.kind = "install" /\ v.entry = hook.entry
    BY <1>3, HookAtWork DEF PublishReceipt, HookPc, ReceiptOf
  <2>2. receipt' = [receipt EXCEPT ![hook.client] = v] \/ receipt' = receipt
    BY <1>3 DEF PublishReceipt
  <2> HIDE DEF v
  <2> QED BY <2>1, <2>2 DEF HookFrame
<1> QED BY <1>1, <1>2, <1>3
       DEF HookStep, ReadInstall, SyncReceipt, ReadRemove, Replace, SyncSettings, Drop

\* What the others see of a step of a hook command.
LEMMA HookEffect ==
    ASSUME HookFrame, HookStep
    PROVE  /\ HookFrame' /\ hook.by \in Proc /\ hook.client \in Client
           /\ hook.kind \in {"install", "remove"}
           /\ \/ /\ hook'.by = hook.by /\ hook'.kind = hook.kind /\ hook'.client = hook.client
                 /\ hook'.entry = hook.entry /\ outcome' = outcome
              \/ /\ hook'.by = None /\ \A q \in Proc \ {hook.by} : outcome'[q] = outcome[q]
                 /\ hook.kind = "remove" /\ outcome'[hook.by] = "ok" => receipt'[hook.client] = None
<1>1. hook.pc # "idle"
  BY DEF HookStep, ReadInstall, PublishReceipt, SyncReceipt, ReadRemove, Replace, SyncSettings, Drop
<1>2. hook.by \in Proc /\ hook.client \in Client /\ HookPc(hook.kind, hook.pc)
  BY <1>1, HookAtWork
<1>3. receipt' = [a \in Client |-> receipt'[a]]
  BY HookReceipts
<1>4. CASE GoesOn
  <2>1. PICK pc, seen : /\ HookPc(hook.kind, pc)
                        /\ hook' = [by |-> hook.by, pc |-> pc, kind |-> hook.kind,
                                    client |-> hook.client, entry |-> hook.entry, seen |-> seen]
    BY <1>4 DEF GoesOn
  <2>2. /\ hook'.by = hook.by /\ hook'.kind = hook.kind /\ hook'.client = hook.client
        /\ hook'.entry = hook.entry /\ hook'.pc = pc
    BY <2>1
  <2>3. outcome' = outcome
    BY <1>4 DEF GoesOn
  <2>4. hook' = [by |-> hook'.by, pc |-> hook'.pc, kind |-> hook'.kind, client |-> hook'.client,
                 entry |-> hook'.entry, seen |-> hook'.seen]
    BY <2>1
  <2>5. HookPc(hook'.kind, hook'.pc)
    BY <2>1, <2>2
  <2>6. HookFrame'
    BY <1>2, <1>3, <2>2, <2>3, <2>4, <2>5 DEF HookFrame, HookPc
  <2> QED BY <1>2, <2>2, <2>3, <2>6 DEF HookPc
<1>5. CASE Ends
  <2>1. PICK r \in {"ok", "failed"} :
            End(r) /\ (hook.kind = "remove" /\ r = "ok" => receipt'[hook.client] = None)
    BY <1>5 DEF Ends
  <2>2. hook' = NoHook /\ outcome' = [outcome EXCEPT ![hook.by] = r]
    BY <2>1 DEF End
  <2>3. /\ outcome' = [q \in Proc |-> outcome'[q]] /\ outcome'[hook.by] = r
        /\ \A q \in Proc \ {hook.by} : outcome'[q] = outcome[q]
    BY <1>2, <2>2 DEF HookFrame
  <2>4. HookFrame'
    BY <1>3, <2>2, <2>3 DEF HookFrame, NoHook
  <2>5. hook'.by = None
    BY <2>2 DEF NoHook
  <2> QED BY <1>2, <2>1, <2>3, <2>4, <2>5 DEF HookPc
<1> QED BY <1>4, <1>5, HookGoes

\* A step of a hook command takes nothing back from a removal.
LEMMA SweptHook ==
    ASSUME ServiceInv, HookInv, HookStep, cmd' = cmd
    PROVE  HookInv'
<1>1. /\ HookFrame' /\ hook.by \in Proc /\ hook.client \in Client /\ hook.kind \in {"install", "remove"}
      /\ \/ /\ hook'.by = hook.by /\ hook'.kind = hook.kind /\ hook'.client = hook.client
            /\ hook'.entry = hook.entry /\ outcome' = outcome
         \/ /\ hook'.by = None /\ \A q \in Proc \ {hook.by} : outcome'[q] = outcome[q]
            /\ hook.kind = "remove" /\ outcome'[hook.by] = "ok" => receipt'[hook.client] = None
  BY HookEffect DEF HookInv
<1>2. ASSUME NEW q \in Proc PROVE Owner(q)'
  <2>1. Owner(q)
    BY DEF HookInv
  <2> QED BY <1>1, <2>1 DEF Owner
<1>3. ASSUME NEW q \in Proc, cmd[q].kind = "remove", NEW a \in Client, Gone(a)
      PROVE  Gone(a)'
  <2>1. \/ receipt'[a] \in {receipt[a], None}
        \/ hook.kind = "install" /\ receipt'[a].entry = hook.entry
    BY HookReceipts DEF HookInv
  <2>2. hook.kind = "install" => hook.entry # Runtime
    <3>1. SUFFICES ASSUME hook.kind = "install", hook.entry = Runtime PROVE FALSE
      OBVIOUS
    <3>2. Owner(hook.by)
      BY <1>1 DEF HookInv
    <3>3. cmd[hook.by].kind = "install"
      BY <3>1, <3>2 DEF Owner
    <3> QED BY <1>1, <1>3, <3>3 DEF ServiceInv, Exclusive, Running
  <2> QED BY <1>3, <2>1, <2>2 DEF Gone
<1>4. ASSUME NEW q \in Proc, cmd[q].kind = "remove", NEW a \in Client, Pending(q, a)
      PROVE  Gone(a)' \/ Pending(q, a)'
  <2>1. CASE hook.by = q /\ hook'.by = None
    <3>1. hook.kind = "remove" /\ hook.client = a
      BY <1>4, <2>1 DEF Pending
    <3>2. outcome'[q] = "ok" => receipt'[a] = None
      BY <1>1, <2>1, <3>1
    <3> QED BY <1>4, <2>1, <3>2 DEF Pending, Gone
  <2>2. CASE hook.by # q
    <3>1. hook'.by # q /\ outcome'[q] = outcome[q]
      BY <1>1, <2>2
    <3> QED BY <1>4, <2>2, <3>1 DEF Pending
  <2>3. CASE hook'.by = hook.by /\ hook'.kind = hook.kind /\ hook'.client = hook.client /\ outcome' = outcome
    BY <1>4, <2>3 DEF Pending
  <2> QED BY <1>1, <2>1, <2>2, <2>3
<1>5. ASSUME NEW q \in Proc PROVE SweptBy(q)'
  <2>1. SweptBy(q)
    BY DEF HookInv
  <2> QED BY <1>3, <1>4, <2>1 DEF SweptBy
<1> QED BY <1>1, <1>2, <1>5 DEF HookInv

\* A hook command that begins, or finds the lock taken.
LEMMA BeginEffect ==
    ASSUME HookFrame, NEW p \in Proc, NEW kind \in {"install", "remove"}, NEW a \in Client,
           NEW x \in Program, BeginHook(p, kind, a, x)
    PROVE  /\ HookFrame' /\ receipt' = receipt
           /\ \A q \in Proc \ {p} : outcome'[q] = outcome[q]
           /\ \/ /\ hook.by = None /\ hook'.by = p /\ hook'.kind = kind /\ hook'.client = a
                 /\ hook'.entry = x
              \/ hook' = hook /\ hook.by # None /\ outcome'[p] = "failed"
<1>1. receipt' = receipt
  BY DEF BeginHook
<1>2. CASE hook.by = None
  <2>1. /\ hook' = [by |-> p, pc |-> "read", kind |-> kind, client |-> a, entry |-> x, seen |-> None]
        /\ outcome' = [outcome EXCEPT ![p] = None]
    BY <1>2 DEF BeginHook
  <2>2. /\ hook'.by = p /\ hook'.kind = kind /\ hook'.client = a /\ hook'.entry = x /\ hook'.pc = "read"
    BY <2>1
  <2>3. outcome' = [q \in Proc |-> outcome'[q]] /\ \A q \in Proc \ {p} : outcome'[q] = outcome[q]
    BY <2>1 DEF HookFrame
  <2>4. hook' = [by |-> hook'.by, pc |-> hook'.pc, kind |-> hook'.kind, client |-> hook'.client,
                 entry |-> hook'.entry, seen |-> hook'.seen]
    BY <2>1
  <2>5. HookFrame'
    BY <1>1, <2>2, <2>3, <2>4 DEF HookFrame, HookPc
  <2> QED BY <1>1, <1>2, <2>2, <2>3, <2>5
<1>3. CASE hook.by # None
  <2>1. hook' = hook /\ outcome' = [outcome EXCEPT ![p] = "failed"]
    BY <1>3 DEF BeginHook
  <2>2. /\ outcome' = [q \in Proc |-> outcome'[q]] /\ outcome'[p] = "failed"
        /\ \A q \in Proc \ {p} : outcome'[q] = outcome[q]
    BY <2>1 DEF HookFrame
  <2>3. HookFrame'
    BY <1>1, <2>1, <2>2 DEF HookFrame
  <2> QED BY <1>1, <1>3, <2>1, <2>2, <2>3
<1> QED BY <1>2, <1>3

\* What a process whose command stays as it is keeps of the invariant, when another
\* begins at the hooks or leaves them, or nobody does.
LEMMA KeepsSwept ==
    ASSUME HookInv, NEW q \in Proc, cmd'[q] = cmd[q], receipt' = receipt, outcome'[q] = outcome[q],
           hook' = hook \/ (hook.by # q /\ hook'.by # q)
    PROVE  Owner(q)' /\ SweptBy(q)'
<1>1. Owner(q) /\ SweptBy(q)
  BY DEF HookInv
<1>2. CASE hook' = hook
  BY <1>1, <1>2 DEF Owner, SweptBy, Gone, Pending
<1>3. CASE hook.by # q /\ hook'.by # q
  BY <1>1, <1>3 DEF Owner, SweptBy, Gone, Pending
<1> QED BY <1>2, <1>3

\* A command that is not at the hooks goes on or ends.
LEMMA QuietSwept ==
    ASSUME ServiceInv, HookInv, NEW p \in Proc, Moves(p), cmd[p].pc # "hooked", cmd[p].kind # None,
           hook' = hook, receipt' = receipt, outcome' = outcome,
           \/ cmd'[p].kind # "remove"
           \/ /\ cmd'[p].kind = cmd[p].kind /\ cmd'[p].left = cmd[p].left
              /\ cmd[p].pc \notin {"hooks", "hooked"}
    PROVE  HookInv'
<1>1. HookFrame'
  BY DEF HookInv, HookFrame
<1>2. Owner(p)' /\ SweptBy(p)'
  <2>1. Owner(p) /\ SweptBy(p)
    BY DEF HookInv
  <2> QED BY <2>1 DEF Owner, SweptBy
<1>3. ASSUME NEW q \in Proc \ {p} PROVE Owner(q)' /\ SweptBy(q)'
  BY KeepsSwept DEF Moves
<1> QED BY <1>1, <1>2, <1>3 DEF HookInv

\* The end of a command that holds no lock at the hooks.
LEMMA FinishSwept ==
    ASSUME ServiceInv, HookInv, NEW p \in Proc, Finish(p), cmd[p].pc # "hooked" \/ hook.by # p,
           hook' = hook, receipt' = receipt, outcome' = outcome
    PROVE  HookInv'
<1>1. Moves(p) /\ cmd'[p].kind = None
  BY Finished, Idle DEF ServiceInv
<1>2. HookFrame'
  BY DEF HookInv, HookFrame
<1>3. Owner(p)' /\ SweptBy(p)'
  <2>1. Owner(p)
    BY DEF HookInv
  <2> QED BY <1>1, <2>1, Apart DEF Owner, SweptBy
<1>4. ASSUME NEW q \in Proc \ {p} PROVE Owner(q)' /\ SweptBy(q)'
  BY <1>1, KeepsSwept DEF Moves
<1> QED BY <1>2, <1>3, <1>4 DEF HookInv

\* The steps of the service know nothing of the hooks.
LEMMA ServiceSwept ==
    ASSUME ServiceInv, HookInv, NEW p \in Proc, ServiceStep(p)
    PROVE  HookInv'
<1>1. UNCHANGED untouched
  BY DEF ServiceStep, InstallService, WriteServiceReceipt, Load, Undo, DropServiceReceipt,
         RemoveService, Unload, DropFile
<1>2. hook' = hook /\ receipt' = receipt /\ outcome' = outcome
  BY <1>1, Untouched
<1>3. cmd[p].pc \notin {"hooks", "hooked"} /\ cmd[p].kind # None
  <2>1. cmd[p].pc \notin {"hooks", "hooked", "idle"}
    BY DEF ServiceStep, InstallService, WriteServiceReceipt, Load, Undo, DropServiceReceipt,
           RemoveService, Unload, DropFile
  <2> QED BY <2>1, Idle DEF ServiceInv, Fits
<1>4. \/ Finish(p)
      \/ \E pc \in {"load", "undo", "undo receipt", "hooks", "unload", "drop file", "drop receipt"} : Step(p, pc)
      \/ \E pc \in {"receipt", "undo"}, b \in BOOLEAN :
             cmd' = [[cmd EXCEPT ![p].pc = pc] EXCEPT ![p].new = b]
  <2>1. ASSUME InstallService(p)
        PROVE  \/ Finish(p) \/ Step(p, "load")
               \/ cmd' = [[cmd EXCEPT ![p].pc = "receipt"] EXCEPT ![p].new = TRUE]
    BY <2>1, Zenon DEF InstallService
  <2>2. ASSUME WriteServiceReceipt(p)
        PROVE  Step(p, "load") \/ cmd' = [[cmd EXCEPT ![p].pc = "undo"] EXCEPT ![p].new = FALSE]
    BY <2>2, Zenon DEF WriteServiceReceipt
  <2>3. Load(p) => Finish(p) \/ Step(p, "undo")
    BY DEF Load
  <2>4. Undo(p) => Finish(p) \/ Step(p, "undo receipt")
    BY DEF Undo
  <2>5. DropServiceReceipt(p) => Finish(p) \/ Step(p, "hooks")
    BY DEF DropServiceReceipt
  <2>6. RemoveService(p) => Finish(p) \/ Step(p, "hooks") \/ Step(p, "unload")
    BY DEF RemoveService
  <2>7. Unload(p) => Finish(p) \/ Step(p, "drop file")
    BY DEF Unload
  <2>8. DropFile(p) => Finish(p) \/ Step(p, "drop receipt")
    BY DEF DropFile
  <2> QED BY <2>1, <2>2, <2>3, <2>4, <2>5, <2>6, <2>7, <2>8 DEF ServiceStep
<1>5. CASE Finish(p)
  BY <1>2, <1>3, <1>5, FinishSwept
<1>6. CASE \E pc \in {"load", "undo", "undo receipt", "hooks", "unload", "drop file", "drop receipt"} : Step(p, pc)
  <2>1. Moves(p) /\ cmd'[p].kind = cmd[p].kind /\ cmd'[p].left = cmd[p].left
    BY <1>6, Stepped DEF ServiceInv, Pcs, InstallPc, RemovePc
  <2> QED BY <1>2, <1>3, <2>1, QuietSwept
<1>7. CASE \E pc \in {"receipt", "undo"}, b \in BOOLEAN :
             cmd' = [[cmd EXCEPT ![p].pc = pc] EXCEPT ![p].new = b]
  <2>1. Moves(p) /\ cmd'[p].kind = cmd[p].kind /\ cmd'[p].left = cmd[p].left
    <3>1. PICK pc \in {"receipt", "undo"}, b \in BOOLEAN :
              cmd' = [[cmd EXCEPT ![p].pc = pc] EXCEPT ![p].new = b]
      BY <1>7
    <3>2. pc \in Pcs /\ cmd \in [Proc -> Cmd]
      BY DEF Pcs, InstallPc, ServiceInv
    <3> QED BY <3>1, <3>2, SteppedNew
  <2> QED BY <1>2, <1>3, <2>1, QuietSwept
<1> QED BY <1>4, <1>5, <1>6, <1>7

\* A command of the distribution or of the archive guard begins with no command at
\* the hooks; one at the hooks alone is not that of the runtime.
LEMMA StartSwept ==
    ASSUME ServiceInv, HookInv, NEW p \in Proc, Start(p)
    PROVE  HookInv'
<1>1. CASE BeginInstall(p) \/ BeginRemove(p) \/ BeginProtect(p)
  <2>1. /\ hook.by # p /\ hook' = hook /\ receipt' = receipt /\ outcome' = outcome /\ cmd[p] = NoCommand
    BY <1>1 DEF BeginInstall, BeginRemove, BeginProtect, Begin
  <2>2. ServiceInv'
    BY <1>1, BeginInstallStep, BeginRemoveStep, BeginProtectStep
  <2>3. PICK c : Begin(p, c) /\ (c.kind = "remove" => c.left = Client)
    <3>1. CASE BeginInstall(p)
      BY <3>1 DEF BeginInstall
    <3>2. CASE BeginRemove(p)
      BY <3>2 DEF BeginRemove
    <3>3. CASE BeginProtect(p)
      <4> DEFINE c == [NoCommand EXCEPT !.kind = IF rules THEN "unprotect" ELSE "protect", !.pc = "rules"]
      <4>1. c.kind # "remove"
        BY DEF NoCommand
      <4> QED BY <3>3, <4>1 DEF BeginProtect
    <3> QED BY <1>1, <3>1, <3>2, <3>3
  <2>4. cmd'[p].kind = "remove" => cmd'[p].left = Client
    <3>1. cmd' = [cmd EXCEPT ![p] = c] /\ cmd \in [Proc -> Cmd]
      BY <2>3 DEF Begin, ServiceInv
    <3> QED BY <2>3, <3>1
  <2>5. \A q \in Proc \ {p} : cmd'[q] = cmd[q]
    BY <2>3 DEF Begin, ServiceInv
  <2>6. HookFrame'
    BY <2>1 DEF HookInv, HookFrame
  <2>7. Owner(p)' /\ SweptBy(p)'
    BY <2>1, <2>4 DEF Owner, SweptBy
  <2>8. ASSUME NEW q \in Proc \ {p} PROVE Owner(q)' /\ SweptBy(q)'
    BY <2>1, <2>5, KeepsSwept
  <2> QED BY <2>6, <2>7, <2>8 DEF HookInv
<1>2. CASE /\ cmd[p] = NoCommand /\ hook.by # p /\ UNCHANGED <<outside, runtime, service, rules, cmd>>
           /\ \E kind \in {"install", "remove"}, a \in tools, x \in Program \ {Runtime} :
                 BeginHook(p, kind, a, x)
  <2>1. PICK kind \in {"install", "remove"}, a \in tools, x \in Program \ {Runtime} :
                 BeginHook(p, kind, a, x)
    BY <1>2
  <2>2. a \in Client
    BY DEF ServiceInv, Outer
  <2>3. /\ HookFrame' /\ receipt' = receipt
        /\ \A q \in Proc \ {p} : outcome'[q] = outcome[q]
        /\ \/ /\ hook.by = None /\ hook'.by = p /\ hook'.kind = kind /\ hook'.client = a
              /\ hook'.entry = x
           \/ hook' = hook /\ hook.by # None /\ outcome'[p] = "failed"
    BY <2>1, <2>2, BeginEffect DEF HookInv
  <2>4. Owner(p)' /\ SweptBy(p)'
    <3>1. cmd'[p].kind = None
      BY <1>2, Idle
    <3> QED BY <1>2, <2>3, <3>1, Apart DEF Owner, SweptBy
  <2>5. ASSUME NEW q \in Proc \ {p} PROVE Owner(q)' /\ SweptBy(q)'
    BY <1>2, <2>3, KeepsSwept
  <2> QED BY <2>3, <2>4, <2>5 DEF HookInv
<1> QED BY <1>1, <1>2 DEF Start

\* One client after the other: those without a receipt have no entry, and for one
\* with a receipt the command at the hooks is the removal's own, or has failed.
LEMMA HooksSwept ==
    ASSUME ServiceInv, HookInv, NEW p \in Proc, Hooks(p), cmd[p].left # {}
    PROVE  HookInv'
<1>1. /\ cmd \in [Proc -> Cmd] /\ cmd[p] \in Cmd /\ cmd[p].pc = "hooks" /\ cmd[p].left \subseteq Client
      /\ Fits(cmd[p])
  BY DEF Hooks, ServiceInv, Cmd
<1>2. PICK a \in Client : /\ a = IF "zcode" \in cmd[p].left THEN "zcode" ELSE "claude-code"
                         /\ a \in cmd[p].left
  <2> DEFINE b == IF "zcode" \in cmd[p].left THEN "zcode" ELSE "claude-code"
  <2>1. b \in cmd[p].left
    BY <1>1
  <2> QED BY <1>1, <2>1
<1> DEFINE next == [cmd EXCEPT ![p].left = @ \ {a}]
<1>3. /\ next[p].kind = cmd[p].kind /\ next[p].left = cmd[p].left \ {a} /\ next[p].pc = "hooks"
      /\ next \in [Proc -> Cmd] /\ \A q \in Proc \ {p} : next[q] = cmd[q]
  BY <1>1 DEF Cmd
<1>4. \/ /\ cmd[p].kind = "remove" /\ receipt[a] = None /\ cmd' = next
         /\ hook' = hook /\ receipt' = receipt /\ outcome' = outcome
      \/ /\ cmd[p].kind = "install" \/ receipt[a] # None
         /\ BeginHook(p, cmd[p].kind, a, Runtime)
         /\ cmd' = [next EXCEPT ![p].pc = "hooked"]
  BY <1>2 DEF Hooks, hookVars
<1> HIDE DEF next
<1>5. Owner(p) /\ SweptBy(p)
  BY DEF HookInv
<1>6. CASE /\ cmd[p].kind = "remove" /\ receipt[a] = None /\ cmd' = next
           /\ hook' = hook /\ receipt' = receipt /\ outcome' = outcome
  <2>1. HookFrame'
    BY <1>6 DEF HookInv, HookFrame
  <2>2. Owner(p)'
    BY <1>1, <1>3, <1>5, <1>6 DEF Owner
  <2>3. SweptBy(p)'
    BY <1>1, <1>2, <1>3, <1>5, <1>6 DEF SweptBy, Gone, Pending
  <2>4. ASSUME NEW q \in Proc \ {p} PROVE Owner(q)' /\ SweptBy(q)'
    BY <1>3, <1>6, KeepsSwept
  <2> QED BY <2>1, <2>2, <2>3, <2>4 DEF HookInv
<1>7. CASE BeginHook(p, cmd[p].kind, a, Runtime) /\ cmd' = [next EXCEPT ![p].pc = "hooked"]
  <2>1. /\ cmd'[p].kind = cmd[p].kind /\ cmd'[p].left = cmd[p].left \ {a} /\ cmd'[p].pc = "hooked"
        /\ \A q \in Proc \ {p} : cmd'[q] = cmd[q]
    BY <1>1, <1>3, <1>7 DEF Cmd
  <2>2. cmd[p].kind \in {"install", "remove"}
    BY <1>1, Idle DEF Fits, Cmd
  <2>3. /\ HookFrame' /\ receipt' = receipt
        /\ \A q \in Proc \ {p} : outcome'[q] = outcome[q]
        /\ \/ /\ hook.by = None /\ hook'.by = p /\ hook'.kind = cmd[p].kind /\ hook'.client = a
              /\ hook'.entry = Runtime
           \/ hook' = hook /\ hook.by # None /\ outcome'[p] = "failed"
    BY <1>2, <1>7, <2>2, BeginEffect, RuntimeAssumption DEF HookInv
  <2>4. Owner(p)'
    BY <1>1, <1>5, <2>1, <2>3 DEF Owner
  <2>5. SweptBy(p)'
    <3>1. ASSUME cmd[p].kind = "remove", NEW b \in Client \ cmd[p].left PROVE Gone(b)'
      BY <1>1, <1>5, <2>3, <3>1 DEF SweptBy, Gone, Pending
    <3>2. ASSUME cmd[p].kind = "remove" PROVE Pending(p, a)'
      <4>1. hook.by # p
        BY <1>1, <1>5, <3>2, Apart DEF Owner
      <4> QED BY <2>1, <2>3, <3>2, <4>1 DEF Pending
    <3> QED BY <2>1, <3>1, <3>2 DEF SweptBy
  <2>6. ASSUME NEW q \in Proc \ {p} PROVE Owner(q)' /\ SweptBy(q)'
    BY <2>1, <2>3, KeepsSwept
  <2> QED BY <2>3, <2>4, <2>5, <2>6 DEF HookInv
<1> QED BY <1>4, <1>6, <1>7

\* The command goes on to the next client only after the hooks of this one are gone.
LEMMA HookedSwept ==
    ASSUME ServiceInv, HookInv, NEW p \in Proc, Hooked(p)
    PROVE  HookInv'
<1>1. /\ hook.by # p /\ cmd[p].pc = "hooked" /\ cmd \in [Proc -> Cmd]
      /\ hook' = hook /\ receipt' = receipt /\ outcome' = outcome
  BY DEF Hooked, hookVars, ServiceInv
<1>2. CASE Finish(p)
  BY <1>1, <1>2, FinishSwept
<1>3. CASE outcome[p] = "ok" /\ Step(p, "hooks")
  <2>1. Moves(p) /\ cmd'[p].kind = cmd[p].kind /\ cmd'[p].left = cmd[p].left /\ cmd'[p].pc = "hooks"
    BY <1>1, <1>3, Stepped DEF Pcs, InstallPc
  <2>2. HookFrame'
    BY <1>1 DEF HookInv, HookFrame
  <2>3. Owner(p)' /\ SweptBy(p)'
    <3>1. SweptBy(p)
      BY DEF HookInv
    <3> QED BY <1>1, <1>3, <2>1, <3>1 DEF Owner, SweptBy, Gone, Pending
  <2>4. ASSUME NEW q \in Proc \ {p} PROVE Owner(q)' /\ SweptBy(q)'
    BY <1>1, <2>1, KeepsSwept DEF Moves
  <2> QED BY <2>2, <2>3, <2>4 DEF HookInv
<1> QED BY <1>2, <1>3 DEF Hooked

\* The other steps of an installation, and the end of a removal.
LEMMA InstallSwept ==
    ASSUME ServiceInv, HookInv, NEW p \in Proc, Install(p)
    PROVE  HookInv'
<1>1. CASE Hooked(p) \/ (Hooks(p) /\ cmd[p].left # {})
  BY <1>1, HookedSwept, HooksSwept
<1>2. CASE Payload(p) \/ Copy(p) \/ (Hooks(p) /\ cmd[p].left = {})
  <2>1. /\ hook' = hook /\ receipt' = receipt /\ outcome' = outcome
        /\ cmd[p].pc \in {"payload", "copy", "hooks"} /\ cmd \in [Proc -> Cmd]
        /\ cmd[p].pc = "hooks" => Finish(p) \/ cmd[p].kind = "install"
        /\ Finish(p) \/ Step(p, "copy") \/ Step(p, "hooks") \/ Step(p, "service")
    BY <1>2 DEF Payload, Copy, Hooks, hookVars, ServiceInv
  <2>2. CASE Finish(p)
    BY <2>1, <2>2, FinishSwept
  <2>3. CASE ~Finish(p)
    <3>1. cmd[p].kind = "install"
      <4>1. Fits(cmd[p]) /\ cmd[p] \in Cmd
        BY DEF ServiceInv
      <4> QED BY <2>1, <2>3, <4>1, Idle DEF Fits, Cmd, RemovePc
    <3>2. Moves(p) /\ cmd'[p].kind = cmd[p].kind
      BY <2>1, <2>3, Stepped DEF Pcs, InstallPc
    <3> QED BY <2>1, <3>1, <3>2, Apart, QuietSwept
  <2> QED BY <2>2, <2>3
<1> QED BY <1>1, <1>2 DEF Install

\* A kill takes the command at the hooks with it.
LEMMA KillSwept ==
    ASSUME ServiceInv, HookInv, NEW p \in Proc, KillCommand(p)
    PROVE  HookInv'
<1>1. /\ Finish(p) /\ receipt' = receipt /\ outcome' = outcome
      /\ hook' = IF hook.by = p THEN NoHook ELSE hook
  BY DEF KillCommand
<1>2. Moves(p) /\ cmd'[p].kind = None
  BY <1>1, Finished, Idle DEF ServiceInv
<1>3. hook' = hook \/ (hook' = NoHook /\ hook.by = p)
  BY <1>1
<1>4. HookFrame'
  BY <1>1, <1>3 DEF HookInv, HookFrame, NoHook
<1>5. hook'.by # p /\ \A q \in Proc \ {p} : hook' = hook \/ (hook.by # q /\ hook'.by # q)
  <2>1. NoHook.by = None
    BY DEF NoHook
  <2> QED BY <1>1, <2>1
<1>6. Owner(p)' /\ SweptBy(p)'
  BY <1>2, <1>5, Apart DEF Owner, SweptBy
<1>7. ASSUME NEW q \in Proc \ {p} PROVE Owner(q)' /\ SweptBy(q)'
  BY <1>1, <1>2, <1>5, KeepsSwept DEF Moves
<1> QED BY <1>4, <1>6, <1>7 DEF HookInv

\* A restart takes every command with it.
LEMMA RestartSwept ==
    ASSUME ServiceInv, HookInv, Restart
    PROVE  HookInv'
<1>1. /\ cmd' = [q \in Proc |-> NoCommand] /\ receipt' = receipt /\ outcome' = outcome /\ hook' = NoHook
  BY DEF Restart
<1>2. HookFrame'
  BY <1>1 DEF HookInv, HookFrame, NoHook
<1>3. ASSUME NEW q \in Proc PROVE Owner(q)' /\ SweptBy(q)'
  <2>1. cmd'[q].kind = None /\ hook'.by = None
    BY <1>1, Idle DEF NoHook
  <2> QED BY <2>1, Apart DEF Owner, SweptBy
<1> QED BY <1>2, <1>3 DEF HookInv

\* Every step keeps what the removals have established at the hooks.
LEMMA HookNextSwept ==
    ASSUME ServiceInv, HookInv, [Next]_setupVars
    PROVE  HookInv'
<1>1. CASE UNCHANGED <<hook, receipt, outcome, cmd>>
  <2>1. HookFrame'
    BY <1>1 DEF HookInv, HookFrame
  <2>2. ASSUME NEW q \in Proc PROVE Owner(q)' /\ SweptBy(q)'
    BY <1>1, KeepsSwept
  <2> QED BY <2>1, <2>2 DEF HookInv
<1>2. UNCHANGED setupVars => UNCHANGED <<hook, receipt, outcome, cmd>>
  BY DEF setupVars, hookVars
<1>3. MonitorRuns \/ ChangeTools \/ EditFiles => UNCHANGED <<hook, receipt, outcome, cmd>>
  BY DEF MonitorRuns, ChangeTools, EditFiles, hookVars
<1>4. CASE HookCommand
  BY <1>4, SweptHook DEF HookCommand
<1>5. ASSUME NEW p \in Proc, Protect(p) PROVE HookInv'
  <2>1. /\ Finish(p) /\ cmd[p].pc = "rules" /\ hook' = hook /\ receipt' = receipt /\ outcome' = outcome
    BY <1>5 DEF Protect, hookVars
  <2> QED BY <2>1, FinishSwept
<1> QED BY <1>1, <1>2, <1>3, <1>4, <1>5, StartSwept, InstallSwept, ServiceSwept, KillSwept,
       RestartSwept DEF Next

\* No command and no receipt at first.
LEMMA InitSwept == Init => HookInv
<1> SUFFICES ASSUME Init PROVE HookInv
  OBVIOUS
<1>1. /\ hook = NoHook /\ receipt = [a \in Client |-> None] /\ outcome = [p \in Proc |-> None]
      /\ cmd = [p \in Proc |-> NoCommand]
  BY DEF Init
<1>2. HookFrame
  BY <1>1 DEF HookFrame, NoHook
<1>3. ASSUME NEW q \in Proc PROVE Owner(q) /\ SweptBy(q)
  <2>1. cmd[q].kind = None /\ hook.by = None
    BY <1>1, Idle DEF NoHook
  <2> QED BY <2>1, Apart DEF Owner, SweptBy
<1> QED BY <1>2, <1>3 DEF HookInv

\* A removal that gets to its end has nothing left to remove.
LEMMA RemovalEnds ==
    ASSUME ServiceInv, HookInv, NEW p \in Proc,
           cmd[p].kind = "remove", cmd[p].pc = "hooks", cmd[p].left = {}
    PROVE  /\ ~rules /\ registered = None /\ plist = None /\ sreceipt = None
           /\ \A a \in Client : receipt[a] # None => receipt[a].entry # Runtime
<1>1. Served(cmd[p]) /\ SweptBy(p)
  BY DEF ServiceInv, HookInv
<1> QED BY <1>1 DEF Served, SweptBy, Gone, Pending

-----------------------------------------------------------------------------
\* A removal that gets to its end leaves neither agent nor hook of the runtime nor
\* rule of the archive guard, whatever other commands, edits, kills and restarts
\* came between its steps.
THEOREM RemovedIsGone == Spec => RemovalLeavesNothing
<1>1. ServiceInv /\ HookInv /\ [Next]_setupVars => ServiceInv' /\ HookInv'
  BY ServiceNext, HookNextSwept
<1>2. ServiceInv /\ HookInv /\ [Next]_setupVars =>
        [\A p \in Proc :
          cmd[p].kind = "remove" /\ cmd[p].pc = "hooks" /\ cmd[p].left = {} /\ cmd'[p] = NoCommand
          /\ budget' = budget
          => /\ ~rules /\ registered = None /\ plist = None /\ sreceipt = None
             /\ \A a \in Client : receipt[a] # None => receipt[a].entry # Runtime]_setupVars
  BY RemovalEnds
<1> QED BY <1>1, <1>2, InitService, InitSwept, PTL DEF Spec, RemovalLeavesNothing

-----------------------------------------------------------------------------
(* Types and hook entries. *)

\* A step that leaves the files of the hooks alone, and ends the command at the
\* hooks or not.
LEMMA EntryStays ==
    ASSUME EntryInv, config' = config, receipt' = receipt, safe' = safe, outcome' = outcome,
           hook' = hook \/ hook' = NoHook, tools' \subseteq Client
    PROVE  EntryInv'
<1>1. Typed'
  <2>1. hook \in Held /\ NoHook \in Held
    BY DEF EntryInv, Typed, NoHook, Held
  <2>2. hook' \in Held
    BY <2>1
  <2> QED BY <2>2 DEF EntryInv, Typed
<1>2. Agree'
  BY DEF EntryInv, Agree
<1>3. Protocol'
  BY DEF EntryInv, Protocol
<1> QED BY <1>1, <1>2, <1>3 DEF EntryInv

\* At first there is no receipt and no command at work.
LEMMA InitEntries == Init => EntryInv
<1> SUFFICES ASSUME Init PROVE EntryInv
  OBVIOUS
<1>1. PICK c \in {None, [hooks |-> TRUE, events |-> TRUE, switch |-> "on",
                         at |-> [e \in Event |-> [NoEntries EXCEPT ![Foreign] = 1]]]} :
          config = [a \in Client |-> c]
  BY DEF Init
<1>2. /\ tools \subseteq Client /\ receipt = [a \in Client |-> None] /\ hook = NoHook
      /\ safe = [config |-> config, receipt |-> receipt] /\ outcome = [p \in Proc |-> None]
  BY DEF Init
<1>3. c \in Settings \cup {None}
  <2> DEFINE o == [NoEntries EXCEPT ![Foreign] = 1]
  <2>1. o \in [Entry -> 0..2] /\ \A x \in Program : o[x] = 0
    BY DEF NoEntries, Entry
  <2> HIDE DEF o
  <2>2. CASE c = None
    BY <2>2
  <2>3. CASE c = [hooks |-> TRUE, events |-> TRUE, switch |-> "on", at |-> [e \in Event |-> o]]
    <3>1. c \in Settings
      BY <2>1, <2>3 DEF Settings
    <3> QED BY <3>1
  <2> QED BY <2>2, <2>3 DEF o
<1>4. Typed
  BY <1>1, <1>2, <1>3 DEF Typed, NoHook, Held
<1>5. Agree
  BY <1>2 DEF Agree, FilesAgree, Names
<1>6. Protocol
  BY <1>2 DEF Protocol
<1> QED BY <1>4, <1>5, <1>6 DEF EntryInv

\* Every step of installation and removal is a step of the hooks or none.
LEMMA EntryNext ==
    ASSUME ServiceInv, EntryInv, [Next]_setupVars
    PROVE  EntryInv'
<1>1. ServiceInv'
  BY ServiceNext
<1>2. tools' \subseteq Client
  BY <1>1 DEF ServiceInv, Outer
<1>3. CASE /\ config' = config /\ receipt' = receipt /\ safe' = safe /\ outcome' = outcome
           /\ hook' = hook \/ hook' = NoHook
  BY <1>2, <1>3, EntryStays
<1>4. CASE HookStep
  BY <1>2, <1>4, ReadInstallStep, PublishStep, SyncReceiptStep, ReadRemoveStep, ReplaceStep,
     SyncSettingsStep, DropStep DEF HookStep
<1>5. ASSUME NEW p \in Proc, NEW kind \in {"install", "remove"}, NEW a \in Client, NEW x \in Program,
             BeginHook(p, kind, a, x)
      PROVE  EntryInv'
  BY <1>2, <1>5, BeginStep
<1>6. CASE UNCHANGED setupVars
  BY <1>3, <1>6 DEF setupVars, hookVars
<1>7. ASSUME NEW p \in Proc, Start(p) PROVE EntryInv'
  <2>1. CASE BeginInstall(p) \/ BeginRemove(p) \/ BeginProtect(p)
    BY <1>3, <2>1 DEF BeginInstall, BeginRemove, BeginProtect, Begin
  <2>2. CASE \E kind \in {"install", "remove"}, a \in tools, x \in Program \ {Runtime} :
                 BeginHook(p, kind, a, x)
    <3>1. PICK kind \in {"install", "remove"}, a \in tools, x \in Program \ {Runtime} :
                 BeginHook(p, kind, a, x)
      BY <2>2
    <3>2. a \in Client
      BY DEF ServiceInv, Outer
    <3> QED BY <1>5, <3>1, <3>2
  <2> QED BY <1>7, <2>1, <2>2 DEF Start
<1>8. ASSUME NEW p \in Proc, Hooks(p) PROVE EntryInv'
  <2>1. CASE UNCHANGED hookVars
    BY <1>3, <2>1 DEF hookVars
  <2>2. CASE ~UNCHANGED hookVars
    <3> DEFINE a == IF "zcode" \in cmd[p].left THEN "zcode" ELSE "claude-code"
    <3>1. cmd[p].left \subseteq Client /\ cmd[p].left # {} /\ BeginHook(p, cmd[p].kind, a, Runtime)
      BY <1>8, <2>2 DEF Hooks, ServiceInv, Cmd
    <3>2. a \in Client
      BY <3>1
    <3>3. cmd[p].kind \in {"install", "remove"}
      <4>1. Fits(cmd[p]) /\ cmd[p] \in Cmd /\ cmd[p].pc = "hooks"
        BY <1>8 DEF ServiceInv, Hooks
      <4> QED BY <4>1, Idle DEF Fits, Cmd
    <3> QED BY <1>5, <3>1, <3>2, <3>3, RuntimeAssumption
  <2> QED BY <2>1, <2>2
<1>9. ASSUME NEW p \in Proc, Payload(p) \/ Copy(p) \/ Hooked(p) \/ Protect(p) \/ KillCommand(p)
      PROVE  EntryInv'
  BY <1>3, <1>9 DEF Payload, Copy, Hooked, Protect, KillCommand, hookVars
<1>10. ASSUME NEW p \in Proc, ServiceStep(p) PROVE EntryInv'
  <2>1. UNCHANGED untouched
    BY <1>10 DEF ServiceStep, InstallService, WriteServiceReceipt, Load, Undo, DropServiceReceipt,
                 RemoveService, Unload, DropFile
  <2> QED BY <1>3, <2>1 DEF untouched
<1>11. CASE MonitorRuns \/ Restart \/ ChangeTools \/ EditFiles
  BY <1>3, <1>11 DEF MonitorRuns, Restart, ChangeTools, EditFiles, hookVars
<1> QED BY <1>4, <1>6, <1>7, <1>8, <1>9, <1>10, <1>11 DEF Next, Install, HookCommand

\* Both invariants of installation and removal.
THEOREM SetupInvariant == Spec => [](ServiceInv /\ EntryInv)
<1>1. ServiceInv /\ EntryInv /\ [Next]_setupVars => ServiceInv' /\ EntryInv'
  BY ServiceNext, EntryNext
<1> QED BY <1>1, InitService, InitEntries, PTL DEF Spec

\* Settings, receipts, the agent's files and every command keep their types.
THEOREM TypeCorrect == Spec => []TypeOK
<1>1. ServiceInv /\ EntryInv => TypeOK
  <2> SUFFICES ASSUME ServiceInv, EntryInv PROVE TypeOK
    OBVIOUS
  <2>1. HookTypeOK
    BY EntryTypes
  <2>2. /\ plist \in Agents \cup {None} /\ sreceipt \in Agents \cup {None}
        /\ registered \in Agents \cup {None}
    BY DEF ServiceInv, AgentsFit
  <2>3. {plist, sreceipt, registered} \subseteq Agents \cup {None}
    BY ONLY <2>2
  <2>4. \A p \in Proc : cmd[p].left \subseteq Client /\ cmd[p].new \in BOOLEAN
    BY DEF ServiceInv, Cmd
  <2>5. /\ tools \subseteq Client /\ app \in BOOLEAN /\ rules \in BOOLEAN
        /\ runtime \in {None, "partial", "complete", "edited"} /\ history \in {None, "app", "hooks"}
    BY DEF ServiceInv, Outer, ModeName
  <2> QED BY ONLY <2>1, <2>3, <2>4, <2>5 DEF TypeOK
<1> QED BY <1>1, SetupInvariant, PTL

\* A step of installation and removal is a step of the hooks, or it leaves settings
\* and receipts alone.
LEMMA HookOrNone ==
    ASSUME [Next]_setupVars
    PROVE  Writes
<1>1. ASSUME UNCHANGED setupVars PROVE config' = config /\ receipt' = receipt
  BY <1>1 DEF setupVars, hookVars
<1> DEFINE Same == config' = config /\ receipt' = receipt
<1>7. ASSUME NEW p, NEW kind, NEW a, NEW x, BeginHook(p, kind, a, x) PROVE Same
  BY <1>7 DEF BeginHook
<1>2. ASSUME NEW p \in Proc, Start(p) PROVE Same
  <2>1. CASE BeginInstall(p) \/ BeginRemove(p) \/ BeginProtect(p)
    BY <2>1 DEF BeginInstall, BeginRemove, BeginProtect, Begin
  <2>2. CASE \E kind \in {"install", "remove"}, a \in tools, x \in Program \ {Runtime} :
                 BeginHook(p, kind, a, x)
    <3> HIDE DEF Same
    <3> QED BY <1>7, <2>2
  <2> QED BY <1>2, <2>1, <2>2 DEF Start
<1>3. ASSUME NEW p \in Proc, Payload(p) \/ Copy(p) \/ Hooked(p) \/ Protect(p) \/ KillCommand(p)
      PROVE  config' = config /\ receipt' = receipt
  BY <1>3 DEF Payload, Copy, Hooked, Protect, KillCommand, hookVars
<1>6. ASSUME NEW p \in Proc, Hooks(p) PROVE Same
  <2>1. CASE UNCHANGED hookVars
    BY <2>1 DEF hookVars
  <2>2. CASE ~UNCHANGED hookVars
    <3> DEFINE a == IF "zcode" \in cmd[p].left THEN "zcode" ELSE "claude-code"
    <3>1. BeginHook(p, cmd[p].kind, a, Runtime)
      BY <1>6, <2>2 DEF Hooks
    <3> HIDE DEF Same
    <3> QED BY <1>7, <3>1
  <2> QED BY <2>1, <2>2
<1>4. ASSUME NEW p \in Proc, ServiceStep(p) PROVE config' = config /\ receipt' = receipt
  BY <1>4 DEF ServiceStep, InstallService, WriteServiceReceipt, Load, Undo, DropServiceReceipt,
              RemoveService, Unload, DropFile, untouched
<1>5. ASSUME MonitorRuns \/ Restart \/ ChangeTools \/ EditFiles PROVE Same
  BY <1>5 DEF MonitorRuns, Restart, ChangeTools, EditFiles, hookVars
<1>8. HookCommand => HookStep
  BY DEF HookCommand
<1> QED BY <1>1, <1>2, <1>3, <1>4, <1>5, <1>6, <1>8 DEF Next, Install, Writes

\* Among installations, removals, kills, restarts and other hook commands, too, no
\* entry is left without a receipt that names it, unless an installation of hooks
\* that could not replace or sync the settings takes its receipt back although
\* they are not as it has read them.
THEOREM SetupPartsOnlyByUndo == Spec => PartedOnlyByUndo
<1>1. EntryInv /\ EntryInv' /\ [Next]_setupVars
      => [EntryHasReceipt => EntryHasReceipt' \/
             (hook.pc = "undo" /\ config[hook.client] # hook.seen)]_hookVars
  <2> SUFFICES ASSUME EntryInv, EntryInv', [Next]_setupVars, EntryHasReceipt,
                      ~(hook.pc = "undo" /\ config[hook.client] # hook.seen)
               PROVE  EntryHasReceipt'
    OBVIOUS
  <2>1. Writes
    BY HookOrNone
  <2> QED BY <2>1, PartedStep
<1> QED BY <1>1, SetupInvariant, PTL DEF Spec, PartedOnlyByUndo

-----------------------------------------------------------------------------
(* The hooks of others, and what a removal leaves, among all commands. *)

\* A step that leaves the files of the hooks alone, and ends the command at the
\* hooks or not.
LEMMA KeptStays ==
    ASSUME EntryInv, KeptInv, config' = config, receipt' = receipt, safe' = safe, before' = before,
           hook' = hook \/ hook' = NoHook,
           budget' \in [commands : Nat, edits : Nat, faults : Nat, kills : Nat]
    PROVE  KeptInv' /\ ViewsKept
<1>1. Knows' /\ Owns' /\ Returned'
  <2>1. CASE hook' = hook
    BY <2>1, StillKnown
  <2>2. CASE hook' = NoHook
    <3>1. hook'.pc = "idle"
      BY <2>2 DEF NoHook
    <3> QED BY <3>1, KnowsNothing
  <2> QED BY <2>1, <2>2
<1> QED BY <1>1, QuietKept

\* At first nothing is installed and nothing has been edited.
LEMMA InitSettings == Init => KeptInv
<1> SUFFICES ASSUME Init PROVE KeptInv
  OBVIOUS
<1> DEFINE other == [hooks |-> TRUE, events |-> TRUE, switch |-> "on",
                     at |-> [e \in Event |-> [NoEntries EXCEPT ![Foreign] = 1]]]
<1>1. /\ safe.config = config /\ safe.receipt = receipt /\ hook.pc = "idle"
      /\ before = [a \in Client |-> [settings |-> None, edited |-> FALSE]]
      /\ budget = [commands |-> 0, edits |-> 0, faults |-> 0, kills |-> 0]
      /\ \A a \in Client : receipt[a] = None
      /\ \A a \in Client : config[a] \in {None, other}
  BY DEF Init, NoHook
<1>2. History
  BY <1>1 DEF History
<1>3. ASSUME NEW a \in Client
      PROVE  Formed(config[a], a)
  <2>1. Formed(None, a)
    BY DEF Formed
  <2>2. Formed(other, a)
    BY DEF Formed, WellFormed
  <2> QED BY <1>1, <2>1, <2>2
<1>4. Alike /\ Faithful
  BY <1>1, <1>3 DEF Alike, Faithful
<1>5. Knows /\ Owns /\ Returned
  BY <1>1 DEF Knows, Owns, Returned
<1> QED BY <1>2, <1>4, <1>5 DEF KeptInv

\* Every step of installation and removal keeps what the steps of the hooks keep,
\* and none changes what others see: there is no edit of the settings here.
LEMMA SettingsNext ==
    ASSUME ServiceInv, EntryInv, KeptInv, EntryInv', [Next]_setupVars
    PROVE  KeptInv' /\ ViewsKept
<1> DEFINE Counters == [commands : Nat, edits : Nat, faults : Nat, kills : Nat]
<1>1. /\ budget \in Counters
      /\ Fails("write") \/ Fails("launchctl") => budget' \in Counters
      /\ Count("commands", MaxCommands) \/ Count("edits", MaxEdits) \/ Count("kills", MaxKills)
         => budget' \in Counters
  BY Counted DEF KeptInv, History, Fails
<1>2. CASE /\ config' = config /\ receipt' = receipt /\ safe' = safe /\ before' = before
           /\ hook' = hook \/ hook' = NoHook
           /\ budget' \in Counters
  BY <1>2, KeptStays
<1>3. CASE HookStep
  BY <1>3, ReadInstallKept, PublishKept, SyncReceiptKept, ReadRemoveKept, ReplaceKept,
     SyncSettingsKept, DropKept DEF HookStep
<1>4. ASSUME NEW p \in Proc, NEW kind \in {"install", "remove"}, NEW a \in Client, NEW x \in Program,
             BeginHook(p, kind, a, x), budget' \in Counters
      PROVE  KeptInv' /\ ViewsKept
  BY <1>4, BeginKept
<1>5. CASE UNCHANGED setupVars
  BY <1>1, <1>2, <1>5 DEF setupVars, hookVars
<1>6. ASSUME NEW p \in Proc, Start(p) PROVE KeptInv' /\ ViewsKept
  <2>1. budget' \in Counters
    BY <1>1, <1>6 DEF Start
  <2>2. CASE BeginInstall(p) \/ BeginRemove(p) \/ BeginProtect(p)
    BY <1>2, <2>1, <2>2 DEF BeginInstall, BeginRemove, BeginProtect, Begin
  <2>3. CASE \E kind \in {"install", "remove"}, a \in tools, x \in Program \ {Runtime} :
                 BeginHook(p, kind, a, x)
    <3>1. PICK kind \in {"install", "remove"}, a \in tools, x \in Program \ {Runtime} :
                 BeginHook(p, kind, a, x)
      BY <2>3
    <3>2. a \in Client
      BY DEF ServiceInv, Outer
    <3> QED BY <1>4, <2>1, <3>1, <3>2
  <2> QED BY <1>6, <2>2, <2>3 DEF Start
<1>7. ASSUME NEW p \in Proc, Hooks(p) PROVE KeptInv' /\ ViewsKept
  <2>1. CASE UNCHANGED hookVars
    BY <1>1, <1>2, <2>1 DEF hookVars
  <2>2. CASE ~UNCHANGED hookVars
    <3> DEFINE a == IF "zcode" \in cmd[p].left THEN "zcode" ELSE "claude-code"
    <3>1. /\ cmd[p].left \subseteq Client /\ cmd[p].left # {} /\ budget' = budget
          /\ BeginHook(p, cmd[p].kind, a, Runtime)
      BY <1>7, <2>2 DEF Hooks, ServiceInv, Cmd
    <3>2. a \in Client
      BY <3>1
    <3>3. cmd[p].kind \in {"install", "remove"}
      <4>1. Fits(cmd[p]) /\ cmd[p] \in Cmd /\ cmd[p].pc = "hooks"
        BY <1>7 DEF ServiceInv, Hooks
      <4> QED BY <4>1, Idle DEF Fits, Cmd
    <3> QED BY <1>1, <1>4, <3>1, <3>2, <3>3, RuntimeAssumption
  <2> QED BY <2>1, <2>2
<1>8. ASSUME NEW p \in Proc, Payload(p) \/ Copy(p) \/ Hooked(p) \/ Protect(p) \/ KillCommand(p)
      PROVE  KeptInv' /\ ViewsKept
  <2>1. /\ config' = config /\ receipt' = receipt /\ safe' = safe /\ before' = before
        /\ hook' = hook \/ hook' = NoHook
    BY <1>8 DEF Payload, Copy, Hooked, Protect, KillCommand, hookVars
  <2>2. budget' = budget \/ Fails("write") \/ Count("kills", MaxKills)
    BY <1>8 DEF Payload, Copy, Hooked, Protect, KillCommand, hookVars
  <2> QED BY <1>1, <1>2, <2>1, <2>2
<1>9. ASSUME NEW p \in Proc, ServiceStep(p) PROVE KeptInv' /\ ViewsKept
  <2>1. UNCHANGED untouched
    BY <1>9 DEF ServiceStep, InstallService, WriteServiceReceipt, Load, Undo, DropServiceReceipt,
                RemoveService, Unload, DropFile
  <2>2. budget' = budget \/ Fails("write") \/ Fails("launchctl")
    BY <1>9 DEF ServiceStep, InstallService, WriteServiceReceipt, Load, Undo, DropServiceReceipt,
                RemoveService, Unload, DropFile
  <2>3. budget' \in Counters
    BY <1>1, <2>2
  <2>4. config' = config /\ receipt' = receipt /\ safe' = safe /\ before' = before /\ hook' = hook
    BY <2>1 DEF untouched
  <2> QED BY <1>2, <2>3, <2>4
<1>10. CASE MonitorRuns \/ Restart \/ ChangeTools \/ EditFiles
  BY <1>1, <1>2, <1>10 DEF MonitorRuns, Restart, ChangeTools, EditFiles, hookVars
<1> QED BY <1>3, <1>5, <1>6, <1>7, <1>8, <1>9, <1>10 DEF Next, Install, HookCommand

\* The invariants of the commands and of the settings together.
THEOREM SettingsInvariant == Spec => [](ServiceInv /\ EntryInv /\ KeptInv)
<1>1. ServiceInv /\ EntryInv /\ KeptInv /\ [Next]_setupVars => ServiceInv' /\ EntryInv' /\ KeptInv'
  BY ServiceNext, EntryNext, SettingsNext
<1> QED BY <1>1, InitService, InitEntries, InitSettings, PTL DEF Spec

\* No installation, removal, repair, kill or restart, nor any step of the service or
\* of the archive guard between them, changes the hooks of others, whether they
\* run, or the user's switch.
THEOREM OthersUntouchedBySetup == Spec => ForeignKept
<1>1. ServiceInv /\ EntryInv /\ KeptInv /\ EntryInv' /\ [Next]_setupVars
      => [budget'.edits = budget.edits => \A a \in Client : View(config'[a], a) = View(config[a], a)]_hookVars
  BY SettingsNext DEF ViewsKept
<1> QED BY <1>1, SettingsInvariant, PTL DEF Spec, ForeignKept

\* A removal that drops the receipt of a hook, as part of the removal of Laodi or
\* as a command of its own, has given the settings back as they were.
THEOREM SetupRestores == Spec => Undone
<1>1. EntryInv /\ KeptInv
      => [\A a \in Client :
             hook.pc = "drop" /\ hook.client = a /\ receipt'[a] = None /\ ~before[a].edited
             => Decoded(config[a]) = Decoded(before[a].settings)]_hookVars
  BY DropReturned
<1> QED BY <1>1, SettingsInvariant, PTL DEF Spec, Undone
=============================================================================
