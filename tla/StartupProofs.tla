--------------------------- MODULE StartupProofs ---------------------------
(***************************************************************************)
(* Theorems of the start-up backend, for every set of processes and         *)
(* versions, every number of retries and every bound: type correctness, and *)
(* that a stop which reports success has stopped everything that ran.       *)
(*                                                                         *)
(* StoppedUnlessUnseen is not inductive: a launcher or supervisor that      *)
(* escaped the command starts another process.  What the command did see    *)
(* can start nothing more: a process that is no launcher waiting for its    *)
(* child is one of those that escaped (OnlyUnseenStart).                    *)
(***************************************************************************)
EXTENDS Startup, TLAPS

USE StartupAssumption, StartupNoneAssumption
-----------------------------------------------------------------------------
(* The inductive invariant. *)

States == {"gone", "start", "wait", "locked", "check", "go", "run", "delay", "watch", "ending",
           "ok", "failed"}
Processes ==
    [role : {None, "launcher", "supervisor", "worker"}, version : Version \cup {None}, pc : States,
     child : Pid \cup {None}, tries : 0..Retries, install : Nat \cup {None},
     approved : {None, "first", "second"}]

\* Where the three kinds of process can be.
Sane(q) ==
    \/ q.role = None /\ q.pc = "gone"
    \/ q.role = "launcher" /\ q.pc \in {"start", "wait"}
    \/ /\ q.role = "supervisor"
       /\ q.pc \in {"start", "locked", "check", "go", "run", "delay", "ending"}
       /\ q.pc = "run" => q.child \in Pid
       /\ q.pc = "delay" => q.tries < Retries
    \/ q.role = "worker" /\ q.pc \in {"start", "locked", "watch", "ending", "ok", "failed"}
Good == {q \in Processes : Sane(q)}

\* The steps of a command that stops the monitor.
Stopping == {"stop", "signalled", "wait", "select", "delete link", "delete receipt"}
Cmds == [kind : {None, "install", "uninstall", "upgrade"},
         pc : {"idle", "create", "receipt", "undo", "run", "record"} \cup Stopping,
         expected : Version \cup {None}, target : Pid \cup {None}, unseen : SUBSET Pid]

Typed ==
    /\ link \in {None, "own", "edited"} /\ sreceipt \in {None} \cup (0..MaxCommands)
    /\ approval \in {"first", "second"} /\ selected \in Version
    /\ proc \in [Pid -> Good]
    /\ named \in [{"launcher", "supervisor", "monitor"} -> Pid \cup {None}]
    /\ event \subseteq Pid /\ cmd \in Cmds
    /\ budget \in [commands : 0..MaxCommands, crashes : Nat, kills : Nat, edits : Nat]
    /\ cmd.pc # "idle" => budget.commands > 0

Active(q) == q.pc \notin {"gone", "ok", "failed"}

\* Once a command has found everything stopped, what it saw is over, but for
\* launchers that wait for their child.
OnlyUnseenStart ==
    Acting => \A i \in Pid \ cmd.unseen : Active(proc[i]) =>
                  proc[i].role = "launcher" /\ proc[i].pc = "wait"

SInv == Typed /\ OnlyUnseenStart

-----------------------------------------------------------------------------
(* Processes. *)

Budgets   == [commands : 0..MaxCommands, crashes : Nat, kills : Nat, edits : Nat]

\* A new process gets a number that no live process has.
LEMMA Fresh ==
    ASSUME Free # {}
    PROVE  NextPid \in Pid /\ ~Alive(NextPid)
BY DEF NextPid, Free

\* New processes and ended ones.
LEMMA Made ==
    /\ \A r \in {"launcher", "supervisor", "worker"}, v \in Version \cup {None} :
           /\ NewProcess(r, v) \in Good /\ NewProcess(r, v).pc = "start"
           /\ NewProcess(r, v).role = r
    /\ NoProcess \in Good /\ NoProcess.pc = "gone" /\ NoProcess.role = None
<1>1. ASSUME NEW r \in {"launcher", "supervisor", "worker"}, NEW v \in Version \cup {None}
      PROVE  /\ NewProcess(r, v) \in Good /\ NewProcess(r, v).pc = "start"
             /\ NewProcess(r, v).role = r
  <2>1. NewProcess(r, v) \in Processes
    BY DEF NewProcess, Processes, States
  <2>2. /\ NewProcess(r, v).pc = "start" /\ NewProcess(r, v).role = r
    BY DEF NewProcess
  <2> QED BY <2>1, <2>2 DEF Good, Sane
<1>2. NoProcess \in Good /\ NoProcess.pc = "gone" /\ NoProcess.role = None
  <2>1. NoProcess = [role |-> None, version |-> None, pc |-> "gone", child |-> None, tries |-> 0,
                     install |-> None, approved |-> None]
    BY DEF NoProcess, NewProcess
  <2>2. NoProcess \in Processes
    BY <2>1 DEF Processes, States
  <2> QED BY <2>1, <2>2 DEF Good, Sane
<1> QED BY <1>1, <1>2

\* A process that goes to another step stays what it is.
LEMMA Moved ==
    ASSUME NEW p \in Good, NEW pc \in States
    PROVE  LET q == [p EXCEPT !.pc = pc]
           IN  /\ q \in Processes /\ q.pc = pc /\ q.role = p.role /\ q.child = p.child
               /\ q.tries = p.tries
BY DEF Good, Processes

\* The step of one process that becomes nothing which a command could have missed.
LEMMA OneProcess ==
    ASSUME SInv, NEW i \in Pid, NEW q \in Good, proc' = [proc EXCEPT ![i] = q], cmd' = cmd,
           Active(q) => Active(proc[i]) /\ proc[i].pc # "wait"
    PROVE  proc' \in [Pid -> Good] /\ OnlyUnseenStart'
<1>1. proc \in [Pid -> Good]
  BY DEF SInv, Typed
<1>2. proc' \in [Pid -> Good] /\ proc'[i] = q /\ \A j \in Pid \ {i} : proc'[j] = proc[j]
  BY <1>1
<1>3. OnlyUnseenStart'
  <2> SUFFICES ASSUME Acting, NEW j \in Pid \ cmd.unseen, Active(proc'[j])
               PROVE  proc'[j].role = "launcher" /\ proc'[j].pc = "wait"
    BY DEF OnlyUnseenStart, Acting
  <2>1. Active(proc[j]) /\ (j = i => proc[j].pc # "wait")
    BY <1>2
  <2>2. proc[j].role = "launcher" /\ proc[j].pc = "wait"
    BY <2>1 DEF SInv, OnlyUnseenStart
  <2> QED BY <1>2, <2>1, <2>2
<1> QED BY <1>2, <1>3

\* A command that goes on while no process moves.
LEMMA Still ==
    ASSUME SInv, proc' = proc, Acting' => Acting /\ cmd'.unseen = cmd.unseen
    PROVE  OnlyUnseenStart'
BY DEF SInv, OnlyUnseenStart

\* Where no command is at work on the files, processes may do what they like.
LEMMA Elsewhere ==
    ASSUME ~Acting'
    PROVE  OnlyUnseenStart'
BY DEF OnlyUnseenStart

\* Steps of processes leave the files alone, and the step of the command.
LEMMA ProcessStep ==
    ASSUME SInv, proc' \in [Pid -> Good], OnlyUnseenStart', UNCHANGED files,
           cmd' \in Cmds, cmd'.pc = cmd.pc,
           named' \in [{"launcher", "supervisor", "monitor"} -> Pid \cup {None}],
           event' \subseteq Pid, budget' \in Budgets, budget'.commands = budget.commands
    PROVE  SInv'
<1>1. link' = link /\ sreceipt' = sreceipt /\ approval' = approval /\ selected' = selected
  BY DEF files
<1>2. Typed'
  BY <1>1 DEF SInv, Typed, Budgets
<1> QED BY <1>2 DEF SInv

\* A step that only moves one process on.
LEMMA Goes ==
    ASSUME SInv, NEW i \in Pid, NEW q \in Good, proc' = [proc EXCEPT ![i] = q],
           Active(q) => Active(proc[i]) /\ proc[i].pc # "wait",
           UNCHANGED <<files, cmd, budget>>,
           named' \in [{"launcher", "supervisor", "monitor"} -> Pid \cup {None}], event' \subseteq Pid
    PROVE  SInv'
<1>1. proc' \in [Pid -> Good] /\ OnlyUnseenStart'
  BY OneProcess
<1>2. budget' \in Budgets /\ budget'.commands = budget.commands /\ cmd' \in Cmds /\ cmd'.pc = cmd.pc
  BY DEF SInv, Typed, Budgets
<1> QED BY <1>1, <1>2, ProcessStep

\* What a process starts escapes the command if the process did, and a process that
\* can start another did.
LEMMA Starts ==
    ASSUME SInv, NEW i \in Pid, NEW n \in Pid \ {i}, NEW q \in Good, NEW new \in Good,
           proc' = [proc EXCEPT ![i] = q, ![n] = new], Inherits(i, n),
           Active(proc[i]), proc[i].pc # "wait",
           UNCHANGED <<files, named, budget>>, event' \subseteq Pid
    PROVE  SInv'
<1>1. /\ proc' \in [Pid -> Good] /\ \A j \in Pid \ {i, n} : proc'[j] = proc[j]
  BY DEF SInv, Typed
<1>2. /\ cmd' \in Cmds /\ cmd'.pc = cmd.pc
      /\ cmd'.unseen = IF i \in cmd.unseen THEN cmd.unseen \cup {n} ELSE cmd.unseen \ {n}
  BY DEF SInv, Typed, Cmds, Inherits
<1>3. OnlyUnseenStart'
  <2> SUFFICES ASSUME Acting, NEW j \in Pid \ cmd'.unseen, Active(proc'[j])
               PROVE  proc'[j].role = "launcher" /\ proc'[j].pc = "wait"
    BY <1>2 DEF OnlyUnseenStart, Acting
  <2>1. i \in cmd.unseen
    BY DEF SInv, OnlyUnseenStart
  <2>2. j \in Pid \ cmd.unseen /\ proc'[j] = proc[j]
    BY <1>1, <1>2, <2>1
  <2> QED BY <2>2 DEF SInv, OnlyUnseenStart
<1>4. /\ budget' \in Budgets /\ budget'.commands = budget.commands
      /\ named' \in [{"launcher", "supervisor", "monitor"} -> Pid \cup {None}]
  BY DEF SInv, Typed, Budgets
<1> QED BY <1>1, <1>2, <1>3, <1>4, ProcessStep

\* What is counted.
LEMMA Counted ==
    ASSUME SInv
    PROVE  /\ budget \in Budgets
           /\ \A what \in {"crashes", "kills", "edits"} : \A bound :
                  Count(what, bound) => budget' \in Budgets /\ budget'.commands = budget.commands
           /\ Count("commands", MaxCommands) => budget' \in Budgets /\ budget'.commands > 0
BY DEF SInv, Typed, Budgets, Count

-----------------------------------------------------------------------------
(* The steps of the processes. *)

\* A receipt names a process, or is removed by the one that it names.
LEMMA Naming ==
    ASSUME SInv, NEW r, NEW i \in Pid
    PROVE  /\ Names(r, i) => named' \in [{"launcher", "supervisor", "monitor"} -> Pid \cup {None}]
           /\ Forgets(r, i) => named' \in [{"launcher", "supervisor", "monitor"} -> Pid \cup {None}]
           /\ named' = named => named' \in [{"launcher", "supervisor", "monitor"} -> Pid \cup {None}]
BY DEF SInv, Typed, Names, Forgets

\* The end of a process.
LEMMA ExitStep ==
    ASSUME SInv, NEW i \in Pid, Exit(i), UNCHANGED <<files, cmd, budget>>,
           named' \in [{"launcher", "supervisor", "monitor"} -> Pid \cup {None}], event' \subseteq Pid
    PROVE  SInv'
<1>1. proc' = [proc EXCEPT ![i] = NoProcess]
  BY DEF Exit
<1>2. ~Active(NoProcess)
  BY Made DEF Active
<1> HIDE DEF NoProcess
<1> QED BY <1>1, <1>2, Made, Goes

\* A process that goes to another step and starts nothing.
LEMMA AtStep ==
    ASSUME SInv, NEW i \in Pid, NEW pc \in States, At(i, pc), Active(proc[i]),
           proc[i].pc # "wait", Sane([proc[i] EXCEPT !.pc = pc]),
           UNCHANGED <<files, cmd, budget>>,
           named' \in [{"launcher", "supervisor", "monitor"} -> Pid \cup {None}], event' \subseteq Pid
    PROVE  SInv'
<1> DEFINE q == [proc[i] EXCEPT !.pc = pc]
<1>1. proc[i] \in Good
  BY DEF SInv, Typed
<1>2. q \in Good /\ q.pc = pc /\ q.role = proc[i].role
  BY <1>1, Moved DEF Good
<1>3. proc' = [proc EXCEPT ![i] = q]
  BY DEF At
<1> HIDE DEF q
<1> QED BY <1>2, <1>3, Goes

\* The launcher starts the selected supervisor.
LEMMA RouteStep ==
    ASSUME SInv, NEW i \in Pid, Route(i)
    PROVE  SInv'
<1> DEFINE new == NewProcess("supervisor", selected)
           q   == [proc[i] EXCEPT !.pc = "wait", !.child = NextPid]
<1>1. /\ proc[i].role = "launcher" /\ proc[i].pc = "start" /\ Free # {}
      /\ UNCHANGED <<files, named, budget>> /\ event' = event \ {NextPid} /\ Inherits(i, NextPid)
  BY DEF Route, Is
<1>2. NextPid \in Pid /\ NextPid # i
  BY <1>1, Fresh DEF Alive
<1>3. proc' = [proc EXCEPT ![i] = q, ![NextPid] = new]
  <2>1. proc' = [proc EXCEPT ![i].pc = "wait", ![i].child = NextPid, ![NextPid] = new]
    BY DEF Route
  <2>2. proc \in [Pid -> Good] /\ proc[i] \in Processes
    BY DEF SInv, Typed, Good
  <2> HIDE DEF new
  <2> QED BY <1>2, <2>1, <2>2 DEF Processes
<1>4. proc[i] \in Good /\ proc \in [Pid -> Good] /\ selected \in Version
  BY DEF SInv, Typed
<1>5. new \in Good
  BY <1>4, Made
<1>6. q \in Processes /\ q.role = "launcher" /\ q.pc = "wait"
  BY <1>1, <1>2, <1>4 DEF Good, Processes, States
<1>7. q \in Good
  BY <1>6 DEF Good, Sane
<1> HIDE DEF new, q
<1>8. Active(proc[i]) /\ proc[i].pc # "wait" /\ event' \subseteq Pid
  BY <1>1 DEF Active, SInv, Typed
<1> QED BY <1>1, <1>2, <1>3, <1>5, <1>7, <1>8, Starts

\* The supervisor starts a worker and waits for it.
LEMMA StartWorkerStep ==
    ASSUME SInv, NEW i \in Pid, StartWorker(i)
    PROVE  SInv'
<1> DEFINE new == NewProcess("worker", proc[i].version)
           n   == NextPid
           q   == [proc[i] EXCEPT !.pc = "run", !.child = n]
<1>1. /\ proc[i].role = "supervisor" /\ proc[i].pc = "go" /\ Free # {}
      /\ UNCHANGED <<files, named, budget>> /\ event' = event \ {n} /\ Inherits(i, n)
  BY DEF StartWorker, Is
<1>2. n \in Pid /\ n # i
  BY <1>1, Fresh DEF Alive
<1>3. proc' = [proc EXCEPT ![i] = q, ![n] = new]
  <2>1. proc' = [proc EXCEPT ![i].pc = "run", ![i].child = n, ![n] = new]
    BY DEF StartWorker
  <2>2. proc \in [Pid -> Good] /\ proc[i] \in Processes
    BY DEF SInv, Typed, Good
  <2> HIDE DEF new, n
  <2> QED BY <1>2, <2>1, <2>2 DEF Processes
<1>4. proc[i] \in Good /\ proc \in [Pid -> Good] /\ proc[i].version \in Version \cup {None}
  BY DEF SInv, Typed, Good, Processes
<1>5. new \in Good
  BY <1>4, Made
<1>6. q \in Processes /\ q.role = "supervisor" /\ q.pc = "run" /\ q.child = n
  BY <1>1, <1>2, <1>4 DEF Good, Processes, States
<1>7. q \in Good
  BY <1>2, <1>6 DEF Good, Sane
<1> HIDE DEF new, q, n
<1>8. Active(proc[i]) /\ proc[i].pc # "wait" /\ event' \subseteq Pid
  BY <1>1 DEF Active, SInv, Typed
<1> QED BY <1>1, <1>2, <1>3, <1>5, <1>7, <1>8, Starts

\* A worker that has ended is read and forgotten.
LEMMA ReapStep ==
    ASSUME SInv, NEW i \in Pid, Reap(i)
    PROVE  SInv'
<1> DEFINE c  == proc[i].child
           pc == IF proc[c].pc = "ok" \/ i \in event \/ Exhausted(i) THEN "ending" ELSE "delay"
           q  == [proc[i] EXCEPT !.child = None, !.pc = pc]
<1>1. /\ proc[i].role = "supervisor" /\ proc[i].pc = "run" /\ ~Alive(c)
      /\ UNCHANGED <<files, named, event, cmd, budget>>
  BY DEF Reap, Is
<1>2. proc[i] \in Good /\ proc \in [Pid -> Good]
  BY DEF SInv, Typed
<1>3. c \in Pid /\ c # i /\ ~Active(proc[c])
  BY <1>1, <1>2 DEF Good, Sane, Alive, Active
<1>4. proc' = [proc EXCEPT ![c] = NoProcess, ![i] = q]
  <2>1. proc' = [proc EXCEPT ![c] = NoProcess, ![i].child = None, ![i].pc = pc]
    BY DEF Reap
  <2>2. proc[i] \in Processes
    BY <1>2 DEF Good
  <2> HIDE DEF c, pc
  <2> QED BY <1>2, <1>3, <2>1, <2>2 DEF Processes
<1>5. pc \in {"ending", "delay"} /\ (pc = "delay" => proc[i].tries < Retries)
  BY <1>2 DEF Exhausted, Good, Processes
<1> HIDE DEF c, pc
<1>6. q \in Processes /\ q.role = "supervisor" /\ q.pc = pc /\ q.tries = proc[i].tries
  BY <1>1, <1>2, <1>5 DEF Good, Processes, States
<1>7. q \in Good
  BY <1>5, <1>6 DEF Good, Sane
<1> HIDE DEF q
<1>8. /\ proc' \in [Pid -> Good] /\ proc'[i] = q /\ proc'[c] = NoProcess
      /\ \A j \in Pid \ {i, c} : proc'[j] = proc[j]
  BY <1>2, <1>3, <1>4, <1>7, Made
<1>9. OnlyUnseenStart'
  <2> SUFFICES ASSUME Acting, NEW j \in Pid \ cmd.unseen, Active(proc'[j])
               PROVE  proc'[j].role = "launcher" /\ proc'[j].pc = "wait"
    BY <1>1 DEF OnlyUnseenStart, Acting
  <2>1. i \in cmd.unseen
    BY <1>1 DEF SInv, OnlyUnseenStart, Active
  <2>2. j # i /\ j # c /\ proc'[j] = proc[j]
    BY <1>8, <2>1, Made DEF Active
  <2> QED BY <2>2 DEF SInv, OnlyUnseenStart
<1>10. /\ event' \subseteq Pid /\ budget' \in Budgets /\ budget'.commands = budget.commands
       /\ cmd' \in Cmds /\ cmd'.pc = cmd.pc
  BY <1>1, Counted DEF SInv, Typed
<1> QED BY <1>1, <1>8, <1>9, <1>10, Naming, ProcessStep

\* A process that has nothing left to wait for, or to do, ends.
LEMMA LauncherEndsStep ==
    ASSUME SInv, NEW i \in Pid, LauncherEnds(i) \/ SupervisorEnds(i)
    PROVE  SInv'
<1>1. Exit(i) /\ UNCHANGED <<files, cmd, budget>>
  BY DEF LauncherEnds, SupervisorEnds
<1>2. event' \subseteq Pid
  BY DEF LauncherEnds, SupervisorEnds, SInv, Typed
<1>3. named' \in [{"launcher", "supervisor", "monitor"} -> Pid \cup {None}]
  BY Naming DEF LauncherEnds, SupervisorEnds
<1> QED BY <1>1, <1>2, <1>3, ExitStep

\* A supervisor without a job becomes a monitor; only one of them gets the lock.
LEMMA SuperviseStep ==
    ASSUME SInv, NEW i \in Pid, Supervise(i)
    PROVE  SInv'
<1>1. /\ proc[i].role = "supervisor" /\ proc[i].pc = "start"
      /\ UNCHANGED <<files, named, event, cmd, budget>>
  BY DEF Supervise, Is
<1>2. proc[i] \in Good /\ proc \in [Pid -> Good] /\ sreceipt \in {None} \cup Nat
  BY DEF SInv, Typed
<1>3. Active(proc[i]) /\ proc[i].pc # "wait" /\ event' \subseteq Pid
  BY <1>1 DEF Active, SInv, Typed
<1>4. named' \in [{"launcher", "supervisor", "monitor"} -> Pid \cup {None}]
  BY <1>1, Naming
<1>5. CASE proc' = [proc EXCEPT ![i].role = "worker"]
  <2> DEFINE q == [proc[i] EXCEPT !.role = "worker"]
  <2>1. q \in Processes /\ q.role = "worker" /\ q.pc = "start"
    BY <1>1, <1>2 DEF Good, Processes
  <2>2. q \in Good
    BY <2>1 DEF Good, Sane
  <2>3. proc' = [proc EXCEPT ![i] = q]
    BY <1>5
  <2> HIDE DEF q
  <2> QED BY <1>1, <1>3, <1>4, <2>2, <2>3, Goes
<1>6. CASE proc' = [proc EXCEPT ![i].pc = "locked", ![i].install = sreceipt]
  <2> DEFINE q == [proc[i] EXCEPT !.pc = "locked", !.install = sreceipt]
  <2>1. q \in Processes /\ q.role = "supervisor" /\ q.pc = "locked"
    BY <1>1, <1>2 DEF Good, Processes, States
  <2>2. q \in Good
    BY <2>1 DEF Good, Sane
  <2>3. proc' = [proc EXCEPT ![i] = q]
    BY <1>2, <1>6 DEF Good, Processes
  <2> HIDE DEF q
  <2> QED BY <1>1, <1>3, <1>4, <2>2, <2>3, Goes
<1>7. CASE Exit(i)
  BY <1>1, <1>3, <1>4, <1>7, ExitStep
<1> QED BY <1>5, <1>6, <1>7 DEF Supervise

\* The supervisor publishes itself and remembers what it was started for.
LEMMA PublishStep ==
    ASSUME SInv, NEW i \in Pid, Publish(i)
    PROVE  SInv'
<1> DEFINE q == [proc[i] EXCEPT !.pc = "check", !.approved = approval]
<1>1. /\ proc[i].role = "supervisor" /\ proc[i].pc = "locked"
      /\ UNCHANGED <<files, event, cmd, budget>>
  BY DEF Publish, Is
<1>2. proc[i] \in Good /\ proc \in [Pid -> Good] /\ approval \in {"first", "second"}
  BY DEF SInv, Typed
<1>3. q \in Processes /\ q.role = "supervisor" /\ q.pc = "check"
  BY <1>1, <1>2 DEF Good, Processes, States
<1>4. q \in Good
  BY <1>3 DEF Good, Sane
<1>5. proc' = [proc EXCEPT ![i] = q]
  <2>1. proc' = [proc EXCEPT ![i].pc = "check", ![i].approved = approval]
    BY DEF Publish
  <2> QED BY <1>2, <2>1 DEF Good, Processes
<1>6. Active(proc[i]) /\ proc[i].pc # "wait"
  BY <1>1 DEF Active
<1>7. named' \in [{"launcher", "supervisor", "monitor"} -> Pid \cup {None}] /\ event' \subseteq Pid
  BY <1>1, Naming DEF Publish, SInv, Typed
<1> HIDE DEF q
<1> QED BY <1>1, <1>3, <1>4, <1>5, <1>6, <1>7, Goes

\* The check before each start of a worker.
LEMMA CheckStep ==
    ASSUME SInv, NEW i \in Pid, Check(i)
    PROVE  SInv'
<1>1. /\ proc[i].role = "supervisor" /\ proc[i].pc = "check"
      /\ UNCHANGED <<files, named, event, cmd, budget>>
  BY DEF Check, Is
<1>2. PICK pc \in {"go", "ending"} : At(i, pc)
  BY DEF Check
<1>3. proc[i] \in Good
  BY DEF SInv, Typed
<1>4. Sane([proc[i] EXCEPT !.pc = pc])
  BY <1>1, <1>2, <1>3, Moved DEF Sane, States
<1>5. Active(proc[i]) /\ proc[i].pc # "wait"
  BY <1>1 DEF Active
<1>6. named' \in [{"launcher", "supervisor", "monitor"} -> Pid \cup {None}] /\ event' \subseteq Pid
  BY <1>1, Naming DEF SInv, Typed
<1>7. pc \in States
  BY DEF States
<1> QED BY <1>1, <1>2, <1>4, <1>5, <1>6, <1>7, AtStep

\* The supervisor passes the stop on, or ends when its worker has had its time.
LEMMA PassOnStep ==
    ASSUME SInv, NEW i \in Pid, PassOn(i)
    PROVE  SInv'
<1>1. /\ proc[i].role = "supervisor" /\ proc[i].pc = "run"
      /\ UNCHANGED <<files, named, cmd, budget>>
  BY DEF PassOn, Is
<1>2. proc[i] \in Good /\ proc \in [Pid -> Good]
  BY DEF SInv, Typed
<1>3. named' \in [{"launcher", "supervisor", "monitor"} -> Pid \cup {None}]
  BY <1>1, Naming
<1>4. CASE event' = event \cup {proc[i].child} /\ UNCHANGED proc
  <2>1. proc[i].child \in Pid
    BY <1>1, <1>2 DEF Good, Sane
  <2>2. /\ event' \subseteq Pid /\ budget' \in Budgets /\ budget'.commands = budget.commands
        /\ cmd' \in Cmds /\ cmd'.pc = cmd.pc
    BY <1>1, <1>4, <2>1, Counted DEF SInv, Typed
  <2>3. OnlyUnseenStart'
    BY <1>1, <1>4, Still DEF Acting
  <2> QED BY <1>1, <1>2, <1>3, <1>4, <2>2, <2>3, ProcessStep
<1>5. CASE At(i, "ending") /\ UNCHANGED event
  <2>1. Sane([proc[i] EXCEPT !.pc = "ending"])
    BY <1>1, <1>2, Moved DEF Sane, States
  <2>2. Active(proc[i]) /\ proc[i].pc # "wait" /\ event' \subseteq Pid
    BY <1>1, <1>5 DEF Active, SInv, Typed
  <2> QED BY <1>1, <1>3, <1>5, <2>1, <2>2, AtStep DEF States
<1> QED BY <1>4, <1>5 DEF PassOn

\* The wait before the next attempt.
LEMMA DelayStep ==
    ASSUME SInv, NEW i \in Pid, Delay(i)
    PROVE  SInv'
<1>1. /\ proc[i].role = "supervisor" /\ proc[i].pc = "delay"
      /\ UNCHANGED <<files, named, event, cmd, budget>>
  BY DEF Delay, Is
<1>2. proc[i] \in Good /\ proc \in [Pid -> Good]
  BY DEF SInv, Typed
<1>3. \E q \in Good : /\ proc' = [proc EXCEPT ![i] = q] /\ q.pc \in {"ending", "check"}
                      /\ q.role = "supervisor"
  <2>1. CASE i \in event
    <3> DEFINE q == [proc[i] EXCEPT !.pc = "ending"]
    <3>1. q \in Processes /\ q.role = "supervisor" /\ q.pc = "ending"
      BY <1>1, <1>2 DEF Good, Processes, States
    <3>2. proc' = [proc EXCEPT ![i] = q]
      BY <2>1 DEF Delay
    <3> HIDE DEF q
    <3> QED BY <3>1, <3>2 DEF Good, Sane
  <2>2. CASE i \notin event
    <3> DEFINE q == [proc[i] EXCEPT !.pc = "check", !.tries = @ + 1]
    <3>0. proc[i].tries + 1 \in 0..Retries
      BY <1>1, <1>2 DEF Good, Sane, Processes
    <3>1. q \in Processes /\ q.role = "supervisor" /\ q.pc = "check"
      BY <1>1, <1>2, <3>0 DEF Good, Processes, States
    <3>2. proc' = [proc EXCEPT ![i] = q]
      <4>1. proc' = [proc EXCEPT ![i].pc = "check", ![i].tries = @ + 1]
        BY <2>2 DEF Delay
      <4> QED BY <1>2, <4>1 DEF Good, Processes
    <3> HIDE DEF q
    <3> QED BY <3>1, <3>2 DEF Good, Sane
  <2> QED BY <2>1, <2>2
<1>4. PICK q \in Good : /\ proc' = [proc EXCEPT ![i] = q] /\ q.pc \in {"ending", "check"}
                        /\ q.role = "supervisor"
  BY <1>3
<1>5. Active(proc[i]) /\ proc[i].pc # "wait"
  BY <1>1 DEF Active
<1>6. named' \in [{"launcher", "supervisor", "monitor"} -> Pid \cup {None}] /\ event' \subseteq Pid
  BY <1>1, Naming DEF SInv, Typed
<1> QED BY <1>1, <1>4, <1>5, <1>6, Goes

\* A worker that ends leaves its exit status to a supervisor that waits for it.
LEMMA EndsMeans ==
    ASSUME SInv, NEW i \in Pid, NEW status \in {"ok", "failed"}, Ends(i, status),
           proc[i].role = "worker"
    PROVE  /\ event' = event \ {i}
           /\ \E q \in Good : proc' = [proc EXCEPT ![i] = q] /\ ~Active(q)
<1>1. proc[i] \in Good
  BY DEF SInv, Typed
<1>2. CASE At(i, status)
  <2> DEFINE q == [proc[i] EXCEPT !.pc = status]
  <2>0. proc[i] \in Processes
    BY <1>1 DEF Good
  <2>1. q \in Processes /\ q.pc = status /\ q.role = "worker"
    BY <2>0 DEF Processes, States
  <2> HIDE DEF q
  <2>2. q \in Good
    BY <2>1 DEF Good, Sane
  <2>3. proc' = [proc EXCEPT ![i] = q]
    BY <1>2 DEF At, q
  <2> QED BY <2>1, <2>2, <2>3 DEF Active, Ends
<1>3. CASE Exit(i)
  BY <1>3, Made DEF Exit, Ends, Active
<1> QED BY <1>2, <1>3 DEF Ends

\* The worker takes the writer's lock and is named as the monitor; it ends when it
\* is told to, or without the lock.
LEMMA WorkStep ==
    ASSUME SInv, NEW i \in Pid, Work(i) \/ WorkerStops(i)
    PROVE  SInv'
<1>1. /\ proc[i].role = "worker" /\ proc[i].pc \in {"start", "locked", "watch", "ending"}
      /\ UNCHANGED <<files, cmd, budget>>
  BY DEF Work, WorkerStops, Is
<1>2. proc[i] \in Good /\ Active(proc[i]) /\ proc[i].pc # "wait"
  BY <1>1 DEF Active, SInv, Typed
<1>3. named' \in [{"launcher", "supervisor", "monitor"} -> Pid \cup {None}]
  BY Naming DEF Work, WorkerStops
<1>4. ASSUME NEW pc \in {"locked", "watch", "ending"}, At(i, pc), UNCHANGED event
      PROVE  SInv'
  <2>1. Sane([proc[i] EXCEPT !.pc = pc])
    BY <1>1, <1>2, Moved DEF Sane, States
  <2>2. event' \subseteq Pid /\ pc \in States
    BY <1>4 DEF States, SInv, Typed
  <2> QED BY <1>1, <1>2, <1>3, <1>4, <2>1, <2>2, AtStep
<1>5. ASSUME NEW status \in {"ok", "failed"}, Ends(i, status)
      PROVE  SInv'
  <2>1. PICK q \in Good : proc' = [proc EXCEPT ![i] = q] /\ ~Active(q)
    BY <1>1, <1>5, EndsMeans
  <2>2. event' \subseteq Pid
    BY <1>1, <1>5, EndsMeans DEF SInv, Typed
  <2> QED BY <1>1, <1>3, <2>1, <2>2, Goes
<1> QED BY <1>4, <1>5 DEF Work, WorkerStops

\* What a process does.
LEMMA ProcessesKeep ==
    ASSUME SInv, NEW i \in Pid, Process(i)
    PROVE  SInv'
BY RouteStep, LauncherEndsStep, SuperviseStep, PublishStep, CheckStep, StartWorkerStep, ReapStep,
   PassOnStep, DelayStep, WorkStep DEF Process

-----------------------------------------------------------------------------
(* Sessions, crashes and the user. *)

\* A worker crashes.
LEMMA CrashStep ==
    ASSUME SInv, NEW i \in Pid, Crash(i)
    PROVE  SInv'
<1>1. /\ proc[i].role = "worker" /\ Count("crashes", MaxCrashes) /\ Ends(i, "failed")
      /\ UNCHANGED <<files, named, cmd>>
  BY DEF Crash, Is
<1>2. PICK q \in Good : proc' = [proc EXCEPT ![i] = q] /\ ~Active(q)
  BY <1>1, EndsMeans
<1>3. proc' \in [Pid -> Good] /\ OnlyUnseenStart'
  BY <1>1, <1>2, OneProcess
<1>4. event' \subseteq Pid
  BY <1>1, EndsMeans DEF SInv, Typed
<1>5. /\ budget' \in Budgets /\ budget'.commands = budget.commands
      /\ cmd' \in Cmds /\ cmd'.pc = cmd.pc
      /\ named' \in [{"launcher", "supervisor", "monitor"} -> Pid \cup {None}]
  BY <1>1, Counted DEF SInv, Typed
<1> QED BY <1>1, <1>3, <1>4, <1>5, ProcessStep

\* A launcher or supervisor is killed.
LEMMA KillProcessStep ==
    ASSUME SInv, NEW i \in Pid, KillProcess(i)
    PROVE  SInv'
<1>1. /\ Count("kills", MaxKills) /\ Exit(i) /\ event' = event \ {i}
      /\ UNCHANGED <<files, named, cmd>>
  BY DEF KillProcess
<1>2. proc' = [proc EXCEPT ![i] = NoProcess] /\ ~Active(NoProcess)
  BY <1>1, Made DEF Exit, Active
<1> HIDE DEF NoProcess
<1>3. proc' \in [Pid -> Good] /\ OnlyUnseenStart'
  BY <1>1, <1>2, Made, OneProcess
<1>4. /\ budget' \in Budgets /\ budget'.commands = budget.commands /\ event' \subseteq Pid
      /\ cmd' \in Cmds /\ cmd'.pc = cmd.pc
      /\ named' \in [{"launcher", "supervisor", "monitor"} -> Pid \cup {None}]
  BY <1>1, Counted DEF SInv, Typed
<1> QED BY <1>1, <1>3, <1>4, ProcessStep

\* The launcher of a new session, which a command that is at work has not seen.
LEMMA LogonStep ==
    ASSUME SInv, Logon
    PROVE  SInv'
<1> DEFINE new == NewProcess("launcher", None)
           n   == NextPid
<1>1. /\ Count("commands", MaxCommands) /\ Free # {}
      /\ proc' = [proc EXCEPT ![n] = new] /\ event' = event \ {n}
      /\ cmd' = [cmd EXCEPT !.unseen = IF Acting THEN @ \cup {n} ELSE @]
      /\ UNCHANGED <<files, named>>
  BY DEF Logon
<1>2. new \in Good
  BY Made
<1>3. n \in Pid
  BY <1>1, Fresh
<1> HIDE DEF new, n
<1>4. proc' \in [Pid -> Good] /\ \A j \in Pid \ {n} : proc'[j] = proc[j]
  BY <1>1, <1>2, <1>3 DEF SInv, Typed
<1>5. /\ cmd' \in Cmds /\ cmd'.pc = cmd.pc
      /\ cmd'.unseen = IF Acting THEN cmd.unseen \cup {n} ELSE cmd.unseen
  BY <1>1, <1>3 DEF SInv, Typed, Cmds
<1>6. OnlyUnseenStart'
  <2> SUFFICES ASSUME Acting, NEW j \in Pid \ cmd'.unseen, Active(proc'[j])
               PROVE  proc'[j].role = "launcher" /\ proc'[j].pc = "wait"
    BY <1>5 DEF OnlyUnseenStart, Acting
  <2>1. j \in Pid \ cmd.unseen /\ proc'[j] = proc[j]
    BY <1>4, <1>5
  <2> QED BY <2>1 DEF SInv, OnlyUnseenStart
<1>7. budget' \in Budgets /\ budget'.commands > 0
  BY <1>1, Counted
<1>8. Typed'
  BY <1>1, <1>4, <1>5, <1>7 DEF SInv, Typed, files, Budgets
<1> QED BY <1>6, <1>8 DEF SInv

\* No command.
LEMMA Idle == NoCommand \in Cmds /\ NoCommand.pc = "idle"
BY DEF NoCommand, Cmds

\* The end of a session ends all processes, the command's too.
LEMMA LogoffStep ==
    ASSUME SInv, Logoff
    PROVE  SInv'
<1>1. /\ Count("kills", MaxKills) /\ cmd' = NoCommand /\ event' = {}
      /\ proc' = [i \in Pid |-> NoProcess] /\ UNCHANGED <<files, named>>
  BY DEF Logoff
<1>2. proc' \in [Pid -> Good] /\ cmd' \in Cmds /\ cmd'.pc = "idle"
  BY <1>1, Made, Idle
<1>3. OnlyUnseenStart'
  BY <1>2, Elsewhere DEF Acting
<1>4. budget' \in Budgets
  BY <1>1, Counted
<1>5. Typed'
  BY <1>1, <1>2, <1>4 DEF SInv, Typed, files, Budgets
<1> QED BY <1>3, <1>5 DEF SInv

\* The user changes the entry.
LEMMA UserStep ==
    ASSUME SInv, Edit
    PROVE  SInv'
<1>1. /\ Count("edits", MaxEdits) /\ UNCHANGED <<sreceipt, selected, proc, named, event, cmd>>
      /\ link' \in {None, "own", "edited"} /\ approval' \in {"first", "second"}
  BY DEF Edit, SInv, Typed
<1>2. budget' \in Budgets /\ budget'.commands = budget.commands
  BY <1>1, Counted
<1>3. Typed'
  BY <1>1, <1>2 DEF SInv, Typed, Budgets
<1>4. OnlyUnseenStart'
  BY <1>1, Still DEF Acting
<1> QED BY <1>3, <1>4 DEF SInv

-----------------------------------------------------------------------------
(* The steps of a command. *)

\* A step of a command that starts no process.
LEMMA CommandStep ==
    ASSUME SInv, proc' = proc, cmd' \in Cmds,
           link' \in {None, "own", "edited"}, sreceipt' \in {None} \cup (0..MaxCommands),
           approval' = approval, selected' \in Version,
           named' \in [{"launcher", "supervisor", "monitor"} -> Pid \cup {None}], event' \subseteq Pid,
           budget' \in Budgets, cmd'.pc # "idle" => budget'.commands > 0,
           OnlyUnseenStart'
    PROVE  SInv'
BY DEF SInv, Typed, Budgets

\* A command that goes on.
LEMMA GotoStep ==
    ASSUME SInv, NEW pc, Goto(pc),
           pc \in {"idle", "create", "receipt", "undo", "run", "record"} \cup Stopping
    PROVE  cmd' \in Cmds /\ cmd'.pc = pc /\ cmd'.kind = cmd.kind /\ cmd'.unseen = cmd.unseen
BY DEF SInv, Typed, Cmds, Goto

\* A command that is at work has been counted.
LEMMA Busy ==
    ASSUME SInv, cmd.pc # "idle"
    PROVE  budget.commands > 0 /\ budget.commands \in 1..MaxCommands
BY DEF SInv, Typed

\* A command begins, whatever has just been started.
LEMMA BeginStep ==
    ASSUME SInv, Begin
    PROVE  SInv'
<1>1. /\ cmd = NoCommand /\ Count("commands", MaxCommands)
      /\ UNCHANGED <<files, proc, named, event>>
  BY DEF Begin
<1>2. PICK kind \in {"install", "uninstall", "upgrade"}, pc \in {"create", "run", "stop"} :
          cmd' = [NoCommand EXCEPT !.kind = kind, !.pc = pc, !.expected = selected]
  BY DEF Begin
<1>3. cmd' \in Cmds /\ cmd'.pc = pc
  BY <1>2 DEF NoCommand, Cmds, Stopping, SInv, Typed
<1>4. OnlyUnseenStart'
  BY <1>3, Elsewhere DEF Acting
<1>5. budget' \in Budgets /\ budget'.commands > 0
  BY <1>1, Counted
<1>6. /\ link' = link /\ sreceipt' = sreceipt /\ approval' = approval /\ selected' = selected
      /\ proc' = proc /\ named' = named /\ event' = event
  BY <1>1 DEF files
<1>7. /\ link' \in {None, "own", "edited"} /\ sreceipt' \in {None} \cup (0..MaxCommands)
      /\ selected' \in Version /\ event' \subseteq Pid
      /\ named' \in [{"launcher", "supervisor", "monitor"} -> Pid \cup {None}]
  BY <1>6 DEF SInv, Typed
<1> QED BY <1>3, <1>4, <1>5, <1>6, <1>7, CommandStep

\* The end of a command.
LEMMA FinishStep ==
    ASSUME SInv, Finish, proc' = proc,
           link' \in {None, "own", "edited"}, sreceipt' \in {None} \cup (0..MaxCommands),
           approval' = approval, selected' \in Version,
           named' \in [{"launcher", "supervisor", "monitor"} -> Pid \cup {None}], event' \subseteq Pid,
           budget' \in Budgets
    PROVE  SInv'
<1>1. cmd' \in Cmds /\ cmd'.pc = "idle"
  BY Idle DEF Finish
<1>2. OnlyUnseenStart'
  BY <1>1, Elsewhere DEF Acting
<1> QED BY <1>1, <1>2, CommandStep

\* A new installation writes shortcut and receipt.
LEMMA CreateStep ==
    ASSUME SInv, Create
    PROVE  SInv'
<1>1. /\ cmd.pc \in {"create", "receipt", "undo"}
      /\ UNCHANGED <<approval, selected, proc, named, event>>
  BY DEF Create
<1>2. /\ selected' \in Version /\ event' \subseteq Pid
      /\ named' \in [{"launcher", "supervisor", "monitor"} -> Pid \cup {None}]
  BY <1>1 DEF SInv, Typed
<1>3. budget.commands > 0 /\ budget.commands \in 1..MaxCommands /\ budget \in Budgets
  BY <1>1, Busy, Counted
<1>4. budget' \in Budgets /\ budget'.commands = budget.commands
  BY <1>3, Counted DEF Create
<1>5. link' \in {None, "own", "edited"} /\ sreceipt' \in {None} \cup (0..MaxCommands)
  BY <1>3 DEF Create, SInv, Typed
<1>6. CASE Finish
  BY <1>1, <1>2, <1>4, <1>5, <1>6, FinishStep
<1>7. CASE Goto("receipt") \/ Goto("run") \/ Goto("undo")
  <2>1. cmd' \in Cmds /\ cmd'.pc \in {"receipt", "run", "undo"}
    BY <1>7, GotoStep
  <2>2. OnlyUnseenStart'
    BY <2>1, Elsewhere DEF Acting
  <2> QED BY <1>1, <1>2, <1>3, <1>4, <1>5, <2>1, <2>2, CommandStep
<1> QED BY <1>6, <1>7 DEF Create

\* The monitor is started unless one is there.
LEMMA RunStep ==
    ASSUME SInv, Run
    PROVE  SInv'
<1>1. cmd.pc = "run" /\ UNCHANGED <<files, named, budget>>
  BY DEF Run
<1>2. /\ link' = link /\ sreceipt' = sreceipt /\ approval' = approval /\ selected' = selected
      /\ named' = named /\ budget' = budget
  BY <1>1 DEF files
<1>3. /\ link' \in {None, "own", "edited"} /\ sreceipt' \in {None} \cup (0..MaxCommands)
      /\ selected' \in Version /\ budget' \in Budgets /\ budget'.commands > 0
      /\ named' \in [{"launcher", "supervisor", "monitor"} -> Pid \cup {None}]
  BY <1>1, <1>2, Busy, Counted DEF SInv, Typed
<1>4. CASE Finish /\ UNCHANGED <<proc, event>>
  <2>1. event' \subseteq Pid
    BY <1>4 DEF SInv, Typed
  <2> QED BY <1>2, <1>3, <1>4, <2>1, FinishStep
<1>5. CASE /\ Free # {} /\ proc' = [proc EXCEPT ![NextPid] = NewProcess("launcher", None)]
           /\ event' = event \ {NextPid}
           /\ cmd' = [cmd EXCEPT !.pc = "record", !.target = NextPid]
  <2>1. NextPid \in Pid /\ NewProcess("launcher", None) \in Good
    BY <1>5, Fresh, Made
  <2>2. proc' \in [Pid -> Good] /\ event' \subseteq Pid
    BY <1>5, <2>1 DEF SInv, Typed
  <2>3. cmd' \in Cmds /\ cmd'.pc = "record"
    BY <1>5, <2>1 DEF SInv, Typed, Cmds
  <2>4. OnlyUnseenStart'
    BY <2>3, Elsewhere DEF Acting
  <2>5. Typed'
    BY <1>2, <1>3, <2>2, <2>3 DEF SInv, Typed, Budgets
  <2> QED BY <2>4, <2>5 DEF SInv
<1> QED BY <1>4, <1>5 DEF Run

\* The rest of a start, the signal of a stop and the waits that may give up.
LEMMA PassingStep ==
    ASSUME SInv, Record \/ Signal \/ Signalled
    PROVE  SInv'
<1>1. cmd.pc \in {"record", "stop", "signalled"} /\ UNCHANGED <<files, proc, budget>>
  BY DEF Record, Signal, Signalled
<1>2. /\ link' = link /\ sreceipt' = sreceipt /\ approval' = approval /\ selected' = selected
      /\ proc' = proc /\ budget' = budget
  BY <1>1 DEF files
<1>3. /\ link' \in {None, "own", "edited"} /\ sreceipt' \in {None} \cup (0..MaxCommands)
      /\ selected' \in Version /\ budget' \in Budgets /\ budget'.commands > 0
  BY <1>1, <1>2, Busy, Counted DEF SInv, Typed
<1>4. cmd \in Cmds /\ cmd.target \in Pid \cup {None}
  BY DEF SInv, Typed, Cmds
<1>5. CASE Record
  <2>1. /\ named' \in [{"launcher", "supervisor", "monitor"} -> Pid \cup {None}] /\ event' \subseteq Pid
        /\ Finish
    BY <1>4, <1>5 DEF Record, Names, SInv, Typed
  <2> QED BY <1>2, <1>3, <2>1, FinishStep
<1>6. CASE Signal
  <2> DEFINE t == IF Alive(named.supervisor) THEN named.supervisor ELSE named.monitor
  <2>1. t \in Pid \cup {None}
    BY DEF SInv, Typed
  <2> HIDE DEF t
  <2>2. \/ /\ t \in Pid /\ event' = event \cup {t}
           /\ cmd' = [cmd EXCEPT !.pc = "signalled", !.target = t]
        \/ event' = event /\ cmd' = [cmd EXCEPT !.pc = "signalled"]
    BY <1>6, <2>1 DEF Signal, Alive, Goto, t
  <2>3. cmd' \in Cmds /\ cmd'.pc = "signalled" /\ event' \subseteq Pid
    BY <1>4, <2>2 DEF Cmds, Stopping, SInv, Typed
  <2>4. named' = named
    BY <1>6 DEF Signal
  <2>5. named' \in [{"launcher", "supervisor", "monitor"} -> Pid \cup {None}]
    BY <2>4 DEF SInv, Typed
  <2>6. OnlyUnseenStart'
    BY <2>3, Elsewhere DEF Acting
  <2> QED BY <1>2, <1>3, <2>3, <2>5, <2>6, CommandStep
<1>7. CASE Signalled
  <2>1. /\ event' \subseteq Pid
        /\ named' \in [{"launcher", "supervisor", "monitor"} -> Pid \cup {None}]
    BY <1>7 DEF Signalled, SInv, Typed
  <2>2. CASE Finish
    BY <1>2, <1>3, <2>1, <2>2, FinishStep
  <2>3. CASE cmd' = [cmd EXCEPT !.pc = "wait", !.target = None]
    <3>1. cmd' \in Cmds /\ cmd'.pc = "wait"
      BY <1>4, <2>3 DEF Cmds, Stopping
    <3>2. OnlyUnseenStart'
      BY <3>1, Elsewhere DEF Acting
    <3> QED BY <1>2, <1>3, <2>1, <3>1, <3>2, CommandStep
  <2> QED BY <1>7, <2>2, <2>3 DEF Signalled
<1> QED BY <1>5, <1>6, <1>7

\* With both locks free, what is past its start is a launcher that waits.
LEMMA LocksTell ==
    ASSUME SInv, LocksIdle, NEW i \in Pid \ Starting, Active(proc[i])
    PROVE  proc[i].role = "launcher" /\ proc[i].pc = "wait"
<1>1. proc[i] \in Good /\ proc[i].pc # "start"
  BY DEF SInv, Typed, Starting
<1>2. /\ ~Is(i, "supervisor", {"locked", "check", "go", "run", "delay", "ending"})
      /\ ~Is(i, "worker", {"locked", "watch", "ending"})
  BY DEF LocksIdle, SupervisorLock, WriterLock
<1>3. CASE proc[i].role = "supervisor"
  <2>1. proc[i].pc \in {"locked", "check", "go", "run", "delay", "ending"}
    BY <1>1, <1>3 DEF Good, Sane, Active
  <2> QED BY <1>2, <1>3, <2>1 DEF Is
<1>4. CASE proc[i].role = "worker"
  <2>1. proc[i].pc \in {"locked", "watch", "ending"}
    BY <1>1, <1>4 DEF Good, Sane, Active
  <2> QED BY <1>2, <1>4, <2>1 DEF Is
<1>5. CASE proc[i].role \notin {"supervisor", "worker"}
  BY <1>1, <1>5 DEF Good, Sane, Active
<1> QED BY <1>3, <1>4, <1>5

\* The stop reports success when both locks are free; then versions are exchanged
\* or the files are removed.
LEMMA StoppedStep ==
    ASSUME SInv, Wait \/ Select \/ Delete
    PROVE  SInv'
<1>1. /\ cmd.pc \in Stopping /\ cmd.pc # "idle"
      /\ UNCHANGED <<approval, proc, named, event, budget>>
  BY DEF Wait, Select, Delete, Stopping, files
<1>2. /\ link' \in {None, "own", "edited"} /\ sreceipt' \in {None} \cup (0..MaxCommands)
      /\ selected' \in Version
  BY DEF Wait, Select, Delete, files, SInv, Typed
<1>3. /\ event' \subseteq Pid /\ budget' \in Budgets /\ budget'.commands > 0
      /\ named' \in [{"launcher", "supervisor", "monitor"} -> Pid \cup {None}]
  BY <1>1, Busy, Counted DEF SInv, Typed
<1>4. CASE Finish
  BY <1>1, <1>2, <1>3, <1>4, FinishStep
<1>5. CASE Wait /\ ~Finish
  <2>1. PICK pc \in {"select", "delete link"} : cmd' = [cmd EXCEPT !.pc = pc, !.unseen = Starting]
    BY <1>5 DEF Wait
  <2>2. cmd' \in Cmds /\ cmd'.unseen = Starting /\ LocksIdle
    BY <1>5, <2>1 DEF Wait, SInv, Typed, Cmds, Stopping, Starting
  <2>3. OnlyUnseenStart'
    <3> SUFFICES ASSUME NEW i \in Pid \ Starting, Active(proc[i])
                 PROVE  proc[i].role = "launcher" /\ proc[i].pc = "wait"
      BY <1>1, <2>2 DEF OnlyUnseenStart
    <3> QED BY <2>2, LocksTell
  <2> QED BY <1>1, <1>2, <1>3, <2>2, <2>3, CommandStep
<1>6. CASE Select
  <2>1. cmd' \in Cmds /\ cmd'.pc = "run"
    BY <1>6 DEF Select, SInv, Typed, Cmds
  <2>2. OnlyUnseenStart'
    BY <2>1, Elsewhere DEF Acting
  <2> QED BY <1>1, <1>2, <1>3, <2>1, <2>2, CommandStep
<1>7. CASE Delete /\ ~Finish
  <2>1. Goto("delete receipt") /\ cmd.pc = "delete link"
    BY <1>7 DEF Delete
  <2>2. cmd' \in Cmds /\ cmd'.unseen = cmd.unseen
    BY <2>1, GotoStep DEF Stopping
  <2>3. OnlyUnseenStart'
    BY <1>1, <2>1, <2>2, Still DEF Acting
  <2> QED BY <1>1, <1>2, <1>3, <2>2, <2>3, CommandStep
<1> QED BY <1>4, <1>5, <1>6, <1>7

\* A killed command.
LEMMA KillCommandStep ==
    ASSUME SInv, KillCommand
    PROVE  SInv'
<1>1. Count("kills", MaxKills) /\ Finish /\ UNCHANGED <<files, proc, named, event>>
  BY DEF KillCommand
<1>2. budget' \in Budgets
  BY <1>1, Counted
<1>3. /\ link' = link /\ sreceipt' = sreceipt /\ approval' = approval /\ selected' = selected
      /\ proc' = proc /\ named' = named /\ event' = event
  BY <1>1 DEF files
<1>4. /\ link' \in {None, "own", "edited"} /\ sreceipt' \in {None} \cup (0..MaxCommands)
      /\ selected' \in Version /\ event' \subseteq Pid
      /\ named' \in [{"launcher", "supervisor", "monitor"} -> Pid \cup {None}]
  BY <1>3 DEF SInv, Typed
<1> QED BY <1>1, <1>2, <1>3, <1>4, FinishStep

-----------------------------------------------------------------------------
(* Theorems. *)

\* At first there is nothing.
LEMMA InitHolds == Init => SInv
<1> SUFFICES ASSUME Init PROVE SInv
  OBVIOUS
<1>1. selected \in Version
  BY DEF Init
<1>2. proc \in [Pid -> Good] /\ cmd \in Cmds /\ cmd.pc = "idle"
  BY Made, Idle DEF Init
<1>3. Typed
  BY <1>1, <1>2 DEF Init, Typed
<1>4. OnlyUnseenStart
  BY <1>2 DEF OnlyUnseenStart, Acting
<1> QED BY <1>3, <1>4 DEF SInv

\* Every step.
LEMMA NextHolds ==
    ASSUME SInv, [Next]_vars
    PROVE  SInv'
<1>1. CASE UNCHANGED vars
  <2>1. /\ link' = link /\ sreceipt' = sreceipt /\ approval' = approval /\ selected' = selected
        /\ proc' = proc /\ named' = named /\ event' = event /\ cmd' = cmd /\ budget' = budget
    BY <1>1 DEF vars, files
  <2>2. Typed'
    BY <2>1 DEF SInv, Typed
  <2>3. OnlyUnseenStart'
    BY <2>1, Still DEF Acting
  <2> QED BY <2>2, <2>3 DEF SInv
<1>2. CASE Manage
  BY <1>2, CreateStep, RunStep, PassingStep, StoppedStep DEF Manage
<1>3. CASE Next
  BY <1>2, <1>3, BeginStep, LogonStep, LogoffStep, KillCommandStep, UserStep, ProcessesKeep, CrashStep,
     KillProcessStep DEF Next
<1> QED BY <1>1, <1>3

\* The inductive invariant.
THEOREM StartupInvariant == Spec => []SInv
<1>1. SInv /\ [Next]_vars => SInv'
  BY NextHolds
<1> QED BY <1>1, InitHolds, PTL DEF Spec

\* Files, processes, receipts and the command keep their types.
THEOREM TypeCorrect == Spec => []TypeOK
<1>1. SInv => TypeOK
  <2> SUFFICES ASSUME Typed PROVE TypeOK
    BY DEF SInv
  <2>1. ASSUME NEW i \in Pid
        PROVE  /\ proc[i].role \in {None, "launcher", "supervisor", "worker"}
               /\ proc[i].child \in Pid \cup {None} /\ proc[i].tries \in 0..Retries
               /\ proc[i].role = "worker" => proc[i].pc \notin {"check", "run", "delay"}
    <3>1. proc[i] \in Good
      BY DEF Typed
    <3> QED BY <3>1 DEF Good, Processes, Sane
  <2>2. \A r \in DOMAIN named : named[r] \in Pid \cup {None}
    BY DEF Typed
  <2>3. cmd.target \in Pid \cup {None} /\ cmd.unseen \subseteq Pid
    BY DEF Typed, Cmds
  <2> QED BY <2>1, <2>2, <2>3 DEF Typed, TypeOK
<1> QED BY <1>1, StartupInvariant, PTL

\* When a stop has reported success, every supervisor and worker there is escaped it:
\* it had been started without a lock yet, or by such a process, or came with a new
\* session.  What had crashed, waited for its next attempt or lost its parent is gone
\* (windowsStartupLocksIdle, waitWindowsStartupStopped).
THEOREM StopStopsWhatRan == Spec => []StoppedUnlessUnseen
<1>1. SInv => StoppedUnlessUnseen
  BY DEF SInv, OnlyUnseenStart, StoppedUnlessUnseen, Monitoring, Alive, Active
<1> QED BY <1>1, StartupInvariant, PTL

=============================================================================
