-------------------------- MODULE HookInboxProofs --------------------------
(***************************************************************************)
(* Theorems of the hook inbox, for every set of hooks and records, every    *)
(* capacity and every bound: type correctness with the bound on leftovers,  *)
(* the gap marker of refusals, durability of published records, and the     *)
(* implementation of module Inbox.                                          *)
(***************************************************************************)
EXTENDS HookInbox, FiniteSetTheorems, TLAPS

USE InboxAssumption
-----------------------------------------------------------------------------
(* The inductive invariant. *)

\* The parts of TypeOK but for the bound on leftovers; a hook that is busy has a
\* record and a number.
DirType == dir \subseteq Entry /\ synced \subseteq Entry /\ IsFiniteSet(dir) /\ IsFiniteSet(synced)
Types ==
    /\ DirType
    /\ holder \in Hook \cup {None, "monitor"}
    /\ hook \in [Hook -> [pc : HookPC, rec : Record \cup {None}, nonce : 0..MaxSubmits]]
    /\ \A p \in Hook : hook[p].pc # "out" => hook[p].rec \in Record /\ hook[p].nonce \in 1..MaxSubmits
    /\ monitor \in [pc : {"idle", "save", "ack", "remove"}, batch : SUBSET Record]
    /\ recorded \subseteq Record /\ accepted \subseteq Record /\ written \subseteq accepted
    /\ refused \subseteq Record /\ blind \subseteq Record
    /\ budget \in [submits : 0..MaxSubmits, faults : 0..MaxFaults, kills : 0..MaxKills,
                   outages : 0..MaxOutages]

\* Where a hook, and the monitor, work under the lock.
Held == {"key", "keyrename", "keysync", "check", "temp", "rename", "sync"}
Exclusive ==
    /\ \A p \in Hook : hook[p].pc \in Held => holder = p
    /\ monitor.pc = "remove" => holder = "monitor"

\* Nothing is younger than this power cycle, and a record named by its key is
\* not older than the key.
Generations ==
    /\ \A g \in Generation : <<"key", g>> \in dir \cup synced => g <= budget.outages + 1
    /\ \A r \in Record, g \in Generation :
          <<"rec", r, g>> \in dir \cup synced => g <= budget.outages + 1
    /\ \A r \in Record, g \in Generation :
          <<"rec", r, g>> \in dir => g <= budget.outages \/ KeyIs(g)

HasKey == \E g \in Generation : KeyIs(g)
KeyKnown ==
    /\ \A p \in Hook : hook[p].pc \in {"keysync", "check", "temp", "rename", "sync"} => HasKey
    /\ \A p \in Hook : hook[p].pc = "keyrename" => ~HasKey

\* A writer at its sync has published; a batch is there until it is recorded.
Visible ==
    /\ \A p \in Hook : hook[p].pc = "sync" => hook[p].rec \in Readable
    /\ monitor.pc = "save" => monitor.batch \subseteq Readable
    /\ monitor.pc \in {"ack", "remove"} => monitor.batch \subseteq recorded

\* A published record and its key are in both versions of the directory.
Kept == dir \cap synced
Durable ==
    \A r \in written \ recorded : \E g \in Generation : <<"key", g>> \in Kept /\ <<"rec", r, g>> \in Kept

\* Who is about to refuse has seen to the marker.
Marked ==
    /\ RefusalIsMarked
    /\ \A p \in Hook : hook[p].pc \in {"marksync", "refuse"} =>
          hook[p].rec \in blind \/ <<"gap">> \in dir \/ budget.outages > 0

\* Entries that count against the capacity: at most one more than killed writers
\* left while there is no key, and never more than the capacity or the kills.
Filled == dir \ Control
Most(n) == IF n > Capacity THEN n ELSE Capacity
Room ==
    /\ \A p \in Hook : hook[p].pc \in {"keyrename", "rename"} => Temp(p) \in dir
    /\ \A p \in Hook : hook[p].pc = "temp" => Cardinality(Filled) < Capacity
    /\ budget.outages = 0 /\ HasKey => Cardinality(Filled) <= Most(budget.kills)
    /\ budget.outages = 0 /\ ~HasKey =>
          Cardinality(Filled) <= budget.kills + IF \E p \in Hook : hook[p].pc = "keyrename" THEN 1 ELSE 0

IInv == Types /\ Exclusive /\ Generations /\ KeyKnown /\ Visible /\ Durable /\ Marked /\ Room

-----------------------------------------------------------------------------
(* Types. *)

\* What a hook is made of.
HookType(h) == h \in [Hook -> [pc : HookPC, rec : Record \cup {None}, nonce : 0..MaxSubmits]]
Busy(h) == \A p \in Hook : h[p].pc # "out" => h[p].rec \in Record /\ h[p].nonce \in 1..MaxSubmits

\* A hook that goes on keeps its record and its number.
LEMMA GotoMoves ==
    ASSUME Types, NEW p \in Hook, NEW pc \in HookPC, Goto(p, pc), hook[p].pc # "out"
    PROVE  /\ HookType(hook') /\ Busy(hook')
           /\ hook'[p].pc = pc /\ hook'[p].rec = hook[p].rec /\ hook'[p].nonce = hook[p].nonce
           /\ \A q \in Hook \ {p} : hook'[q] = hook[q]
BY DEF Types, Goto, HookType, Busy

\* A hook that ends keeps nothing.
LEMMA OutMoves ==
    ASSUME Types, NEW p \in Hook, hook' = [hook EXCEPT ![p] = Out]
    PROVE  /\ HookType(hook') /\ Busy(hook')
           /\ hook'[p] = Out /\ hook'[p].pc = "out"
           /\ \A q \in Hook \ {p} : hook'[q] = hook[q]
BY DEF Types, Out, HookType, Busy, HookPC

\* Counting a step keeps the type of the budget and moves one count.
LEMMA CountMoves ==
    ASSUME Types, NEW what \in {"submits", "faults", "kills", "outages"}, NEW bound,
           bound = CASE what = "submits" -> MaxSubmits [] what = "faults" -> MaxFaults
                     [] what = "kills" -> MaxKills [] OTHER -> MaxOutages,
           Count(what, bound)
    PROVE  /\ budget' \in [submits : 0..MaxSubmits, faults : 0..MaxFaults, kills : 0..MaxKills,
                           outages : 0..MaxOutages]
           /\ budget'[what] = budget[what] + 1
           /\ \A w \in {"submits", "faults", "kills", "outages"} \ {what} : budget'[w] = budget[w]
BY DEF Types, Count

\* The temporary file of a busy hook is an entry of its own.
LEMMA TempIsEntry ==
    ASSUME Types, NEW p \in Hook, hook[p].pc # "out"
    PROVE  /\ Temp(p) \in Entry /\ Temp(p) # <<"gap">>
           /\ \A g \in Generation : Temp(p) # <<"key", g>>
           /\ \A r \in Record, g \in Generation : Temp(p) # <<"rec", r, g>>
BY DEF Types, Temp, Entry

\* What the steps of a submission do to the directory.
LEMMA SubmissionDir ==
    ASSUME Types, NEW p \in Hook, Submission(p)
    PROVE  /\ \/ dir' = dir
              \/ hook[p].pc \in {"key", "temp"} /\ dir' = dir \cup {Temp(p)}
              \/ hook[p].pc = "keyrename" /\ dir' = (dir \ {Temp(p)}) \cup {<<"key", budget.outages + 1>>}
              \/ /\ hook[p].pc = "rename"
                 /\ \E g \in Generation :
                       KeyIs(g) /\ dir' = (dir \ {Temp(p)}) \cup {<<"rec", hook[p].rec, g>>}
              \/ hook[p].pc \in Held /\ dir' = dir \ {Temp(p)}
              \/ dir' = dir \cup {<<"gap">>}
           /\ synced' = synced \/ (synced' = dir /\ dir' = dir)
           /\ monitor' = monitor /\ recorded' = recorded
           /\ budget'.outages = budget.outages
<1>1. budget'.outages = budget.outages
  BY DEF Types, Submission, Begin, OpenFails, Invalid, Lock, LockTimesOut, FindKey, RenameKey,
         SyncKey, Duplicate, CheckRoom, WriteTemp, Publish, Succeed, WriteFails, MarkGap, SyncGap,
         MarkFails, Refuse, Kill, Fails, Count
<1>2. monitor' = monitor /\ recorded' = recorded
  BY DEF Submission, Begin, OpenFails, Invalid, Lock, LockTimesOut, FindKey, RenameKey,
         SyncKey, Duplicate, CheckRoom, WriteTemp, Publish, Succeed, WriteFails, MarkGap, SyncGap,
         MarkFails, Refuse, Kill, history
<1>3. synced' = synced \/ (synced' = dir /\ dir' = dir)
  BY DEF Submission, Begin, OpenFails, Invalid, Lock, LockTimesOut, FindKey, RenameKey,
         SyncKey, Duplicate, CheckRoom, WriteTemp, Publish, Succeed, WriteFails, MarkGap, SyncGap,
         MarkFails, Refuse, Kill, history
<1>4. \/ dir' = dir
      \/ hook[p].pc \in {"key", "temp"} /\ dir' = dir \cup {Temp(p)}
      \/ hook[p].pc = "keyrename" /\ dir' = (dir \ {Temp(p)}) \cup {<<"key", budget.outages + 1>>}
      \/ /\ hook[p].pc = "rename"
         /\ \E g \in Generation :
               KeyIs(g) /\ dir' = (dir \ {Temp(p)}) \cup {<<"rec", hook[p].rec, g>>}
      \/ hook[p].pc \in Held /\ dir' = dir \ {Temp(p)}
      \/ dir' = dir \cup {<<"gap">>}
  BY DEF Submission, Begin, OpenFails, Invalid, Lock, LockTimesOut, FindKey, RenameKey,
         SyncKey, Duplicate, CheckRoom, WriteTemp, Publish, Succeed, WriteFails, MarkGap, SyncGap,
         MarkFails, Refuse, Kill, At, Held
<1> QED BY <1>1, <1>2, <1>3, <1>4

\* A submission begins with a record, goes on with it, or ends and frees the
\* lock.  Only the lock brings a hook to work under it.
Begins(p) ==
    /\ hook[p].pc = "out" /\ hook'[p].pc = "lock" /\ holder' = holder
GoesOn(p) ==
    /\ hook[p].pc # "out" /\ hook'[p].pc # "out"
    /\ hook'[p].rec = hook[p].rec /\ hook'[p].nonce = hook[p].nonce
    /\ \/ holder' = holder /\ (hook'[p].pc \in Held => hook[p].pc \in Held)
       \/ hook[p].pc = "lock" /\ hook'[p].pc = "key" /\ holder = None /\ holder' = p
Ends(p) ==
    /\ hook[p].pc # "out" /\ hook'[p].pc = "out"
    /\ holder' = holder \/ (holder = p /\ holder' = None)

\* Every step of a submission is one of these, for its own process.
LEMMA SubmissionHook ==
    ASSUME Types, NEW p \in Hook, Submission(p)
    PROVE  /\ HookType(hook') /\ Busy(hook')
           /\ \A q \in Hook \ {p} : hook'[q] = hook[q]
           /\ Begins(p) \/ GoesOn(p) \/ Ends(p)
<1> DEFINE Goal == /\ HookType(hook') /\ Busy(hook')
                   /\ \A q \in Hook \ {p} : hook'[q] = hook[q]
                   /\ Begins(p) \/ GoesOn(p) \/ Ends(p)
<1>1. CASE \E r \in Record : Begin(p, r)
  <2> PICK r \in Record : Begin(p, r)
    BY <1>1
  <2>1. budget' \in [submits : 0..MaxSubmits, faults : 0..MaxFaults, kills : 0..MaxKills,
                     outages : 0..MaxOutages]
        /\ budget'.submits \in 1..MaxSubmits
    BY DEF Begin, Count, Types
  <2>2. hook' = [hook EXCEPT ![p] = [pc |-> "lock", rec |-> r, nonce |-> budget'.submits]]
        /\ hook[p].pc = "out" /\ holder' = holder
    BY DEF Begin, At
  <2> QED BY <2>1, <2>2 DEF Types, HookType, Busy, Begins, HookPC
<1>2. CASE OpenFails(p) \/ Duplicate(p) \/ Succeed(p) \/ Refuse(p) \/ Kill(p)
  <2>1. hook' = [hook EXCEPT ![p] = Out] /\ hook[p].pc # "out"
    BY <1>2 DEF OpenFails, Duplicate, Succeed, Refuse, Kill, At
  <2>2. holder' = holder \/ (holder = p /\ holder' = None)
    BY <1>2 DEF OpenFails, Duplicate, Succeed, Refuse, Kill, Release
  <2> QED BY <2>1, <2>2, OutMoves DEF Ends
<1>3. CASE Lock(p)
  <2>1. Goto(p, "key") /\ hook[p].pc = "lock" /\ holder = None /\ holder' = p
    BY <1>3 DEF Lock, At
  <2> QED BY <2>1, GotoMoves DEF GoesOn, HookPC
<1>4. ASSUME NEW pc \in HookPC \ {"out"}, Goto(p, pc), holder' = holder, hook[p].pc # "out",
             pc \in Held => hook[p].pc \in Held
      PROVE  Goal
  BY <1>4, GotoMoves DEF GoesOn
<1>5. CASE Invalid(p) \/ LockTimesOut(p) \/ FindKey(p) \/ RenameKey(p) \/ SyncKey(p) \/ CheckRoom(p)
  <2>1. \E pc \in {"mark", "check", "keyrename", "keysync", "temp"} :
           Goto(p, pc) /\ (pc \in Held => hook[p].pc \in Held)
    BY <1>5 DEF Invalid, LockTimesOut, FindKey, RenameKey, SyncKey, CheckRoom, At, Held
  <2>2. holder' = holder /\ hook[p].pc # "out"
    BY <1>5 DEF Invalid, LockTimesOut, FindKey, RenameKey, SyncKey, CheckRoom, At
  <2> QED BY <2>1, <2>2, <1>4 DEF HookPC
<1>6. CASE WriteTemp(p) \/ Publish(p) \/ WriteFails(p) \/ MarkGap(p) \/ SyncGap(p) \/ MarkFails(p)
  <2>1. \E pc \in {"rename", "sync", "mark", "refuse", "marksync"} :
           Goto(p, pc) /\ (pc \in Held => hook[p].pc \in Held)
    BY <1>6 DEF WriteTemp, Publish, WriteFails, MarkGap, SyncGap, MarkFails, At, Held
  <2>2. holder' = holder /\ hook[p].pc # "out"
    BY <1>6 DEF WriteTemp, Publish, WriteFails, MarkGap, SyncGap, MarkFails, At
  <2> QED BY <2>1, <2>2, <1>4 DEF HookPC
<1> QED BY <1>1, <1>2, <1>3, <1>5, <1>6 DEF Submission

\* The histories of a submission: records of busy hooks.
LEMMA SubmissionHistory ==
    ASSUME Types, NEW p \in Hook, Submission(p)
    PROVE  /\ accepted' \subseteq Record /\ written' \subseteq accepted'
           /\ refused' \subseteq Record /\ blind' \subseteq Record
           /\ written \subseteq written' /\ refused \subseteq refused' /\ blind \subseteq blind'
           /\ written' # written => /\ hook[p].pc = "sync" /\ written' = written \cup {hook[p].rec}
                                    /\ synced' = dir /\ dir' = dir
           /\ refused' \subseteq refused \cup blind'
              \/ (hook[p].pc = "refuse" /\ refused' = refused \cup {hook[p].rec})
<1>1. hook[p].pc # "out" => hook[p].rec \in Record
  BY DEF Types
<1>2. CASE \E r \in Record : Begin(p, r)
  BY <1>2 DEF Begin, history, Types
<1>3. CASE OpenFails(p)
  BY <1>1, <1>3 DEF OpenFails, At, Types
<1>4. CASE Duplicate(p) \/ Succeed(p)
  BY <1>1, <1>4 DEF Duplicate, Succeed, At, Types
<1>5. CASE Refuse(p) \/ MarkFails(p)
  BY <1>1, <1>5 DEF Refuse, MarkFails, At, Types
<1>6. CASE Invalid(p) \/ Lock(p) \/ LockTimesOut(p) \/ FindKey(p) \/ RenameKey(p) \/ SyncKey(p)
           \/ CheckRoom(p) \/ WriteTemp(p) \/ Publish(p) \/ WriteFails(p) \/ MarkGap(p) \/ SyncGap(p)
           \/ Kill(p)
  <2>1. UNCHANGED history
    BY <1>6 DEF Invalid, Lock, LockTimesOut, FindKey, RenameKey, SyncKey, CheckRoom, WriteTemp,
           Publish, WriteFails, MarkGap, SyncGap, Kill
  <2> QED BY <2>1 DEF history, Types
<1> QED BY <1>2, <1>3, <1>4, <1>5, <1>6 DEF Submission

\* The budget keeps its type, and of its counts only kills matter here.
LEMMA SubmissionBudget ==
    ASSUME Types, NEW p \in Hook, Submission(p)
    PROVE  /\ budget' \in [submits : 0..MaxSubmits, faults : 0..MaxFaults, kills : 0..MaxKills,
                           outages : 0..MaxOutages]
           /\ \/ budget'.kills = budget.kills + 1 /\ dir' = dir /\ hook'[p].pc = "out"
              \/ budget'.kills = budget.kills
<1>1. CASE \E r \in Record : Begin(p, r)
  BY <1>1 DEF Begin, Count, Types
<1>2. CASE Kill(p)
  <2>1. hook'[p].pc = "out" /\ dir' = dir
    BY <1>2, OutMoves DEF Kill
  <2> QED BY <1>2, <2>1 DEF Kill, Count, Types
<1>3. CASE OpenFails(p) \/ WriteFails(p) \/ MarkFails(p)
  BY <1>3 DEF OpenFails, WriteFails, MarkFails, Fails, Count, Types
<1>4. CASE Invalid(p) \/ Lock(p) \/ LockTimesOut(p) \/ FindKey(p) \/ RenameKey(p) \/ SyncKey(p)
           \/ Duplicate(p) \/ CheckRoom(p) \/ WriteTemp(p) \/ Publish(p) \/ Succeed(p) \/ MarkGap(p)
           \/ SyncGap(p) \/ Refuse(p)
  <2>1. UNCHANGED budget
    BY <1>4 DEF Invalid, Lock, LockTimesOut, FindKey, RenameKey, SyncKey, Duplicate, CheckRoom,
           WriteTemp, Publish, Succeed, MarkGap, SyncGap, Refuse
  <2> QED BY <2>1 DEF Types
<1> QED BY <1>1, <1>2, <1>3, <1>4 DEF Submission

\* The phases of the monitor, with what each does to the lock and the records.
Rests ==
    /\ monitor'.pc = "idle" /\ monitor'.batch = {} /\ recorded' = recorded
    /\ holder' = holder \/ (holder' = None /\ (holder = "monitor" \/ monitor.pc = "remove"))
Reads ==
    /\ monitor'.pc = "save" /\ monitor'.batch \subseteq Readable
    /\ recorded' = recorded /\ holder' = holder /\ dir' = dir
Saves ==
    /\ monitor.pc = "save" /\ monitor'.pc = "ack" /\ monitor'.batch = monitor.batch
    /\ recorded' = recorded \cup monitor.batch /\ holder' = holder /\ dir' = dir
Removes ==
    /\ monitor.pc \in {"ack", "remove"} /\ monitor'.pc = "remove"
    /\ monitor'.batch \subseteq monitor.batch /\ recorded' = recorded
    /\ (monitor.pc = "ack" /\ holder = None /\ holder' = "monitor")
       \/ (monitor.pc = "remove" /\ holder' = holder)

\* The monitor moves neither hooks nor their histories, frees only its own lock
\* and takes out of the directory only records of its batch.
LEMMA MonitorStep ==
    ASSUME Types, Consumption
    PROVE  /\ UNCHANGED <<hook, accepted, written, refused, blind>>
           /\ monitor' \in [pc : {"idle", "save", "ack", "remove"}, batch : SUBSET Record]
           /\ Rests \/ Reads \/ Saves \/ Removes
           /\ dir' = dir \/ (/\ monitor.pc = "remove" /\ synced' = synced
                             /\ \E r \in monitor.batch :
                                   r \in Readable /\ dir' = dir \ ({"rec"} \X {r} \X Generation))
           /\ synced' = synced \/ (synced' = dir /\ dir' = dir)
           /\ budget' \in [submits : 0..MaxSubmits, faults : 0..MaxFaults, kills : 0..MaxKills,
                           outages : 0..MaxOutages]
           /\ budget'.outages = budget.outages /\ budget'.kills \in {budget.kills, budget.kills + 1}
<1>1. UNCHANGED <<hook, accepted, written, refused, blind>>
  BY DEF Consumption, Read, Save, LockAck, Remove, FinishAck, AckFails, CrashMonitor, history
<1>2. /\ budget' \in [submits : 0..MaxSubmits, faults : 0..MaxFaults, kills : 0..MaxKills,
                      outages : 0..MaxOutages]
      /\ budget'.outages = budget.outages /\ budget'.kills \in {budget.kills, budget.kills + 1}
  <2>1. CASE Fails("ack") \/ Count("kills", MaxKills)
    BY <2>1 DEF Fails, Count, Types
  <2>2. CASE UNCHANGED budget
    BY <2>2 DEF Types
  <2> QED BY <2>1, <2>2 DEF Consumption, Read, Save, LockAck, Remove, FinishAck, AckFails, CrashMonitor
<1>3. /\ dir' = dir \/ (/\ monitor.pc = "remove" /\ synced' = synced
                        /\ \E r \in monitor.batch :
                              r \in Readable /\ dir' = dir \ ({"rec"} \X {r} \X Generation))
      /\ synced' = synced \/ (synced' = dir /\ dir' = dir)
  BY DEF Consumption, Read, Save, LockAck, Remove, FinishAck, AckFails, CrashMonitor
<1>4. CASE Read
  <2>1. PICK S \in SUBSET Readable : monitor' = [pc |-> "save", batch |-> S]
    BY <1>4 DEF Read
  <2>2. Readable \subseteq Record
    BY DEF Readable
  <2>3. Reads
    BY <1>4, <2>1 DEF Read, Reads
  <2> QED BY <1>1, <1>2, <1>3, <2>1, <2>2, <2>3
<1>5. CASE Save
  BY <1>1, <1>2, <1>3, <1>5 DEF Save, Saves, Types
<1>6. CASE LockAck \/ Remove
  BY <1>1, <1>2, <1>3, <1>6 DEF LockAck, Remove, Removes, Types
<1>7. CASE FinishAck \/ AckFails \/ CrashMonitor
  <2>1. /\ monitor' = Resting /\ recorded' = recorded
        /\ holder' = holder \/ (holder' = None /\ (holder = "monitor" \/ monitor.pc = "remove"))
    BY <1>7 DEF FinishAck, AckFails, CrashMonitor, Release
  <2>2. monitor' \in [pc : {"idle", "save", "ack", "remove"}, batch : SUBSET Record]
    BY <2>1 DEF Resting
  <2>3. Rests
    BY <2>1 DEF Rests, Resting
  <2> QED BY <1>1, <1>2, <1>3, <2>2, <2>3
<1> QED BY <1>4, <1>5, <1>6, <1>7 DEF Consumption

\* A power loss: every actor is gone and a version of the directory is left that
\* has what both versions had.
LEMMA OutageStep ==
    ASSUME Types, Outage
    PROVE  /\ dir' \subseteq dir \cup synced /\ Kept \subseteq dir' /\ synced' = dir'
           /\ HookType(hook') /\ \A p \in Hook : hook'[p].pc = "out"
           /\ monitor' = Resting /\ holder' = None
           /\ UNCHANGED <<recorded, accepted, written, refused, blind>>
           /\ budget' \in [submits : 0..MaxSubmits, faults : 0..MaxFaults, kills : 0..MaxKills,
                           outages : 0..MaxOutages]
           /\ budget'.outages = budget.outages + 1 /\ budget.outages \in Nat
<1>1. dir' \subseteq dir \cup synced /\ Kept \subseteq dir' /\ synced' = dir'
      /\ monitor' = Resting /\ holder' = None /\ UNCHANGED <<recorded, history>>
  BY DEF Outage, Kept
<1>2. HookType(hook') /\ \A p \in Hook : hook'[p].pc = "out"
  BY DEF Outage, HookType, Out, HookPC
<1>3. /\ budget' \in [submits : 0..MaxSubmits, faults : 0..MaxFaults, kills : 0..MaxKills,
                      outages : 0..MaxOutages]
      /\ budget'.outages = budget.outages + 1 /\ budget.outages \in Nat
  BY DEF Outage, Count, Types
<1> QED BY <1>1, <1>2, <1>3 DEF history

\* The directory stays finite and made of entries.
LEMMA DirTyped == Types /\ [Next]_vars => DirType'
<1> SUFFICES ASSUME Types, [Next]_vars PROVE DirType'
  OBVIOUS
<1>1. DirType
  BY DEF Types
<1>2. ASSUME NEW p \in Hook, Submission(p) PROVE DirType'
  <2>1. ASSUME NEW e \in Entry, NEW d \in SUBSET dir, dir' = d \cup {e}, synced' = synced
        PROVE  DirType'
    <3>1. IsFiniteSet(d) /\ IsFiniteSet(d \cup {e})
      BY <1>1, FS_Subset, FS_AddElement DEF DirType
    <3> QED BY <1>1, <2>1, <3>1 DEF DirType
  <2>2. ASSUME dir' \subseteq dir, synced' = synced \/ synced' = dir
        PROVE  DirType'
    BY <1>1, <2>2, FS_Subset DEF DirType
  <2>3. CASE dir' = dir \cup {Temp(p)} /\ hook[p].pc \in {"key", "temp"}
    BY <1>2, <2>1, <2>2, <2>3, SubmissionDir, TempIsEntry
  <2>4. CASE hook[p].pc = "keyrename" /\ dir' = (dir \ {Temp(p)}) \cup {<<"key", budget.outages + 1>>}
    <3>1. <<"key", budget.outages + 1>> \in Entry
      BY DEF Types, Entry, Generation
    <3> QED BY <1>2, <2>1, <2>2, <2>4, <3>1, SubmissionDir
  <2>5. CASE /\ hook[p].pc = "rename"
             /\ \E g \in Generation :
                   KeyIs(g) /\ dir' = (dir \ {Temp(p)}) \cup {<<"rec", hook[p].rec, g>>}
    <3>1. PICK g \in Generation : dir' = (dir \ {Temp(p)}) \cup {<<"rec", hook[p].rec, g>>}
      BY <2>5
    <3>2. <<"rec", hook[p].rec, g>> \in Entry
      BY <2>5 DEF Types, Entry
    <3> QED BY <1>2, <2>1, <2>2, <3>1, <3>2, SubmissionDir
  <2>6. CASE dir' = dir \cup {<<"gap">>}
    <3>1. <<"gap">> \in Entry
      BY DEF Entry
    <3> QED BY <1>2, <2>1, <2>2, <2>6, <3>1, SubmissionDir
  <2>7. CASE dir' = dir \/ dir' = dir \ {Temp(p)}
    BY <1>2, <2>2, <2>7, SubmissionDir
  <2> QED BY <1>2, <2>3, <2>4, <2>5, <2>6, <2>7, SubmissionDir
<1>3. CASE Consumption
  <2>1. dir' \subseteq dir /\ (synced' = synced \/ synced' = dir)
    BY <1>3, MonitorStep
  <2> QED BY <1>1, <2>1, FS_Subset DEF DirType
<1>4. CASE Outage
  <2>1. dir' \subseteq dir \cup synced /\ synced' = dir'
    BY <1>4, OutageStep
  <2>2. IsFiniteSet(dir \cup synced)
    BY <1>1, FS_Union DEF DirType
  <2> QED BY <1>1, <2>1, <2>2, FS_Subset DEF DirType
<1>5. CASE UNCHANGED vars
  BY <1>1, <1>5 DEF vars, DirType
<1> QED BY <1>2, <1>3, <1>4, <1>5 DEF Next

\* Every step keeps the types.
LEMMA TypesStep == Types /\ [Next]_vars => Types'
<1> SUFFICES ASSUME Types, [Next]_vars PROVE Types'
  OBVIOUS
<1>1. DirType'
  BY DirTyped
<1>2. ASSUME NEW p \in Hook, Submission(p) PROVE Types'
  <2>1. holder' \in Hook \cup {None, "monitor"}
    BY <1>2, SubmissionHook DEF Types, Begins, GoesOn, Ends
  <2>2. monitor' = monitor /\ recorded' = recorded
    BY <1>2, SubmissionDir
  <2>3. HookType(hook') /\ Busy(hook')
    BY <1>2, SubmissionHook
  <2>4. budget' \in [submits : 0..MaxSubmits, faults : 0..MaxFaults, kills : 0..MaxKills,
                     outages : 0..MaxOutages]
    BY <1>2, SubmissionBudget
  <2>5. accepted' \subseteq Record /\ written' \subseteq accepted'
        /\ refused' \subseteq Record /\ blind' \subseteq Record
    BY <1>2, SubmissionHistory
  <2> QED BY <1>1, <2>1, <2>2, <2>3, <2>4, <2>5 DEF Types, HookType, Busy
<1>3. CASE Consumption
  <2>1. holder' \in Hook \cup {None, "monitor"} /\ recorded' \subseteq Record
    BY <1>3, MonitorStep DEF Types, Rests, Reads, Saves, Removes
  <2>2. UNCHANGED <<hook, accepted, written, refused, blind>>
        /\ monitor' \in [pc : {"idle", "save", "ack", "remove"}, batch : SUBSET Record]
        /\ budget' \in [submits : 0..MaxSubmits, faults : 0..MaxFaults, kills : 0..MaxKills,
                        outages : 0..MaxOutages]
    BY <1>3, MonitorStep
  <2> QED BY <1>1, <2>1, <2>2 DEF Types
<1>4. CASE Outage
  <2>1. monitor' \in [pc : {"idle", "save", "ack", "remove"}, batch : SUBSET Record]
    BY <1>4, OutageStep DEF Resting
  <2> QED BY <1>1, <1>4, <2>1, OutageStep DEF Types, HookType
<1>5. CASE UNCHANGED vars
  BY <1>5, <1>1 DEF vars, history, Types
<1> QED BY <1>2, <1>3, <1>4, <1>5 DEF Next

-----------------------------------------------------------------------------
(* What a submission adds, and where it stands afterwards. *)

\* It takes away its own temporary file only.
LEMMA SubmissionEntries ==
    ASSUME Types, NEW p \in Hook, Submission(p)
    PROVE  /\ \A e \in dir : e # Temp(p) => e \in dir'
           /\ \A e \in dir : e \notin dir' => hook[p].pc \in Held
           /\ \A e \in dir' : \/ e \in dir \/ e = <<"gap">>
                              \/ hook[p].pc \in {"key", "temp"} /\ e = Temp(p)
                              \/ hook[p].pc = "keyrename" /\ e = <<"key", budget.outages + 1>>
                              \/ /\ hook[p].pc = "rename"
                                 /\ \E g \in Generation : KeyIs(g) /\ e = <<"rec", hook[p].rec, g>>
BY SubmissionDir DEF Held

\* Keys and records stay.
LEMMA SubmissionKeeps ==
    ASSUME Types, NEW p \in Hook, Submission(p)
    PROVE  /\ \A g \in Generation : KeyIs(g) => KeyIs(g)'
           /\ \A r \in Record, g \in Generation : <<"rec", r, g>> \in dir => <<"rec", r, g>> \in dir'
           /\ <<"gap">> \in dir => <<"gap">> \in dir'
           /\ Readable \subseteq Readable'
<1>1. CASE hook[p].pc = "out"
  <2>1. dir' = dir
    BY <1>1 DEF Submission, Begin, OpenFails, Invalid, Lock, LockTimesOut, FindKey, RenameKey,
         SyncKey, Duplicate, CheckRoom, WriteTemp, Publish, Succeed, WriteFails, MarkGap, SyncGap,
         MarkFails, Refuse, Kill, At
  <2> QED BY <2>1 DEF KeyIs, Readable
<1>2. CASE hook[p].pc # "out"
  <2>1. /\ Temp(p) # <<"gap">>
        /\ \A g \in Generation : Temp(p) # <<"key", g>>
        /\ \A r \in Record, g \in Generation : Temp(p) # <<"rec", r, g>>
    BY <1>2, TempIsEntry
  <2>2. \A e \in dir : e # Temp(p) => e \in dir'
    BY SubmissionEntries
  <2> QED BY <2>1, <2>2 DEF KeyIs, Readable
<1> QED BY <1>1, <1>2

\* How a hook comes to the places that the invariant speaks of.
LEMMA SubmissionPlace ==
    ASSUME Types, NEW p \in Hook, Submission(p)
    PROVE  /\ hook'[p].pc = "keyrename" => hook[p].pc = "key" /\ ~HasKey /\ dir' = dir \cup {Temp(p)}
           /\ hook'[p].pc = "keysync" => /\ hook[p].pc = "keyrename"
                                         /\ dir' = (dir \ {Temp(p)}) \cup {<<"key", budget.outages + 1>>}
           /\ hook'[p].pc = "check" => (hook[p].pc = "key" /\ HasKey) \/ hook[p].pc = "keysync"
           /\ hook'[p].pc = "temp" => /\ hook[p].pc = "check" /\ dir' = dir
                                      /\ Cardinality(Filled) < Capacity
           /\ hook'[p].pc = "rename" => hook[p].pc = "temp" /\ dir' = dir \cup {Temp(p)}
           /\ hook'[p].pc = "sync" => Publish(p)
           /\ hook'[p].pc = "marksync" => <<"gap">> \in dir'
           /\ hook'[p].pc = "refuse" => hook[p].rec \in blind' \/ <<"gap">> \in dir' \/ hook[p].pc = "marksync"
<1>1. CASE \E r \in Record : Begin(p, r)
  BY <1>1 DEF Types, Begin
<1>2. CASE OpenFails(p) \/ Duplicate(p) \/ Succeed(p) \/ Refuse(p) \/ Kill(p)
  <2>1. hook'[p].pc = "out"
    BY <1>2, OutMoves DEF OpenFails, Duplicate, Succeed, Refuse, Kill
  <2> QED BY <2>1
<1>3. CASE Invalid(p) \/ Lock(p) \/ LockTimesOut(p)
  <2>1. hook'[p].pc \in {"mark", "key"}
    BY <1>3 DEF Invalid, Lock, LockTimesOut, Goto, Types
  <2> QED BY <2>1
<1>4. CASE FindKey(p)
  BY <1>4 DEF FindKey, Goto, Types, At, HasKey
<1>5. CASE RenameKey(p) \/ SyncKey(p)
  BY <1>5 DEF RenameKey, SyncKey, Goto, Types, At
<1>6. CASE CheckRoom(p)
  BY <1>6 DEF CheckRoom, Goto, Types, At, Filled
<1>7. CASE WriteTemp(p)
  BY <1>7 DEF WriteTemp, Goto, Types, At
<1>8. CASE Publish(p)
  BY <1>8 DEF Publish, Goto, Types
<1>9. CASE WriteFails(p)
  BY <1>9 DEF WriteFails, Goto, Types
<1>10. CASE MarkGap(p) \/ SyncGap(p) \/ MarkFails(p)
  BY <1>10 DEF MarkGap, SyncGap, MarkFails, Goto, Types, At
<1> QED BY <1>1, <1>2, <1>3, <1>4, <1>5, <1>6, <1>7, <1>8, <1>9, <1>10 DEF Submission

\* A hook that works under the lock is the only one, and the monitor does not
\* remove meanwhile.
LEMMA Alone ==
    ASSUME Types, Exclusive, NEW p \in Hook, hook[p].pc \in Held
    PROVE  /\ \A q \in Hook \ {p} : hook[q].pc \notin Held
           /\ monitor.pc # "remove"
BY DEF Types, Exclusive

-----------------------------------------------------------------------------
(* The parts of the invariant, one step each. *)

\* The lock is held by one at a time.
LEMMA ExclusiveStep == Types /\ Exclusive /\ [Next]_vars => Exclusive'
<1> SUFFICES ASSUME Types, Exclusive, [Next]_vars PROVE Exclusive'
  OBVIOUS
<1>1. ASSUME NEW p \in Hook, Submission(p) PROVE Exclusive'
  <2>1. monitor' = monitor
    BY <1>1, SubmissionDir
  <2>2. \A q \in Hook \ {p} : hook'[q] = hook[q]
    BY <1>1, SubmissionHook
  <2>3. CASE Begins(p)
    BY <2>1, <2>2, <2>3 DEF Begins, Exclusive, Held
  <2>4. CASE GoesOn(p)
    BY <2>1, <2>2, <2>4 DEF GoesOn, Exclusive, Held
  <2>5. CASE Ends(p)
    BY <2>1, <2>2, <2>5 DEF Ends, Exclusive, Held
  <2> QED BY <1>1, <2>3, <2>4, <2>5, SubmissionHook
<1>2. CASE Consumption
  <2>1. hook' = hook
    BY <1>2, MonitorStep
  <2>2. Rests \/ Reads \/ Saves \/ Removes
    BY <1>2, MonitorStep
  <2> QED BY <2>1, <2>2 DEF Exclusive, Rests, Reads, Saves, Removes, Types
<1>3. CASE Outage
  BY <1>3, OutageStep DEF Exclusive, Held, Resting
<1>4. CASE UNCHANGED vars
  BY <1>4 DEF vars, Exclusive
<1> QED BY <1>1, <1>2, <1>3, <1>4 DEF Next

\* Keys and names are of this power cycle or an earlier one.
LEMMA GenerationsStep == Types /\ Generations /\ [Next]_vars => Generations'
<1> SUFFICES ASSUME Types, Generations, [Next]_vars PROVE Generations'
  OBVIOUS
<1>0. budget.outages \in Nat
  BY DEF Types
<1>1. ASSUME NEW p \in Hook, Submission(p) PROVE Generations'
  <2>1. budget'.outages = budget.outages
        /\ (synced' = synced \/ (synced' = dir /\ dir' = dir))
    BY <1>1, SubmissionDir
  <2>2. \A g \in Generation : KeyIs(g) => KeyIs(g)'
    BY <1>1, SubmissionKeeps
  <2>3. \A g \in Generation : <<"key", g>> \in dir' => <<"key", g>> \in dir \/ g = budget.outages + 1
    <3> SUFFICES ASSUME NEW g \in Generation, <<"key", g>> \in dir', <<"key", g>> \notin dir
                 PROVE  g = budget.outages + 1
      OBVIOUS
    <3>1. hook[p].pc # "out" => Temp(p) # <<"key", g>>
      BY TempIsEntry
    <3> QED BY <1>1, <3>1, SubmissionEntries
  <2>4. \A r \in Record, g \in Generation :
           <<"rec", r, g>> \in dir' => <<"rec", r, g>> \in dir \/ KeyIs(g)
    <3> SUFFICES ASSUME NEW r \in Record, NEW g \in Generation, <<"rec", r, g>> \in dir',
                        <<"rec", r, g>> \notin dir
                 PROVE  KeyIs(g)
      OBVIOUS
    <3>1. hook[p].pc # "out" => Temp(p) # <<"rec", r, g>>
      BY TempIsEntry
    <3> QED BY <1>1, <3>1, SubmissionEntries
  <2>5. \A g \in Generation : <<"key", g>> \in dir' \cup synced' => g <= budget.outages + 1
    BY <1>0, <2>1, <2>3 DEF Generations
  <2>6. \A r \in Record, g \in Generation : <<"rec", r, g>> \in dir' \cup synced' => g <= budget.outages + 1
    BY <1>0, <2>1, <2>4 DEF Generations, KeyIs
  <2>7. \A r \in Record, g \in Generation :
           <<"rec", r, g>> \in dir' => g <= budget.outages \/ KeyIs(g)'
    BY <2>2, <2>4 DEF Generations
  <2> QED BY <2>1, <2>5, <2>6, <2>7 DEF Generations
<1>2. CASE Consumption
  <2>1. /\ budget'.outages = budget.outages /\ dir' \subseteq dir
        /\ synced' = synced \/ (synced' = dir /\ dir' = dir)
    BY <1>2, MonitorStep
  <2>2. \A g \in Generation : KeyIs(g) => KeyIs(g)'
    BY <1>2, MonitorStep DEF KeyIs
  <2> QED BY <2>1, <2>2 DEF Generations
<1>3. CASE Outage
  <2>1. /\ budget'.outages = budget.outages + 1
        /\ dir' \subseteq dir \cup synced /\ synced' = dir'
    BY <1>3, OutageStep
  <2>2. \A g \in Generation : g \in Nat
    BY DEF Generation
  <2> QED BY <1>0, <2>1, <2>2 DEF Generations
<1>4. CASE UNCHANGED vars
  BY <1>4 DEF vars, Generations, KeyIs
<1> QED BY <1>1, <1>2, <1>3, <1>4 DEF Next

\* A key is never taken away while the power is on.
LEMMA KeyKnownStep == Types /\ Exclusive /\ KeyKnown /\ [Next]_vars => KeyKnown'
<1> SUFFICES ASSUME Types, Exclusive, KeyKnown, [Next]_vars PROVE KeyKnown'
  OBVIOUS
<1>1. ASSUME NEW p \in Hook, Submission(p) PROVE KeyKnown'
  <2>1. HasKey => HasKey'
    BY <1>1, SubmissionKeeps DEF HasKey
  <2>2. ASSUME NEW q \in Hook \ {p}, hook'[q].pc = "keyrename" PROVE ~HasKey'
    <3>1. hook[q].pc = "keyrename" /\ hook[p].pc \notin Held
      BY <1>1, <2>2, SubmissionHook, Alone DEF Held
    <3>2. \A g \in Generation : KeyIs(g)' => KeyIs(g)
      <4> SUFFICES ASSUME NEW g \in Generation, <<"key", g>> \in dir' PROVE <<"key", g>> \in dir
        BY DEF KeyIs
      <4> QED BY <1>1, <3>1, SubmissionEntries DEF Held
    <3> QED BY <3>1, <3>2 DEF KeyKnown, HasKey
  <2>3. ASSUME hook'[p].pc = "keyrename" PROVE ~HasKey'
    <3>1. hook[p].pc = "key" /\ ~HasKey /\ dir' = dir \cup {Temp(p)}
      BY <1>1, <2>3, SubmissionPlace
    <3>2. \A g \in Generation : Temp(p) # <<"key", g>>
      BY <3>1, TempIsEntry
    <3> QED BY <3>1, <3>2 DEF HasKey, KeyIs
  <2>4. ASSUME hook'[p].pc \in {"keysync", "check", "temp", "rename", "sync"} PROVE HasKey'
    <3>1. CASE hook'[p].pc = "keysync"
      <4>1. <<"key", budget.outages + 1>> \in dir' /\ budget.outages + 1 \in Generation
        BY <1>1, <3>1, SubmissionPlace DEF Types, Generation
      <4> QED BY <4>1 DEF HasKey, KeyIs
    <3>2. CASE hook'[p].pc = "sync"
      BY <1>1, <2>1, <3>2, SubmissionPlace DEF Publish, HasKey
    <3>3. CASE hook'[p].pc \in {"check", "temp", "rename"}
      BY <1>1, <2>1, <3>3, SubmissionPlace DEF KeyKnown
    <3> QED BY <2>4, <3>1, <3>2, <3>3
  <2>5. \A q \in Hook \ {p} : hook'[q] = hook[q]
    BY <1>1, SubmissionHook
  <2> QED BY <2>1, <2>2, <2>3, <2>4, <2>5 DEF KeyKnown
<1>2. CASE Consumption
  <2>1. hook' = hook /\ \A g \in Generation : KeyIs(g)' <=> KeyIs(g)
    BY <1>2, MonitorStep DEF KeyIs
  <2> QED BY <2>1 DEF KeyKnown, HasKey
<1>3. CASE Outage
  BY <1>3, OutageStep DEF KeyKnown
<1>4. CASE UNCHANGED vars
  BY <1>4 DEF vars, KeyKnown, HasKey, KeyIs
<1> QED BY <1>1, <1>2, <1>3, <1>4 DEF Next

\* What a removal of the monitor takes from a read, and that it takes no more.
LEMMA RemovalReads ==
    ASSUME Types, NEW r \in Record, dir' = dir \ ({"rec"} \X {r} \X Generation)
    PROVE  Readable' = Readable \ {r}
BY DEF Readable, KeyIs

\* A published record is visible until the monitor, under the lock, removes it.
LEMMA VisibleStep == Types /\ Exclusive /\ Visible /\ [Next]_vars => Visible'
<1> SUFFICES ASSUME Types, Exclusive, Visible, [Next]_vars PROVE Visible'
  OBVIOUS
<1>1. ASSUME NEW p \in Hook, Submission(p) PROVE Visible'
  <2>1. Readable \subseteq Readable' /\ monitor' = monitor /\ recorded' = recorded
    BY <1>1, SubmissionDir, SubmissionKeeps
  <2>2. \A q \in Hook \ {p} : hook'[q] = hook[q]
    BY <1>1, SubmissionHook
  <2>3. ASSUME hook'[p].pc = "sync" PROVE hook'[p].rec \in Readable'
    <3>1. Publish(p)
      BY <1>1, <2>3, SubmissionPlace
    <3>2. hook[p].pc = "rename" /\ hook'[p].rec = hook[p].rec /\ hook[p].rec \in Record
      BY <3>1, <1>1, SubmissionHook, GotoMoves DEF Publish, At, HookPC, Types
    <3>3. PICK g \in Generation : KeyIs(g) /\ dir' = (dir \ {Temp(p)}) \cup {<<"rec", hook[p].rec, g>>}
      BY <3>1 DEF Publish
    <3>4. KeyIs(g)' /\ <<"rec", hook[p].rec, g>> \in dir'
      BY <1>1, <3>3, SubmissionKeeps
    <3> QED BY <3>2, <3>4 DEF Readable
  <2> QED BY <2>1, <2>2, <2>3 DEF Visible
<1>2. CASE Consumption
  <2>1. hook' = hook /\ (Rests \/ Reads \/ Saves \/ Removes)
    BY <1>2, MonitorStep
  <2>2. CASE dir' = dir
    <3>1. Readable' = Readable
      BY <2>2 DEF Readable, KeyIs
    <3> QED BY <2>1, <3>1 DEF Visible, Rests, Reads, Saves, Removes
  <2>3. CASE dir' # dir
    <3>1. monitor.pc = "remove"
      BY <1>2, <2>3, MonitorStep
    <3>2. \A p \in Hook : hook[p].pc # "sync"
      BY <3>1, Alone DEF Held
    <3>3. /\ recorded' = recorded
          /\ monitor'.pc = "idle" \/ (monitor'.pc = "remove" /\ monitor'.batch \subseteq monitor.batch)
      BY <2>1, <2>3, <3>1 DEF Rests, Reads, Saves, Removes
    <3> QED BY <2>1, <3>1, <3>2, <3>3 DEF Visible
  <2> QED BY <2>2, <2>3
<1>3. CASE Outage
  BY <1>3, OutageStep DEF Visible, Resting
<1>4. CASE UNCHANGED vars
  <2>1. Readable' = Readable
    BY <1>4 DEF vars, Readable, KeyIs
  <2> QED BY <1>4, <2>1 DEF vars, Visible
<1> QED BY <1>1, <1>2, <1>3, <1>4 DEF Next

\* A record that its writer reported is in both versions, with its key.
LEMMA DurableStep == Types /\ Exclusive /\ Visible /\ Durable /\ [Next]_vars => Durable'
<1> SUFFICES ASSUME Types, Exclusive, Visible, Durable, [Next]_vars PROVE Durable'
  OBVIOUS
<1>0. written \subseteq Record
  BY DEF Types
<1>1. ASSUME NEW p \in Hook, Submission(p) PROVE Durable'
  <2>1. recorded' = recorded /\ (synced' = synced \/ (synced' = dir /\ dir' = dir))
    BY <1>1, SubmissionDir
  <2>2. /\ \A g \in Generation : <<"key", g>> \in dir => <<"key", g>> \in dir'
        /\ \A r \in Record, g \in Generation : <<"rec", r, g>> \in dir => <<"rec", r, g>> \in dir'
    BY <1>1, SubmissionKeeps DEF KeyIs
  <2>3. CASE written' = written
    BY <1>0, <2>1, <2>2, <2>3 DEF Durable, Kept
  <2>4. CASE written' # written
    <3>1. /\ hook[p].pc = "sync" /\ written' = written \cup {hook[p].rec}
          /\ synced' = dir /\ dir' = dir
      BY <1>1, <2>4, SubmissionHistory
    <3>2. \E g \in Generation : <<"key", g>> \in dir /\ <<"rec", hook[p].rec, g>> \in dir
      BY <3>1 DEF Visible, Readable, KeyIs
    <3> QED BY <2>1, <3>1, <3>2 DEF Durable, Kept
  <2> QED BY <2>3, <2>4
<1>2. CASE Consumption
  <2>1. written' = written /\ recorded \subseteq recorded'
    BY <1>2, MonitorStep DEF Rests, Reads, Saves, Removes
  <2>2. CASE dir' = dir
    <3>1. synced' = synced \/ synced' = dir
      BY <1>2, MonitorStep
    <3> QED BY <2>1, <2>2, <3>1 DEF Durable, Kept
  <2>3. CASE dir' # dir
    <3>1. PICK r \in monitor.batch : dir' = dir \ ({"rec"} \X {r} \X Generation)
      BY <1>2, <2>3, MonitorStep
    <3>2. monitor.pc = "remove" /\ synced' = synced
      BY <1>2, <2>3, MonitorStep
    <3>3. r \in recorded
      BY <3>1, <3>2 DEF Visible
    <3> QED BY <2>1, <3>1, <3>2, <3>3 DEF Durable, Kept
  <2> QED BY <2>2, <2>3
<1>3. CASE Outage
  BY <1>3, OutageStep DEF Durable, Kept
<1>4. CASE UNCHANGED vars
  BY <1>4 DEF vars, history, Durable, Kept
<1> QED BY <1>1, <1>2, <1>3, <1>4 DEF Next

\* The marker is there before a refusal, and only a power loss takes it away.
LEMMA MarkedStep == Types /\ Marked /\ [Next]_vars => Marked'
<1> SUFFICES ASSUME Types, Marked, [Next]_vars PROVE Marked'
  OBVIOUS
<1>0. budget.outages \in Nat
  BY DEF Types
<1>1. ASSUME NEW p \in Hook, Submission(p) PROVE Marked'
  <2>1. /\ budget'.outages = budget.outages /\ (<<"gap">> \in dir => <<"gap">> \in dir')
        /\ blind \subseteq blind'
    BY <1>1, SubmissionDir, SubmissionKeeps, SubmissionHistory
  <2>2. \A q \in Hook \ {p} : hook'[q] = hook[q]
    BY <1>1, SubmissionHook
  <2>3. ASSUME hook'[p].pc \in {"marksync", "refuse"}
        PROVE  hook'[p].rec \in blind' \/ <<"gap">> \in dir' \/ budget.outages > 0
    <3>1. hook[p].pc # "out" => hook'[p].rec = hook[p].rec
      BY <1>1, <2>3, SubmissionHook DEF Begins, GoesOn, Ends
    <3>2. hook[p].pc # "out"
      BY <1>1, <2>3, SubmissionHook DEF Begins, GoesOn, Ends
    <3>3. hook[p].pc = "marksync" => hook[p].rec \in blind \/ <<"gap">> \in dir \/ budget.outages > 0
      BY DEF Marked
    <3> QED BY <1>1, <2>1, <2>3, <3>1, <3>2, <3>3, SubmissionPlace
  <2>4. RefusalIsMarked'
    <3>1. CASE refused' \subseteq refused \cup blind'
      BY <2>1, <3>1 DEF Marked, RefusalIsMarked
    <3>2. CASE hook[p].pc = "refuse" /\ refused' = refused \cup {hook[p].rec}
      <4>1. hook[p].rec \in blind \/ <<"gap">> \in dir \/ budget.outages > 0
        BY <3>2 DEF Marked
      <4> QED BY <2>1, <3>2, <4>1 DEF Marked, RefusalIsMarked
    <3> QED BY <1>1, <3>1, <3>2, SubmissionHistory
  <2>5. ASSUME NEW q \in Hook \ {p}, hook'[q].pc \in {"marksync", "refuse"}
        PROVE  hook'[q].rec \in blind' \/ <<"gap">> \in dir' \/ budget.outages > 0
    BY <2>1, <2>2, <2>5 DEF Marked
  <2> QED BY <2>1, <2>3, <2>4, <2>5 DEF Marked
<1>2. CASE Consumption
  <2>1. UNCHANGED <<hook, refused, blind>> /\ budget'.outages = budget.outages
    BY <1>2, MonitorStep
  <2>2. <<"gap">> \in dir => <<"gap">> \in dir'
    BY <1>2, MonitorStep
  <2> QED BY <2>1, <2>2 DEF Marked, RefusalIsMarked
<1>3. CASE Outage
  <2>1. budget'.outages > 0 /\ \A p \in Hook : hook'[p].pc = "out"
    BY <1>3, OutageStep
  <2> QED BY <2>1 DEF Marked, RefusalIsMarked
<1>4. CASE UNCHANGED vars
  BY <1>4 DEF vars, history, Marked, RefusalIsMarked
<1> QED BY <1>1, <1>2, <1>3, <1>4 DEF Next

-----------------------------------------------------------------------------
(* Leftovers. *)

\* What counts against the capacity is finite.
LEMMA FilledFinite ==
    ASSUME Types
    PROVE  IsFiniteSet(Filled) /\ Cardinality(Filled) \in Nat
<1>1. Filled \subseteq dir /\ IsFiniteSet(dir)
  BY DEF Filled, Types, DirType
<1> QED BY <1>1, FS_Subset, FS_CardinalityType

\* Without an addition to the directory nothing is added to what counts.
LEMMA FilledShrinks ==
    ASSUME Types, dir' \subseteq dir
    PROVE  Cardinality(Filled)' <= Cardinality(Filled) /\ Cardinality(Filled)' \in Nat
<1>1. Filled' \subseteq Filled
  BY DEF Filled, Control
<1> QED BY <1>1, FilledFinite, FS_Subset, FS_CardinalityType

\* How a change of the directory changes what counts: temporary files and records
\* count, keys and the marker do not.
LEMMA FilledChanges ==
    ASSUME NEW n, NEW g, NEW r, NEW h
    PROVE  /\ dir' = dir \cup {<<"tmp", n>>} => Filled' = Filled \cup {<<"tmp", n>>}
           /\ dir' = dir \ {<<"tmp", n>>} => Filled' = Filled \ {<<"tmp", n>>}
           /\ dir' = (dir \ {<<"tmp", n>>}) \cup {<<"key", g>>} => Filled' = Filled \ {<<"tmp", n>>}
           /\ dir' = (dir \ {<<"tmp", n>>}) \cup {<<"rec", r, h>>} =>
                 Filled' = (Filled \ {<<"tmp", n>>}) \cup {<<"rec", r, h>>}
           /\ dir' = dir \cup {<<"gap">>} => Filled' = Filled
           /\ <<"tmp", n>> \in dir <=> <<"tmp", n>> \in Filled
<1> DEFINE t == <<"tmp", n>>  k == <<"key", g>>  c == <<"rec", r, h>>  m == <<"gap">>
           Is(e) == e[1] \in {"key", "gap"}
<1>1. ~Is(t) /\ Is(k) /\ ~Is(c) /\ Is(m)
  OBVIOUS
<1>2. Filled = {e \in dir : ~Is(e)} /\ Filled' = {e \in dir' : ~Is(e)}
  BY DEF Filled, Control
<1> HIDE DEF t, k, c, m, Is
<1>3. /\ dir' = dir \cup {t} => Filled' = Filled \cup {t}
      /\ dir' = dir \ {t} => Filled' = Filled \ {t}
      /\ dir' = (dir \ {t}) \cup {k} => Filled' = Filled \ {t}
      /\ dir' = (dir \ {t}) \cup {c} => Filled' = (Filled \ {t}) \cup {c}
      /\ dir' = dir \cup {m} => Filled' = Filled
      /\ t \in dir <=> t \in Filled
  BY <1>1, <1>2
<1> QED BY <1>3 DEF t, k, c, m

\* How much the steps of a submission add to what counts.
LEMMA SubmissionFills ==
    ASSUME Types, NEW p \in Hook, Submission(p),
           hook[p].pc \in {"keyrename", "rename"} => Temp(p) \in dir
    PROVE  /\ Cardinality(Filled)' \in Nat
           /\ hook[p].pc \in {"key", "temp"} => Cardinality(Filled)' <= Cardinality(Filled) + 1
           /\ hook[p].pc \notin {"key", "temp"} => Cardinality(Filled)' <= Cardinality(Filled)
           /\ hook[p].pc = "keyrename" /\ dir' # dir => Cardinality(Filled)' = Cardinality(Filled) - 1
<1> DEFINE t == Temp(p)
<1>0. IsFiniteSet(Filled) /\ Cardinality(Filled) \in Nat
  BY FilledFinite
<1>1. t = <<"tmp", hook[p].nonce>>
  BY DEF Temp
<1>2. CASE dir' = dir
  <2>1. Filled' = Filled
    BY <1>2 DEF Filled, Control
  <2> QED BY <1>0, <1>2, <2>1
<1>3. CASE hook[p].pc \in {"key", "temp"} /\ dir' = dir \cup {t}
  <2>1. Filled' = Filled \cup {t}
    BY <1>1, <1>3, FilledChanges
  <2> QED BY <1>0, <1>3, <2>1, FS_AddElement
<1>4. CASE hook[p].pc = "keyrename" /\ dir' = (dir \ {t}) \cup {<<"key", budget.outages + 1>>}
  <2>1. Filled' = Filled \ {t} /\ t \in Filled
    BY <1>1, <1>4, FilledChanges
  <2>2. Cardinality(Filled') = Cardinality(Filled) - 1
    BY <1>0, <2>1, FS_RemoveElement
  <2>3. Cardinality(Filled') \in Nat
    BY <1>0, <2>1, FS_RemoveElement, FS_CardinalityType
  <2> QED BY <1>0, <1>4, <2>2, <2>3
<1>5. CASE /\ hook[p].pc = "rename"
           /\ \E g \in Generation : dir' = (dir \ {t}) \cup {<<"rec", hook[p].rec, g>>}
  <2>1. PICK g \in Generation : dir' = (dir \ {t}) \cup {<<"rec", hook[p].rec, g>>}
    BY <1>5
  <2>2. Filled' = (Filled \ {t}) \cup {<<"rec", hook[p].rec, g>>} /\ t \in Filled
    <3> DEFINE n == hook[p].nonce  r == hook[p].rec
    <3>1. dir' = (dir \ {<<"tmp", n>>}) \cup {<<"rec", r, g>>} /\ <<"tmp", n>> \in dir
      BY <1>1, <1>5, <2>1
    <3> HIDE DEF n, r
    <3>2. Filled' = (Filled \ {<<"tmp", n>>}) \cup {<<"rec", r, g>>}
      BY <3>1, FilledChanges
    <3>3. <<"tmp", n>> \in Filled
      BY <3>1, FilledChanges
    <3> QED BY <1>1, <3>2, <3>3 DEF n, r
  <2>3. IsFiniteSet(Filled \ {t}) /\ Cardinality(Filled \ {t}) = Cardinality(Filled) - 1
        /\ Cardinality(Filled \ {t}) \in Nat
    BY <1>0, <2>2, FS_RemoveElement, FS_CardinalityType
  <2> DEFINE less == Filled \ {t}  c == <<"rec", hook[p].rec, g>>
  <2>4. /\ Filled' = less \cup {c} /\ IsFiniteSet(less) /\ Cardinality(less) \in Nat
        /\ Cardinality(less) = Cardinality(Filled) - 1
    BY <2>2, <2>3
  <2> HIDE DEF less, c
  <2>5. Cardinality(Filled') \in {Cardinality(Filled) - 1, Cardinality(Filled)}
    <3>1. Cardinality(less \cup {c}) = IF c \in less THEN Cardinality(less) ELSE Cardinality(less) + 1
      BY <2>4, FS_AddElement
    <3> QED BY <1>0, <2>4, <3>1
  <2>6. Cardinality(Filled') \in Nat
    BY <1>0, <2>4, <2>5
  <2> QED BY <1>0, <1>5, <2>5, <2>6
<1>6. CASE hook[p].pc \in Held /\ dir' = dir \ {t}
  <2>1. Filled' = Filled \ {t} /\ (t \in dir <=> t \in Filled)
    BY <1>1, <1>6, FilledChanges
  <2>2. Cardinality(Filled') = IF t \in Filled THEN Cardinality(Filled) - 1 ELSE Cardinality(Filled)
    BY <1>0, <2>1, FS_RemoveElement
  <2>3. Cardinality(Filled') \in Nat
    BY <1>0, <2>1, FS_RemoveElement, FS_CardinalityType
  <2> QED BY <1>0, <1>6, <2>1, <2>2, <2>3
<1>7. CASE dir' = dir \cup {<<"gap">>} /\ hook[p].pc \notin {"keyrename"}
  <2>1. Filled' = Filled
    BY <1>7, FilledChanges
  <2> QED BY <1>0, <1>7, <2>1
<1>8. dir' = dir \cup {<<"gap">>} => hook[p].pc # "keyrename" \/ dir' = dir
  <2> SUFFICES ASSUME hook[p].pc = "keyrename", dir' = dir \cup {<<"gap">>} PROVE dir' = dir
    OBVIOUS
  <2>1. Temp(p) # <<"gap">> /\ Temp(p) \in dir
    BY TempIsEntry
  <2>2. RenameKey(p) \/ WriteFails(p) \/ Kill(p)
    BY DEF Submission, Begin, OpenFails, Invalid, Lock, LockTimesOut, FindKey, SyncKey, Duplicate,
           CheckRoom, WriteTemp, Publish, Succeed, MarkGap, SyncGap, MarkFails, Refuse, At
  <2> QED BY <2>1, <2>2 DEF RenameKey, WriteFails, Kill
<1> QED BY <1>2, <1>3, <1>4, <1>5, <1>6, <1>7, <1>8, SubmissionDir

\* What becomes of a hook on its way to a new key.
LEMMA SubmissionKeyless ==
    ASSUME Types, NEW p \in Hook, Submission(p),
           hook[p].pc \in {"keyrename", "rename"} => Temp(p) \in dir
    PROVE  /\ hook[p].pc = "key" => dir' \subseteq dir \/ hook'[p].pc = "keyrename"
           /\ hook[p].pc = "keyrename" => \/ HasKey' \/ dir' # dir
                                          \/ budget'.kills = budget.kills + 1 /\ dir' = dir
           /\ HasKey' /\ ~HasKey => hook[p].pc = "keyrename"
<1>1. ASSUME hook[p].pc = "key" PROVE dir' \subseteq dir \/ hook'[p].pc = "keyrename"
  <2>1. FindKey(p) \/ WriteFails(p) \/ Kill(p)
    BY <1>1 DEF Submission, Begin, OpenFails, Invalid, Lock, LockTimesOut, RenameKey, SyncKey, Duplicate,
           CheckRoom, WriteTemp, Publish, Succeed, MarkGap, SyncGap, MarkFails, Refuse, At
  <2> QED BY <2>1 DEF FindKey, WriteFails, Kill, Goto, Types
<1>2. ASSUME hook[p].pc = "keyrename"
      PROVE  HasKey' \/ dir' # dir \/ (budget'.kills = budget.kills + 1 /\ dir' = dir)
  <2>1. RenameKey(p) \/ WriteFails(p) \/ Kill(p)
    BY <1>2 DEF Submission, Begin, OpenFails, Invalid, Lock, LockTimesOut, FindKey, SyncKey, Duplicate,
           CheckRoom, WriteTemp, Publish, Succeed, MarkGap, SyncGap, MarkFails, Refuse, At
  <2>2. CASE RenameKey(p)
    <3>1. budget.outages + 1 \in Generation
      BY DEF Types, Generation
    <3> QED BY <2>2, <3>1 DEF RenameKey, HasKey, KeyIs
  <2>3. CASE WriteFails(p)
    BY <1>2, <2>3 DEF WriteFails
  <2>4. CASE Kill(p)
    BY <2>4 DEF Kill, Count, Types
  <2> QED BY <2>1, <2>2, <2>3, <2>4
<1>3. ASSUME HasKey', ~HasKey PROVE hook[p].pc = "keyrename"
  <2>1. PICK g \in Generation : <<"key", g>> \in dir' /\ <<"key", g>> \notin dir
    BY <1>3 DEF HasKey, KeyIs
  <2>2. hook[p].pc # "out" => Temp(p) # <<"key", g>>
    BY TempIsEntry
  <2> QED BY <2>1, <2>2, SubmissionEntries
<1> QED BY <1>1, <1>2, <1>3

\* What killed writers leave stays within the capacity or their number.
LEMMA RoomStep == Types /\ Exclusive /\ KeyKnown /\ Room /\ [Next]_vars => Room'
<1> SUFFICES ASSUME Types, Exclusive, KeyKnown, Room, [Next]_vars PROVE Room'
  OBVIOUS
<1>0. /\ budget.outages \in Nat /\ budget.kills \in Nat
      /\ Cardinality(Filled) \in Nat /\ Capacity \in Nat
  BY FilledFinite DEF Types
<1>1. ASSUME NEW p \in Hook, Submission(p) PROVE Room'
  <2>0. hook[p].pc \in {"keyrename", "rename"} => Temp(p) \in dir
    BY DEF Room
  <2>1. /\ budget'.outages = budget.outages /\ budget'.kills \in {budget.kills, budget.kills + 1}
        /\ \A q \in Hook \ {p} : hook'[q] = hook[q]
        /\ HasKey => HasKey'
    BY <1>1, SubmissionDir, SubmissionBudget, SubmissionHook, SubmissionKeeps DEF HasKey
  <2>2. \A q \in Hook \ {p} : hook[q].pc \in Held => hook[p].pc \notin Held
    BY Alone
  <2>3. ASSUME NEW q \in Hook, hook'[q].pc \in {"keyrename", "rename"} PROVE Temp(q)' \in dir'
    <3>1. CASE q = p
      <4>1. dir' = dir \cup {Temp(p)} /\ hook[p].pc \in {"key", "temp"}
        BY <1>1, <2>3, <3>1, SubmissionPlace
      <4>2. hook'[p].nonce = hook[p].nonce
        BY <1>1, <2>3, <3>1, <4>1, SubmissionHook DEF Begins, GoesOn, Ends
      <4> QED BY <3>1, <4>1, <4>2 DEF Temp
    <3>2. CASE q # p
      <4>1. hook'[q] = hook[q] /\ hook[p].pc \notin Held
        BY <2>1, <2>2, <2>3, <3>2 DEF Held
      <4>2. dir \subseteq dir'
        BY <1>1, <4>1, SubmissionEntries
      <4> QED BY <2>3, <4>1, <4>2 DEF Temp, Room
    <3> QED BY <3>1, <3>2
  <2>4. ASSUME NEW q \in Hook, hook'[q].pc = "temp" PROVE Cardinality(Filled)' < Capacity
    <3>1. CASE q = p
      <4>1. dir' = dir /\ Cardinality(Filled) < Capacity
        BY <1>1, <2>4, <3>1, SubmissionPlace
      <4> QED BY <1>0, <4>1, FilledShrinks
    <3>2. CASE q # p
      <4>1. hook[q].pc = "temp" /\ hook[p].pc \notin Held
        BY <2>1, <2>2, <2>4, <3>2 DEF Held
      <4>2. Cardinality(Filled)' <= Cardinality(Filled) /\ Cardinality(Filled)' \in Nat
        BY <1>1, <2>0, <4>1, SubmissionFills DEF Held
      <4> QED BY <1>0, <4>1, <4>2 DEF Room
    <3> QED BY <3>1, <3>2
  <2>5. ASSUME budget.outages = 0, HasKey' PROVE Cardinality(Filled)' <= Most(budget'.kills)
    <3>1. CASE HasKey
      <4>1. Cardinality(Filled) <= Most(budget.kills)
        BY <2>5, <3>1 DEF Room
      <4>2. CASE hook[p].pc = "temp"
        <5>1. Cardinality(Filled) < Capacity
          BY <4>2 DEF Room
        <5>2. Cardinality(Filled)' <= Cardinality(Filled) + 1 /\ Cardinality(Filled)' \in Nat
          BY <1>1, <2>0, <4>2, SubmissionFills
        <5> QED BY <1>0, <2>1, <5>1, <5>2 DEF Most
      <4>3. CASE hook[p].pc = "key"
        <5>1. dir' \subseteq dir
          BY <1>1, <2>0, <3>1, <4>3, SubmissionKeyless, SubmissionPlace
        <5> QED BY <1>0, <2>1, <4>1, <5>1, FilledShrinks DEF Most
      <4>4. CASE hook[p].pc \notin {"key", "temp"}
        <5>1. Cardinality(Filled)' <= Cardinality(Filled) /\ Cardinality(Filled)' \in Nat
          BY <1>1, <2>0, <4>4, SubmissionFills
        <5> QED BY <1>0, <2>1, <4>1, <5>1 DEF Most
      <4> QED BY <4>2, <4>3, <4>4
    <3>2. CASE ~HasKey
      <4>1. hook[p].pc = "keyrename" /\ dir' # dir
        BY <1>1, <2>0, <2>5, <3>2, SubmissionKeyless DEF HasKey, KeyIs
      <4>2. Cardinality(Filled) <= budget.kills + 1
        BY <1>0, <2>5, <3>2, <4>1 DEF Room
      <4>3. Cardinality(Filled)' = Cardinality(Filled) - 1
        BY <1>1, <2>0, <4>1, SubmissionFills
      <4> QED BY <1>0, <2>1, <4>2, <4>3 DEF Most
    <3> QED BY <3>1, <3>2
  <2>6. ASSUME budget.outages = 0, ~HasKey'
        PROVE  Cardinality(Filled)' <=
                  budget'.kills + IF \E q \in Hook : hook'[q].pc = "keyrename" THEN 1 ELSE 0
    <3>0. ~HasKey /\ hook[p].pc # "temp"
      BY <2>1, <2>6 DEF KeyKnown
    <3>1. CASE hook[p].pc = "key"
      <4>1. \A q \in Hook : hook[q].pc # "keyrename"
        BY <2>2, <3>1 DEF Held
      <4>2. Cardinality(Filled) <= budget.kills
        BY <1>0, <2>6, <3>0, <4>1 DEF Room
      <4>3. CASE dir' \subseteq dir
        <5>1. Cardinality(Filled)' <= budget.kills /\ Cardinality(Filled)' \in Nat
          BY <1>0, <4>2, <4>3, FilledShrinks
        <5> QED BY <1>0, <2>1, <5>1
      <4>4. CASE hook'[p].pc = "keyrename"
        <5>1. Cardinality(Filled)' <= budget.kills + 1 /\ Cardinality(Filled)' \in Nat
          BY <1>0, <1>1, <2>0, <3>1, <4>2, SubmissionFills
        <5> QED BY <1>0, <2>1, <4>4, <5>1
      <4> QED BY <1>1, <2>0, <3>1, <4>3, <4>4, SubmissionKeyless
    <3>2. CASE hook[p].pc = "keyrename"
      <4>1. Cardinality(Filled) <= budget.kills + 1
        BY <1>0, <2>6, <3>0, <3>2 DEF Room
      <4>2. CASE dir' # dir
        <5>1. Cardinality(Filled)' = Cardinality(Filled) - 1 /\ Cardinality(Filled)' \in Nat
          BY <1>1, <2>0, <3>2, <4>2, SubmissionFills
        <5> QED BY <1>0, <2>1, <4>1, <5>1
      <4>3. CASE budget'.kills = budget.kills + 1 /\ dir' = dir
        <5>1. Cardinality(Filled)' <= budget.kills + 1 /\ Cardinality(Filled)' \in Nat
          BY <1>0, <4>1, <4>3, FilledShrinks
        <5> QED BY <1>0, <4>3, <5>1
      <4> QED BY <1>1, <2>0, <2>6, <3>2, <4>2, <4>3, SubmissionKeyless
    <3>3. CASE hook[p].pc \notin {"key", "keyrename"}
      <4>1. Cardinality(Filled)' <= Cardinality(Filled) /\ Cardinality(Filled)' \in Nat
        BY <1>1, <2>0, <3>0, <3>3, SubmissionFills
      <4>2. (\E q \in Hook : hook[q].pc = "keyrename") => \E q \in Hook : hook'[q].pc = "keyrename"
        BY <2>1, <3>3
      <4>3. CASE \E q \in Hook : hook[q].pc = "keyrename"
        <5>1. Cardinality(Filled) <= budget.kills + 1
          BY <2>6, <3>0, <4>3 DEF Room
        <5> QED BY <1>0, <2>1, <4>1, <4>2, <4>3, <5>1
      <4>4. CASE ~\E q \in Hook : hook[q].pc = "keyrename"
        <5>1. Cardinality(Filled) <= budget.kills
          BY <1>0, <2>6, <3>0, <4>4 DEF Room
        <5> QED BY <1>0, <2>1, <4>1, <5>1
      <4> QED BY <4>3, <4>4
    <3> QED BY <3>1, <3>2, <3>3
  <2> QED BY <2>1, <2>3, <2>4, <2>5, <2>6 DEF Room
<1>2. CASE Consumption
  <2>1. /\ hook' = hook /\ dir' \subseteq dir
        /\ budget'.outages = budget.outages /\ budget'.kills \in {budget.kills, budget.kills + 1}
    BY <1>2, MonitorStep
  <2>2. \A g \in Generation : KeyIs(g)' <=> KeyIs(g)
    BY <1>2, MonitorStep DEF KeyIs
  <2>3. Cardinality(Filled)' <= Cardinality(Filled) /\ Cardinality(Filled)' \in Nat
    BY <2>1, FilledShrinks
  <2>4. ASSUME NEW p \in Hook, Temp(p) \in dir PROVE Temp(p)' \in dir'
    BY <1>2, <2>1, <2>4, MonitorStep DEF Temp
  <2>5. HasKey' <=> HasKey
    BY <2>2 DEF HasKey
  <2>6. CASE HasKey
    BY <1>0, <2>1, <2>3, <2>4, <2>5, <2>6 DEF Room, Most
  <2>7. CASE ~HasKey
    BY <1>0, <2>1, <2>3, <2>4, <2>5, <2>7 DEF Room
  <2> QED BY <2>6, <2>7
<1>3. CASE Outage
  BY <1>0, <1>3, OutageStep DEF Room
<1>4. CASE UNCHANGED vars
  <2>1. Filled' = Filled /\ (HasKey' <=> HasKey) /\ \A p \in Hook : Temp(p)' = Temp(p)
    BY <1>4 DEF vars, Filled, Control, HasKey, KeyIs, Temp
  <2> QED BY <1>4, <2>1 DEF vars, Room
<1> QED BY <1>1, <1>2, <1>3, <1>4 DEF Next

-----------------------------------------------------------------------------
(* The theorems. *)

\* The inductive invariant holds in every reachable state.
THEOREM InboxInvariant == Spec => []IInv
<1>1. Init => IInv
  <2> SUFFICES ASSUME Init PROVE IInv
    OBVIOUS
  <2>1. Types
    BY FS_EmptySet DEF Init, Types, DirType, Out, Resting, HookPC
  <2>2. Exclusive /\ Generations /\ KeyKnown /\ Visible /\ Durable /\ Marked
    BY DEF Init, Exclusive, Generations, KeyKnown, Visible, Durable, Marked, RefusalIsMarked,
           Out, Resting, Held
  <2>3. Room
    <3>1. Filled = {} /\ ~HasKey /\ \A p \in Hook : hook[p].pc = "out"
      BY DEF Init, Filled, HasKey, KeyIs, Out
    <3>2. budget.kills = 0 /\ Cardinality(Filled) = 0
      BY <3>1, FS_EmptySet DEF Init
    <3> QED BY <3>1, <3>2 DEF Room
  <2> QED BY <2>1, <2>2, <2>3 DEF IInv
<1>2. IInv /\ [Next]_vars => IInv'
  BY TypesStep, ExclusiveStep, GenerationsStep, KeyKnownStep, VisibleStep, DurableStep, MarkedStep,
     RoomStep DEF IInv
<1> QED BY <1>1, <1>2, PTL DEF Spec

\* One more element is at most one more.
LEMMA OneMore ==
    ASSUME NEW S, NEW x, IsFiniteSet(S)
    PROVE  /\ IsFiniteSet(S \cup {x}) /\ Cardinality(S \cup {x}) \in Nat
           /\ Cardinality(S \cup {x}) <= Cardinality(S) + 1
<1>1. IsFiniteSet(S \cup {x}) /\ Cardinality(S) \in Nat
  BY FS_AddElement, FS_CardinalityType
<1>2. Cardinality(S \cup {x}) \in Nat
  BY <1>1, FS_CardinalityType
<1>3. Cardinality(S \cup {x}) = IF x \in S THEN Cardinality(S) ELSE Cardinality(S) + 1
  BY FS_AddElement
<1> QED BY <1>1, <1>2, <1>3

\* Before the power was ever lost the directory has, besides what counts against
\* the capacity, at most the marker and one key.
LEMMA Whole ==
    ASSUME Types, Generations, budget.outages = 0
    PROVE  /\ Cardinality(dir) <= Cardinality(Filled) + 2
           /\ ~HasKey => Cardinality(dir) <= Cardinality(Filled) + 1
           /\ Cardinality(dir) \in Nat /\ Cardinality(Filled) \in Nat
<1>1. IsFiniteSet(Filled) /\ Cardinality(Filled) \in Nat
  BY FilledFinite
<1>2. /\ Control \subseteq {<<"key", 1>>, <<"gap">>}
      /\ ~HasKey => Control \subseteq {<<"gap">>}
  <2> SUFFICES ASSUME NEW e \in dir, e[1] \in {"key", "gap"}
               PROVE  e = <<"gap">> \/ (e = <<"key", 1>> /\ HasKey)
    BY DEF Control
  <2>1. e \in Entry
    BY DEF Types, DirType
  <2>2. e \notin {"rec"} \X Record \X Generation /\ e \notin {"tmp"} \X (1..MaxSubmits)
    OBVIOUS
  <2>3. CASE e \in {"key"} \X Generation
    <3>1. PICK g \in Generation : e = <<"key", g>>
      BY <2>3
    <3>2. g <= budget.outages + 1 /\ g \in Nat \ {0}
      BY <3>1 DEF Generations, Generation
    <3>3. g = 1
      BY <3>2
    <3> QED BY <3>1, <3>3 DEF HasKey, KeyIs
  <2> QED BY <2>1, <2>2, <2>3 DEF Entry
<1>3. dir \subseteq (Filled \cup {<<"gap">>}) \cup {<<"key", 1>>}
      /\ (~HasKey => dir \subseteq Filled \cup {<<"gap">>})
  BY <1>2 DEF Filled
<1> DEFINE one == Filled \cup {<<"gap">>}
           two == one \cup {<<"key", 1>>}
<1>4. IsFiniteSet(one) /\ Cardinality(one) <= Cardinality(Filled) + 1 /\ Cardinality(one) \in Nat
  BY <1>1, OneMore
<1>5. IsFiniteSet(two) /\ Cardinality(two) <= Cardinality(one) + 1 /\ Cardinality(two) \in Nat
  BY <1>4, OneMore
<1>6. dir \subseteq two /\ (~HasKey => dir \subseteq one)
  BY <1>3
<1> HIDE DEF one, two
<1>7. Cardinality(dir) <= Cardinality(two) /\ (~HasKey => Cardinality(dir) <= Cardinality(one))
  BY <1>4, <1>5, <1>6, FS_Subset
<1>8. Cardinality(dir) \in Nat
  BY FS_CardinalityType DEF Types, DirType
<1> QED BY <1>1, <1>4, <1>5, <1>7, <1>8

\* Types and the bound on leftovers: before a power loss the monitor can list the
\* directory unless more writers were killed than the inbox holds records.
THEOREM TypeCorrect == Spec => []TypeOK
<1>1. IInv => TypeOK
  <2> SUFFICES ASSUME IInv PROVE TypeOK
    OBVIOUS
  <2>1. ASSUME budget.outages = 0
        PROVE  Cardinality(dir) + 1 <= 3 + IF budget.kills > Capacity THEN budget.kills ELSE Capacity
    <3>1. /\ Cardinality(dir) <= Cardinality(Filled) + 2
          /\ ~HasKey => Cardinality(dir) <= Cardinality(Filled) + 1
          /\ Cardinality(dir) \in Nat /\ Cardinality(Filled) \in Nat
      BY <2>1, Whole DEF IInv
    <3>2. budget.kills \in Nat /\ Capacity \in Nat
      BY DEF IInv, Types
    <3>3. CASE HasKey
      <4>1. Cardinality(Filled) <= Most(budget.kills)
        BY <2>1, <3>3 DEF IInv, Room
      <4> QED BY <3>1, <3>2, <4>1 DEF Most
    <3>4. CASE ~HasKey
      <4>1. Cardinality(Filled) <= budget.kills + 1
        <5>1. Cardinality(Filled) <=
                 budget.kills + IF \E p \in Hook : hook[p].pc = "keyrename" THEN 1 ELSE 0
          BY <2>1, <3>4 DEF IInv, Room
        <5> QED BY <3>1, <3>2, <5>1
      <4> QED BY <3>1, <3>2, <3>4, <4>1
    <3> QED BY <3>3, <3>4
  <2> QED BY <2>1 DEF IInv, Types, DirType, TypeOK
<1> QED BY <1>1, InboxInvariant, PTL

\* A refused inspection has left the marker for the monitor to find, or its
\* marker could not be made, or the power was lost.
THEOREM RefusalsMarked == Spec => []RefusalIsMarked
<1>1. IInv => RefusalIsMarked
  BY DEF IInv, Marked
<1> QED BY <1>1, InboxInvariant, PTL

\* What a writer reported survives any number of power losses, with its key.
THEOREM PublishedIsDurable == Spec => []WrittenIsDurable
<1>1. IInv => WrittenIsDurable
  BY DEF IInv, Types, Durable, Kept, WrittenIsDurable, Readable, KeyIs
<1> QED BY <1>1, InboxInvariant, PTL

-----------------------------------------------------------------------------
(* The implementation of module Inbox. *)

\* A new key makes nothing readable: nothing was named by it before.
LEMMA NewKeyReads ==
    ASSUME Types, Generations, NEW p \in Hook, hook[p].pc # "out", ~HasKey,
           dir' = (dir \ {Temp(p)}) \cup {<<"key", budget.outages + 1>>}
    PROVE  Readable = {} /\ Readable' = {}
<1>1. Readable = {}
  BY DEF Readable, HasKey
<1>2. budget.outages \in Nat
  BY DEF Types
<1>3. ASSUME NEW r \in Record, NEW g \in Generation, <<"key", g>> \in dir', <<"rec", r, g>> \in dir'
      PROVE  FALSE
  <2>1. <<"rec", r, g>> \in dir
    BY <1>3
  <2>2. g = budget.outages + 1
    BY <1>3 DEF HasKey, KeyIs
  <2>3. g <= budget.outages
    BY <2>1 DEF Generations, HasKey
  <2> QED BY <1>2, <2>2, <2>3
<1> QED BY <1>1, <1>3 DEF Readable, KeyIs

\* The records that a read finds after a step of a submission: one more if it
\* publishes.
LEMMA SubmissionReads ==
    ASSUME IInv, NEW p \in Hook, Submission(p)
    PROVE  \/ Readable' = Readable
           \/ Publish(p) /\ hook[p].rec \in Record /\ Readable' = Readable \cup {hook[p].rec}
<1>0. Types
  BY DEF IInv
<1>1. Readable \subseteq Readable'
  BY <1>0, SubmissionKeeps
<1>2. CASE RenameKey(p)
  <2>1. hook[p].pc = "keyrename" /\ dir' = (dir \ {Temp(p)}) \cup {<<"key", budget.outages + 1>>}
    BY <1>2 DEF RenameKey, At
  <2>2. ~HasKey
    BY <2>1 DEF IInv, KeyKnown
  <2> QED BY <2>1, <2>2, NewKeyReads DEF IInv
<1>3. CASE Publish(p)
  <2>1. hook[p].pc = "rename" /\ hook[p].rec \in Record
    BY <1>0, <1>3 DEF Publish, At, Types
  <2>2. PICK h \in Generation :
           KeyIs(h) /\ dir' = (dir \ {Temp(p)}) \cup {<<"rec", hook[p].rec, h>>}
    BY <1>3 DEF Publish
  <2>3. \A r \in Record, g \in Generation :
           <<"rec", r, g>> \in dir' => <<"rec", r, g>> \in dir \/ r = hook[p].rec
    BY <2>2
  <2>4. \A g \in Generation : KeyIs(g)' <=> KeyIs(g)
    BY <1>0, <2>1, <2>2, TempIsEntry DEF KeyIs
  <2>5. hook[p].rec \in Readable'
    BY <2>1, <2>2, <2>4 DEF Readable
  <2>6. Readable' \subseteq Readable \cup {hook[p].rec}
    BY <2>3, <2>4 DEF Readable
  <2> QED BY <1>1, <1>3, <2>1, <2>5, <2>6
<1>4. CASE ~RenameKey(p) /\ ~Publish(p)
  <2>1. \/ dir' \subseteq dir
        \/ hook[p].pc # "out" /\ dir' = dir \cup {Temp(p)}
        \/ dir' = dir \cup {<<"gap">>}
    BY <1>4 DEF Submission, Begin, OpenFails, Invalid, Lock, LockTimesOut, FindKey, SyncKey, Duplicate,
           CheckRoom, WriteTemp, Succeed, WriteFails, MarkGap, SyncGap, MarkFails, Refuse, Kill, At
  <2>2. /\ \A g \in Generation : KeyIs(g)' => KeyIs(g)
        /\ \A r \in Record, g \in Generation : <<"rec", r, g>> \in dir' => <<"rec", r, g>> \in dir
    BY <1>0, <2>1, TempIsEntry DEF KeyIs
  <2> QED BY <1>1, <2>2 DEF Readable
<1> QED BY <1>2, <1>3, <1>4

\* Every step of the inbox is a step of the abstract one, or leaves what it
\* speaks of alone, or is a power loss.
LEMMA InboxSteps ==
    ASSUME IInv, [Next]_vars
    PROVE  [Promise!Next \/ budget'.outages > budget.outages]_<<Readable, recorded, accepted>>
<1> DEFINE Same == UNCHANGED <<Readable, recorded, accepted>>
<1>0. Types
  BY DEF IInv
<1>1. ASSUME NEW p \in Hook, Submission(p) PROVE Promise!Next \/ Same
  <2>1. recorded' = recorded
    BY <1>0, <1>1, SubmissionDir
  <2>2. CASE Duplicate(p) \/ Succeed(p)
    <3>1. accepted' = accepted \cup {hook[p].rec} /\ dir' = dir
      BY <2>2 DEF Duplicate, Succeed
    <3>2. Readable' = Readable
      BY <3>1 DEF Readable, KeyIs
    <3>3. hook[p].rec \in Readable
      BY <2>2 DEF Duplicate, Succeed, At, IInv, Visible
    <3>4. hook[p].rec \in Record
      BY <3>3 DEF Readable
    <3>5. Promise!Accept(hook[p].rec)
      BY <2>1, <3>1, <3>2, <3>3 DEF Promise!Accept
    <3> QED BY <3>4, <3>5 DEF Promise!Next
  <2>3. CASE ~Duplicate(p) /\ ~Succeed(p)
    <3>1. accepted' = accepted
      BY <1>1, <2>3 DEF Submission, Begin, OpenFails, Invalid, Lock, LockTimesOut, FindKey, RenameKey,
             SyncKey, CheckRoom, WriteTemp, Publish, WriteFails, MarkGap, SyncGap, MarkFails, Refuse,
             Kill, history
    <3>2. CASE Readable' = Readable
      BY <2>1, <3>1, <3>2
    <3>3. CASE hook[p].rec \in Record /\ Readable' = Readable \cup {hook[p].rec}
      <4>1. Promise!Appear(hook[p].rec)
        BY <2>1, <3>1, <3>3 DEF Promise!Appear
      <4> QED BY <3>3, <4>1 DEF Promise!Next
    <3> QED BY <1>1, <3>2, <3>3, SubmissionReads
  <2> QED BY <2>2, <2>3
<1>2. CASE Consumption
  <2>1. accepted' = accepted
    BY <1>0, <1>2, MonitorStep
  <2>2. CASE dir' # dir
    <3>1. PICK r \in monitor.batch : dir' = dir \ ({"rec"} \X {r} \X Generation)
      BY <1>0, <1>2, <2>2, MonitorStep
    <3>2. monitor.pc = "remove"
      BY <1>0, <1>2, <2>2, MonitorStep
    <3>3. r \in recorded /\ r \in Record
      BY <1>0, <3>1, <3>2 DEF IInv, Visible, Types
    <3>4. Readable' = Readable \ {r}
      BY <1>0, <3>1, <3>3, RemovalReads
    <3>5. recorded' = recorded
      BY <1>0, <1>2, <3>2, MonitorStep DEF Rests, Reads, Saves, Removes
    <3>6. Promise!Consume(r)
      BY <2>1, <3>3, <3>4, <3>5 DEF Promise!Consume
    <3> QED BY <3>3, <3>6 DEF Promise!Next
  <2>3. CASE dir' = dir
    <3>1. Readable' = Readable
      BY <2>3 DEF Readable, KeyIs
    <3>2. CASE recorded' = recorded
      BY <2>1, <3>1, <3>2
    <3>3. CASE Saves
      <4>1. monitor.batch \subseteq Readable /\ monitor.batch \in SUBSET Record
        BY <1>0, <3>3 DEF Saves, IInv, Visible, Types
      <4>2. Promise!Save(monitor.batch)
        BY <2>1, <3>1, <3>3, <4>1 DEF Saves, Promise!Save
      <4> QED BY <4>1, <4>2 DEF Promise!Next
    <3> QED BY <1>0, <1>2, <3>2, <3>3, MonitorStep DEF Rests, Reads, Removes
  <2> QED BY <2>2, <2>3
<1>3. CASE Outage
  <2>1. budget'.outages = budget.outages + 1 /\ budget.outages \in Nat
    BY <1>0, <1>3, OutageStep
  <2> QED BY <2>1
<1>4. CASE UNCHANGED vars
  <2>1. Same
    BY <1>4 DEF vars, history, Readable, KeyIs
  <2> QED BY <2>1
<1> QED BY <1>1, <1>2, <1>3, <1>4 DEF Next

\* Between power losses the directory, its lock and its two kinds of users keep
\* the promise of module Inbox.
THEOREM KeepsPromise == Spec => ImplementsInbox
<1>1. Init => Promise!Init
  BY DEF Init, Promise!Init, Readable
<1>2. IInv /\ [Next]_vars =>
         [Promise!Next \/ budget'.outages > budget.outages]_<<Readable, recorded, accepted>>
  BY InboxSteps
<1> QED BY <1>1, <1>2, InboxInvariant, PTL DEF Spec, ImplementsInbox

\* What the promise is for: until the power is lost a record whose submission
\* returned success is readable or has its event saved, duplicates included.
AcceptedIsKept == budget.outages > 0 \/ accepted \subseteq Readable \cup recorded

\* The promise of the abstract inbox: acknowledging never loses an accepted record.
LEMMA NothingLost == Promise!Spec => []Promise!AcceptedIsKept
<1>1. Promise!Init => Promise!AcceptedIsKept
  BY DEF Promise!Init, Promise!AcceptedIsKept
<1>2. Promise!AcceptedIsKept /\ [Promise!Next]_Promise!vars => Promise!AcceptedIsKept'
  BY DEF Promise!AcceptedIsKept, Promise!Next, Promise!vars, Promise!Appear, Promise!Accept,
     Promise!Save, Promise!Consume
<1> QED BY <1>1, <1>2, PTL DEF Promise!Spec

\* The monitor's acknowledgements lose no accepted record.
THEOREM NothingAcceptedIsLost == Spec => []AcceptedIsKept
<1>1. Init => AcceptedIsKept
  BY DEF Init, AcceptedIsKept
<1>2. AcceptedIsKept /\ IInv /\ [Next]_vars => AcceptedIsKept'
  <2> SUFFICES ASSUME AcceptedIsKept, IInv, [Next]_vars PROVE AcceptedIsKept'
    OBVIOUS
  <2>1. \/ Promise!Next \/ UNCHANGED <<Readable, recorded, accepted>>
        \/ budget'.outages > budget.outages
    BY InboxSteps
  <2>2. budget.outages \in Nat /\ budget'.outages \in {budget.outages, budget.outages + 1}
    <3>1. Types
      BY DEF IInv
    <3>2. CASE UNCHANGED vars
      BY <3>1, <3>2 DEF vars, Types
    <3> QED BY <3>1, <3>2, SubmissionDir, MonitorStep, OutageStep DEF Next, Types
  <2>3. CASE Promise!Next \/ UNCHANGED <<Readable, recorded, accepted>>
    <3>1. accepted \subseteq Readable \cup recorded => accepted' \subseteq Readable' \cup recorded'
      BY <2>3 DEF Promise!Next, Promise!Appear, Promise!Accept, Promise!Save, Promise!Consume
    <3> QED BY <2>2, <3>1 DEF AcceptedIsKept
  <2> QED BY <2>1, <2>2, <2>3 DEF AcceptedIsKept
<1> QED BY <1>1, <1>2, InboxInvariant, PTL DEF Spec
=============================================================================
