----------------------------- MODULE HookInbox -----------------------------
(***************************************************************************)
(* The directory hook-inbox of internal/laodi/hook_inbox.go: short-lived    *)
(* hook processes publish records in it, the monitor reads, saves and       *)
(* acknowledges them.  The two sides share nothing but the directory and    *)
(* its advisory lock.  A process may be killed between any two operations   *)
(* on the directory, an operation may fail, and a power loss undoes any of  *)
(* the operations that no directory sync has followed.                      *)
(*                                                                         *)
(* An entry of the directory is a tuple: <<"rec", r, g>> for record r under *)
(* the name that the MAC key of generation g gives it, <<"key", g>>,        *)
(* <<"gap">>, and <<"tmp", n>> for a temporary file of submission n.        *)
(***************************************************************************)
EXTENDS Naturals, FiniteSets

CONSTANTS
    Hook,        \* hook processes
    Record,      \* contents of records
    None,        \* no process, no record
    Capacity,    \* maxHookInboxRecords
    Limit,       \* records of one read
    Fault,       \* operations that may fail in this instance
    MaxSubmits,  \* bound: submissions
    MaxFaults,   \* bound: failing operations
    MaxKills,    \* bound: killed processes
    MaxOutages   \* bound: power losses

ASSUME InboxAssumption ==
    /\ None \notin Hook \cup Record /\ "monitor" \notin Hook \cup {None}
    /\ Capacity \in Nat \ {0} /\ Limit \in Nat \ {0}
    /\ MaxSubmits \in Nat /\ MaxFaults \in Nat /\ MaxKills \in Nat /\ MaxOutages \in Nat
    /\ Fault \subseteq {"open", "write", "mark", "ack"}

VARIABLES
    dir,       \* the entries of the directory
    synced,    \* the entries of its last synced version
    holder,    \* holder of the advisory lock
    hook,      \* the hook processes
    monitor,   \* the monitor: what it is doing, and the records of its batch
    recorded,  \* history: records for which an event was saved
    accepted,  \* history: records whose submission returned success
    written,   \* history: those of them that this submission itself published
    refused,   \* history: records whose submission returned an error
    blind,     \* history: those of them whose gap marker could not be made
    budget     \* steps taken, for the bounds

history == <<accepted, written, refused, blind>>
vars == <<dir, synced, holder, hook, monitor, recorded, history, budget>>

Generation == 1..(MaxOutages + 1)
Entry == ({"rec"} \X Record \X Generation) \cup ({"key"} \X Generation)
         \cup ({"tmp"} \X (1..MaxSubmits)) \cup {<<"gap">>}

\* hookInboxControl; the lock file, which is always there, is not in dir.
Control == {e \in dir : e[1] \in {"key", "gap"}}

\* hookInboxEntries refuses to list a directory with more entries than this.
Listable == Cardinality(dir) + 1 <= Capacity + 3

KeyIs(g) == <<"key", g>> \in dir
\* The records that a read can verify under the present key.
Readable == {r \in Record : \E g \in Generation : KeyIs(g) /\ <<"rec", r, g>> \in dir}

Out == [pc |-> "out", rec |-> None, nonce |-> 0]
Temp(p) == <<"tmp", hook[p].nonce>>
Goto(p, pc) == hook' = [hook EXCEPT ![p].pc = pc]
At(p, pc) == hook[p].pc = pc
Release(p) == holder' = IF holder = p THEN None ELSE holder

Count(what, bound) == budget[what] < bound /\ budget' = [budget EXCEPT ![what] = @ + 1]
Fails(what) == what \in Fault /\ Count("faults", MaxFaults)

-----------------------------------------------------------------------------
(* SubmitHookInspection. *)

Begin(p, r) ==
    /\ At(p, "out")
    /\ Count("submits", MaxSubmits)
    /\ hook' = [hook EXCEPT ![p] = [pc |-> "lock", rec |-> r, nonce |-> budget'.submits]]
    /\ UNCHANGED <<dir, synced, holder, monitor, recorded, history>>

Lock(p) ==
    /\ At(p, "lock") /\ holder = None
    /\ holder' = p
    /\ Goto(p, "key")
    /\ UNCHANGED <<dir, synced, monitor, recorded, history, budget>>

\* Variant: a lock that was not obtained in time is not a failure to mark.
LockTimesOutSilently(p) ==
    /\ At(p, "lock") /\ holder \notin {None, p}
    /\ hook' = [hook EXCEPT ![p] = Out]
    /\ refused' = refused \cup {hook[p].rec}
    /\ UNCHANGED <<dir, synced, holder, monitor, recorded, accepted, written, blind, budget>>

\* The lock was held by others for a tenth of a second.
LockTimesOut(p) ==
    /\ At(p, "lock") /\ holder \notin {None, p}
    /\ Goto(p, "mark")
    /\ UNCHANGED <<dir, synced, holder, monitor, recorded, history, budget>>

\* The directory cannot be opened: the error is returned and nothing is marked.
OpenFails(p) ==
    /\ At(p, "lock")
    /\ Fails("open")
    /\ refused' = refused \cup {hook[p].rec}
    /\ blind' = blind \cup {hook[p].rec}
    /\ hook' = [hook EXCEPT ![p] = Out]
    /\ UNCHANGED <<dir, synced, holder, monitor, recorded, accepted, written>>

\* sanitizeHookInspection refuses the inspection, before the lock.
Invalid(p) ==
    /\ At(p, "lock")
    /\ Goto(p, "mark")
    /\ UNCHANGED <<dir, synced, holder, monitor, recorded, history, budget>>

\* hookInboxKey: the key exists, or is written like a record.
FindKey(p) ==
    /\ At(p, "key")
    /\ \/ /\ \E g \in Generation : KeyIs(g)
          /\ Goto(p, "check")
          /\ UNCHANGED dir
       \/ /\ \A g \in Generation : ~KeyIs(g)
          /\ dir' = dir \cup {Temp(p)}
          /\ Goto(p, "keyrename")
    /\ UNCHANGED <<synced, holder, monitor, recorded, history, budget>>

\* A new key is random: its generation is that of this power cycle.
RenameKey(p) ==
    /\ At(p, "keyrename")
    /\ dir' = (dir \ {Temp(p)}) \cup {<<"key", budget.outages + 1>>}
    /\ Goto(p, "keysync")
    /\ UNCHANGED <<synced, holder, monitor, recorded, history, budget>>

\* It is durable before any record is named by it.
SyncKey(p) ==
    /\ At(p, "keysync")
    /\ synced' = dir
    /\ Goto(p, "check")
    /\ UNCHANGED <<dir, holder, monitor, recorded, history, budget>>

\* The record is there already: the submission is a duplicate and succeeds.
Duplicate(p) ==
    /\ At(p, "check") /\ hook[p].rec \in Readable
    /\ accepted' = accepted \cup {hook[p].rec}
    /\ hook' = [hook EXCEPT ![p] = Out]
    /\ Release(p)
    /\ UNCHANGED <<dir, synced, monitor, recorded, written, refused, blind, budget>>

\* Variant: only receipts count, not what killed writers left.
HasRoomForReceipts(p) ==
    /\ At(p, "check") /\ hook[p].rec \notin Readable
    /\ IF Listable /\ Cardinality({e \in dir : e[1] = "rec"}) < Capacity
       THEN Goto(p, "temp") ELSE Goto(p, "mark")
    /\ UNCHANGED <<dir, synced, holder, monitor, recorded, history, budget>>

\* Every entry that is no control file counts, invalid ones included.
CheckRoom(p) ==
    /\ At(p, "check") /\ hook[p].rec \notin Readable
    /\ IF Listable /\ Cardinality(dir \ Control) < Capacity
       THEN Goto(p, "temp") ELSE Goto(p, "mark")
    /\ UNCHANGED <<dir, synced, holder, monitor, recorded, history, budget>>

\* writeHookRecord: a synced temporary file, a rename, a directory sync.
WriteTemp(p) ==
    /\ At(p, "temp")
    /\ dir' = dir \cup {Temp(p)}
    /\ Goto(p, "rename")
    /\ UNCHANGED <<synced, holder, monitor, recorded, history, budget>>

Publish(p) ==
    /\ At(p, "rename")
    /\ \E g \in Generation :
          KeyIs(g) /\ dir' = (dir \ {Temp(p)}) \cup {<<"rec", hook[p].rec, g>>}
    /\ Goto(p, "sync")
    /\ UNCHANGED <<synced, holder, monitor, recorded, history, budget>>

\* Variant: the directory is not synced after the rename.
SucceedUnsynced(p) ==
    /\ At(p, "sync")
    /\ accepted' = accepted \cup {hook[p].rec}
    /\ written' = written \cup {hook[p].rec}
    /\ hook' = [hook EXCEPT ![p] = Out]
    /\ Release(p)
    /\ UNCHANGED <<dir, synced, monitor, recorded, refused, blind, budget>>

Succeed(p) ==
    /\ At(p, "sync")
    /\ synced' = dir
    /\ accepted' = accepted \cup {hook[p].rec}
    /\ written' = written \cup {hook[p].rec}
    /\ hook' = [hook EXCEPT ![p] = Out]
    /\ Release(p)
    /\ UNCHANGED <<dir, monitor, recorded, refused, blind, budget>>

\* An operation fails: the temporary file is removed, what was renamed stays.
WriteFails(p) ==
    /\ hook[p].pc \in {"key", "keyrename", "keysync", "check", "temp", "rename", "sync"}
    /\ Fails("write")
    /\ dir' = dir \ {Temp(p)}
    /\ Goto(p, "mark")
    /\ UNCHANGED <<synced, holder, monitor, recorded, history>>

\* markHookInboxGap, with or without the lock: a marker that exists is enough.
MarkGap(p) ==
    /\ At(p, "mark")
    /\ dir' = dir \cup {<<"gap">>}
    /\ Goto(p, IF <<"gap">> \in dir THEN "refuse" ELSE "marksync")
    /\ UNCHANGED <<synced, holder, monitor, recorded, history, budget>>

SyncGap(p) ==
    /\ At(p, "marksync")
    /\ synced' = dir
    /\ Goto(p, "refuse")
    /\ UNCHANGED <<dir, holder, monitor, recorded, history, budget>>

\* The marker cannot be created; nobody is told.
MarkFails(p) ==
    /\ At(p, "mark")
    /\ Fails("mark")
    /\ blind' = blind \cup {hook[p].rec}
    /\ Goto(p, "refuse")
    /\ UNCHANGED <<dir, synced, holder, monitor, recorded, accepted, written, refused>>

Refuse(p) ==
    /\ At(p, "refuse")
    /\ refused' = refused \cup {hook[p].rec}
    /\ hook' = [hook EXCEPT ![p] = Out]
    /\ Release(p)
    /\ UNCHANGED <<dir, synced, monitor, recorded, accepted, written, blind, budget>>

\* The host kills the hook (or its user does); the kernel frees the lock.
Kill(p) ==
    /\ ~At(p, "out")
    /\ Count("kills", MaxKills)
    /\ hook' = [hook EXCEPT ![p] = Out]
    /\ Release(p)
    /\ UNCHANGED <<dir, synced, monitor, recorded, history>>

-----------------------------------------------------------------------------
(* The monitor. *)

Resting == [pc |-> "idle", batch |-> {}]

\* ReadHookInbox runs under the lock and changes nothing.  Names are MACs, so
\* which records come first is arbitrary.
Read ==
    /\ monitor.pc = "idle" /\ holder = None /\ Listable
    /\ \E S \in SUBSET Readable :
          /\ S # {} /\ Cardinality(S) <= Limit
          /\ Cardinality(S) = Limit \/ S = Readable
          /\ monitor' = [pc |-> "save", batch |-> S]
    /\ UNCHANGED <<dir, synced, holder, hook, recorded, history, budget>>

\* Variant: the receipts are acknowledged before the events are saved.
SaveLater ==
    /\ monitor.pc = "save"
    /\ monitor' = [monitor EXCEPT !.pc = "ack"]
    /\ UNCHANGED <<dir, synced, holder, hook, recorded, history, budget>>

\* The monitor saves the events of the batch (SaveState) before it consumes it.
Save ==
    /\ monitor.pc = "save"
    /\ recorded' = recorded \cup monitor.batch
    /\ monitor' = [monitor EXCEPT !.pc = "ack"]
    /\ UNCHANGED <<dir, synced, holder, hook, history, budget>>

\* AckHookInbox: under the lock it removes the verified records one by one.
LockAck ==
    /\ monitor.pc = "ack" /\ holder = None
    /\ holder' = "monitor"
    /\ monitor' = [monitor EXCEPT !.pc = "remove"]
    /\ UNCHANGED <<dir, synced, hook, recorded, history, budget>>

Remove ==
    /\ monitor.pc = "remove"
    /\ \E r \in monitor.batch :
          /\ r \in Readable
          /\ dir' = dir \ ({"rec"} \X {r} \X Generation)
          /\ monitor' = [monitor EXCEPT !.batch = @ \ {r}]
    /\ UNCHANGED <<synced, holder, hook, recorded, history, budget>>

\* All receipts are done and the directory is synced.
FinishAck ==
    /\ monitor.pc = "remove" /\ monitor.batch = {}
    /\ synced' = dir
    /\ holder' = None
    /\ monitor' = Resting
    /\ UNCHANGED <<dir, hook, recorded, history, budget>>

\* The lock is not free in time, or an operation fails: the rest is kept.
AckFails ==
    /\ \/ monitor.pc = "ack" /\ holder # None /\ UNCHANGED budget
       \/ monitor.pc \in {"ack", "remove"} /\ Fails("ack")
    /\ Release("monitor")
    /\ monitor' = Resting
    /\ UNCHANGED <<dir, synced, hook, recorded, history>>

CrashMonitor ==
    /\ monitor # Resting
    /\ Count("kills", MaxKills)
    /\ Release("monitor")
    /\ monitor' = Resting
    /\ UNCHANGED <<dir, synced, hook, recorded, history>>

\* The power fails: every process is gone, and of the operations after the last
\* sync any may be missing.
Outage ==
    /\ Count("outages", MaxOutages)
    /\ \E entries \in SUBSET (dir \cup synced) :
          /\ dir \cap synced \subseteq entries
          /\ dir' = entries /\ synced' = entries
    /\ holder' = None
    /\ hook' = [p \in Hook |-> Out]
    /\ monitor' = Resting
    /\ UNCHANGED <<recorded, history>>

-----------------------------------------------------------------------------
Init ==
    /\ dir = {} /\ synced = {} /\ holder = None
    /\ hook = [p \in Hook |-> Out] /\ monitor = Resting
    /\ recorded = {} /\ accepted = {} /\ written = {} /\ refused = {} /\ blind = {}
    /\ budget = [submits |-> 0, faults |-> 0, kills |-> 0, outages |-> 0]

Submission(p) ==
    \/ \E r \in Record : Begin(p, r)
    \/ OpenFails(p) \/ Invalid(p) \/ Lock(p) \/ LockTimesOut(p) \/ FindKey(p) \/ RenameKey(p) \/ SyncKey(p)
    \/ Duplicate(p) \/ CheckRoom(p) \/ WriteTemp(p) \/ Publish(p) \/ Succeed(p)
    \/ WriteFails(p) \/ MarkGap(p) \/ SyncGap(p) \/ MarkFails(p) \/ Refuse(p) \/ Kill(p)

Consumption == Read \/ Save \/ LockAck \/ Remove \/ FinishAck \/ AckFails \/ CrashMonitor

Next == (\E p \in Hook : Submission(p)) \/ Consumption \/ Outage

Spec == Init /\ [][Next]_vars

-----------------------------------------------------------------------------
(* Properties. *)

HookPC == {"out", "lock", "key", "keyrename", "keysync", "check", "temp", "rename",
           "sync", "mark", "marksync", "refuse"}

\* Type correctness.  What killed writers leave behind cannot make the directory
\* longer than the monitor is able to list, unless more of them were killed than
\* the inbox holds or the power was lost.
TypeOK ==
    /\ dir \subseteq Entry /\ synced \subseteq Entry
    /\ holder \in Hook \cup {None, "monitor"}
    /\ hook \in [Hook -> [pc : HookPC, rec : Record \cup {None}, nonce : 0..MaxSubmits]]
    /\ monitor \in [pc : {"idle", "save", "ack", "remove"}, batch : SUBSET Record]
    /\ recorded \subseteq Record /\ accepted \subseteq Record /\ written \subseteq accepted
    /\ refused \subseteq Record /\ blind \subseteq Record
    /\ budget \in [submits : 0..MaxSubmits, faults : 0..MaxFaults, kills : 0..MaxKills,
                   outages : 0..MaxOutages]
    /\ budget.outages = 0 =>
           Cardinality(dir) + 1 <= 3 + IF budget.kills > Capacity THEN budget.kills ELSE Capacity

Promise == INSTANCE Inbox WITH pending <- Readable

\* But for power losses, hooks, kills, failing operations and the monitor
\* together behave like the inbox of module Inbox: an accepted record is pending
\* and verifiable until an event for it was saved.
ImplementsInbox ==
    Promise!Init /\ [][Promise!Next \/ budget'.outages > budget.outages]_<<Readable, recorded, accepted>>

\* A record that a submission published and reported as accepted survives a
\* power loss, and so does the key without which it cannot be verified.
WrittenIsDurable == written \subseteq Readable \cup recorded

\* A submission that failed has left the gap marker, and no acknowledgement,
\* kill or later submission erases it, as long as the power stays on.
RefusalIsMarked == refused \subseteq blind \/ <<"gap">> \in dir \/ budget.outages > 0
=============================================================================
