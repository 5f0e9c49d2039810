------------------------------- MODULE Watch -------------------------------
(***************************************************************************)
(* The monitor process of internal/laodi/runner.go: the detection cycle,   *)
(* the durable state file, the hook inbox it consumes, and the goroutine   *)
(* that runs the notification helper.  The process may crash between any   *)
(* two steps and is started again by its supervisor.                       *)
(*                                                                         *)
(* An event is identified by <<finding, time>>: the code hashes the key,   *)
(* the evidence hash and the time of the report, and one report creates at *)
(* most one event per finding.  The bounded event list of a state is the    *)
(* function "note" from the events it holds to their notification status;   *)
(* their order is that of the identifiers.                                 *)
(***************************************************************************)
EXTENDS Naturals, Sequences, FiniteSets

CONSTANTS
    Record,        \* sanitized hook inspections: one finding each
    Evidence,      \* findings the snapshot scanner can report
    Workspace,     \* those of the workspace family (isWorkspaceSnapshotKind)
    Key,           \* dedup keys
    KeyOf,         \* finding -> key; two findings of one key differ in hash
    Kind,          \* event kinds
    KindOf,        \* finding -> kind
    GroupOf,       \* finding -> evidence group (the key without its last part)
    RankOf,        \* finding -> rank of its kind within the group
    Order,         \* finding -> position in a report
    Silent,        \* kinds that are recorded and never notified
    None,          \* the absent cursor
    MaxEvents,     \* store.go maxEvents
    BatchLimit,    \* records read from the inbox in one cycle
    JobsCapacity,  \* capacity of the jobs channel
    BrokenLimit,   \* broken cycles before a coverage finding
    Fault,         \* environment changes of this instance
    MaxClock,      \* bound: reports that create events
    MaxSubmits,    \* bound: hook submissions
    MaxFaults,     \* bound: environment changes
    MaxCrashes     \* bound: crashes of the monitor

Alarm   == {"coverage", "gap", "unreadable", "protection"}
Finding == Record \cup Evidence \cup Alarm
Id      == Finding \X (1..MaxClock)
Cursor  == Finding \cup {None, "recovered"}

(* Statuses that start-up queues again (runner.go recovery loop). *)
\* Variants: an interrupted dispatch is retried as well; a queued event is not.
RetryInterrupted == {"pending", "queued", "queue_full", "dispatching"}
RetryUnqueued    == {"pending", "queue_full"}
Retryable == {"pending", "queued", "queue_full"}
\* What sendNotice reports; "not_accepted" stands for all its refusals, which
\* nothing tells apart.
Outcome   == {"accepted_by_os", "unknown_timeout", "not_accepted", "not_configured"}
\* Events that were there before the monitor could look for them.
Baseline  == {"suppressed_baseline", "suppressed_upgrade_baseline"}
Note == Retryable \cup Outcome \cup Baseline \cup
        {"dispatching", "unknown_after_restart", "recorded_only",
         "superseded_by_stronger_evidence", "aggregated"}

Source  == {"observing", "degraded", "absent"}
\* The events that the list of a state holds.
Present(st) == DOMAIN st.note

Diagnosis == Alarm \cup {"ack_failed"}
IsState(st) ==
    /\ st \in [init : BOOLEAN, generation : BOOLEAN, seen : [Key -> Cursor],
               note : {st.note}, coverage : Source, diagnostics : SUBSET Diagnosis]
    /\ st.note \in [Present(st) -> Note]
    /\ Present(st) \subseteq Id
Message == [id : Id, status : Note, ready : BOOLEAN]

ASSUME FindingAssumption ==
    /\ Record \cap Evidence = {} /\ Workspace \subseteq Evidence
    /\ (Record \cup Evidence) \cap (Alarm \cup {None, "recovered"}) = {}
    /\ None \notin Alarm \cup {"recovered"}
    /\ KeyOf \in [Finding -> Key] /\ KindOf \in [Finding -> Kind]
    /\ RankOf \in [Finding -> Nat] /\ Order \in [Finding -> Nat]
    /\ DOMAIN GroupOf = Finding
    /\ \A f, g \in Finding : Order[f] = Order[g] => f = g
    /\ \A f \in Finding, a \in Alarm : KeyOf[f] = KeyOf[a] => f = a

\* A finding is told by a hash of fixed width, so there are finitely many.  In a
\* report the records follow the scan, the coverage and the gap, only the guard's
\* finding follows them (an unreadable inbox has none), and a full batch of 32
\* records, of three signals at most, fits into the list of 256 events.
ASSUME ReportAssumption ==
    /\ IsFiniteSet(Finding)
    /\ \A r \in Record, f \in Finding :
          Order[r] < Order[f] => f \in Record \cup {"unreadable", "protection"}
    /\ BatchLimit < MaxEvents

ASSUME BoundAssumption ==
    /\ MaxEvents \in Nat \ {0} /\ BatchLimit \in Nat \ {0}
    /\ JobsCapacity \in Nat /\ BrokenLimit \in Nat \ {0}
    /\ MaxClock \in Nat /\ MaxSubmits \in Nat
    /\ MaxFaults \in Nat /\ MaxCrashes \in Nat
    /\ Fault \subseteq {"evidence", "source", "guard", "inbox", "disk", "notifier"}

VARIABLES
    inbox,       \* records in the hook-inbox directory
    gap,         \* the sticky gap marker exists
    accepted,    \* history: records whose submission returned success
    evidence,    \* findings a complete scan would report now
    source,      \* what the scanner meets: readable, damaged, missing
    guardFault,  \* the last check of the archive guard found it unhealthy
    disk,        \* state.json
    recorded,    \* history: events that have ever been in state.json
    claimed,     \* history: events ever "dispatching" in state.json
    mem,         \* the state in the memory of Watch
    main,        \* where the main goroutine is; "first" is the cycle that
                 \* runs before the loop, "idle" waits in the loop
    recovery,    \* events to queue again after a restart
    recent,      \* kinds notified less than ten minutes ago (lastNotice)
    rounds,      \* brokenRounds
    batch,       \* receipts of this cycle not acknowledged yet
    dispatch,    \* events of this cycle to hand to the worker
    jobs,        \* channel to the worker
    messages,    \* channel from the worker
    worker,      \* the notification goroutine
    sent,        \* history: the helper invocations, in order
    clock,       \* time of the last report that created an event
    budget       \* environment steps taken, for the bounds

env      == <<evidence, source, guardFault>>
inboxes  == <<inbox, gap, accepted>>
durable  == <<disk, recorded, claimed>>
channels == <<jobs, messages, worker, sent>>
cycleVars == <<recovery, recent, rounds, batch, dispatch, clock>>
vars == <<inboxes, env, durable, mem, main, cycleVars, channels, budget>>

Idle == [pc |-> "idle", id |-> None]

\* The two places from which the cycle function is called.
AtCycle == main \in {"first", "idle"}

-----------------------------------------------------------------------------
(* The environment: the client's evidence, the guard, and the hook processes. *)

\* A bounded number of changes and failures of the named kind.
Disturb(fault) ==
    /\ fault \in Fault
    /\ budget.faults < MaxFaults
    /\ budget' = [budget EXCEPT !.faults = @ + 1]

\* The cycle reads evidence, source and guard only in Observe, so a change
\* while it saves or acknowledges is a change before the next Observe.
EvidenceChanges ==
    /\ AtCycle
    /\ Disturb("evidence")
    /\ \E found \in SUBSET Evidence :
          /\ \A f, g \in found : KeyOf[f] = KeyOf[g] => f = g
          /\ evidence' = found
    /\ UNCHANGED <<source, guardFault, inboxes, durable, mem, main, cycleVars, channels>>

SourceChanges ==
    /\ AtCycle
    /\ Disturb("source")
    /\ source' \in Source \ {source}
    /\ UNCHANGED <<evidence, guardFault, inboxes, durable, mem, main, cycleVars, channels>>

\* That it heals is no failure.
GuardChanges ==
    /\ AtCycle
    /\ IF guardFault THEN UNCHANGED budget ELSE Disturb("guard")
    /\ guardFault' = ~guardFault
    /\ UNCHANGED <<evidence, source, inboxes, durable, mem, main, cycleVars, channels>>

\* SubmitHookInspection returns success: the record is in the directory
\* (an identical pending record makes the call a no-op).
Submit(r) ==
    /\ budget.submits < MaxSubmits
    /\ budget' = [budget EXCEPT !.submits = @ + 1]
    /\ inbox' = inbox \cup {r}
    /\ accepted' = accepted \cup {r}
    /\ UNCHANGED <<gap, env, durable, mem, main, cycleVars, channels>>

\* SubmitHookInspection fails and leaves the sticky marker.
Reject ==
    /\ Disturb("inbox")
    /\ gap' = TRUE
    /\ UNCHANGED <<inbox, accepted, env, durable, mem, main, cycleVars, channels>>

-----------------------------------------------------------------------------
(* The state file. *)

\* The rename of SaveState: the file now holds st.
Written(st) ==
    /\ disk' = st
    /\ recorded' = recorded \cup Present(st)
    /\ claimed' = claimed \cup {i \in Present(st) : st.note[i] = "dispatching"}

\* An error of SaveState, before the rename or in the directory sync after it.
SaveFails(st) == Disturb("disk") /\ (Written(st) \/ UNCHANGED durable)

Older(i, j) == i[2] < j[2] \/ (i[2] = j[2] /\ Order[i[1]] < Order[j[1]])

\* Retention: the events of S that the bounded list keeps.
Newest(S) == {i \in S : Cardinality({j \in S : Older(i, j)}) < MaxEvents}

\* Findings of report R that advance their cursor; two records of one key in
\* one report differ in hash, so the later of them always does.
Created(st, R) ==
    {f \in R : \/ st.seen[KeyOf[f]] # f
               \/ \E g \in R : KeyOf[g] = KeyOf[f] /\ Order[g] < Order[f]}

\* The finding of report R that key k's cursor ends at.
IsLast(f, R, k) == KeyOf[f] = k /\ \A g \in R : KeyOf[g] = k => Order[g] <= Order[f]

HasSnapshotHistory(st) == \E f \in Evidence : st.seen[KeyOf[f]] # None

\* A scan is broken when it cannot parse everything, or when the directory is
\* missing although snapshots were seen there.
Broken(st) == source = "degraded" \/ (source = "absent" /\ HasSnapshotHistory(st))

\* canBaselineWorkspaceSnapshots: a broken scan counts only with evidence in it.
ValidScan(st, R) == Broken(st) => R \cap Evidence # {}

\* The first valid scan of a state that has not looked for the workspace family
\* yet makes a baseline of what it finds of it.
Uninspected(st, f) ==
    st.init /\ ~st.generation /\ f \in Workspace /\ st.seen[KeyOf[f]] = None
Upgraded(st, R, f) == Uninspected(st, f) /\ ValidScan(st, R)

\* Hook and protection findings are never baseline.
Hookish == Record \cup {"gap", "unreadable", "protection"}
Quiet(st, R, f) == (~st.init /\ f \notin Hookish) \/ Upgraded(st, R, f)

\* The status of a new event.
NewNote(st, R, f) ==
    IF Upgraded(st, R, f) THEN "suppressed_upgrade_baseline"
    ELSE IF Quiet(st, R, f) THEN "suppressed_baseline" ELSE "pending"

\* ApplyReport: cursors move, new events are "pending" or quiet baseline, and
\* the oldest events beyond MaxEvents leave the list.
ApplyReport(st, R, now) ==
    LET new  == {<<f, now>> : f \in Created(st, R)}
        kept == Newest(Present(st) \cup new)
    IN  [init |-> TRUE, generation |-> st.generation \/ ValidScan(st, R),
         seen |-> [k \in Key |-> IF \E f \in R : IsLast(f, R, k)
                                 THEN CHOOSE f \in R : IsLast(f, R, k) ELSE st.seen[k]],
         note |-> [i \in kept |-> IF i \in new THEN NewNote(st, R, i[1]) ELSE st.note[i]],
         coverage |-> IF Broken(st) THEN "degraded" ELSE source,
         diagnostics |-> R \cap Alarm]

-----------------------------------------------------------------------------
(* The detection cycle. *)

\* Recovery advances the health cursors without an event, so that a later
\* episode of the same failure is a change again.
Healed(st) ==
    LET well == (IF Broken(st) THEN {} ELSE {KeyOf["coverage"]}) \cup
                (IF guardFault THEN {} ELSE {KeyOf["protection"]})
    IN  [st EXCEPT !.seen = [k \in Key |-> IF k \in well /\ st.seen[k] # None
                                           THEN "recovered" ELSE st.seen[k]]]

\* The first BatchLimit records in name order.
FirstRecords == {r \in inbox : Cardinality({s \in inbox : Order[s] < Order[r]}) < BatchLimit}

Scanned == CASE source = "observing" -> {evidence}
             [] source = "degraded"  -> SUBSET evidence
             [] source = "absent"    -> {{}}

\* brokenRounds, saturated at the limit: only "at least BrokenLimit" is read.
NextRounds == IF ~Broken(mem) THEN 0 ELSE IF rounds < BrokenLimit THEN rounds + 1 ELSE rounds

Report(part, readable) ==
    part \cup (IF NextRounds >= BrokenLimit THEN {"coverage"} ELSE {})
         \cup (IF readable THEN FirstRecords \cup (IF gap THEN {"gap"} ELSE {})
                           ELSE {"unreadable"})
         \cup (IF guardFault THEN {"protection"} ELSE {})

\* The strongest phase of an evidence group; the first of equals.
Strongest(i, events) ==
    \A j \in events \ {i} : GroupOf[j[1]] = GroupOf[i[1]] =>
        \/ RankOf[j[1]] < RankOf[i[1]]
        \/ RankOf[j[1]] = RankOf[i[1]] /\ Older(i, j)

\* Events that may be notified in this cycle, and those that are queued: the
\* first of each kind, unless the kind is still in its ten-minute window.
Eligible(st, events, configured) ==
    {i \in events \cap Present(st) :
        configured /\ KindOf[i[1]] \notin Silent /\ Strongest(i, events)}
Queued(st, events, configured, still) ==
    LET eligible == Eligible(st, events, configured)
    IN  {i \in eligible : /\ KindOf[i[1]] \notin still
                          /\ \A j \in eligible : KindOf[j[1]] = KindOf[i[1]] => ~Older(j, i)}

\* An event that has already been evicted is not touched.
Classified(st, events, configured, queued) ==
    [st EXCEPT !.note = [i \in Present(st) |->
        IF i \notin events THEN st.note[i]
        ELSE IF KindOf[i[1]] \in Silent THEN "recorded_only"
        ELSE IF ~configured THEN "not_configured"
        ELSE IF ~Strongest(i, events) THEN "superseded_by_stronger_evidence"
        ELSE IF i \notin queued THEN "aggregated"
        ELSE "queued"]]

\* Variant: the acknowledgement is skipped.
AfterUnacknowledged(b, d) == IF d # {} THEN "enqueue" ELSE "idle"

\* Where the cycle continues with receipts b to acknowledge and events d to queue.
After(b, d) == IF b # {} THEN "ack" ELSE IF d # {} THEN "enqueue" ELSE "idle"

\* Variant: a change of the diagnostics alone is not saved.
NothingToSaveButDiagnostics(st, events, receipts) ==
    /\ main = "idle" /\ mem.init /\ events = {} /\ receipts = {}
    /\ st.coverage = mem.coverage

\* The cycle may end without a write: there is nothing to announce, and the last
\* write is not thirty seconds old.  A cursor, a quiet event or the generation may
\* have changed all the same.
NothingToSave(st, events, receipts) ==
    /\ main = "idle" /\ mem.init /\ events = {} /\ receipts = {}
    /\ st.coverage = mem.coverage /\ st.diagnostics = mem.diagnostics

\* The cycle up to its SaveState: scan, read the inbox, apply, classify.  The
\* ten minutes of some kinds among the new events may have passed.
Observe(readable, configured) ==
    /\ AtCycle
    /\ \E part \in Scanned :
       LET healed   == Healed(mem)
           report   == Report(part, readable)
           now      == clock + 1
           created  == Created(healed, report)
           events   == recovery \cup {<<f, now>> : f \in {g \in created : ~Quiet(healed, report, g)}}
           receipts == IF readable THEN FirstRecords ELSE {}
       IN  /\ created # {} => clock < MaxClock
           /\ clock' = IF created # {} THEN now ELSE clock
           /\ \E st \in {ApplyReport(healed, report, now)},
                 expired \in SUBSET (recent \cap {KindOf[i[1]] : i \in events}) :
              LET queued == Queued(st, events, configured, recent \ expired)
              IN  /\ mem' = Classified(st, events, configured, queued)
                  /\ recent' = (recent \ expired) \cup {KindOf[i[1]] : i \in queued}
                  /\ dispatch' = queued
           /\ batch' = receipts
           /\ \/ main' = "save"
              \/ NothingToSave(mem', events, receipts) /\ main' = "idle"
    /\ rounds' = NextRounds
    /\ recovery' = {}
    /\ UNCHANGED <<inboxes, env, durable, channels>>

ObserveReadable   == Observe(TRUE, TRUE) /\ UNCHANGED budget
ObserveUnreadable == Disturb("inbox") /\ Observe(FALSE, TRUE)
ObserveUnnotified == Disturb("notifier") /\ Observe(TRUE, FALSE)

\* Variant: the error of the save is ignored.
SaveCycleUnchecked ==
    /\ main = "save"
    /\ main' = After(batch, dispatch)
    /\ (Written(mem) /\ UNCHANGED budget) \/ SaveFails(mem)
    /\ UNCHANGED <<inboxes, env, mem, cycleVars, channels>>

SaveCycle ==
    /\ main = "save"
    /\ \/ Written(mem) /\ main' = After(batch, dispatch) /\ UNCHANGED budget
       \/ SaveFails(mem) /\ main' = "exit"
    /\ UNCHANGED <<inboxes, env, mem, cycleVars, channels>>

\* AckHookInbox removes the records of the batch one by one.
AckRecord ==
    /\ main = "ack"
    /\ \E r \in batch :
          /\ inbox' = inbox \ {r}
          /\ batch' = batch \ {r}
          /\ main' = After(batch', dispatch)
    /\ UNCHANGED <<gap, accepted, env, durable, mem, recovery, recent, rounds, dispatch,
                   clock, channels, budget>>

\* AckHookInbox fails: the records stay, the failure is saved as a diagnostic.
AckFails ==
    /\ main = "ack"
    /\ Disturb("inbox")
    /\ batch' = {}
    /\ mem' = [mem EXCEPT !.diagnostics = @ \cup {"ack_failed"}]
    /\ \/ Written(mem') /\ main' = After({}, dispatch)
       \/ "disk" \in Fault /\ (Written(mem') \/ UNCHANGED durable) /\ main' = "exit"
    /\ UNCHANGED <<inboxes, env, recovery, recent, rounds, dispatch, clock, channels>>

\* Variant: the channel is full and the event keeps its status.
EnqueueUnmarked ==
    /\ main = "enqueue"
    /\ \E i \in dispatch :
          /\ \A j \in dispatch : ~Older(j, i)
          /\ dispatch' = dispatch \ {i}
          /\ main' = After({}, dispatch')
          /\ jobs' = IF Len(jobs) < JobsCapacity THEN Append(jobs, i) ELSE jobs
    /\ UNCHANGED <<inboxes, env, durable, mem, recovery, recent, rounds, batch, clock,
                   messages, worker, sent, budget>>

\* The non-blocking hand-over of one event, oldest first; a full channel leaves
\* the event "queue_full" in memory, while the file still says "queued".
Enqueue ==
    /\ main = "enqueue"
    /\ \E i \in dispatch :
          /\ \A j \in dispatch : ~Older(j, i)
          /\ dispatch' = dispatch \ {i}
          /\ main' = After({}, dispatch')
          /\ \/ Len(jobs) < JobsCapacity /\ jobs' = Append(jobs, i) /\ UNCHANGED mem
             \/ /\ Len(jobs) >= JobsCapacity
                /\ mem' = [mem EXCEPT !.note[i] = "queue_full"]
                /\ UNCHANGED jobs
    /\ UNCHANGED <<inboxes, env, durable, recovery, recent, rounds, batch, clock,
                   messages, worker, sent, budget>>

-----------------------------------------------------------------------------
(* The notification goroutine and the messages it exchanges with the loop. *)

\* Variant: the goroutine sends without asking for the claim.
WorkerTakeUnclaimed ==
    /\ worker.pc = "idle" /\ main # "down" /\ jobs # <<>>
    /\ jobs' = Tail(jobs)
    /\ worker' = [pc |-> "send", id |-> Head(jobs)]
    /\ UNCHANGED <<inboxes, env, durable, mem, main, cycleVars, messages, sent, budget>>

\* It takes an event and asks the loop to claim it ("dispatching").  The
\* channel of 32 never fills: the goroutine has at most two messages in it.
WorkerTake ==
    /\ worker.pc = "idle" /\ main # "down" /\ jobs # <<>>
    /\ jobs' = Tail(jobs)
    /\ messages' = Append(messages, [id |-> Head(jobs), status |-> "dispatching", ready |-> TRUE])
    /\ worker' = [pc |-> "wait", id |-> Head(jobs)]
    /\ UNCHANGED <<inboxes, env, durable, mem, main, cycleVars, sent, budget>>

\* Variant: the answer does not depend on the save.
AnsweredAnyway(m, allowed) ==
    worker' = IF m.ready THEN [worker EXCEPT !.pc = "send"] ELSE worker

\* The answer to a claim; a status message has nobody waiting.
Answered(m, allowed) ==
    worker' = IF ~m.ready THEN worker
              ELSE IF allowed THEN [worker EXCEPT !.pc = "send"] ELSE Idle

\* applyNotice: an evicted event is refused; otherwise the status is saved
\* and only then the claim is allowed.  A failed save ends the loop.
ApplyNotice ==
    /\ main = "idle" /\ messages # <<>>
    /\ messages' = Tail(messages)
    /\ LET m     == Head(messages)
           found == m.id \in Present(mem)
       IN  \/ /\ ~found
              /\ Answered(m, FALSE)
              /\ UNCHANGED <<mem, durable, main, budget>>
           \/ /\ found
              /\ mem' = [mem EXCEPT !.note[m.id] = m.status]
              /\ \/ Written(mem') /\ Answered(m, TRUE) /\ UNCHANGED <<main, budget>>
                 \/ SaveFails(mem') /\ Answered(m, FALSE) /\ main' = "exit"
    /\ UNCHANGED <<inboxes, env, cycleVars, jobs, sent>>

\* sendNotice runs the helper for a claimed event.
Send ==
    /\ worker.pc = "send"
    /\ sent' = Append(sent, worker.id)
    /\ worker' = [worker EXCEPT !.pc = "sent"]
    /\ UNCHANGED <<inboxes, env, durable, mem, main, cycleVars, jobs, messages, budget>>

\* Variant: a killed helper leaves the status unset.
SendReturnsUnset ==
    /\ worker.pc = "sent"
    /\ messages' = Append(messages, [id |-> worker.id, status |-> "", ready |-> FALSE])
    /\ worker' = Idle
    /\ UNCHANGED <<inboxes, env, durable, mem, main, cycleVars, jobs, sent, budget>>

\* The helper answers, fails or is killed after twelve seconds.
SendReturns ==
    /\ worker.pc = "sent"
    /\ \E outcome \in Outcome :
          messages' = Append(messages, [id |-> worker.id, status |-> outcome, ready |-> FALSE])
    /\ worker' = Idle
    /\ UNCHANGED <<inboxes, env, durable, mem, main, cycleVars, jobs, sent, budget>>

\* No helper is configured any more: the claimed event is not sent.
SendSkipped ==
    /\ worker.pc = "send"
    /\ Disturb("notifier")
    /\ messages' = Append(messages, [id |-> worker.id, status |-> "not_configured", ready |-> FALSE])
    /\ worker' = Idle
    /\ UNCHANGED <<inboxes, env, durable, mem, main, cycleVars, jobs, sent>>

-----------------------------------------------------------------------------
(* The life of the process. *)

\* The context ends: the loop saves and leaves, whether or not that succeeds.
Stop ==
    /\ main = "idle"
    /\ budget.crashes < MaxCrashes
    /\ main' = "exit"
    /\ budget' = [budget EXCEPT !.crashes = @ + 1]
    /\ Written(mem) \/ UNCHANGED durable
    /\ UNCHANGED <<inboxes, env, mem, cycleVars, channels>>

\* Variant: the wait for the answer does not watch the context.
WorkerReturnsUnlessWaiting ==
    /\ main = "exit"
    /\ worker.pc \in {"idle", "send", "sent"}
    /\ worker' = [pc |-> "returned", id |-> None]
    /\ UNCHANGED <<inboxes, env, durable, mem, main, cycleVars, jobs, messages, sent, budget>>

\* With the context cancelled the goroutine returns at its next channel
\* operation; a running helper is killed first.
WorkerReturns ==
    /\ main = "exit"
    /\ worker.pc \in {"idle", "wait", "send", "sent"}
    /\ worker' = [pc |-> "returned", id |-> None]
    /\ UNCHANGED <<inboxes, env, durable, mem, main, cycleVars, jobs, messages, sent, budget>>

\* What a process that is gone leaves behind: its memory is lost.
Gone ==
    /\ main' = "down"
    /\ recovery' = {} /\ recent' = {} /\ rounds' = 0 /\ batch' = {} /\ dispatch' = {}
    /\ jobs' = <<>> /\ messages' = <<>> /\ worker' = Idle
    /\ mem' = disk'
    /\ UNCHANGED <<inboxes, env, clock, sent>>

\* The deferred functions: after the goroutine, Running = false is saved.
Exit ==
    /\ main = "exit" /\ worker.pc = "returned"
    /\ \/ Written(mem) /\ UNCHANGED budget
       \/ Disturb("disk") /\ UNCHANGED durable
    /\ Gone

Crash ==
    /\ main # "down"
    /\ budget.crashes < MaxCrashes
    /\ budget' = [budget EXCEPT !.crashes = @ + 1]
    /\ UNCHANGED durable
    /\ Gone

Interrupted(st) ==
    [st EXCEPT !.note = [i \in Present(st) |-> IF st.note[i] = "dispatching"
                                               THEN "unknown_after_restart" ELSE st.note[i]]]

\* Watch starts: it loads the file, collects what to queue again, and keeps
\* the ten-minute window of what was or may have been notified.
Start ==
    /\ main = "down"
    /\ mem' = Interrupted(disk)
    /\ recovery' = {i \in Present(disk) : disk.note[i] \in Retryable}
    /\ recent' = {KindOf[i[1]] : i \in {j \in Present(disk) : mem'.note[j] \in
                     {"accepted_by_os", "unknown_after_restart", "unknown_timeout"}}}
    /\ main' = "first"
    /\ UNCHANGED <<inboxes, env, durable, rounds, batch, dispatch, clock, channels, budget>>

-----------------------------------------------------------------------------
EmptyState == [init |-> FALSE, generation |-> FALSE, seen |-> [k \in Key |-> None],
               note |-> [i \in {} |-> "pending"],
               coverage |-> "observing", diagnostics |-> {}]

Init ==
    /\ inbox = {} /\ gap = FALSE /\ accepted = {}
    /\ evidence \in {S \in SUBSET Evidence : Cardinality(S) <= 1}
    /\ source = "observing" /\ guardFault \in BOOLEAN
    /\ guardFault => "guard" \in Fault /\ MaxFaults > 0
    /\ disk = EmptyState /\ recorded = {} /\ claimed = {}
    /\ mem = EmptyState /\ main = "down"
    /\ recovery = {} /\ recent = {} /\ rounds = 0 /\ batch = {} /\ dispatch = {}
    /\ jobs = <<>> /\ messages = <<>> /\ worker = Idle
    /\ sent = <<>>
    /\ clock = 0
    /\ budget = [submits |-> 0, faults |-> IF guardFault THEN 1 ELSE 0, crashes |-> 0]

Environment == EvidenceChanges \/ SourceChanges \/ GuardChanges \/ Reject
               \/ \E r \in Record : Submit(r)
Cycle  == ObserveReadable \/ ObserveUnreadable \/ ObserveUnnotified
          \/ SaveCycle \/ AckRecord \/ AckFails \/ Enqueue
Worker == WorkerTake \/ Send \/ SendReturns \/ SendSkipped \/ WorkerReturns
Next   == Environment \/ Cycle \/ ApplyNotice \/ Worker
          \/ Stop \/ Exit \/ Crash \/ Start

Spec == Init /\ [][Next]_vars

\* The ticker fires for ever and a cycle saves at the latest thirty seconds
\* after the last write; Go's select takes a waiting message sooner or later
\* (it chooses at random, hence strong fairness); the helper is killed after
\* twelve seconds; the service manager starts the monitor again.
Fairness ==
    /\ WF_vars(ObserveReadable /\ main' = "save") /\ WF_vars(SaveCycle)
    /\ WF_vars(AckRecord) /\ WF_vars(Enqueue) /\ SF_vars(ApplyNotice)
    /\ WF_vars(WorkerTake) /\ WF_vars(Send) /\ WF_vars(SendReturns)
    /\ WF_vars(WorkerReturns) /\ WF_vars(Exit) /\ WF_vars(Start)

LiveSpec == Spec /\ Fairness
-----------------------------------------------------------------------------
(* Properties. *)

WorkerState == [pc : {"idle", "returned"}, id : {None}]
               \cup [pc : {"wait", "send", "sent"}, id : Id]

\* Type correctness of the whole pipeline.
TypeOK ==
    /\ inbox \subseteq Record /\ gap \in BOOLEAN /\ accepted \subseteq Record
    /\ evidence \subseteq Evidence /\ source \in Source /\ guardFault \in BOOLEAN
    /\ IsState(disk) /\ recorded \subseteq Id /\ claimed \subseteq Id
    /\ IsState(mem)
    /\ main \in {"down", "first", "idle", "save", "ack", "enqueue", "exit"}
    /\ recovery \subseteq Id /\ recent \subseteq Kind /\ rounds \in 0..BrokenLimit
    /\ batch \subseteq Record /\ dispatch \subseteq Id
    /\ jobs \in Seq(Id) /\ messages \in Seq(Message)
    /\ worker \in WorkerState
    /\ sent \in Seq(Id)
    /\ clock \in 0..MaxClock
    /\ budget \in [submits : 0..MaxSubmits, faults : 0..MaxFaults, crashes : 0..MaxCrashes]

\* No event is announced twice: the helper runs at most once per event, whatever the interleaving of loop
\* and goroutine, and across stops, crashes and restarts.
AtMostOneSend == \A m, n \in 1..Len(sent) : sent[m] = sent[n] => m = n

\* The helper runs only for events whose "dispatching" status reached the file.
PersistBeforeSend == \A n \in 1..Len(sent) : sent[n] \in claimed

\* A record that SubmitHookInspection accepted is still in the inbox or an
\* event for it has been durable: acknowledging never loses an observation.
NoLostRecord ==
    \A r \in accepted : r \in inbox \/ \E i \in recorded : i[1] = r

JobIds  == {jobs[n] : n \in 1..Len(jobs)}
SentIds == {sent[n] : n \in 1..Len(sent)}

\* The event that the goroutine asks to claim, and the one it is allowed to send.
Asking   == IF worker.pc = "wait" THEN {worker.id} ELSE {}
Allowed  == IF worker.pc = "send" THEN {worker.id} ELSE {}

\* Between two cycles, an event that still has to be notified is with
\* somebody: the recovery list, the channel, or the goroutine asking for it.
NoOrphanedNotice ==
    AtCycle => \A i \in Present(mem) : mem.note[i] \in {"pending", "queued"} =>
        i \in recovery \cup JobIds \/ (worker.pc = "wait" /\ worker.id = i)

\* What state st knows beyond the file is workspace evidence that a restart from
\* the file would again record as baseline, and a "queue_full"; what only the file
\* holds is older than all that the bounded list of st holds.
Behind(file, st) ==
    /\ \A k \in Key : st.seen[k] # file.seen[k] => Uninspected(file, st.seen[k])
    /\ \A i \in Present(st) \cap Present(file) : st.note[i] \in {file.note[i], "queue_full"}
    /\ \A i \in Present(st) \ Present(file) :
          st.note[i] = "suppressed_upgrade_baseline" /\ Uninspected(file, i[1])
    /\ \A i \in Present(file) \ Present(st), j \in Present(st) : Older(i, j)

\* While the loop waits, a crash repeats no alarm and loses none, although the
\* cycle saves only when it has something to announce (runner.go): whatever else
\* it changes, a restart finds again and is as quiet about.
IdleIsDurable == main = "idle" => Behind(disk, mem)

\* Events that a restart from the present file would queue.
Open == {i \in Present(disk) : disk.note[i] \in Retryable}

Ledger == INSTANCE NoticeLedger
              WITH Event <- Id, known <- recorded, open <- Open, delivered <- sent

\* Seen through the file and the helper, every execution is one of the ledger:
\* no status ever returns to an earlier stage, not even after a crash.
ImplementsLedger == Ledger!Spec

\* An event that still waits for its claim is in one place, and is not claimed.
OnePlace ==
    /\ dispatch \cap JobIds = {} /\ Asking \cap (dispatch \cup JobIds) = {}
    /\ \A m, n \in 1..Len(jobs) : jobs[m] = jobs[n] => m = n
    /\ (recovery \cup dispatch \cup JobIds \cup Asking) \cap claimed = {}

\* The recovery list exists only before the first cycle, when the goroutine has
\* nothing yet; the cycle hands over all it dispatches before the loop goes on.
Phases ==
    /\ main # "first" => recovery = {}
    /\ main \in {"down", "first"} => jobs = <<>> /\ messages = <<>> /\ worker = Idle
    /\ main \in {"down", "first", "idle"} => dispatch = {}

\* A claim in the channel is the goroutine's own and its only one, until the
\* loop has ended and nobody answers any more.
Claims ==
    /\ \A n \in 1..Len(messages) :
          /\ messages[n].status \in Outcome \cup {"dispatching"}
          /\ messages[n].ready <=> messages[n].status = "dispatching"
          /\ messages[n].ready /\ main # "exit" =>
                worker = [pc |-> "wait", id |-> messages[n].id]
    /\ main # "exit" => \A m, n \in 1..Len(messages) :
          messages[m].ready /\ messages[n].ready => m = n

\* A claimed event is never again in a status that start-up queues, and a sent
\* event is claimed; an unclaimed "dispatching" exists only in a loop that ends.
NeverReopened ==
    /\ \A i \in claimed : /\ i \in Present(mem) => mem.note[i] \notin Retryable
                          /\ i \in Present(disk) => disk.note[i] \notin Retryable
    /\ \A i \in Present(disk) : disk.note[i] = "dispatching" => i \in claimed
    /\ \A i \in Present(mem) : mem.note[i] = "dispatching" => i \in claimed \/ main = "exit"
    /\ SentIds \cup Allowed \subseteq claimed /\ SentIds \cap Allowed = {}

\* Events carry times of the past, so the next report makes new ones.
Past == \A i \in Present(mem) \cup Present(disk) \cup recovery \cup dispatch \cup JobIds
                  \cup Asking \cup claimed : i[2] <= clock

\* The inductive invariant behind AtMostOneSend and PersistBeforeSend.
NoticeInv == TypeOK /\ AtMostOneSend /\ OnePlace /\ Phases /\ Claims /\ NeverReopened /\ Past

\* Every record that reaches the inbox is consumed, failed saves, failed
\* acknowledgements and restarts notwithstanding.
InboxDrains == \A r \in Record : r \in inbox ~> r \notin inbox

\* Once the environment is quiet no event stays "pending" or "queued" in the
\* file: it was delivered, refused, dropped by a full channel, or interrupted.
NoticesSettle == <>[](\A i \in Present(disk) : disk.note[i] \notin {"pending", "queued"})

\* A loop that has ended never waits for ever on the goroutine.
StopCompletes == main = "exit" ~> main = "down"
=============================================================================
