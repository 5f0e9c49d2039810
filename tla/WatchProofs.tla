---------------------------- MODULE WatchProofs ----------------------------
(***************************************************************************)
(* Theorems of the monitor, for every inbox, event list and bound: type     *)
(* correctness; no event is announced twice nor before its claim is in the  *)
(* file; no event that has to be notified is orphaned; the monitor          *)
(* implements the ledger of notices; what the waiting loop knows is in the  *)
(* file; and no record that the inbox accepted is lost.                     *)
(***************************************************************************)
EXTENDS Watch, TLAPS, FiniteSetTheorems

USE FindingAssumption, BoundAssumption
-----------------------------------------------------------------------------
(* States and their operations. *)

\* The fields of a state, one by one.
LEMMA StateFields ==
    ASSUME NEW st, IsState(st)
    PROVE  /\ st.init \in BOOLEAN /\ st.generation \in BOOLEAN /\ st.seen \in [Key -> Cursor]
           /\ st.note \in [Present(st) -> Note] /\ Present(st) \subseteq Id
           /\ st.coverage \in Source /\ st.diagnostics \subseteq Diagnosis
           /\ st = [init |-> st.init, generation |-> st.generation, seen |-> st.seen, note |-> st.note,
                    coverage |-> st.coverage, diagnostics |-> st.diagnostics]
BY DEF IsState

\* What makes a record a state.
LEMMA StateMade ==
    ASSUME NEW i \in BOOLEAN, NEW g \in BOOLEAN, NEW s \in [Key -> Cursor], NEW n,
           n \in [DOMAIN n -> Note], DOMAIN n \subseteq Id,
           NEW c \in Source, NEW d \in SUBSET Diagnosis
    PROVE  IsState([init |-> i, generation |-> g, seen |-> s, note |-> n, coverage |-> c,
                    diagnostics |-> d])
BY DEF IsState, Present

\* A state with another status for one event.
LEMMA NoteSet ==
    ASSUME NEW st, IsState(st), NEW i, NEW n \in Note
    PROVE  /\ IsState([st EXCEPT !.note[i] = n])
           /\ Present([st EXCEPT !.note[i] = n]) = Present(st)
           /\ \A j \in Present(st) : [st EXCEPT !.note[i] = n].note[j] =
                                     IF j = i THEN n ELSE st.note[j]
BY DEF IsState, Present

\* Writing a state keeps the types of the file and of the histories.
LEMMA WrittenType ==
    ASSUME TypeOK, NEW st, IsState(st), Written(st)
    PROVE  IsState(disk)' /\ (recorded \subseteq Id)' /\ (claimed \subseteq Id)'
BY StateFields DEF Written, TypeOK, IsState, Present

\* A new event is to be announced or is baseline; only the workspace family is
\* baseline of an initialized state.
LEMMA NewNotes ==
    ASSUME NEW st, NEW R, NEW f
    PROVE  /\ NewNote(st, R, f) \in {"pending"} \cup Baseline
           /\ Quiet(st, R, f) <=> NewNote(st, R, f) \in Baseline
           /\ st.init /\ Quiet(st, R, f) =>
                 Upgraded(st, R, f) /\ NewNote(st, R, f) = "suppressed_upgrade_baseline"
BY DEF NewNote, Quiet, Baseline, Upgraded, Uninspected

\* A report makes a state of a state; what it keeps keeps its status, and what
\* it adds is new at this time and "pending" or quiet.
LEMMA ReportMade ==
    ASSUME NEW st, IsState(st), NEW R \in SUBSET Finding, NEW now, source \in Source,
           Created(st, R) # {} => now \in 1..MaxClock
    PROVE  /\ IsState(ApplyReport(st, R, now))
           /\ \A i \in Present(ApplyReport(st, R, now)) :
                 \/ /\ i \in R \X {now} /\ Created(st, R) # {}
                    /\ ApplyReport(st, R, now).note[i] \in {"pending"} \cup Baseline
                 \/ i \in Present(st) /\ ApplyReport(st, R, now).note[i] = st.note[i]
<1> DEFINE new  == {<<f, now>> : f \in Created(st, R)}
           kept == Newest(Present(st) \cup new)
           note == [i \in kept |-> IF i \in new THEN NewNote(st, R, i[1]) ELSE st.note[i]]
           seen == [k \in Key |-> IF \E f \in R : IsLast(f, R, k)
                                  THEN CHOOSE f \in R : IsLast(f, R, k) ELSE st.seen[k]]
<1>1. new \subseteq R \X {now} /\ new \subseteq Id /\ (new # {} => Created(st, R) # {})
  BY DEF Created, Id
<1>2. kept \subseteq Present(st) \cup new
  BY DEF Newest
<1>3. seen \in [Key -> Cursor]
  <2> SUFFICES ASSUME NEW k \in Key
               PROVE  (IF \E f \in R : IsLast(f, R, k)
                       THEN CHOOSE f \in R : IsLast(f, R, k) ELSE st.seen[k]) \in Cursor
    OBVIOUS
  <2>1. CASE \E f \in R : IsLast(f, R, k)
    <3>1. (CHOOSE f \in R : IsLast(f, R, k)) \in R
      BY <2>1
    <3> QED BY <2>1, <3>1 DEF Cursor
  <2>2. CASE ~\E f \in R : IsLast(f, R, k)
    BY <2>2, StateFields
  <2> QED BY <2>1, <2>2
<1>4. note \in [kept -> Note]
  BY <1>2, StateFields, NewNotes DEF Note, Retryable
<1>5. kept \subseteq Id
  BY <1>1, <1>2, StateFields
<1>6. (IF Broken(st) THEN "degraded" ELSE source) \in Source
  BY DEF Source
<1>7. R \cap Alarm \in SUBSET Diagnosis
  BY DEF Diagnosis
<1>8. ApplyReport(st, R, now) =
        [init |-> TRUE, generation |-> st.generation \/ ValidScan(st, R), seen |-> seen, note |-> note,
         coverage |-> IF Broken(st) THEN "degraded" ELSE source, diagnostics |-> R \cap Alarm]
  BY DEF ApplyReport
<1>9. IsState(ApplyReport(st, R, now))
  <2> HIDE DEF note, seen
  <2>1. DOMAIN note = kept /\ note \in [DOMAIN note -> Note] /\ DOMAIN note \subseteq Id
    BY <1>4, <1>5
  <2> DEFINE c == IF Broken(st) THEN "degraded" ELSE source
             d == R \cap Alarm
             g == st.generation \/ ValidScan(st, R)
  <2>2. c \in Source /\ d \in SUBSET Diagnosis /\ TRUE \in BOOLEAN /\ g \in BOOLEAN
    BY <1>6, <1>7
  <2>3. ApplyReport(st, R, now) =
          [init |-> TRUE, generation |-> g, seen |-> seen, note |-> note, coverage |-> c,
           diagnostics |-> d]
    BY <1>8
  <2> HIDE DEF c, d, g
  <2>4. IsState([init |-> TRUE, generation |-> g, seen |-> seen, note |-> note, coverage |-> c,
                 diagnostics |-> d])
    BY <1>3, <2>1, <2>2, StateMade
  <2> QED BY <2>3, <2>4
<1>10. ASSUME NEW i \in kept
       PROVE  \/ i \in new /\ note[i] \in {"pending"} \cup Baseline
              \/ i \in Present(st) /\ note[i] = st.note[i]
  BY <1>2, NewNotes
<1>11. Present(ApplyReport(st, R, now)) = kept /\ ApplyReport(st, R, now).note = note
  BY <1>8 DEF Present
<1> QED
  <2> HIDE DEF note, seen, new, kept
  <2> QED BY <1>1, <1>9, <1>10, <1>11

\* Recovery moves health cursors and nothing else.
LEMMA HealedMade ==
    ASSUME NEW st, IsState(st)
    PROVE  IsState(Healed(st)) /\ Healed(st).note = st.note /\ Present(Healed(st)) = Present(st)
<1> DEFINE well == (IF Broken(st) THEN {} ELSE {KeyOf["coverage"]}) \cup
                   (IF guardFault THEN {} ELSE {KeyOf["protection"]})
           seen == [k \in Key |-> IF k \in well /\ st.seen[k] # None
                                  THEN "recovered" ELSE st.seen[k]]
<1>1. seen \in [Key -> Cursor]
  BY StateFields DEF Cursor
<1>2. Healed(st) = [init |-> st.init, generation |-> st.generation, seen |-> seen, note |-> st.note,
                    coverage |-> st.coverage, diagnostics |-> st.diagnostics]
  BY StateFields DEF Healed
<1> HIDE DEF seen
<1> QED BY <1>1, <1>2, StateFields, StateMade DEF Present

\* The statuses a cycle gives to its events; the others keep theirs.
Classes == {"recorded_only", "not_configured", "superseded_by_stronger_evidence",
            "aggregated", "queued"}

\* Classification touches the events of the cycle only.
LEMMA ClassifiedMade ==
    ASSUME NEW events, NEW configured, NEW queued, NEW st, IsState(st)
    PROVE  /\ IsState(Classified(st, events, configured, queued))
           /\ Present(Classified(st, events, configured, queued)) = Present(st)
           /\ \A i \in Present(st) :
                 Classified(st, events, configured, queued).note[i] \in
                    IF i \in events THEN Classes ELSE {st.note[i]}
<1> DEFINE note == [i \in Present(st) |->
                       IF i \notin events THEN st.note[i]
                       ELSE IF KindOf[i[1]] \in Silent THEN "recorded_only"
                       ELSE IF ~configured THEN "not_configured"
                       ELSE IF ~Strongest(i, events) THEN "superseded_by_stronger_evidence"
                       ELSE IF i \notin queued THEN "aggregated"
                       ELSE "queued"]
<1>1. \A i \in Present(st) : note[i] \in IF i \in events THEN Classes ELSE {st.note[i]}
  BY DEF Classes
<1>2. Classes \subseteq Note
  BY DEF Classes, Note, Retryable, Outcome
<1>3. DOMAIN note = Present(st) /\ note = [i \in Present(st) |-> note[i]]
  OBVIOUS
<1>4. Classified(st, events, configured, queued) =
        [init |-> st.init, generation |-> st.generation, seen |-> st.seen, note |-> note,
         coverage |-> st.coverage, diagnostics |-> st.diagnostics]
  BY StateFields DEF Classified
<1> HIDE DEF note
<1>5. \A i \in Present(st) : note[i] \in Note
  <2> SUFFICES ASSUME NEW i \in Present(st) PROVE note[i] \in Note
    OBVIOUS
  <2>1. note[i] \in IF i \in events THEN Classes ELSE {st.note[i]}
    BY <1>1
  <2>2. st.note[i] \in Note
    BY StateFields
  <2> QED BY <2>1, <2>2, <1>2
<1>6. note \in [DOMAIN note -> Note] /\ DOMAIN note \subseteq Id
  BY <1>3, <1>5, StateFields
<1>7. IsState(Classified(st, events, configured, queued))
  BY <1>4, <1>6, StateFields, StateMade
<1>8. Present(Classified(st, events, configured, queued)) = Present(st)
      /\ Classified(st, events, configured, queued).note = note
  BY <1>3, <1>4 DEF Present
<1> QED BY <1>1, <1>7, <1>8

\* A restart closes interrupted claims.
LEMMA InterruptedMade ==
    ASSUME NEW st, IsState(st)
    PROVE  /\ IsState(Interrupted(st)) /\ Present(Interrupted(st)) = Present(st)
           /\ \A i \in Present(st) : Interrupted(st).note[i] =
                 IF st.note[i] = "dispatching" THEN "unknown_after_restart" ELSE st.note[i]
<1> DEFINE note == [i \in Present(st) |-> IF st.note[i] = "dispatching"
                                          THEN "unknown_after_restart" ELSE st.note[i]]
<1>1. DOMAIN note = Present(st) /\ note \in [DOMAIN note -> Note] /\ DOMAIN note \subseteq Id
  BY StateFields DEF Note
<1>2. Interrupted(st) = [init |-> st.init, generation |-> st.generation, seen |-> st.seen, note |-> note,
                         coverage |-> st.coverage, diagnostics |-> st.diagnostics]
  BY StateFields DEF Interrupted
<1>3. \A i \in Present(st) : note[i] =
        IF st.note[i] = "dispatching" THEN "unknown_after_restart" ELSE st.note[i]
  OBVIOUS
<1> HIDE DEF note
<1> QED BY <1>1, <1>2, <1>3, StateFields, StateMade DEF Present

-----------------------------------------------------------------------------
(* The cycle. *)

\* The findings of a report.
LEMMA ReportType ==
    ASSUME TypeOK, NEW readable, NEW part \in Scanned
    PROVE  Report(part, readable) \subseteq Finding
<1>1. part \subseteq Evidence
  BY DEF Scanned, TypeOK, Source
<1>2. FirstRecords \subseteq Record
  BY DEF FirstRecords, TypeOK
<1> QED BY <1>1, <1>2 DEF Report, Finding, Alarm

\* What the cycle does up to its save: an event of the new state is an old one
\* with its status, or one of the recovery list or of this report; only those
\* are dispatched, and the clock moves when the report made an event.
LEMMA ObserveStep ==
    ASSUME TypeOK, NEW readable, NEW configured, Observe(readable, configured)
    PROVE  /\ IsState(mem') /\ (recent \subseteq Kind)' /\ (batch \subseteq Record)'
           /\ rounds' \in 0..BrokenLimit /\ recovery' = {}
           /\ clock' \in {clock, clock + 1} /\ clock' \in 0..MaxClock
           /\ main' \in {"save", "idle"} /\ (main' = "idle" => dispatch' = {})
           /\ \A i \in dispatch' :
                 i \in recovery \/ (i \in Finding \X {clock + 1} /\ clock' = clock + 1)
           /\ dispatch' \subseteq Id
           /\ \A i \in Present(mem') :
                 \/ i \in Present(mem) /\ mem'.note[i] = mem.note[i]
                 \/ /\ mem'.note[i] # "dispatching"
                    /\ \/ i \in recovery /\ i \in Present(mem)
                       \/ i \in Finding \X {clock + 1} /\ clock' = clock + 1
           /\ UNCHANGED <<inboxes, env, durable, channels>>
<1> DEFINE healed == Healed(mem)
           now == clock + 1
<1>1. PICK part \in Scanned :
        LET report   == Report(part, readable)
            created  == Created(healed, report)
            events   == recovery \cup {<<f, now>> : f \in {g \in created : ~Quiet(healed, report, g)}}
            receipts == IF readable THEN FirstRecords ELSE {}
        IN  /\ created # {} => clock < MaxClock
            /\ clock' = IF created # {} THEN now ELSE clock
            /\ \E st \in {ApplyReport(healed, report, now)},
                  expired \in SUBSET (recent \cap {KindOf[i[1]] : i \in events}) :
               LET queued == Queued(st, events, configured, recent \ expired)
               IN  /\ mem' = Classified(st, events, configured, queued)
                   /\ recent' = (recent \ expired) \cup {KindOf[i[1]] : i \in queued}
                   /\ dispatch' = queued
            /\ batch' = receipts
            /\ \/ main' = "save"
               \/ NothingToSave(mem', events, receipts) /\ main' = "idle"
  BY DEF Observe
<1> DEFINE report   == Report(part, readable)
           created  == Created(healed, report)
           events   == recovery \cup {<<f, now>> : f \in {g \in created : ~Quiet(healed, report, g)}}
           receipts == IF readable THEN FirstRecords ELSE {}
           applied  == ApplyReport(healed, report, now)
<1>2. PICK expired \in SUBSET (recent \cap {KindOf[i[1]] : i \in events}) :
        LET queued == Queued(applied, events, configured, recent \ expired)
        IN  /\ mem' = Classified(applied, events, configured, queued)
            /\ recent' = (recent \ expired) \cup {KindOf[i[1]] : i \in queued}
            /\ dispatch' = queued
  BY <1>1
<1> DEFINE queued == Queued(applied, events, configured, recent \ expired)
<1>3. report \in SUBSET Finding
  BY ReportType
<1>4. created \subseteq report
  BY DEF Created
<1>5. /\ created # {} => clock < MaxClock
      /\ clock' = IF created # {} THEN now ELSE clock
      /\ batch' = receipts
      /\ \/ main' = "save"
         \/ NothingToSave(mem', events, receipts) /\ main' = "idle"
  BY <1>1
<1>6. created \subseteq Finding /\ (created # {} => now \in 1..MaxClock /\ clock' = clock + 1)
  <2> HIDE DEF created, report
  <2> QED BY <1>4, <1>5, <1>3 DEF TypeOK
<1>7. IsState(healed) /\ healed.note = mem.note /\ Present(healed) = Present(mem)
  BY HealedMade DEF TypeOK
<1>8. source \in Source
  BY DEF TypeOK
<1>9. /\ events \subseteq Id
      /\ \A i \in events : i \in recovery \/ (i \in Finding \X {clock + 1} /\ created # {})
  <2> HIDE DEF created, healed
  <2>1. \A i \in events : i \in recovery \/ (i \in Finding \X {now} /\ created # {})
    <3> HIDE DEF now
    <3>1. ASSUME NEW i \in events, i \notin recovery
          PROVE  i \in Finding \X {now} /\ created # {}
      <4>1. PICK f \in created : i = <<f, now>>
        BY <3>1
      <4> HIDE DEF events
      <4>2. f \in Finding /\ created # {}
        BY <4>1, <1>6
      <4> QED BY <4>1, <4>2
    <3> HIDE DEF events
    <3> QED BY <3>1
  <2>2. created # {} => Finding \X {now} \subseteq Id
    BY <1>6 DEF Id
  <2>3. recovery \subseteq Id
    BY DEF TypeOK
  <2> QED BY <2>1, <2>2, <2>3
<1>10. queued \subseteq events \cap Present(applied)
  BY DEF Queued, Eligible
<1>11. mem' = Classified(applied, events, configured, queued) /\ dispatch' = queued
      /\ recent' = (recent \ expired) \cup {KindOf[i[1]] : i \in queued}
  BY <1>2
<1>12. main' = "save" \/ (events = {} /\ main' = "idle")
  <2> HIDE DEF events, receipts
  <2> QED BY <1>5 DEF NothingToSave
<1>13. /\ rounds' = NextRounds /\ recovery' = {}
       /\ UNCHANGED <<inboxes, env, durable, channels>>
  BY DEF Observe
<1> HIDE DEF healed, report, created, events, receipts, applied, queued
<1>14. /\ IsState(applied)
       /\ \A i \in Present(applied) :
             \/ /\ i \in report \X {now} /\ created # {}
                /\ applied.note[i] \in {"pending"} \cup Baseline
             \/ i \in Present(healed) /\ applied.note[i] = healed.note[i]
  <2>1. Created(healed, report) # {} => now \in 1..MaxClock
    BY <1>6 DEF created
  <2> HIDE DEF now
  <2>2. /\ IsState(ApplyReport(healed, report, now))
        /\ \A i \in Present(ApplyReport(healed, report, now)) :
              \/ /\ i \in report \X {now} /\ Created(healed, report) # {}
                 /\ ApplyReport(healed, report, now).note[i] \in {"pending"} \cup Baseline
              \/ /\ i \in Present(healed)
                 /\ ApplyReport(healed, report, now).note[i] = healed.note[i]
    BY SMTT(60), <1>3, <1>7, <1>8, <2>1, ReportMade
  <2> QED BY <2>2 DEF applied, created
<1>15. /\ IsState(mem') /\ Present(mem') = Present(applied)
       /\ \A i \in Present(applied) :
             mem'.note[i] \in IF i \in events THEN Classes ELSE {applied.note[i]}
  <2> DEFINE st == Classified(applied, events, configured, queued)
  <2>1. IsState(applied)
    BY <1>14
  <2>2. /\ IsState(st) /\ Present(st) = Present(applied)
        /\ \A i \in Present(applied) :
              st.note[i] \in IF i \in events THEN Classes ELSE {applied.note[i]}
    BY ONLY <2>1, ClassifiedMade
  <2> HIDE DEF st
  <2>3. mem' = st
    BY <1>11 DEF st
  <2> QED BY ONLY <2>2, <2>3
<1>16. ASSUME NEW i \in Present(mem')
       PROVE  \/ i \in Present(mem) /\ mem'.note[i] = mem.note[i]
              \/ /\ mem'.note[i] # "dispatching"
                 /\ \/ i \in recovery /\ i \in Present(mem)
                    \/ i \in Finding \X {clock + 1} /\ clock' = clock + 1
  <2>1. i \in Present(applied)
    BY <1>15
  <2>2. CASE i \in events
    <3>1. mem'.note[i] \in Classes
      BY <2>1, <2>2, <1>15
    <3>2. mem'.note[i] # "dispatching"
      BY <3>1 DEF Classes
    <3> QED BY <2>1, <2>2, <3>2, <1>3, <1>6, <1>7, <1>9, <1>14
  <2>3. CASE i \notin events
    <3>1. mem'.note[i] = applied.note[i]
      BY <2>1, <2>3, <1>15
    <3>2. \/ i \in report \X {now} /\ created # {} /\ applied.note[i] \in {"pending"} \cup Baseline
          \/ i \in Present(mem) /\ applied.note[i] = mem.note[i]
      BY <2>1, <1>7, <1>14
    <3>3. i \in report \X {now} => i \in Finding \X {clock + 1}
      BY <1>3
    <3> QED BY <3>1, <3>2, <3>3, <1>6 DEF Baseline
  <2> QED BY <2>2, <2>3
<1>17. (recent \subseteq Kind)'
  <2>1. \A i \in Id : KindOf[i[1]] \in Kind
    BY DEF Id
  <2> QED BY <2>1, <1>9, <1>10, <1>11 DEF TypeOK
<1>18. (batch \subseteq Record)'
  BY <1>5 DEF receipts, FirstRecords, TypeOK
<1>19. rounds' \in 0..BrokenLimit
  BY <1>13 DEF NextRounds, TypeOK
<1>20. clock' \in {clock, clock + 1} /\ clock' \in 0..MaxClock
  BY <1>6, <1>5 DEF TypeOK
<1>21. /\ dispatch' \subseteq Id
       /\ \A i \in dispatch' :
                 i \in recovery \/ (i \in Finding \X {clock + 1} /\ clock' = clock + 1)
  BY <1>6, <1>9, <1>10, <1>11
<1>22. main' \in {"save", "idle"} /\ (main' = "idle" => dispatch' = {})
  BY <1>10, <1>11, <1>12
<1> QED BY <1>13, <1>15, <1>16, <1>17, <1>18, <1>19, <1>20, <1>21, <1>22

\* A state with another diagnosis.
LEMMA DiagnosisAdded ==
    ASSUME NEW st, IsState(st), NEW d \in Diagnosis
    PROVE  /\ IsState([st EXCEPT !.diagnostics = st.diagnostics \cup {d}])
           /\ [st EXCEPT !.diagnostics = st.diagnostics \cup {d}].note = st.note
BY DEF IsState, Present

-----------------------------------------------------------------------------
(* Type correctness. *)

\* The initial state has the types.
LEMMA InitType == Init => TypeOK
<1> SUFFICES ASSUME Init PROVE TypeOK
  OBVIOUS
<1>1. IsState(EmptyState)
  BY DEF IsState, EmptyState, Present, Cursor, Source, Diagnosis
<1>2. evidence \subseteq Evidence
  BY DEF Init
<1>3. budget \in [submits : 0..MaxSubmits, faults : 0..MaxFaults, crashes : 0..MaxCrashes]
  BY DEF Init
<1>4. /\ jobs \in Seq(Id) /\ messages \in Seq(Message) /\ sent \in Seq(Id)
      /\ worker \in WorkerState
  BY DEF Init, WorkerState, Idle
<1>5. IsState(disk) /\ IsState(mem)
  BY <1>1 DEF Init
<1>6. /\ inbox \subseteq Record /\ gap \in BOOLEAN /\ accepted \subseteq Record
      /\ source \in Source /\ guardFault \in BOOLEAN
      /\ recorded \subseteq Id /\ claimed \subseteq Id
      /\ main \in {"down", "first", "idle", "save", "ack", "enqueue", "exit"}
      /\ recovery \subseteq Id /\ recent \subseteq Kind /\ rounds \in 0..BrokenLimit
      /\ batch \subseteq Record /\ dispatch \subseteq Id /\ clock \in 0..MaxClock
  <2>1. source \in Source /\ main \in {"down", "first", "idle", "save", "ack", "enqueue", "exit"}
    BY DEF Init, Source
  <2>2. rounds \in 0..BrokenLimit /\ clock \in 0..MaxClock
    BY DEF Init
  <2> QED BY <2>1, <2>2 DEF Init
<1> QED BY <1>2, <1>3, <1>4, <1>5, <1>6 DEF TypeOK

\* The bounds of the environment are kept.
Budget == [submits : 0..MaxSubmits, faults : 0..MaxFaults, crashes : 0..MaxCrashes]

\* A counted disturbance keeps the type of the budget.
LEMMA DisturbType ==
    ASSUME budget \in Budget, NEW fault, Disturb(fault)
    PROVE  budget' \in Budget
<1>1. budget.faults \in 0..MaxFaults /\ budget.faults < MaxFaults
  BY DEF Disturb, Budget
<1>2. budget.faults + 1 \in 0..MaxFaults
  BY <1>1
<1>3. budget' = [budget EXCEPT !.faults = budget.faults + 1]
  BY DEF Disturb
<1> QED BY <1>2, <1>3 DEF Budget

\* A counted stop or crash keeps the type of the budget.
LEMMA CrashesType ==
    ASSUME budget \in Budget, budget.crashes < MaxCrashes,
           budget' = [budget EXCEPT !.crashes = budget.crashes + 1]
    PROVE  budget' \in Budget
<1>1. budget.crashes + 1 \in 0..MaxCrashes
  BY DEF Budget
<1> QED BY <1>1 DEF Budget

\* Every step keeps the types; that only a waiting goroutine is answered, and so
\* is allowed to send an event it has, follows from Claims.
LEMMA StepType == TypeOK /\ Claims /\ Next => TypeOK'
<1> SUFFICES ASSUME TypeOK, Claims, Next PROVE TypeOK'
  OBVIOUS
<1> USE DEF inboxes, env, durable, channels, cycleVars
<1>1. CASE EvidenceChanges
  <2>1. budget' \in Budget
    BY <1>1, DisturbType DEF EvidenceChanges, TypeOK, Budget
  <2>2. IsState(disk') /\ IsState(mem')
    BY <1>1 DEF EvidenceChanges, TypeOK
  <2>3. evidence' \subseteq Evidence
    BY <1>1 DEF EvidenceChanges
  <2> QED BY <1>1, <2>1, <2>2, <2>3 DEF EvidenceChanges, TypeOK, Budget
<1>2. CASE SourceChanges
  <2>1. budget' \in Budget
    BY <1>2, DisturbType DEF SourceChanges, TypeOK, Budget
  <2>2. IsState(disk') /\ IsState(mem')
    BY <1>2 DEF SourceChanges, TypeOK
  <2> QED BY <1>2, <2>1, <2>2 DEF SourceChanges, TypeOK, Budget
<1>3. CASE GuardChanges
  <2>1. budget' \in Budget
    BY <1>3, DisturbType DEF GuardChanges, TypeOK, Budget
  <2>2. IsState(disk') /\ IsState(mem')
    BY <1>3 DEF GuardChanges, TypeOK
  <2> QED BY <1>3, <2>1, <2>2 DEF GuardChanges, TypeOK, Budget

<1>4. CASE Reject
  <2>1. budget' \in Budget
    BY <1>4, DisturbType DEF Reject, TypeOK, Budget
  <2>2. IsState(disk') /\ IsState(mem')
    BY <1>4 DEF Reject, TypeOK
  <2> QED BY <1>4, <2>1, <2>2 DEF Reject, TypeOK, Budget
<1>5. ASSUME NEW r \in Record, Submit(r)
      PROVE  TypeOK'
  <2>1. budget' \in Budget
    <3>1. budget \in Budget /\ budget.submits + 1 \in 0..MaxSubmits
      BY SMTT(30), <1>5 DEF Submit, TypeOK, Budget
    <3>2. budget' = [budget EXCEPT !.submits = budget.submits + 1]
      BY <1>5 DEF Submit
    <3> QED BY <3>1, <3>2 DEF Budget
  <2>2. IsState(disk') /\ IsState(mem')
    BY <1>5 DEF Submit, TypeOK
  <2> QED BY <1>5, <2>1, <2>2 DEF Submit, TypeOK, Budget
<1>6. ASSUME NEW readable, NEW configured, Observe(readable, configured), budget' \in Budget
      PROVE  TypeOK'
  <2>1. IsState(disk') /\ IsState(mem')
    BY <1>6, ObserveStep DEF TypeOK
  <2> QED BY <1>6, <2>1, ObserveStep DEF TypeOK, Budget
<1>7. CASE SaveCycle
  <2>1. budget' \in Budget
    BY <1>7, DisturbType DEF SaveCycle, SaveFails, TypeOK, Budget
  <2>2. IsState(disk') /\ (recorded \subseteq Id)' /\ (claimed \subseteq Id)' /\ IsState(mem')
    BY <1>7, WrittenType DEF SaveCycle, SaveFails, TypeOK
  <2> QED BY <1>7, <2>1, <2>2 DEF SaveCycle, After, TypeOK, Budget
<1>8. CASE AckRecord
  <2>1. IsState(disk') /\ IsState(mem')
    BY <1>8 DEF AckRecord, TypeOK
  <2> QED BY <1>8, <2>1 DEF AckRecord, After, TypeOK
<1>9. CASE AckFails
  <2>1. budget' \in Budget
    BY <1>9, DisturbType DEF AckFails, TypeOK, Budget
  <2>2. mem' = [mem EXCEPT !.diagnostics = mem.diagnostics \cup {"ack_failed"}]
    BY <1>9 DEF AckFails
  <2>3. IsState(mem')
    BY <2>2, DiagnosisAdded DEF TypeOK, Diagnosis
  <2>4. IsState(disk') /\ (recorded \subseteq Id)' /\ (claimed \subseteq Id)'
    BY <1>9, <2>3, WrittenType DEF AckFails, TypeOK
  <2> QED BY <1>9, <2>1, <2>3, <2>4 DEF AckFails, After, TypeOK, Budget
<1>10. CASE Enqueue
  <2>1. PICK i \in dispatch :
          /\ dispatch' = dispatch \ {i}
          /\ main' = After({}, dispatch')
          /\ \/ Len(jobs) < JobsCapacity /\ jobs' = Append(jobs, i) /\ UNCHANGED mem
             \/ /\ Len(jobs) >= JobsCapacity
                /\ mem' = [mem EXCEPT !.note[i] = "queue_full"]
                /\ UNCHANGED jobs
    BY <1>10 DEF Enqueue
  <2>2. IsState(disk') /\ IsState(mem')
    <3>1. "queue_full" \in Note /\ IsState(mem)
      BY DEF Note, Retryable, TypeOK
    <3>2. IsState([mem EXCEPT !.note[i] = "queue_full"])
      BY <3>1, NoteSet
    <3>3. mem' = mem \/ mem' = [mem EXCEPT !.note[i] = "queue_full"]
      BY <2>1
    <3>4. disk' = disk
      BY <1>10 DEF Enqueue
    <3> QED BY <3>1, <3>2, <3>3, <3>4 DEF TypeOK
  <2>3. (jobs \in Seq(Id))'
    <3>1. i \in Id /\ jobs \in Seq(Id)
      BY DEF TypeOK
    <3>2. jobs' = jobs \/ jobs' = Append(jobs, i)
      BY <2>1
    <3>3. Append(jobs, i) \in Seq(Id)
      BY <3>1
    <3>4. jobs' \in Seq(Id)
      BY <3>1, <3>2, <3>3
    <3> QED BY <3>4
  <2> QED BY <1>10, <2>1, <2>2, <2>3 DEF Enqueue, After, TypeOK
<1>11. CASE WorkerTake
  <2>1. Head(jobs) \in Id /\ (jobs \in Seq(Id))'
    BY <1>11 DEF WorkerTake, TypeOK
  <2>2. [id |-> Head(jobs), status |-> "dispatching", ready |-> TRUE] \in Message
    BY <2>1 DEF Message, Note
  <2>3. (messages \in Seq(Message))' /\ (worker \in WorkerState)'
    BY <1>11, <2>1, <2>2 DEF WorkerTake, TypeOK, WorkerState
  <2>4. IsState(disk') /\ IsState(mem')
    BY <1>11 DEF WorkerTake, TypeOK
  <2> QED BY <1>11, <2>1, <2>3, <2>4 DEF WorkerTake, TypeOK
<1>12. CASE ApplyNotice
  <2> DEFINE m == Head(messages)
  <2>1. m \in Message /\ (messages \in Seq(Message))'
    BY SMTT(30), <1>12 DEF ApplyNotice, TypeOK
  <2>2. PICK allowed \in BOOLEAN : Answered(m, allowed)
    BY <1>12 DEF ApplyNotice
  <2>3. (worker \in WorkerState)'
    <3>1. 1 \in 1..Len(messages) /\ m = messages[1] /\ main = "idle"
      BY <1>12 DEF ApplyNotice, TypeOK
    <3>2. m.ready => worker = [pc |-> "wait", id |-> m.id]
      BY <3>1 DEF Claims
    <3>3. m.id \in Id /\ worker \in WorkerState
      BY <2>1 DEF Message, TypeOK
    <3> QED BY <2>2, <3>2, <3>3 DEF Answered, WorkerState, Idle
  <2>4. IsState(mem')
    <3>1. m.status \in Note /\ IsState(mem)
      BY <2>1 DEF Message, TypeOK
    <3>2. IsState([mem EXCEPT !.note[m.id] = m.status])
      BY <3>1, NoteSet
    <3>3. mem' = mem \/ mem' = [mem EXCEPT !.note[m.id] = m.status]
      BY <1>12 DEF ApplyNotice
    <3> QED BY <3>1, <3>2, <3>3
  <2>5. IsState(disk') /\ (recorded \subseteq Id)' /\ (claimed \subseteq Id)'
    BY <1>12, <2>4, WrittenType DEF ApplyNotice, SaveFails, TypeOK
  <2>6. budget' \in Budget
    BY <1>12, DisturbType DEF ApplyNotice, SaveFails, TypeOK, Budget
  <2>7. main' \in {main, "exit"}
    BY <1>12 DEF ApplyNotice
  <2> QED BY <1>12, <2>1, <2>3, <2>4, <2>5, <2>6, <2>7 DEF ApplyNotice, TypeOK, Budget
<1>13. CASE Send
  <2>1. worker \in WorkerState /\ worker.pc = "send" /\ sent \in Seq(Id)
    BY <1>13 DEF Send, TypeOK
  <2>2. worker.id \in Id
    BY <2>1 DEF WorkerState
  <2>3. (worker \in WorkerState)' /\ (sent \in Seq(Id))'
    BY <1>13, <2>1, <2>2, SMTT(31) DEF Send, WorkerState
  <2>4. IsState(disk') /\ IsState(mem')
    BY <1>13 DEF Send, TypeOK
  <2> QED BY <1>13, <2>3, <2>4 DEF Send, TypeOK
<1>14. CASE SendReturns
  <2>1. worker.id \in Id
    BY <1>14 DEF SendReturns, TypeOK, WorkerState
  <2>2. \A o \in Outcome : [id |-> worker.id, status |-> o, ready |-> FALSE] \in Message
    BY <2>1 DEF Message, Note
  <2>3. (messages \in Seq(Message))' /\ (worker \in WorkerState)'
    BY <1>14, <2>2 DEF SendReturns, TypeOK, WorkerState, Idle
  <2>4. IsState(disk') /\ IsState(mem')
    BY <1>14 DEF SendReturns, TypeOK
  <2> QED BY <1>14, <2>3, <2>4 DEF SendReturns, TypeOK
<1>15. CASE SendSkipped
  <2>1. budget' \in Budget
    BY <1>15, DisturbType DEF SendSkipped, TypeOK, Budget
  <2>2. worker.id \in Id
    BY <1>15 DEF SendSkipped, TypeOK, WorkerState
  <2>3. [id |-> worker.id, status |-> "not_configured", ready |-> FALSE] \in Message
    BY <2>2 DEF Message, Note, Outcome
  <2>4. (messages \in Seq(Message))' /\ (worker \in WorkerState)'
    BY <1>15, <2>3 DEF SendSkipped, TypeOK, WorkerState, Idle
  <2>5. IsState(disk') /\ IsState(mem')
    BY <1>15 DEF SendSkipped, TypeOK
  <2> QED BY <1>15, <2>1, <2>4, <2>5 DEF SendSkipped, TypeOK, Budget
<1>16. CASE WorkerReturns
  <2>1. IsState(disk') /\ IsState(mem')
    BY <1>16 DEF WorkerReturns, TypeOK
  <2> QED BY <1>16, <2>1 DEF WorkerReturns, TypeOK, WorkerState
<1>17. CASE Stop
  <2>1. budget' \in Budget
    BY <1>17, CrashesType DEF Stop, TypeOK, Budget
  <2>2. IsState(disk') /\ (recorded \subseteq Id)' /\ (claimed \subseteq Id)' /\ IsState(mem')
    BY <1>17, WrittenType DEF Stop, TypeOK
  <2> QED BY <1>17, <2>1, <2>2 DEF Stop, TypeOK, Budget
<1>18. ASSUME Gone, budget' \in Budget, Written(mem) \/ UNCHANGED durable
       PROVE  TypeOK'
  <2>1. IsState(disk') /\ (recorded \subseteq Id)' /\ (claimed \subseteq Id)'
    BY <1>18, WrittenType DEF TypeOK
  <2>2. IsState(mem')
    BY <1>18, <2>1 DEF Gone
  <2>3. (worker \in WorkerState)' /\ (jobs \in Seq(Id))' /\ (messages \in Seq(Message))'
    BY <1>18 DEF Gone, WorkerState, Idle
  <2> QED BY <1>18, <2>1, <2>2, <2>3 DEF Gone, TypeOK, Budget
<1>19. CASE Exit
  BY <1>18, <1>19, DisturbType DEF Exit, TypeOK, Budget
<1>20. CASE Crash
  BY <1>18, <1>20, CrashesType DEF Crash, TypeOK, Budget
<1>21. CASE Start
  <2>1. IsState(disk') /\ IsState(mem')
    BY <1>21, InterruptedMade DEF Start, TypeOK
  <2>2. Present(disk) \subseteq Id /\ \A i \in Id : KindOf[i[1]] \in Kind
    BY StateFields DEF TypeOK, Id
  <2>3. (recovery \subseteq Id)' /\ (recent \subseteq Kind)'
    BY <1>21, <2>2 DEF Start
  <2> QED BY <1>21, <2>1, <2>3 DEF Start, TypeOK
<1>22. CASE ObserveReadable \/ ObserveUnreadable \/ ObserveUnnotified
  BY <1>6, <1>22, DisturbType
     DEF ObserveReadable, ObserveUnreadable, ObserveUnnotified, TypeOK, Budget
<1> QED BY <1>1, <1>2, <1>3, <1>4, <1>5, <1>7, <1>8, <1>9, <1>10, <1>11, <1>12, <1>13,
           <1>14, <1>15, <1>16, <1>17, <1>19, <1>20, <1>21, <1>22
        DEF Next, Environment, Cycle, Worker

-----------------------------------------------------------------------------
(* The invariant of the notices. *)

\* Nothing has happened yet.
LEMMA InitNotice == Init => NoticeInv
<1> SUFFICES ASSUME Init PROVE NoticeInv
  OBVIOUS
<1>1. TypeOK
  BY InitType
<1>2. Len(jobs) = 0 /\ Len(messages) = 0 /\ Len(sent) = 0 /\ worker = Idle
  BY DEF Init
<1>3. AtMostOneSend /\ Claims
  BY <1>2 DEF AtMostOneSend, Claims
<1>4. JobIds = {} /\ SentIds = {} /\ Asking = {} /\ Allowed = {}
  BY <1>2 DEF JobIds, SentIds, Asking, Allowed, Idle
<1>5. Present(mem) = {} /\ Present(disk) = {}
  BY DEF Init, EmptyState, Present
<1>6. Phases
  BY <1>2 DEF Init, Phases
<1>7. OnePlace /\ NeverReopened
  BY <1>2, <1>4, <1>5 DEF Init, OnePlace, NeverReopened
<1>8. Past
  BY <1>2, <1>4, <1>5 DEF Init, Past
<1> QED BY <1>1, <1>3, <1>6, <1>7, <1>8 DEF NoticeInv

\* Steps that touch neither the events nor the channels.
LEMMA QuietStep ==
    ASSUME NoticeInv, TypeOK',
           UNCHANGED <<durable, mem, main, recovery, dispatch, clock, channels>>
    PROVE  NoticeInv'
<1> USE DEF NoticeInv, durable, channels
<1>1. (AtMostOneSend /\ Phases /\ Claims)'
  BY DEF AtMostOneSend, Phases, Claims
<1>2. UNCHANGED <<JobIds, SentIds, Asking, Allowed>>
  BY DEF JobIds, SentIds, Asking, Allowed
<1>3. OnePlace'
  BY <1>2 DEF OnePlace
<1>4. NeverReopened'
  BY <1>2 DEF NeverReopened, Present
<1>5. Past'
  BY <1>2 DEF Past, Present
<1> QED BY <1>1, <1>3, <1>4, <1>5

\* Steps of the loop that write the state, or try to, and change no status.
LEMMA SaveStep ==
    ASSUME NoticeInv, TypeOK', mem'.note = mem.note, Written(mem') \/ UNCHANGED durable,
           UNCHANGED <<recovery, dispatch, clock, channels>>,
           main \notin {"first", "exit"}, main' \notin {"down", "first"},
           main' = "idle" => dispatch = {}
    PROVE  NoticeInv'
<1> USE DEF NoticeInv, durable, channels
<1>1. UNCHANGED <<JobIds, SentIds, Asking, Allowed>>
  BY DEF JobIds, SentIds, Asking, Allowed
<1>2. Present(mem') = Present(mem)
  BY DEF Present
<1>3. claimed' = claimed
  <2>1. \A i \in Present(mem') : mem'.note[i] = "dispatching" => i \in claimed
    BY <1>2 DEF NeverReopened
  <2> QED BY <2>1 DEF Written
<1>4. disk' = mem' \/ disk' = disk
  BY DEF Written
<1>5. (AtMostOneSend /\ Phases)'
  BY DEF AtMostOneSend, Phases
<1>6. Claims'
  BY DEF Claims
<1>7. OnePlace'
  BY <1>1, <1>3 DEF OnePlace
<1>8. NeverReopened'
  BY <1>1, <1>2, <1>3, <1>4 DEF NeverReopened, Present
<1>9. Past'
  BY <1>1, <1>2, <1>3, <1>4 DEF Past, Present
<1> QED BY <1>5, <1>6, <1>7, <1>8, <1>9

\* The goroutine takes an event from the channel and asks for it.
LEMMA TakeStep ==
    ASSUME NoticeInv, TypeOK', WorkerTake
    PROVE  NoticeInv'
<1> USE DEF NoticeInv, durable, channels, cycleVars
<1> DEFINE i == Head(jobs)
           m == [id |-> i, status |-> "dispatching", ready |-> TRUE]
<1>1. /\ jobs \in Seq(Id) /\ jobs # <<>> /\ jobs' = Tail(jobs)
      /\ messages \in Seq(Message) /\ messages' = Append(messages, m)
      /\ worker.pc = "idle" /\ worker' = [pc |-> "wait", id |-> i] /\ main # "down"
      /\ UNCHANGED <<durable, mem, main, recovery, dispatch, clock, sent>>
  BY DEF WorkerTake, TypeOK
<1>2. /\ Len(jobs) \in Nat /\ Len(jobs) > 0 /\ Len(jobs') = Len(jobs) - 1 /\ i = jobs[1]
      /\ \A n \in 1..Len(jobs') : jobs'[n] = jobs[n + 1]
  BY <1>1
<1>3. JobIds' \subseteq JobIds \ {i} /\ i \in JobIds
  <2>1. \A n \in 1..Len(jobs') : n + 1 \in 1..Len(jobs) /\ n + 1 # 1 /\ 1 \in 1..Len(jobs)
    BY <1>2
  <2> QED BY <1>2, <2>1 DEF JobIds, OnePlace
<1>4. Asking = {} /\ Asking' = {i} /\ Allowed = {} /\ Allowed' = {} /\ SentIds' = SentIds
  BY <1>1 DEF Asking, Allowed, SentIds
<1>5. AtMostOneSend'
  BY <1>1 DEF AtMostOneSend
<1>6. Phases'
  BY <1>1 DEF Phases
<1>7. OnePlace'
  <2>1. \A j, k \in 1..Len(jobs') : jobs'[j] = jobs'[k] => j = k
    <3> SUFFICES ASSUME NEW j \in 1..Len(jobs'), NEW k \in 1..Len(jobs'), jobs'[j] = jobs'[k]
                 PROVE  j = k
      OBVIOUS
    <3>1. j + 1 \in 1..Len(jobs) /\ k + 1 \in 1..Len(jobs) /\ jobs[j + 1] = jobs[k + 1]
      BY <1>2
    <3>2. j + 1 = k + 1
      BY <3>1 DEF OnePlace
    <3> QED BY <3>2
  <2> QED BY <1>1, <1>3, <1>4, <2>1 DEF OnePlace
<1>8. Claims'
  <2>1. \A n \in 1..Len(messages) : messages[n].ready => main = "exit"
    BY <1>1 DEF Claims
  <2>2. /\ Len(messages) \in Nat /\ Len(messages') = Len(messages) + 1
        /\ messages'[Len(messages) + 1] = m
        /\ \A n \in 1..Len(messages) : messages'[n] = messages[n]
    BY <1>1
  <2>3. \A n \in 1..Len(messages') : n \in 1..Len(messages) \/ n = Len(messages) + 1
    BY <2>2
  <2> HIDE DEF i
  <2> QED BY <1>1, <2>1, <2>2, <2>3 DEF Claims
<1>9. NeverReopened'
  BY <1>1, <1>4 DEF NeverReopened, Present
<1>10. Past'
  BY <1>1, <1>3, <1>4 DEF Past, Present
<1> QED BY <1>5, <1>6, <1>7, <1>8, <1>9, <1>10

\* The helper runs for the event that the goroutine was allowed to send.
LEMMA SendStep ==
    ASSUME NoticeInv, TypeOK', Send
    PROVE  NoticeInv'
<1> USE DEF NoticeInv, durable, channels, cycleVars
<1>1. /\ sent \in Seq(Id) /\ sent' = Append(sent, worker.id)
      /\ worker \in WorkerState /\ worker.pc = "send"
      /\ worker' = [worker EXCEPT !.pc = "sent"]
      /\ UNCHANGED <<durable, mem, main, recovery, dispatch, clock, jobs, messages>>
  BY DEF Send, TypeOK
<1>2. worker'.pc = "sent"
  BY <1>1 DEF WorkerState
<1>3. /\ Len(sent) \in Nat /\ Len(sent') = Len(sent) + 1 /\ sent'[Len(sent) + 1] = worker.id
      /\ \A n \in 1..Len(sent) : sent'[n] = sent[n]
  <2>1. worker.id \in Id
    BY <1>1 DEF WorkerState
  <2> QED BY <1>1, <2>1
<1>4. Asking = {} /\ Asking' = {} /\ Allowed = {worker.id} /\ Allowed' = {} /\ JobIds' = JobIds
  BY <1>1, <1>2 DEF Asking, Allowed, JobIds
<1>5. \A n \in 1..Len(sent') : n \in 1..Len(sent) \/ n = Len(sent) + 1
  BY <1>3
<1>6. SentIds' = SentIds \cup {worker.id}
  <2>1. \A n \in 1..Len(sent) : n \in 1..Len(sent')
    BY <1>3
  <2>2. Len(sent) + 1 \in 1..Len(sent')
    BY <1>3
  <2>3. \A n \in 1..Len(sent') : sent'[n] \in SentIds \cup {worker.id}
    BY <1>3, <1>5 DEF SentIds
  <2>4. SentIds \subseteq {sent'[n] : n \in 1..Len(sent')}
    BY <1>3, <2>1 DEF SentIds
  <2>5. worker.id \in {sent'[n] : n \in 1..Len(sent')}
    BY <1>3, <2>2
  <2>6. SentIds' = {sent'[n] : n \in 1..Len(sent')}
    BY DEF SentIds
  <2> QED BY <2>3, <2>4, <2>5, <2>6
<1>7. AtMostOneSend'
  <2>1. \A n \in 1..Len(sent) : sent[n] # worker.id
    BY <1>4 DEF NeverReopened, SentIds
  <2> QED BY <1>3, <1>5, <2>1 DEF AtMostOneSend
<1>8. Phases' /\ Claims'
  BY <1>1, <1>2 DEF Phases, Claims, Idle
<1>9. OnePlace' /\ Past'
  BY <1>1, <1>4 DEF OnePlace, Past, Present
<1>10. NeverReopened'
  BY <1>1, <1>4, <1>6 DEF NeverReopened, Present
<1> QED BY <1>7, <1>8, <1>9, <1>10

\* The goroutine reports how the sending of its event ended.
LEMMA ReturnStep ==
    ASSUME NoticeInv, TypeOK', SendReturns \/ SendSkipped
    PROVE  NoticeInv'
<1> USE DEF NoticeInv, durable, channels, cycleVars
<1>1. PICK status \in Outcome :
        messages' = Append(messages, [id |-> worker.id, status |-> status, ready |-> FALSE])
  BY DEF SendReturns, SendSkipped, Outcome
<1> DEFINE m == [id |-> worker.id, status |-> status, ready |-> FALSE]
<1>2. /\ worker.pc \in {"send", "sent"} /\ worker' = Idle
      /\ UNCHANGED <<durable, mem, main, recovery, dispatch, clock, jobs, sent>>
  BY DEF SendReturns, SendSkipped
<1>3. /\ Asking = {} /\ Asking' = {} /\ Allowed' = {} /\ JobIds' = JobIds /\ SentIds' = SentIds
  BY <1>2 DEF Asking, Allowed, JobIds, SentIds, Idle
<1>4. (AtMostOneSend /\ OnePlace /\ NeverReopened /\ Past)'
  BY <1>2, <1>3 DEF AtMostOneSend, OnePlace, NeverReopened, Past, Present
<1>5. Phases'
  BY <1>2 DEF Phases, Idle
<1>6. Claims'
  <2>1. \A n \in 1..Len(messages) : messages[n].ready => main = "exit"
    BY <1>2 DEF Claims
  <2>2. /\ Len(messages) \in Nat /\ Len(messages') = Len(messages) + 1
        /\ messages'[Len(messages) + 1] = m
        /\ \A n \in 1..Len(messages) : messages'[n] = messages[n]
    BY SMTT(30), <1>1 DEF TypeOK
  <2>3. \A n \in 1..Len(messages') : n \in 1..Len(messages) \/ n = Len(messages) + 1
    BY <2>2
  <2>4. m.status \in Outcome /\ m.status # "dispatching" /\ ~m.ready
    <3>1. \A o \in Outcome : o # "dispatching"
      BY DEF Outcome
    <3>2. m.status = status /\ ~m.ready
      OBVIOUS
    <3> QED BY <3>1, <3>2
  <2> HIDE DEF m
  <2> QED BY <1>2, <2>1, <2>2, <2>3, <2>4 DEF Claims
<1> QED BY <1>4, <1>5, <1>6

\* The goroutine returns when the loop has ended.
LEMMA LeaveStep ==
    ASSUME NoticeInv, TypeOK', WorkerReturns
    PROVE  NoticeInv'
<1> USE DEF NoticeInv, durable, channels, cycleVars
<1>1. /\ main = "exit" /\ worker'.pc = "returned"
      /\ UNCHANGED <<durable, mem, main, recovery, dispatch, clock, jobs, messages, sent>>
  BY DEF WorkerReturns
<1>2. Asking' = {} /\ Allowed' = {} /\ JobIds' = JobIds /\ SentIds' = SentIds
  BY <1>1 DEF Asking, Allowed, JobIds, SentIds
<1> QED BY <1>1, <1>2 DEF AtMostOneSend, OnePlace, Phases, Claims, NeverReopened, Past, Present

\* The cycle makes its new events and decides which of them to hand over.
LEMMA CycleStep ==
    ASSUME NoticeInv, TypeOK', NEW readable, NEW configured, Observe(readable, configured)
    PROVE  NoticeInv'
<1> USE DEF NoticeInv, durable, channels
<1>1. /\ recovery' = {} /\ clock' \in {clock, clock + 1} /\ clock \in Nat
      /\ main' \in {"save", "idle"} /\ (main' = "idle" => dispatch' = {})
      /\ main \in {"first", "idle"}
      /\ \A i \in dispatch' :
            i \in recovery \/ (i \in Finding \X {clock + 1} /\ clock' = clock + 1)
      /\ \A i \in Present(mem') :
            \/ i \in Present(mem) /\ mem'.note[i] = mem.note[i]
            \/ /\ mem'.note[i] # "dispatching"
               /\ \/ i \in recovery /\ i \in Present(mem)
                  \/ i \in Finding \X {clock + 1} /\ clock' = clock + 1
      /\ UNCHANGED <<durable, channels>>
  <2>1. clock \in Nat /\ TypeOK
    BY SMTT(30) DEF TypeOK
  <2>2. main \in {"first", "idle"}
    BY DEF Observe, AtCycle
  <2> HIDE DEF NoticeInv, durable, channels
  <2> QED BY <2>1, <2>2, ObserveStep
<1>2. UNCHANGED <<JobIds, SentIds, Asking, Allowed>>
  BY <1>1 DEF JobIds, SentIds, Asking, Allowed
<1>3. main = "first" => JobIds = {} /\ Asking = {}
  BY DEF Phases, JobIds, Asking, Idle
<1>4. \A i \in Finding \X {clock + 1} : i \notin JobIds \cup Asking \cup claimed
  <2>1. \A i \in Finding \X {clock + 1} : i[2] = clock + 1
    OBVIOUS
  <2> QED BY <1>1, <2>1 DEF Past
<1>5. recovery # {} => main = "first"
  BY DEF Phases
<1>6. AtMostOneSend' /\ Claims'
  BY <1>1 DEF AtMostOneSend, Claims, Phases
<1>7. Phases'
  BY <1>1 DEF Phases
<1>8. OnePlace'
  BY <1>1, <1>2, <1>3, <1>4, <1>5 DEF OnePlace
<1>9. NeverReopened'
  <2>1. ASSUME NEW i \in claimed, i \in Present(mem')
        PROVE  i \in Present(mem) /\ mem'.note[i] = mem.note[i]
    BY <1>1, <1>4, <2>1 DEF OnePlace
  <2>2. \A i \in claimed : i \in Present(mem') => mem'.note[i] \notin Retryable
    BY <2>1 DEF NeverReopened
  <2>3. \A i \in Present(mem') : mem'.note[i] = "dispatching" => i \in claimed
    BY <1>1 DEF NeverReopened
  <2> QED BY <1>1, <1>2, <2>2, <2>3 DEF NeverReopened, Present
<1>10. Past'
  <2>1. \A i \in Finding \X {clock + 1} : i[2] = clock + 1
    OBVIOUS
  <2>2. \A i \in Id : i[2] \in Nat
    BY DEF Id
  <2>3. \A i \in Present(mem) \cup Present(disk) \cup recovery \cup JobIds \cup Asking \cup claimed :
          i[2] <= clock /\ i[2] <= clock'
    <3> SUFFICES ASSUME NEW i \in Present(mem) \cup Present(disk) \cup recovery \cup JobIds
                                  \cup Asking \cup claimed
                 PROVE  i[2] <= clock /\ i[2] <= clock'
      OBVIOUS
    <3>1. i \in Id
      <4>1. IsState(mem) /\ IsState(disk) /\ recovery \cup claimed \subseteq Id /\ jobs \in Seq(Id)
            /\ worker \in WorkerState
        BY DEF TypeOK
      <4>2. Present(mem) \subseteq Id /\ Present(disk) \subseteq Id
        BY <4>1 DEF IsState
      <4>3. JobIds \subseteq Id
        BY <4>1 DEF JobIds
      <4>4. Asking \subseteq Id
        BY <4>1 DEF Asking, WorkerState
      <4> QED BY <4>1, <4>2, <4>3, <4>4
    <3>2. i[2] \in Nat /\ i[2] <= clock
      BY <2>2, <3>1 DEF Past
    <3> QED BY <1>1, <3>2
  <2>4. \A i \in Present(mem') \cup dispatch' : i[2] <= clock'
    BY <1>1, <2>1, <2>3
  <2> QED BY <1>1, <1>2, <2>3, <2>4 DEF Past, Present
<1> QED BY <1>6, <1>7, <1>8, <1>9, <1>10

\* The loop hands one event to the goroutine, or drops it at a full channel.
LEMMA EnqueueStep ==
    ASSUME NoticeInv, TypeOK', Enqueue
    PROVE  NoticeInv'
<1> USE DEF NoticeInv, durable, channels, cycleVars
<1>1. PICK i \in dispatch :
        /\ dispatch' = dispatch \ {i}
        /\ main' = After({}, dispatch')
        /\ \/ Len(jobs) < JobsCapacity /\ jobs' = Append(jobs, i) /\ UNCHANGED mem
           \/ /\ Len(jobs) >= JobsCapacity
              /\ mem' = [mem EXCEPT !.note[i] = "queue_full"]
              /\ UNCHANGED jobs
  BY DEF Enqueue
<1>2. /\ main = "enqueue" /\ main' \in {"enqueue", "idle"} /\ (main' = "idle" => dispatch' = {})
      /\ UNCHANGED <<durable, recovery, clock, messages, worker, sent>>
  BY <1>1 DEF Enqueue, After
<1>3. UNCHANGED <<SentIds, Asking, Allowed>>
  BY <1>2 DEF SentIds, Asking, Allowed
<1>4. i \in Id /\ i \notin claimed /\ i \notin JobIds /\ i \notin Asking
  BY DEF OnePlace, TypeOK
<1>5. /\ Present(mem') = Present(mem)
      /\ \A j \in Present(mem) : mem'.note[j] = mem.note[j] \/ (j = i /\ mem'.note[j] = "queue_full")
  <2>1. CASE mem' = mem
    BY <2>1
  <2>2. CASE mem' = [mem EXCEPT !.note[i] = "queue_full"]
    <3>1. "queue_full" \in Note /\ IsState(mem)
      BY DEF Note, Retryable, TypeOK
    <3> DEFINE set == [mem EXCEPT !.note[i] = "queue_full"]
    <3>2. /\ Present(set) = Present(mem)
          /\ \A j \in Present(mem) : set.note[j] = IF j = i THEN "queue_full" ELSE mem.note[j]
      BY <3>1, NoteSet
    <3>3. mem' = set
      BY <2>2
    <3> HIDE DEF set
    <3> QED BY <3>2, <3>3
  <2> QED BY <1>1, <2>1, <2>2
<1>6. AtMostOneSend' /\ Claims' /\ Phases'
  BY <1>2 DEF AtMostOneSend, Claims, Phases
<1>7. OnePlace' /\ JobIds' \subseteq JobIds \cup {i}
  <2>1. CASE jobs' = jobs
    BY <1>1, <1>2, <1>3, <2>1 DEF OnePlace, JobIds
  <2>2. CASE jobs' = Append(jobs, i)
    <3>1. /\ Len(jobs) \in Nat /\ Len(jobs') = Len(jobs) + 1 /\ jobs'[Len(jobs) + 1] = i
          /\ \A n \in 1..Len(jobs) : jobs'[n] = jobs[n] /\ jobs[n] # i
      BY SMTT(30), <1>4, <2>2 DEF TypeOK, JobIds
    <3>2. \A n \in 1..Len(jobs') : n \in 1..Len(jobs) \/ n = Len(jobs) + 1
      BY <3>1
    <3>3. JobIds' \subseteq JobIds \cup {i}
      BY <3>1, <3>2 DEF JobIds
    <3>4. \A m, n \in 1..Len(jobs') : jobs'[m] = jobs'[n] => m = n
      BY <3>1, <3>2 DEF OnePlace
    <3> QED BY <1>1, <1>2, <1>3, <1>4, <3>3, <3>4 DEF OnePlace
  <2> QED BY <1>1, <2>1, <2>2
<1>8. NeverReopened'
  BY <1>2, <1>3, <1>4, <1>5 DEF NeverReopened, Present
<1>9. Past'
  BY <1>1, <1>2, <1>3, <1>5, <1>7 DEF Past, Present
<1> QED BY <1>6, <1>7, <1>8, <1>9

\* The loop answers the first message: a claim is allowed when it is in the
\* file, and an event is claimed by the goroutine that asks for it alone.
LEMMA ApplyStep ==
    ASSUME NoticeInv, TypeOK', ApplyNotice
    PROVE  NoticeInv'
<1> USE DEF NoticeInv, channels, cycleVars
<1> DEFINE m == Head(messages)
<1>1. /\ main = "idle" /\ messages' = Tail(messages) /\ messages # <<>>
      /\ UNCHANGED <<recovery, dispatch, clock, jobs, sent>>
  BY DEF ApplyNotice
<1>2. /\ m = messages[1] /\ Len(messages) \in Nat /\ 1 \in 1..Len(messages)
      /\ Len(messages') = Len(messages) - 1 /\ m \in Message
      /\ \A n \in 1..Len(messages') : messages'[n] = messages[n + 1] /\ n + 1 \in 2..Len(messages)
  BY <1>1 DEF TypeOK
<1>3. /\ m.status \in Outcome \cup {"dispatching"} /\ (m.ready <=> m.status = "dispatching")
      /\ m.ready => worker = [pc |-> "wait", id |-> m.id]
      /\ \A n \in 2..Len(messages) : messages[n].ready => ~m.ready
  BY <1>1, <1>2 DEF Claims
<1>4. m.ready => Asking = {m.id} /\ Allowed = {}
  BY <1>3 DEF Asking, Allowed
<1>5. \A i \in Present(mem) : mem.note[i] = "dispatching" => i \in claimed
  BY <1>1 DEF NeverReopened
<1>6. \/ UNCHANGED <<mem, durable, main>> /\ Answered(m, FALSE)
      \/ /\ mem' = [mem EXCEPT !.note[m.id] = m.status]
         /\ \/ Written(mem') /\ Answered(m, TRUE) /\ main' = main
            \/ (Written(mem') \/ UNCHANGED durable) /\ Answered(m, FALSE) /\ main' = "exit"
         /\ m.id \in Present(mem)
  <2> HIDE DEF m
  <2>1. LET found == m.id \in Present(mem)
        IN  \/ /\ ~found
               /\ Answered(m, FALSE)
               /\ UNCHANGED <<mem, durable, main, budget>>
            \/ /\ found
               /\ mem' = [mem EXCEPT !.note[m.id] = m.status]
               /\ \/ Written(mem') /\ Answered(m, TRUE) /\ UNCHANGED <<main, budget>>
                  \/ SaveFails(mem') /\ Answered(m, FALSE) /\ main' = "exit"
    BY DEF ApplyNotice, m
  <2> QED BY <2>1 DEF SaveFails
<1>7. /\ Present(mem') = Present(mem)
      /\ \A j \in Present(mem) : mem'.note[j] = mem.note[j] \/ (j = m.id /\ mem'.note[j] = m.status)
      /\ \/ UNCHANGED <<mem, durable, main>> /\ Answered(m, FALSE)
         \/ /\ m.id \in Present(mem) /\ mem'.note[m.id] = m.status
            /\ \/ Written(mem') /\ Answered(m, TRUE) /\ main' = main
               \/ (Written(mem') \/ UNCHANGED durable) /\ Answered(m, FALSE) /\ main' = "exit"
  <2>1. CASE mem' = [mem EXCEPT !.note[m.id] = m.status] /\ m.id \in Present(mem)
    <3>1. m.status \in Note /\ IsState(mem)
      BY <1>3 DEF Note, Outcome, TypeOK
    <3> HIDE DEF m
    <3>2. /\ Present(mem') = Present(mem)
          /\ \A k \in Present(mem) : mem'.note[k] = IF k = m.id THEN m.status ELSE mem.note[k]
      BY ONLY <2>1, <3>1 DEF IsState, Present
    <3>3. /\ mem'.note[m.id] = m.status
          /\ \A k \in Present(mem) : mem'.note[k] = mem.note[k] \/ (k = m.id /\ mem'.note[k] = m.status)
      BY <2>1, <3>2
    <3> QED BY <1>6, <2>1, <3>2, <3>3
  <2> HIDE DEF m
  <2> QED BY <1>6, <2>1
<1> HIDE DEF m
<1>8. /\ claimed \subseteq claimed'
      /\ \A i \in claimed' : i \notin claimed => i = m.id /\ m.ready /\ mem'.note[i] = "dispatching"
      /\ disk' = mem' \/ (disk' = disk /\ claimed' = claimed)
      /\ main' \in {"idle", "exit"}
  BY <1>1, <1>3, <1>5, <1>6, <1>7 DEF Written, durable
<1>9. /\ \A i \in Present(mem') : mem'.note[i] = "dispatching" => i \in claimed' \/ main' = "exit"
      /\ disk' = mem' /\ disk' # disk =>
            \A i \in Present(mem') : mem'.note[i] = "dispatching" => i \in claimed'
  BY <1>1, <1>5, <1>6, <1>7, <1>8 DEF Written, durable
<1>10. /\ ~m.ready => worker' = worker
       /\ m.ready => \/ worker' = Idle
                     \/ worker' = [pc |-> "send", id |-> m.id] /\ m.id \in claimed'
  <2>1. CASE Answered(m, FALSE)
    BY <2>1 DEF Answered
  <2>2. CASE Answered(m, TRUE) /\ Written(mem') /\ m.id \in Present(mem) /\ mem'.note[m.id] = m.status
    <3>1. m.ready => m.id \in claimed'
      BY <1>3, <1>7, <2>2 DEF Written
    <3> QED BY SMTT(30), <1>3, <2>2, <3>1 DEF Answered
  <2> QED BY <1>7, <2>1, <2>2
<1>11. /\ Asking' \subseteq Asking /\ (m.ready => Asking' = {} /\ Allowed' \subseteq {m.id} \cap claimed')
       /\ ~m.ready => Allowed' = Allowed
       /\ JobIds' = JobIds /\ SentIds' = SentIds
  <2>1. JobIds' = JobIds /\ SentIds' = SentIds
    BY <1>1 DEF JobIds, SentIds
  <2>2. ~m.ready => Asking' = Asking /\ Allowed' = Allowed
    BY <1>10 DEF Asking, Allowed
  <2>3. m.ready => Asking' = {} /\ Allowed' \subseteq {m.id} \cap claimed'
    <3>1. CASE m.ready /\ worker' = Idle
      BY <3>1 DEF Asking, Allowed, Idle
    <3>2. CASE m.ready /\ worker' = [pc |-> "send", id |-> m.id] /\ m.id \in claimed'
      <4>1. worker'.pc = "send" /\ worker'.id = m.id
        BY <3>2
      <4> QED BY <3>2, <4>1 DEF Asking, Allowed
    <3> QED BY <1>10, <3>1, <3>2
  <2> QED BY <2>1, <2>2, <2>3
<1>12. AtMostOneSend' /\ Phases'
  BY <1>1, <1>8 DEF AtMostOneSend, Phases
<1>13. OnePlace'
  <2>1. dispatch' = {} /\ recovery' = {} /\ JobIds' = JobIds /\ jobs' = jobs
    BY <1>1, <1>11 DEF Phases
  <2>2. Asking' \cap JobIds' = {} /\ (JobIds' \cup Asking') \cap claimed' = {}
    <3>1. (JobIds \cup Asking) \cap claimed = {} /\ Asking \cap JobIds = {}
      BY DEF OnePlace
    <3>2. CASE m.ready
      <4>1. Asking' = {} /\ claimed' \subseteq claimed \cup Asking
        BY <1>4, <1>8, <1>11, <3>2
      <4> QED BY <2>1, <3>1, <4>1
    <3>3. CASE ~m.ready
      <4>1. Asking' \subseteq Asking /\ claimed' = claimed
        BY <1>8, <1>11, <3>3
      <4> QED BY <2>1, <3>1, <4>1
    <3> QED BY <3>2, <3>3
  <2> QED BY <2>1, <2>2 DEF OnePlace
<1>14. Claims'
  <2>1. \A n \in 1..Len(messages') : messages'[n].ready => ~m.ready
    BY <1>2, <1>3
  <2>2. 2..Len(messages) \subseteq 1..Len(messages)
    BY <1>2
  <2> QED BY <1>1, <1>2, <1>10, <2>1, <2>2 DEF Claims
<1>15. NeverReopened'
  <2>1. \A i \in claimed' : i \in Present(mem') => mem'.note[i] \notin Retryable
    <3>1. \A o \in Outcome \cup {"dispatching"} : o \notin Retryable
      BY DEF Outcome, Retryable
    <3> QED BY <1>3, <1>7, <1>8, <3>1 DEF NeverReopened
  <2>2. \A i \in claimed' : i \in Present(disk') => disk'.note[i] \notin Retryable
    BY <1>8, <2>1 DEF NeverReopened
  <2>3. \A i \in Present(disk') : disk'.note[i] = "dispatching" => i \in claimed'
    BY <1>8, <1>9 DEF NeverReopened
  <2>4. SentIds' \cup Allowed' \subseteq claimed' /\ SentIds' \cap Allowed' = {}
    <3>1. m.ready => m.id \notin claimed
      BY <1>4 DEF OnePlace
    <3> QED BY <1>8, <1>11, <3>1 DEF NeverReopened
  <2> QED BY <1>9, <2>1, <2>2, <2>3, <2>4 DEF NeverReopened, Present
<1>16. Past'
  <2>1. \A i \in claimed' : i \in claimed \/ i \in Asking
    BY <1>4, <1>8
  <2>2. Present(disk') \subseteq Present(mem) \cup Present(disk)
    BY <1>7, <1>8
  <2> QED BY <1>1, <1>7, <1>11, <2>1, <2>2 DEF Past, Present
<1> QED BY <1>12, <1>13, <1>14, <1>15, <1>16

\* The process is gone, with or without a last save: only the file remains.
LEMMA GoneStep ==
    ASSUME NoticeInv, TypeOK', Gone, Written(mem) \/ UNCHANGED durable
    PROVE  NoticeInv'
<1> USE DEF NoticeInv
<1>1. /\ main' = "down" /\ recovery' = {} /\ dispatch' = {} /\ jobs' = <<>> /\ messages' = <<>>
      /\ worker' = Idle /\ mem' = disk' /\ UNCHANGED <<clock, sent>>
  BY DEF Gone
<1>2. Len(jobs') = 0 /\ Len(messages') = 0
  BY <1>1
<1>3. JobIds' = {} /\ Asking' = {} /\ Allowed' = {} /\ SentIds' = SentIds
  BY <1>1, <1>2 DEF JobIds, Asking, Allowed, SentIds, Idle
<1>4. /\ claimed \subseteq claimed' /\ (disk' = mem \/ (disk' = disk /\ claimed' = claimed))
      /\ \A i \in claimed' : i \notin claimed =>
            i \in Present(mem) /\ mem.note[i] = "dispatching" /\ disk' = mem
      /\ \A i \in Present(disk') : disk'.note[i] = "dispatching" => i \in claimed'
  <2>1. CASE Written(mem)
    BY <2>1 DEF Written
  <2>2. CASE UNCHANGED durable
    BY <2>2 DEF durable, NeverReopened
  <2> QED BY <2>1, <2>2
<1>5. (AtMostOneSend /\ OnePlace /\ Phases /\ Claims)'
  BY <1>1, <1>2, <1>3 DEF AtMostOneSend, OnePlace, Phases, Claims
<1>6. NeverReopened'
  <2>1. \A i \in claimed' : i \in Present(disk') => disk'.note[i] \notin Retryable
    BY <1>4 DEF NeverReopened, Retryable
  <2>2. SentIds' \cup Allowed' \subseteq claimed' /\ SentIds' \cap Allowed' = {}
    BY <1>3, <1>4 DEF NeverReopened
  <2> QED BY <1>1, <1>4, <2>1, <2>2 DEF NeverReopened, Present
<1>7. Past'
  BY <1>1, <1>3, <1>4 DEF Past, Present
<1> QED BY <1>5, <1>6, <1>7

\* The process starts: the file decides what it will queue again.
LEMMA StartStep ==
    ASSUME NoticeInv, TypeOK', Start
    PROVE  NoticeInv'
<1> USE DEF NoticeInv, durable, channels
<1>1. /\ main = "down" /\ main' = "first" /\ mem' = Interrupted(disk)
      /\ recovery' = {i \in Present(disk) : disk.note[i] \in Retryable}
      /\ UNCHANGED <<durable, dispatch, clock, channels>>
  BY DEF Start
<1>2. dispatch = {} /\ jobs = <<>> /\ messages = <<>> /\ worker = Idle
  BY <1>1 DEF Phases
<1>3. Len(jobs) = 0 /\ Len(messages) = 0
  BY <1>2
<1>4. UNCHANGED <<JobIds, SentIds, Asking, Allowed>> /\ JobIds = {} /\ Asking = {}
  BY <1>1, <1>2, <1>3 DEF JobIds, SentIds, Asking, Allowed, Idle
<1>5. /\ Present(mem') = Present(disk)
      /\ \A i \in Present(disk) : mem'.note[i] =
            IF disk.note[i] = "dispatching" THEN "unknown_after_restart" ELSE disk.note[i]
  BY <1>1, InterruptedMade DEF TypeOK
<1>6. (AtMostOneSend /\ Phases /\ Claims)'
  BY <1>1, <1>2, <1>3 DEF AtMostOneSend, Phases, Claims
<1>7. OnePlace'
  BY <1>1, <1>2, <1>3, <1>4 DEF OnePlace, NeverReopened
<1>8. NeverReopened'
  <2>1. \A i \in claimed : i \in Present(mem') => mem'.note[i] \notin Retryable
    BY <1>5 DEF NeverReopened, Retryable
  <2>2. \A i \in Present(mem') : mem'.note[i] # "dispatching"
    BY <1>5
  <2> QED BY <1>1, <1>4, <2>1, <2>2 DEF NeverReopened, Present
<1>9. Past'
  BY <1>1, <1>4, <1>5 DEF Past, Present
<1> QED BY <1>6, <1>7, <1>8, <1>9

\* Every step keeps the invariant of the notices.
LEMMA NoticeStep == NoticeInv /\ [Next]_vars => NoticeInv'
<1> SUFFICES ASSUME NoticeInv, [Next]_vars PROVE NoticeInv'
  OBVIOUS
<1>1. CASE UNCHANGED vars
  <2>1. TypeOK'
    BY <1>1 DEF NoticeInv, TypeOK, IsState, Present, vars, inboxes, env, durable, channels, cycleVars
  <2> QED BY <1>1, <2>1, QuietStep DEF vars, cycleVars
<1>2. CASE Next
  <2>1. TypeOK'
    BY <1>2, StepType DEF NoticeInv
  <2>2. CASE Environment
    <3>1. UNCHANGED <<durable, mem, main, recovery, dispatch, clock, channels>>
      BY <2>2 DEF Environment, EvidenceChanges, SourceChanges, GuardChanges, Submit, Reject, cycleVars
    <3> QED BY <2>1, <3>1, QuietStep
  <2>3. CASE ObserveReadable \/ ObserveUnreadable \/ ObserveUnnotified
    <3>1. Observe(TRUE, TRUE) \/ Observe(FALSE, TRUE) \/ Observe(TRUE, FALSE)
      BY <2>3 DEF ObserveReadable, ObserveUnreadable, ObserveUnnotified
    <3> QED BY <2>1, <3>1, CycleStep
  <2>4. CASE SaveCycle \/ AckRecord \/ AckFails \/ Stop
    <3>1. /\ mem'.note = mem.note /\ (Written(mem') \/ UNCHANGED durable)
          /\ UNCHANGED <<recovery, dispatch, clock, channels>>
          /\ main \notin {"first", "exit"} /\ main' \notin {"down", "first"}
          /\ main' = "idle" => dispatch = {}
      <4>1. CASE SaveCycle
        BY <4>1 DEF SaveCycle, SaveFails, After, channels, cycleVars
      <4>2. CASE AckRecord
        BY <4>2 DEF AckRecord, After, channels, durable
      <4>3. CASE AckFails
        BY <4>3 DEF AckFails, After, NoticeInv, TypeOK, IsState, channels
      <4>4. CASE Stop
        BY <4>4 DEF Stop, cycleVars, channels
      <4> QED BY <2>4, <4>1, <4>2, <4>3, <4>4
    <3> QED BY <2>1, <3>1, SaveStep
  <2>5. CASE Enqueue
    BY <2>1, <2>5, EnqueueStep
  <2>6. CASE ApplyNotice
    BY <2>1, <2>6, ApplyStep
  <2>7. CASE Worker
    BY <2>1, <2>7, TakeStep, SendStep, ReturnStep, LeaveStep DEF Worker
  <2>8. CASE Exit \/ Crash
    BY <2>1, <2>8, GoneStep DEF Exit, Crash
  <2>9. CASE Start
    BY <2>1, <2>9, StartStep
  <2> QED BY <1>2, <2>2, <2>3, <2>4, <2>5, <2>6, <2>7, <2>8, <2>9 DEF Next, Cycle
<1> QED BY <1>1, <1>2

-----------------------------------------------------------------------------
(* The theorems that follow from it. *)

\* The inductive invariant holds in every state of the monitor.
THEOREM NoticesHold == Spec => []NoticeInv
<1>1. Init => NoticeInv
  BY InitNotice
<1>2. NoticeInv /\ [Next]_vars => NoticeInv'
  BY NoticeStep
<1> QED BY <1>1, <1>2, PTL DEF Spec

\* Type correctness: no step, failed save or restart leaves the state,
\* the channels or the counters outside their types.
THEOREM TypeCorrect == Spec => []TypeOK
<1>1. NoticeInv => TypeOK
  BY DEF NoticeInv
<1> QED BY <1>1, NoticesHold, PTL

\* No event is announced twice: whatever the interleaving of the loop and the
\* notification goroutine, the failures of the disk and the restarts.
THEOREM NoDuplicateNotice == Spec => []AtMostOneSend
<1>1. NoticeInv => AtMostOneSend
  BY DEF NoticeInv
<1> QED BY <1>1, NoticesHold, PTL

\* The helper runs only for events whose claim reached the file first.
THEOREM ClaimBeforeSend == Spec => []PersistBeforeSend
<1>1. NoticeInv => PersistBeforeSend
  BY DEF NoticeInv, NeverReopened, SentIds, PersistBeforeSend
<1> QED BY <1>1, NoticesHold, PTL

-----------------------------------------------------------------------------
(* What the cycle decides about each event. *)

\* The findings whose cursors this cycle moves, the events it classifies, and
\* the state before it does.
CycleFindings(part, readable) == Created(Healed(mem), Report(part, readable))
CycleEvents(part, readable) ==
    recovery \cup {<<f, clock + 1>> : f \in
        {g \in CycleFindings(part, readable) : ~Quiet(Healed(mem), Report(part, readable), g)}}
Applied(part, readable) == ApplyReport(Healed(mem), Report(part, readable), clock + 1)

\* The cycle in these terms.
Decides(part, readable, configured) ==
    /\ CycleFindings(part, readable) # {} => clock < MaxClock /\ clock' = clock + 1
    /\ CycleFindings(part, readable) = {} => clock' = clock
    /\ dispatch' \subseteq Eligible(Applied(part, readable), CycleEvents(part, readable), configured)
    /\ mem' = Classified(Applied(part, readable), CycleEvents(part, readable), configured, dispatch')
    /\ batch' = IF readable THEN FirstRecords ELSE {}
    /\ \/ main' = "save"
       \/ NothingToSave(mem', CycleEvents(part, readable), batch') /\ main' = "idle"

\* Every cycle decides so for what it has scanned.
LEMMA ObserveDecides ==
    ASSUME NEW readable, NEW configured, Observe(readable, configured)
    PROVE  \E part \in Scanned : Decides(part, readable, configured)
<1> DEFINE healed == Healed(mem)
           now == clock + 1
<1>1. PICK part \in Scanned :
        LET report   == Report(part, readable)
            created  == Created(healed, report)
            events   == recovery \cup {<<f, now>> : f \in {g \in created : ~Quiet(healed, report, g)}}
            receipts == IF readable THEN FirstRecords ELSE {}
        IN  /\ created # {} => clock < MaxClock
            /\ clock' = IF created # {} THEN now ELSE clock
            /\ \E st \in {ApplyReport(healed, report, now)},
                  expired \in SUBSET (recent \cap {KindOf[i[1]] : i \in events}) :
               LET queued == Queued(st, events, configured, recent \ expired)
               IN  /\ mem' = Classified(st, events, configured, queued)
                   /\ recent' = (recent \ expired) \cup {KindOf[i[1]] : i \in queued}
                   /\ dispatch' = queued
            /\ batch' = receipts
            /\ \/ main' = "save"
               \/ NothingToSave(mem', events, receipts) /\ main' = "idle"
  BY DEF Observe
<1> DEFINE events == CycleEvents(part, readable)
           applied == Applied(part, readable)
<1>2. PICK expired \in SUBSET (recent \cap {KindOf[i[1]] : i \in events}) :
        LET queued == Queued(applied, events, configured, recent \ expired)
        IN  /\ mem' = Classified(applied, events, configured, queued)
            /\ dispatch' = queued
  BY <1>1 DEF CycleEvents, CycleFindings, Applied
<1>3. /\ CycleFindings(part, readable) # {} => clock < MaxClock
      /\ clock' = IF CycleFindings(part, readable) # {} THEN clock + 1 ELSE clock
      /\ batch' = IF readable THEN FirstRecords ELSE {}
      /\ \/ main' = "save"
         \/ NothingToSave(mem', events, batch') /\ main' = "idle"
  BY <1>1 DEF CycleEvents, CycleFindings
<1> HIDE DEF events, applied
<1>4. dispatch' \subseteq Eligible(applied, events, configured)
      /\ mem' = Classified(applied, events, configured, dispatch')
  BY <1>2 DEF Queued
<1>5. Decides(part, readable, configured)
  BY <1>3, <1>4 DEF Decides, events, applied
<1> QED BY <1>5

\* What a report does to the status of an event.
LEMMA AppliedNote ==
    ASSUME NEW st, NEW R, NEW now
    PROVE  \A i \in Present(ApplyReport(st, R, now)) :
              \/ \E f \in Created(st, R) :
                    i = <<f, now>> /\ ApplyReport(st, R, now).note[i] = NewNote(st, R, f)
              \/ i \in Present(st) /\ ApplyReport(st, R, now).note[i] = st.note[i]
<1> DEFINE new  == {<<f, now>> : f \in Created(st, R)}
           kept == Newest(Present(st) \cup new)
           note == [i \in kept |-> IF i \in new THEN NewNote(st, R, i[1]) ELSE st.note[i]]
<1>1. ApplyReport(st, R, now).note = note /\ Present(ApplyReport(st, R, now)) = kept
  BY DEF ApplyReport, Present
<1>2. kept \subseteq Present(st) \cup new
  BY DEF Newest
<1>3. ASSUME NEW i \in kept
      PROVE  \/ \E f \in Created(st, R) :
                   i = <<f, now>> /\ note[i] = NewNote(st, R, f)
             \/ i \in Present(st) /\ note[i] = st.note[i]
  <2>1. CASE i \in new
    <3>1. PICK f \in Created(st, R) : i = <<f, now>>
      BY <2>1
    <3>2. i[1] = f
      BY <3>1
    <3> QED BY <2>1, <3>1, <3>2
  <2>2. CASE i \notin new
    BY <1>2, <2>2
  <2> QED BY <2>1, <2>2
<1> QED BY <1>1, <1>3

\* What the classification does to it.
LEMMA ClassifiedNote ==
    ASSUME NEW st, IsState(st), NEW events, NEW configured,
           NEW queued, queued \subseteq Eligible(st, events, configured)
    PROVE  /\ Present(Classified(st, events, configured, queued)) = Present(st)
           /\ queued \subseteq events \cap Present(st)
           /\ \A i \in Present(st) :
                 LET note == Classified(st, events, configured, queued).note
                 IN  /\ i \notin events => note[i] = st.note[i]
                     /\ i \in queued => note[i] = "queued"
                     /\ i \in events \ queued => note[i] \in Classes \ {"queued"}
<1> DEFINE note == [i \in Present(st) |->
                       IF i \notin events THEN st.note[i]
                       ELSE IF KindOf[i[1]] \in Silent THEN "recorded_only"
                       ELSE IF ~configured THEN "not_configured"
                       ELSE IF ~Strongest(i, events) THEN "superseded_by_stronger_evidence"
                       ELSE IF i \notin queued THEN "aggregated"
                       ELSE "queued"]
<1>1. Classified(st, events, configured, queued) =
        [init |-> st.init, generation |-> st.generation, seen |-> st.seen, note |-> note,
         coverage |-> st.coverage, diagnostics |-> st.diagnostics]
  BY StateFields DEF Classified
<1>2. Classified(st, events, configured, queued).note = note
      /\ Present(Classified(st, events, configured, queued)) = Present(st)
  BY <1>1 DEF Present
<1>3. queued \subseteq events \cap Present(st)
      /\ \A i \in queued : KindOf[i[1]] \notin Silent /\ configured /\ Strongest(i, events)
  BY DEF Eligible
<1>4. \A i \in Present(st) : i \in events \ queued => note[i] \in Classes \ {"queued"}
  BY DEF Classes
<1>5. \A i \in Present(st) : (i \notin events => note[i] = st.note[i])
                             /\ (i \in queued => note[i] = "queued")
  BY <1>3
<1> HIDE DEF note
<1> QED BY <1>2, <1>3, <1>4, <1>5

\* An event, with its status, that a cycle may keep from the file for a while.
Unannounced(i, status) == i[1] \in Workspace /\ status = "suppressed_upgrade_baseline"

\* After a cycle an event is queued and handed over, is done with, or is an old
\* one that the cycle had nothing to do with.
LEMMA CycleNotes ==
    ASSUME TypeOK, NEW readable, NEW configured, Observe(readable, configured)
    PROVE  /\ dispatch' \subseteq Present(mem')
           /\ \A i \in dispatch' : mem'.note[i] = "queued"
           /\ \A i \in Present(mem') :
                 \/ i \in dispatch'
                 \/ mem'.note[i] \in (Classes \ {"queued"}) \cup Baseline
                 \/ i \in Present(mem) /\ mem'.note[i] = mem.note[i] /\ i \notin recovery
           /\ main' = "idle" => \A i \in Present(mem') \ Present(mem) : Unannounced(i, mem'.note[i])
<1>1. PICK part \in Scanned : Decides(part, readable, configured)
  BY ObserveDecides
<1> DEFINE st == Applied(part, readable)
           events == CycleEvents(part, readable)
           R == Report(part, readable)
           healed == Healed(mem)
<1>2. IsState(healed) /\ healed.note = mem.note /\ Present(healed) = Present(mem)
  BY HealedMade DEF TypeOK
<1>3. /\ IsState(st)
      /\ \A i \in Present(st) :
            \/ \E f \in Created(healed, R) : /\ i = <<f, clock + 1>>
                  /\ st.note[i] = NewNote(healed, R, f)
            \/ i \in Present(mem) /\ st.note[i] = mem.note[i]
  <2> DEFINE now == clock + 1
  <2>1. source \in Source /\ R \in SUBSET Finding
    BY ReportType DEF TypeOK
  <2>2. Created(healed, R) # {} => now \in 1..MaxClock
    BY <1>1 DEF Decides, CycleFindings, TypeOK
  <2> HIDE DEF healed, now, R
  <2>3. IsState(ApplyReport(healed, R, now))
    BY <1>2, <2>1, <2>2, ReportMade
  <2>4. \A i \in Present(ApplyReport(healed, R, now)) :
              \/ \E f \in Created(healed, R) :
                    i = <<f, now>> /\ ApplyReport(healed, R, now).note[i] = NewNote(healed, R, f)
              \/ i \in Present(healed) /\ ApplyReport(healed, R, now).note[i] = healed.note[i]
    BY AppliedNote
  <2>5. st = ApplyReport(healed, R, now)
    BY DEF Applied, healed, R, now
  <2> HIDE DEF st
  <2>6. now = clock + 1
    BY DEF now
  <2> QED BY <1>2, <2>3, <2>4, <2>5, <2>6
<1>4. /\ dispatch' \subseteq Eligible(st, events, configured)
      /\ mem' = Classified(st, events, configured, dispatch')
  BY <1>1 DEF Decides
<1>5. \A f \in Created(healed, R) : Quiet(healed, R, f) \/ <<f, clock + 1>> \in events
  BY DEF CycleEvents, CycleFindings
<1>6. recovery \subseteq events
  BY DEF CycleEvents
<1> HIDE DEF st, events, R
<1>8. /\ Present(mem') = Present(st) /\ dispatch' \subseteq events \cap Present(st)
      /\ \A i \in Present(st) : /\ i \notin events => mem'.note[i] = st.note[i]
                                /\ i \in dispatch' => mem'.note[i] = "queued"
                                /\ i \in events \ dispatch' => mem'.note[i] \in Classes \ {"queued"}
  <2> DEFINE q == dispatch'
  <2>1. q \subseteq Eligible(st, events, configured) /\ mem' = Classified(st, events, configured, q)
    BY <1>4
  <2> HIDE DEF q
  <2>2. /\ Present(Classified(st, events, configured, q)) = Present(st)
        /\ q \subseteq events \cap Present(st)
        /\ \A i \in Present(st) :
              /\ i \notin events => Classified(st, events, configured, q).note[i] = st.note[i]
              /\ i \in q => Classified(st, events, configured, q).note[i] = "queued"
              /\ i \in events \ q => Classified(st, events, configured, q).note[i] \in Classes \ {"queued"}
    BY <1>3, <2>1, ClassifiedNote
  <2> QED BY <2>1, <2>2 DEF q
<1>9. ASSUME NEW i \in Present(mem')
      PROVE  \/ i \in dispatch'
             \/ mem'.note[i] \in (Classes \ {"queued"}) \cup Baseline
             \/ i \in Present(mem) /\ mem'.note[i] = mem.note[i] /\ i \notin recovery
  <2>1. CASE i \in events
    BY <1>8, <2>1
  <2>2. CASE i \notin events
    <3>1. mem'.note[i] = st.note[i] /\ i \in Present(st) /\ i \notin recovery
      BY <1>6, <1>8, <2>2
    <3>2. CASE i \in Present(mem) /\ st.note[i] = mem.note[i]
      BY <3>1, <3>2
    <3>3. CASE \E f \in Created(healed, R) : /\ i = <<f, clock + 1>>
                  /\ st.note[i] = NewNote(healed, R, f)
      BY <1>5, <2>2, <3>1, <3>3, NewNotes
    <3> QED BY <1>3, <3>1, <3>2, <3>3
  <2> QED BY <2>1, <2>2
<1>10. main' = "idle" => \A i \in Present(mem') \ Present(mem) : Unannounced(i, mem'.note[i])
  <2> SUFFICES ASSUME main' = "idle", NEW i \in Present(mem'), i \notin Present(mem)
               PROVE  Unannounced(i, mem'.note[i])
    OBVIOUS
  <2>1. events = {} /\ mem.init
    BY <1>1 DEF Decides, NothingToSave, events
  <2>2. healed.init = mem.init
    BY StateFields DEF Healed, TypeOK
  <2> HIDE DEF healed
  <2>3. PICK f \in Created(healed, R) : i = <<f, clock + 1>> /\ st.note[i] = NewNote(healed, R, f)
    BY <1>3, <1>8
  <2>4. Quiet(healed, R, f)
    BY <1>5, <2>1
  <2>5. Upgraded(healed, R, f) /\ st.note[i] = "suppressed_upgrade_baseline"
    BY <2>1, <2>2, <2>3, <2>4, NewNotes
  <2>6. mem'.note[i] = st.note[i]
    BY <1>8, <2>1
  <2>7. f \in Workspace
    BY <2>5 DEF Upgraded, Uninspected
  <2> QED BY <2>3, <2>5, <2>6, <2>7 DEF Unannounced
<1> QED BY <1>8, <1>9, <1>10

-----------------------------------------------------------------------------
(* What the file knows about the events in memory. *)

Waiters == dispatch \cup JobIds \cup Asking

\* The file has held every event of the past, and what the loop has in memory
\* but for the events it is about to save and those it need not save.
OnFile ==
    /\ Present(disk) \subseteq recorded
    /\ \A i \in recorded : i[2] <= clock
    /\ main \notin {"save", "exit"} =>
          \A i \in Present(mem) \ recorded : Unannounced(i, mem.note[i])

\* An event that still has to be notified is with somebody.
Placed ==
    main \notin {"down", "exit"} =>
        \A i \in Present(mem) : mem.note[i] \in {"pending", "queued"} => i \in recovery \cup Waiters

\* An event that waits is "queued", if the bounded list still holds it.
Waiting == \A i \in Waiters : i \in Present(mem) => mem.note[i] = "queued"

\* A status in memory that a restart would queue, or that was claimed without a
\* save, is one of which the file says that a restart would queue it.
Reopenable ==
    /\ \A i \in Present(mem) \cap recorded : mem.note[i] \in Retryable => i \in Open
    /\ \A i \in Present(mem) : mem.note[i] = "dispatching" /\ i \notin claimed => i \in Open
    /\ recovery \subseteq Open

\* Whatever the goroutine reports, it was allowed to send.
Reported ==
    /\ \A n \in 1..Len(messages) : ~messages[n].ready => messages[n].id \in claimed
    /\ worker.pc = "sent" => worker.id \in claimed

\* The inductive invariant behind NoOrphanedNotice and ImplementsLedger.
FileInv == OnFile /\ Placed /\ Waiting /\ Reopenable /\ Reported

\* Initially there is nothing.
LEMMA InitFile == Init => FileInv
<1> SUFFICES ASSUME Init PROVE FileInv
  OBVIOUS
<1>1. Present(mem) = {} /\ Present(disk) = {}
  BY DEF Init, EmptyState, Present
<1>2. Len(messages) = 0 /\ Len(jobs) = 0 /\ Waiters = {} /\ worker.pc = "idle"
  BY DEF Init, Waiters, JobIds, Asking, Idle
<1> QED BY <1>1, <1>2 DEF Init, FileInv, OnFile, Placed, Waiting, Reopenable, Reported

\* What a save does: what the file now says of an event is what the memory says.
LEMMA WrittenFile ==
    ASSUME NoticeInv, FileInv, Written(mem'), clock' = clock, recovery' = {},
           \A i \in Present(mem') : i[2] <= clock
    PROVE  OnFile' /\ Reopenable' /\ claimed \subseteq claimed'
<1>1. disk' = mem' /\ recorded' = recorded \cup Present(mem')
      /\ claimed' = claimed \cup {i \in Present(mem') : mem'.note[i] = "dispatching"}
  BY DEF Written
<1>2. OnFile'
  BY <1>1 DEF FileInv, OnFile, Present
<1>3. Open' = {i \in Present(mem') : mem'.note[i] \in Retryable}
  BY <1>1 DEF Open, Present
<1>4. Reopenable'
  BY <1>1, <1>3 DEF Reopenable, Present
<1> QED BY <1>1, <1>2, <1>4

\* Steps that leave the loop and its file alone.
LEMMA FileQuietStep ==
    ASSUME FileInv, UNCHANGED <<durable, mem, main, recovery, dispatch, clock>>,
           Waiters' = Waiters \/ (main = "exit" /\ Waiters' \subseteq Waiters), Reported'
    PROVE  FileInv'
<1> USE DEF FileInv, durable
<1>1. OnFile' /\ Reopenable'
  BY DEF OnFile, Reopenable, Present, Open
<1>2. Placed' /\ Waiting'
  BY DEF Placed, Waiting, Present
<1> QED BY <1>1, <1>2

\* Steps of the loop that write the state, or try to, and change no status.
LEMMA FileSaveStep ==
    ASSUME NoticeInv, FileInv, mem'.note = mem.note,
           UNCHANGED <<recovery, dispatch, clock, channels>>,
           main \in {"save", "ack", "idle"}, main' \in {"ack", "enqueue", "idle", "exit"},
           \/ Written(mem')
           \/ UNCHANGED durable /\ (main = "save" => main' = "exit")
    PROVE  FileInv'
<1> USE DEF FileInv, channels, durable
<1>1. Present(mem') = Present(mem) /\ Waiters' = Waiters /\ recovery = {}
  BY DEF Present, Waiters, JobIds, Asking, NoticeInv, Phases
<1>2. Placed' /\ Waiting'
  BY <1>1 DEF Placed, Waiting
<1>3. CASE Written(mem')
  <2>1. \A i \in Present(mem') : i[2] <= clock
    BY <1>1 DEF NoticeInv, Past
  <2>2. OnFile' /\ Reopenable' /\ claimed \subseteq claimed'
    BY <1>1, <1>3, <2>1, WrittenFile
  <2> QED BY <1>2, <2>2 DEF Reported
<1>4. CASE UNCHANGED durable /\ (main = "save" => main' = "exit")
  <2>1. OnFile' /\ Reopenable' /\ Reported'
    BY <1>1, <1>4 DEF OnFile, Reopenable, Reported, Open
  <2> QED BY <1>2, <2>1
<1> QED BY <1>3, <1>4

\* The goroutine takes an event from the channel and asks for it.
LEMMA FileTakeStep ==
    ASSUME NoticeInv, FileInv, WorkerTake
    PROVE  FileInv'
<1> USE DEF NoticeInv, durable, cycleVars
<1> DEFINE i == Head(jobs)
           m == [id |-> i, status |-> "dispatching", ready |-> TRUE]
<1>1. /\ jobs \in Seq(Id) /\ jobs # <<>> /\ jobs' = Tail(jobs)
      /\ messages \in Seq(Message) /\ messages' = Append(messages, m)
      /\ worker.pc = "idle" /\ worker' = [pc |-> "wait", id |-> i] /\ main # "down"
      /\ UNCHANGED <<durable, mem, main, recovery, dispatch, clock, sent>>
  BY DEF WorkerTake, TypeOK
<1>2. /\ Len(jobs) \in Nat /\ Len(jobs) > 0 /\ Len(jobs') = Len(jobs) - 1 /\ i = jobs[1]
      /\ \A n \in 1..Len(jobs') : jobs'[n] = jobs[n + 1]
  BY <1>1
<1>3. JobIds = JobIds' \cup {i}
  <2>1. \A n \in 1..Len(jobs') : n + 1 \in 1..Len(jobs)
    BY <1>2
  <2>2. ASSUME NEW n \in 1..Len(jobs)
        PROVE  jobs[n] \in JobIds' \cup {i}
    <3>1. CASE n = 1
      BY <1>2, <3>1
    <3>2. CASE n # 1
      <4>1. n - 1 \in 1..Len(jobs') /\ (n - 1) + 1 = n
        BY <1>2, <3>2
      <4>2. jobs'[n - 1] = jobs[n]
        BY <1>2, <4>1
      <4> QED BY <4>1, <4>2 DEF JobIds
    <3> QED BY <3>1, <3>2
  <2>3. JobIds \subseteq JobIds' \cup {i}
    BY <2>2 DEF JobIds
  <2>4. i \in JobIds
    <3>1. 1 \in 1..Len(jobs)
      BY <1>2
    <3> QED BY <1>2, <3>1 DEF JobIds
  <2>5. JobIds' \subseteq JobIds
    BY <1>2, <2>1 DEF JobIds
  <2> QED BY <2>3, <2>4, <2>5
<1>4. Asking = {} /\ Asking' = {i}
  BY <1>1 DEF Asking
<1>5. Waiters' = Waiters
  BY <1>1, <1>3, <1>4 DEF Waiters
<1>6. Reported'
  <2>1. /\ Len(messages) \in Nat /\ Len(messages') = Len(messages) + 1
        /\ messages'[Len(messages) + 1] = m /\ m.ready
        /\ \A n \in 1..Len(messages) : messages'[n] = messages[n]
    BY <1>1
  <2>2. \A n \in 1..Len(messages') : n \in 1..Len(messages) \/ n = Len(messages) + 1
    BY <2>1
  <2> HIDE DEF m
  <2> QED BY <1>1, <2>1, <2>2 DEF FileInv, Reported
<1> HIDE DEF NoticeInv
<1> QED BY <1>1, <1>5, <1>6, FileQuietStep

\* The helper runs and answers, or is not configured any more.
LEMMA FileSendStep ==
    ASSUME NoticeInv, FileInv, Send \/ SendReturns \/ SendSkipped
    PROVE  FileInv'
<1> USE DEF NoticeInv, durable, cycleVars
<1>1. /\ worker.pc \in {"send", "sent"}
      /\ UNCHANGED <<durable, mem, main, recovery, dispatch, clock, jobs>>
  BY DEF Send, SendReturns, SendSkipped
<1>2. worker.id \in claimed
  BY <1>1 DEF NeverReopened, Allowed, FileInv, Reported
<1>3. CASE Send
  <2>1. worker' = [worker EXCEPT !.pc = "sent"] /\ worker \in WorkerState /\ messages' = messages
    BY <1>3 DEF Send, TypeOK
  <2>2. worker'.pc = "sent" /\ worker'.id = worker.id
    BY <2>1 DEF WorkerState
  <2>3. Waiters' = Waiters
    BY <1>1, <2>2 DEF Waiters, JobIds, Asking
  <2>4. Reported'
    BY <1>1, <1>2, <2>1, <2>2 DEF FileInv, Reported
  <2> HIDE DEF NoticeInv
  <2> QED BY <1>1, <2>3, <2>4, FileQuietStep
<1>4. CASE SendReturns \/ SendSkipped
  <2>1. PICK status \in Outcome :
          messages' = Append(messages, [id |-> worker.id, status |-> status, ready |-> FALSE])
    BY <1>4 DEF SendReturns, SendSkipped, Outcome
  <2> DEFINE m == [id |-> worker.id, status |-> status, ready |-> FALSE]
  <2>2. worker' = Idle
    BY <1>4 DEF SendReturns, SendSkipped
  <2>3. Waiters' = Waiters
    <3>1. JobIds' = JobIds
      BY <1>1 DEF JobIds
    <3>2. Asking' = {} /\ Asking = {}
      BY <1>1, <2>2 DEF Asking, Idle
    <3> QED BY <1>1, <3>1, <3>2 DEF Waiters
  <2>4. Reported'
    <3>1. /\ Len(messages) \in Nat /\ Len(messages') = Len(messages) + 1
          /\ messages'[Len(messages) + 1] = m /\ m.id = worker.id
          /\ \A n \in 1..Len(messages) : messages'[n] = messages[n]
      BY SMTT(30), <2>1 DEF TypeOK
    <3>2. \A n \in 1..Len(messages') : n \in 1..Len(messages) \/ n = Len(messages) + 1
      BY <3>1
    <3> HIDE DEF m
    <3> QED BY <1>1, <1>2, <2>2, <3>1, <3>2 DEF FileInv, Reported, Idle
  <2> HIDE DEF NoticeInv
  <2> QED BY <1>1, <2>3, <2>4, FileQuietStep
<1> QED BY <1>3, <1>4

\* The goroutine returns when the loop has ended.
LEMMA FileLeaveStep ==
    ASSUME FileInv, WorkerReturns
    PROVE  FileInv'
<1>1. /\ main = "exit" /\ worker'.pc = "returned"
      /\ UNCHANGED <<durable, mem, main, recovery, dispatch, clock, jobs, messages>>
  BY DEF WorkerReturns, cycleVars
<1>2. Waiters' \subseteq Waiters
  BY <1>1 DEF Waiters, JobIds, Asking
<1>3. Reported'
  BY <1>1 DEF FileInv, Reported, durable
<1> QED BY <1>1, <1>2, <1>3, FileQuietStep

\* A cycle hands over what it queues; the events it makes are not on file yet.
LEMMA FileCycleStep ==
    ASSUME NoticeInv, FileInv, NEW readable, NEW configured, Observe(readable, configured)
    PROVE  FileInv'
<1> USE DEF FileInv, channels, durable
<1>1. /\ dispatch' \subseteq Present(mem')
      /\ \A i \in dispatch' : mem'.note[i] = "queued"
      /\ \A i \in Present(mem') :
            \/ i \in dispatch'
            \/ mem'.note[i] \in (Classes \ {"queued"}) \cup Baseline
            \/ i \in Present(mem) /\ mem'.note[i] = mem.note[i] /\ i \notin recovery
      /\ main' = "idle" => \A i \in Present(mem') \ Present(mem) : Unannounced(i, mem'.note[i])
  BY CycleNotes DEF NoticeInv
<1>2. /\ recovery' = {} /\ clock' \in {clock, clock + 1} /\ main' \in {"save", "idle"}
      /\ \A i \in dispatch' :
            i \in recovery \/ (i \in Finding \X {clock + 1} /\ clock' = clock + 1)
      /\ \A i \in Present(mem') :
            \/ i \in Present(mem) /\ mem'.note[i] = mem.note[i]
            \/ /\ mem'.note[i] # "dispatching"
               /\ \/ i \in recovery /\ i \in Present(mem)
                  \/ i \in Finding \X {clock + 1} /\ clock' = clock + 1
      /\ UNCHANGED <<durable, channels>>
  <2>1. TypeOK
    BY DEF NoticeInv
  <2> HIDE DEF FileInv, channels, durable
  <2> QED BY <2>1, ObserveStep
<1>3. main \in {"first", "idle"} /\ clock \in Nat /\ dispatch = {}
  <2>1. main \in {"first", "idle"}
    BY DEF Observe, AtCycle
  <2>2. clock \in Nat
    BY DEF NoticeInv, TypeOK
  <2> QED BY <2>1, <2>2 DEF NoticeInv, Phases
<1>4. UNCHANGED <<JobIds, Asking, Open>>
  BY <1>2 DEF JobIds, Asking, Open
<1>5. \A s \in Classes \ {"queued"} : s \notin {"pending", "queued", "dispatching"} \cup Retryable
  BY DEF Classes, Retryable
<1>6. recorded' = recorded /\ \A i \in recorded : i[2] \in Nat /\ i \notin Finding \X {clock + 1}
  <2>1. \A i \in recorded : i[2] <= clock /\ i \in Id
    BY DEF OnFile, NoticeInv, TypeOK
  <2>2. \A i \in Id : i[2] \in Nat
    BY DEF Id
  <2>3. \A i \in Finding \X {clock + 1} : i[2] = clock + 1
    OBVIOUS
  <2> QED BY <1>2, <1>3, <2>1, <2>2, <2>3
<1>7. OnFile'
  <2>1. \A i \in recorded : i[2] <= clock'
    BY <1>2, <1>3, <1>6 DEF OnFile
  <2>2. ASSUME main' = "idle", NEW i \in Present(mem') \ recorded
        PROVE  Unannounced(i, mem'.note[i])
    <3>1. CASE i \notin Present(mem)
      BY <1>1, <2>2, <3>1
    <3>2. CASE i \in Present(mem)
      <4>1. i \notin recovery
        BY <2>2 DEF Reopenable, Open, OnFile
      <4>2. i[2] <= clock /\ i[2] \in Nat
        BY <3>2 DEF NoticeInv, Past, TypeOK, IsState, Id
      <4>3. i \notin Finding \X {clock + 1}
        <5>1. \A j \in Finding \X {clock + 1} : j[2] = clock + 1
          OBVIOUS
        <5> QED BY <1>3, <4>2, <5>1
      <4>4. mem'.note[i] = mem.note[i]
        BY <1>2, <4>1, <4>3
      <4> QED BY <1>3, <2>2, <3>2, <4>4 DEF OnFile
    <3> QED BY <3>1, <3>2
  <2> QED BY <1>2, <1>3, <1>6, <2>1, <2>2 DEF OnFile, Present
<1>8. Placed'
  <2> SUFFICES ASSUME NEW i \in Present(mem'), mem'.note[i] \in {"pending", "queued"}
               PROVE  i \in Waiters'
    BY DEF Placed
  <2>1. CASE i \in dispatch'
    BY <2>1 DEF Waiters
  <2>2. CASE i \in Present(mem) /\ mem'.note[i] = mem.note[i] /\ i \notin recovery
    BY <1>3, <1>4, <2>2 DEF Placed, Waiters
  <2> QED BY <1>1, <1>5, <2>1, <2>2 DEF Baseline
<1>9. Waiting'
  <2> SUFFICES ASSUME NEW i \in Waiters', i \in Present(mem') PROVE mem'.note[i] = "queued"
    BY DEF Waiting
  <2>1. CASE i \in dispatch'
    BY <1>1, <2>1
  <2>2. CASE i \in JobIds \cup Asking
    <3>1. main # "first" /\ recovery = {}
      BY <2>2 DEF NoticeInv, Phases, JobIds, Asking, Idle
    <3>2. i \notin Finding \X {clock + 1}
      <4>1. \A j \in Finding \X {clock + 1} : j[2] = clock + 1
        OBVIOUS
      <4>2. i[2] <= clock
        BY <2>2 DEF NoticeInv, Past
      <4> QED BY <1>3, <4>1, <4>2
    <3>3. i \in Present(mem) /\ mem'.note[i] = mem.note[i]
      BY <1>2, <3>1, <3>2
    <3> QED BY <2>2, <3>3 DEF Waiting, Waiters
  <2> QED BY <1>4, <2>1, <2>2 DEF Waiters
<1>10. Reopenable'
  <2>1. ASSUME NEW i \in Present(mem') \cap recorded, mem'.note[i] \in Retryable
        PROVE  i \in Open
    <3>1. CASE i \in dispatch'
      BY <1>2, <1>6, <2>1, <3>1 DEF Reopenable
    <3>2. CASE i \in Present(mem) /\ mem'.note[i] = mem.note[i] /\ i \notin recovery
      BY <2>1, <3>2 DEF Reopenable
    <3>3. \A s \in Baseline : s \notin Retryable
      BY DEF Retryable, Baseline
    <3> QED BY <1>1, <1>5, <2>1, <3>1, <3>2, <3>3
  <2>2. ASSUME NEW i \in Present(mem'), mem'.note[i] = "dispatching", i \notin claimed
        PROVE  i \in Open
    BY <1>2, <2>2 DEF Reopenable
  <2> QED BY <1>2, <1>4, <2>1, <2>2 DEF Reopenable
<1>11. Reported'
  BY <1>2 DEF Reported
<1> QED BY <1>7, <1>8, <1>9, <1>10, <1>11

\* The loop hands one event over, or marks it: the channel is full.
LEMMA FileEnqueueStep ==
    ASSUME NoticeInv, FileInv, Enqueue
    PROVE  FileInv'
<1> USE DEF FileInv, durable, cycleVars
<1>1. PICK i \in dispatch :
        /\ dispatch' = dispatch \ {i}
        /\ main' = After({}, dispatch')
        /\ \/ Len(jobs) < JobsCapacity /\ jobs' = Append(jobs, i) /\ UNCHANGED mem
           \/ /\ Len(jobs) >= JobsCapacity
              /\ mem' = [mem EXCEPT !.note[i] = "queue_full"]
              /\ UNCHANGED jobs
  BY DEF Enqueue
<1>2. /\ main = "enqueue" /\ main' \in {"enqueue", "idle"}
      /\ UNCHANGED <<durable, recovery, clock, messages, worker, sent>>
  BY <1>1 DEF Enqueue, After
<1>3. Asking' = Asking /\ recovery = {} /\ Open' = Open
  BY <1>2 DEF Asking, NoticeInv, Phases, Open
<1>4. i \in Id /\ i \notin JobIds /\ i \notin Asking /\ jobs \in Seq(Id)
  BY DEF NoticeInv, OnePlace, TypeOK
<1>5. Reported'
  BY <1>2 DEF Reported
<1>6. CASE jobs' = Append(jobs, i) /\ mem' = mem
  <2>1. /\ Len(jobs) \in Nat /\ Len(jobs') = Len(jobs) + 1 /\ jobs'[Len(jobs) + 1] = i
        /\ \A n \in 1..Len(jobs) : jobs'[n] = jobs[n]
    BY SMTT(30), <1>4, <1>6
  <2>2. /\ \A n \in 1..Len(jobs') : n \in 1..Len(jobs) \/ n = Len(jobs) + 1
        /\ \A n \in 1..Len(jobs) : n \in 1..Len(jobs')
        /\ Len(jobs) + 1 \in 1..Len(jobs')
    BY <2>1
  <2>3. JobIds' = JobIds \cup {i}
    BY SMTT(30), <2>1, <2>2 DEF JobIds
  <2>4. Waiters' = Waiters
    BY <1>1, <1>3, <2>3 DEF Waiters
  <2>5. OnFile'
    BY <1>2, <1>6 DEF OnFile
  <2>6. Placed' /\ Waiting' /\ Reopenable'
    BY <1>2, <1>3, <1>6, <2>4 DEF Placed, Waiting, Reopenable
  <2> QED BY <1>5, <2>5, <2>6
<1>7. CASE jobs' = jobs /\ mem' = [mem EXCEPT !.note[i] = "queue_full"]
  <2> DEFINE set == [mem EXCEPT !.note[i] = "queue_full"]
  <2>1. /\ Present(set) = Present(mem)
        /\ \A j \in Present(mem) : set.note[j] = IF j = i THEN "queue_full" ELSE mem.note[j]
    <3>1. "queue_full" \in Note /\ IsState(mem)
      BY DEF Note, Retryable, NoticeInv, TypeOK
    <3> QED BY <3>1, NoteSet
  <2>2. mem' = set
    BY <1>7
  <2> HIDE DEF set
  <2>3. /\ Present(mem') = Present(mem)
        /\ \A j \in Present(mem) : mem'.note[j] = IF j = i THEN "queue_full" ELSE mem.note[j]
    BY <2>1, <2>2
  <2>4. Waiters' = Waiters \ {i}
    <3>1. JobIds' = JobIds
      BY <1>7 DEF JobIds
    <3> QED BY <1>1, <1>3, <1>4, <3>1 DEF Waiters
  <2>5. Placed' /\ Waiting'
    BY <1>2, <1>3, <2>3, <2>4 DEF Placed, Waiting
  <2>8. i \in Present(mem) => i \in recorded
    BY <1>2 DEF Waiting, Waiters, OnFile, Unannounced
  <2>9. OnFile'
    BY <1>2, <2>3, <2>8 DEF OnFile, Unannounced
  <2>6. i \in Present(mem) => mem.note[i] \in Retryable
    BY DEF Waiting, Waiters, Retryable
  <2>7. Reopenable'
    BY <1>2, <1>3, <2>3, <2>6 DEF Reopenable
  <2> QED BY <1>5, <2>5, <2>7, <2>9
<1> QED BY <1>1, <1>6, <1>7

\* A restart queues what the file has open.
LEMMA FileStartStep ==
    ASSUME NoticeInv, FileInv, Start
    PROVE  FileInv'
<1> USE DEF FileInv, durable, channels
<1>1. /\ main = "down" /\ main' = "first" /\ mem' = Interrupted(disk)
      /\ recovery' = Open
      /\ UNCHANGED <<durable, dispatch, clock, channels>>
  BY DEF Start, Open
<1>2. dispatch = {} /\ jobs = <<>> /\ messages = <<>> /\ worker = Idle
  BY <1>1 DEF NoticeInv, Phases
<1>3. Waiters' = {} /\ Len(messages) = 0
  BY <1>1, <1>2 DEF Waiters, JobIds, Asking, Idle
<1>4. /\ Present(mem') = Present(disk)
      /\ \A i \in Present(disk) : mem'.note[i] =
            IF disk.note[i] = "dispatching" THEN "unknown_after_restart" ELSE disk.note[i]
  BY <1>1, InterruptedMade DEF NoticeInv, TypeOK
<1>5. Open' = Open /\ \A i \in Present(disk) : disk.note[i] \in Retryable => i \in Open
  BY <1>1 DEF Open
<1>6. {"pending", "queued"} \subseteq Retryable /\ "unknown_after_restart" \notin Retryable
  BY DEF Retryable
<1>7. OnFile'
  BY <1>1, <1>4 DEF OnFile
<1>8. Placed' /\ Waiting'
  BY <1>1, <1>3, <1>4, <1>5, <1>6 DEF Placed, Waiting
<1>9. Reopenable'
  BY <1>1, <1>4, <1>5, <1>6 DEF Reopenable
<1>10. Reported'
  BY <1>1, <1>2, <1>3 DEF Reported, Idle
<1> QED BY <1>7, <1>8, <1>9, <1>10

\* The process is gone, with or without a last save: only the file remains.
LEMMA FileGoneStep ==
    ASSUME NoticeInv, FileInv, Gone, Written(mem) \/ UNCHANGED durable
    PROVE  FileInv'
<1> USE DEF FileInv
<1>1. /\ main' = "down" /\ recovery' = {} /\ dispatch' = {} /\ jobs' = <<>> /\ messages' = <<>>
      /\ worker' = Idle /\ mem' = disk' /\ UNCHANGED <<clock, sent>>
  BY DEF Gone
<1>2. Len(jobs') = 0 /\ Len(messages') = 0
  BY <1>1
<1>3. Waiters' = {} /\ Reported'
  BY <1>1, <1>2 DEF Waiters, JobIds, Asking, Idle, Reported
<1>4. Placed' /\ Waiting'
  BY <1>1, <1>3 DEF Placed, Waiting
<1>5. /\ Present(disk') \subseteq recorded' /\ \A i \in recorded' : i[2] <= clock
      /\ \A i \in Present(disk') : disk'.note[i] = "dispatching" => i \in claimed'
  <2>1. CASE Written(mem)
    BY <2>1 DEF Written, OnFile, NoticeInv, Past
  <2>2. CASE UNCHANGED durable
    BY <2>2 DEF durable, OnFile, NoticeInv, NeverReopened
  <2> QED BY <2>1, <2>2
<1>6. OnFile'
  BY <1>1, <1>5 DEF OnFile, Present
<1>7. Reopenable'
  BY <1>1, <1>5 DEF Reopenable, Open, Present
<1> QED BY <1>3, <1>4, <1>6, <1>7

\* The same of the state in memory.
IsMarked(t, st, i, n) == t = [st EXCEPT !.note[i] = n]
LEMMA NoteMarked ==
    ASSUME IsState(mem), NEW i, NEW n \in Note, IsMarked(mem', mem, i, n)
    PROVE  /\ Present(mem') = Present(mem)
           /\ \A j \in Present(mem) : mem'.note[j] = IF j = i THEN n ELSE mem.note[j]
BY DEF IsState, Present, IsMarked

\* The loop answers the first message.
LEMMA FileApplyStep ==
    ASSUME NoticeInv, FileInv, ApplyNotice
    PROVE  FileInv'
<1> USE DEF FileInv, cycleVars
<1> DEFINE m == Head(messages)
<1>1. /\ main = "idle" /\ messages' = Tail(messages) /\ messages # <<>>
      /\ UNCHANGED <<recovery, dispatch, clock, jobs, sent>>
      /\ recovery = {} /\ dispatch = {} /\ messages \in Seq(Message)
  BY DEF ApplyNotice, NoticeInv, Phases, TypeOK
<1>2. /\ m = messages[1] /\ Len(messages) \in Nat /\ 1 \in 1..Len(messages)
      /\ Len(messages') = Len(messages) - 1
      /\ \A n \in 1..Len(messages') : messages'[n] = messages[n + 1] /\ n + 1 \in 1..Len(messages)
  BY <1>1
<1>3. /\ m.status \in Outcome \cup {"dispatching"} /\ (m.ready <=> m.status = "dispatching")
      /\ m.ready => worker = [pc |-> "wait", id |-> m.id]
      /\ ~m.ready => m.id \in claimed
  BY <1>1, <1>2 DEF NoticeInv, Claims, Reported
<1>4. \/ UNCHANGED <<mem, durable, main>> /\ Answered(m, FALSE) /\ m.id \notin Present(mem)
      \/ /\ mem' = [mem EXCEPT !.note[m.id] = m.status] /\ m.id \in Present(mem)
         /\ \/ Written(mem') /\ main' \in {"idle", "exit"}
            \/ UNCHANGED durable /\ main' = "exit"
         /\ \E allowed \in BOOLEAN : Answered(m, allowed)
  <2> HIDE DEF m
  <2>1. LET found == m.id \in Present(mem)
        IN  \/ /\ ~found
               /\ Answered(m, FALSE)
               /\ UNCHANGED <<mem, durable, main, budget>>
            \/ /\ found
               /\ mem' = [mem EXCEPT !.note[m.id] = m.status]
               /\ \/ Written(mem') /\ Answered(m, TRUE) /\ UNCHANGED <<main, budget>>
                  \/ SaveFails(mem') /\ Answered(m, FALSE) /\ main' = "exit"
    BY DEF ApplyNotice, m
  <2> QED BY <1>1, <2>1 DEF SaveFails
<1>5. /\ Present(mem') = Present(mem)
      /\ \A k \in Present(mem) : k # m.id => mem'.note[k] = mem.note[k]
      /\ m.id \in Present(mem) => mem'.note[m.id] = m.status
  <2>1. CASE mem' = [mem EXCEPT !.note[m.id] = m.status] /\ m.id \in Present(mem)
    <3> DEFINE id == m.id
               status == m.status
    <3>1. status \in Note /\ IsState(mem)
      BY <1>3 DEF Note, Outcome, NoticeInv, TypeOK
    <3>2. IsMarked(mem', mem, id, status)
      BY <2>1 DEF IsMarked
    <3> HIDE DEF id, status
    <3>4. /\ Present(mem') = Present(mem)
          /\ \A k \in Present(mem) : mem'.note[k] = IF k = id THEN status ELSE mem.note[k]
      BY <3>1, <3>2, NoteMarked
    <3>5. id = m.id /\ status = m.status
      BY DEF id, status
    <3> HIDE DEF m
    <3> QED BY <3>4, <3>5
  <2> HIDE DEF m
  <2> QED BY <1>4, <2>1
<1> HIDE DEF m
<1>6. /\ ~m.ready => worker' = worker
      /\ m.ready => worker' = Idle \/ worker' = [pc |-> "send", id |-> m.id]
  <2>1. PICK allowed \in BOOLEAN : Answered(m, allowed)
    BY <1>4
  <2> QED BY SMTT(30), <1>3, <2>1 DEF Answered
<1>7. m.ready => worker'.pc \in {"idle", "send"}
  BY <1>6 DEF Idle
<1>8. Waiters' \subseteq Waiters /\ Waiters \subseteq Waiters' \cup {m.id} /\ m.id \notin Waiters'
  <2>1. JobIds' = JobIds
    BY <1>1 DEF JobIds
  <2>2. m.id \notin JobIds
    <3>1. m.ready => Asking = {m.id}
      BY <1>3 DEF Asking
    <3> QED BY <1>3, <3>1 DEF NoticeInv, OnePlace
  <2>3. CASE m.ready
    <3>1. Asking' = {} /\ Asking = {m.id}
      BY <1>3, <1>7, <2>3 DEF Asking
    <3> QED BY <1>1, <2>1, <2>2, <3>1 DEF Waiters
  <2>4. CASE ~m.ready
    <3>1. Asking' = Asking /\ m.id \notin Asking
      BY <1>3, <1>6, <2>4 DEF Asking, NoticeInv, OnePlace
    <3> QED BY <1>1, <2>1, <2>2, <3>1 DEF Waiters
  <2> QED BY <2>3, <2>4
<1>9. m.status \notin Retryable /\ {"pending", "queued"} \subseteq Retryable
  BY <1>3 DEF Outcome, Retryable
<1>10. Placed'
  BY <1>1, <1>5, <1>8, <1>9 DEF Placed
<1>11. Waiting'
  BY <1>5, <1>8 DEF Waiting
<1>12. OnFile' /\ Reopenable' /\ claimed \subseteq claimed'
  <2>1. CASE Written(mem')
    <3>1. \A i \in Present(mem') : i[2] <= clock
      BY <1>5 DEF NoticeInv, Past
    <3> QED BY <1>1, <2>1, <3>1, WrittenFile
  <2>2. CASE UNCHANGED durable /\ ~Written(mem')
    <3>1. Open' = Open /\ claimed' = claimed /\ recorded' = recorded /\ disk' = disk
      BY <2>2 DEF Open, durable
    <3>2. OnFile'
      <4>1. CASE UNCHANGED <<mem, main>>
        BY <1>1, <3>1, <4>1 DEF OnFile
      <4>2. CASE main' = "exit"
        BY <1>1, <3>1, <4>2 DEF OnFile
      <4> QED BY <1>4, <2>2, <4>1, <4>2
    <3>3. m.id \in Present(mem) /\ m.ready => m.id \in Open
      <4>1. m.ready => m.id \in Waiters
        BY <1>3 DEF Waiters, Asking
      <4> QED BY <1>1, <1>9, <4>1 DEF Waiting, OnFile, Reopenable, Unannounced, Retryable
    <3>4. Reopenable'
      <4>1. ASSUME NEW i \in Present(mem') \cap recorded, mem'.note[i] \in Retryable
            PROVE  i \in Open
        BY <1>5, <1>9, <4>1 DEF Reopenable
      <4>2. ASSUME NEW i \in Present(mem'), mem'.note[i] = "dispatching", i \notin claimed
            PROVE  i \in Open
        BY <1>3, <1>5, <3>3, <4>2 DEF Reopenable
      <4> QED BY <1>1, <3>1, <4>1, <4>2 DEF Reopenable
    <3> QED BY <3>1, <3>2, <3>4
  <2> QED BY <1>4, <2>1, <2>2 DEF durable
<1>13. Reported'
  <2>1. worker'.pc = "sent" => worker' = worker
    BY <1>6, <1>7
  <2> QED BY <1>2, <1>12, <2>1 DEF Reported
<1> QED BY <1>10, <1>11, <1>12, <1>13

\* Every step keeps what the file knows.
LEMMA FileStep ==
    ASSUME NoticeInv, FileInv, [Next]_vars
    PROVE  FileInv'
<1>0. FileInv => Reported
  BY DEF FileInv
<1>1. CASE UNCHANGED vars \/ Environment
  <2>1. UNCHANGED <<durable, mem, main, recovery, dispatch, clock, channels>>
    BY <1>1 DEF vars, Environment, EvidenceChanges, SourceChanges, GuardChanges, Submit, Reject, cycleVars
  <2>2. Waiters' = Waiters
    BY <2>1 DEF channels, Waiters, JobIds, Asking
  <2>3. Reported'
    BY <1>0, <2>1 DEF channels, durable, Reported
  <2> QED BY <2>1, <2>2, <2>3, FileQuietStep
<1>2. CASE ObserveReadable \/ ObserveUnreadable \/ ObserveUnnotified
  <2>1. Observe(TRUE, TRUE) \/ Observe(FALSE, TRUE) \/ Observe(TRUE, FALSE)
    BY <1>2 DEF ObserveReadable, ObserveUnreadable, ObserveUnnotified
  <2> QED BY <2>1, FileCycleStep
<1>3. CASE SaveCycle \/ AckRecord \/ AckFails \/ Stop
  <2>1. /\ mem'.note = mem.note /\ UNCHANGED <<recovery, dispatch, clock, channels>>
        /\ main \in {"save", "ack", "idle"} /\ main' \in {"ack", "enqueue", "idle", "exit"}
        /\ \/ Written(mem')
           \/ UNCHANGED durable /\ (main = "save" => main' = "exit")
    <3>1. CASE SaveCycle
      BY <3>1 DEF SaveCycle, SaveFails, After, channels, cycleVars
    <3>2. CASE AckRecord
      BY <3>2 DEF AckRecord, After, channels, durable
    <3>3. CASE AckFails
      <4>1. mem' = [mem EXCEPT !.diagnostics = @ \cup {"ack_failed"}] /\ IsState(mem)
        BY <3>3 DEF AckFails, NoticeInv, TypeOK
      <4>2. mem'.note = mem.note
        BY <4>1 DEF IsState
      <4> QED BY <3>3, <4>2 DEF AckFails, After, channels
    <3>4. CASE Stop
      BY <3>4 DEF Stop, cycleVars, channels
    <3> QED BY <1>3, <3>1, <3>2, <3>3, <3>4
  <2> QED BY <2>1, FileSaveStep
<1>4. CASE Enqueue
  BY <1>4, FileEnqueueStep
<1>5. CASE ApplyNotice
  BY <1>5, FileApplyStep
<1>6. CASE Worker
  BY <1>6, FileTakeStep, FileSendStep, FileLeaveStep DEF Worker
<1>7. CASE Exit \/ Crash
  BY <1>7, FileGoneStep DEF Exit, Crash
<1>8. CASE Start
  BY <1>8, FileStartStep
<1> QED BY <1>1, <1>2, <1>3, <1>4, <1>5, <1>6, <1>7, <1>8 DEF Next, Cycle

\* The file, the memory, the channels and the goroutine agree about every event.
THEOREM FileAgrees == Spec => []FileInv
<1>1. NoticeInv /\ FileInv /\ [Next]_vars => FileInv'
  BY FileStep
<1> QED BY <1>1, InitFile, NoticesHold, PTL DEF Spec

\* Between two cycles every event that has to be notified is with somebody.
THEOREM NothingOrphaned == Spec => []NoOrphanedNotice
<1>1. NoticeInv /\ FileInv => NoOrphanedNotice
  BY DEF NoticeInv, Phases, FileInv, Placed, Waiters, Asking, AtCycle, NoOrphanedNotice
<1> QED BY <1>1, NoticesHold, FileAgrees, PTL

-----------------------------------------------------------------------------
(* The monitor implements the ledger. *)

\* A save moves only what the ledger lets move.
LEMMA SaveUpdates ==
    ASSUME NoticeInv, FileInv, NoticeInv', NEW st, Written(st), sent' = sent,
           st \in {mem, mem'}, Present(st) = Present(mem),
           \A i \in Present(mem) : \/ st.note[i] = mem.note[i]
                                   \/ st.note[i] \notin Retryable /\ st.note[i] # "dispatching"
                                   \/ st.note[i] = "dispatching" /\ i \in Open
    PROVE  Ledger!Update
<1>1. /\ disk' = st /\ recorded' = recorded \cup Present(mem)
      /\ claimed' = claimed \cup {i \in Present(mem) : st.note[i] = "dispatching"}
  BY DEF Written
<1>2. Open' = {i \in Present(mem) : st.note[i] \in Retryable}
  BY <1>1 DEF Open, Present
<1>3. recorded' \subseteq Id
  BY DEF NoticeInv, TypeOK
<1>4. Open' \subseteq Open \cup (recorded' \ recorded)
  BY <1>1, <1>2 DEF FileInv, Reopenable, Retryable
<1>5. claimed' \ claimed \subseteq Open \ Open'
  BY <1>1, <1>2 DEF FileInv, Reopenable, Retryable
<1>6. Open' \cap claimed' = {}
  BY <1>2, <1>1 DEF NoticeInv, NeverReopened, Present
<1> QED BY <1>1, <1>3, <1>4, <1>5, <1>6 DEF Ledger!Update

\* The variables of the ledger.
ledger == <<recorded, Open, claimed, sent>>

\* A message may change the status of its event on the way into the file.
LEMMA ApplyUpdates ==
    ASSUME NoticeInv, FileInv, NoticeInv', ApplyNotice, Written(mem')
    PROVE  Ledger!Update \/ UNCHANGED ledger
<1> DEFINE m == Head(messages)
<1>1. /\ main = "idle" /\ sent' = sent /\ messages # <<>> /\ messages \in Seq(Message)
  BY DEF ApplyNotice, NoticeInv, TypeOK
<1>2. /\ m = messages[1] /\ 1 \in 1..Len(messages)
  BY <1>1
<1>3. /\ m.status \in Outcome \cup {"dispatching"} /\ (m.ready <=> m.status = "dispatching")
      /\ m.ready => worker = [pc |-> "wait", id |-> m.id]
  BY <1>1, <1>2 DEF NoticeInv, Claims
<1>4. UNCHANGED <<mem, durable>> \/ IsMarked(mem', mem, m.id, m.status)
  BY DEF ApplyNotice, IsMarked
<1>5. CASE UNCHANGED <<mem, durable>>
  BY <1>1, <1>5 DEF ledger, durable, Open
<1>6. CASE IsMarked(mem', mem, m.id, m.status)
  <2>1. m.status \in Note /\ IsState(mem)
    BY <1>3 DEF Note, Outcome, NoticeInv, TypeOK
  <2> DEFINE id == m.id
             status == m.status
  <2>9. status \in Note /\ IsState(mem)
    BY <2>1
  <2>7. IsMarked(mem', mem, id, status)
    BY <1>6
  <2> HIDE DEF m, id, status
  <2>8. /\ Present(mem') = Present(mem)
        /\ \A j \in Present(mem) : mem'.note[j] = IF j = id THEN status ELSE mem.note[j]
    BY <2>7, <2>9, NoteMarked
  <2>2. /\ Present(mem') = Present(mem)
        /\ \A j \in Present(mem) : mem'.note[j] = IF j = m.id THEN m.status ELSE mem.note[j]
    BY <2>8 DEF id, status
  <2>3. m.ready /\ m.id \in Present(mem) => m.id \in Open
    <3>1. m.ready => m.id \in Waiters
      BY <1>3 DEF Waiters, Asking
    <3> QED BY <1>1, <3>1 DEF FileInv, Waiting, OnFile, Reopenable, Retryable, Unannounced
  <2>4. \A o \in Outcome : o \notin Retryable /\ o # "dispatching"
    BY DEF Outcome, Retryable
  <2>5. \A i \in Present(mem) : \/ mem'.note[i] = mem.note[i]
                                \/ mem'.note[i] \notin Retryable /\ mem'.note[i] # "dispatching"
                                \/ mem'.note[i] = "dispatching" /\ i \in Open
    BY <1>3, <2>2, <2>3, <2>4
  <2>6. Ledger!Update
    BY <1>1, <2>2, <2>5, SaveUpdates
  <2> QED BY <2>6
<1> QED BY <1>4, <1>5, <1>6

\* A step of the monitor is one of the ledger, or none.
LEMMA LedgerStep ==
    ASSUME NoticeInv, FileInv, NoticeInv', [Next]_vars
    PROVE  Ledger!Next \/ UNCHANGED ledger
<1>1. CASE UNCHANGED <<durable, sent>>
  BY <1>1 DEF durable, ledger, Open
<1>2. CASE Send
  <2>1. worker.pc = "send" /\ sent' = Append(sent, worker.id) /\ UNCHANGED durable
    BY <1>2 DEF Send
  <2>2. worker.id \in claimed \ SentIds
    BY <2>1 DEF NoticeInv, NeverReopened, Allowed
  <2>3. Ledger!Delivered = SentIds /\ UNCHANGED <<recorded, Open, claimed>>
    BY <2>1 DEF Ledger!Delivered, SentIds, durable, Open
  <2> QED BY <2>1, <2>2, <2>3 DEF Ledger!Next, Ledger!Deliver
<1>3. CASE ApplyNotice
  <2>1. Written(mem') \/ UNCHANGED durable
    BY <1>3 DEF ApplyNotice, SaveFails, durable
  <2>2. sent' = sent
    BY <1>3 DEF ApplyNotice
  <2> QED BY <1>1, <1>3, <2>1, <2>2, ApplyUpdates DEF Ledger!Next
<1>4. ASSUME NEW st, st \in {mem, mem'}, st.note = mem.note, Written(st), sent' = sent
      PROVE  Ledger!Next
  BY <1>4, SaveUpdates DEF Present, Ledger!Next
<1>5. CASE SaveCycle \/ Stop \/ Exit
  <2>1. sent' = sent /\ (Written(mem) \/ UNCHANGED durable)
    BY <1>5 DEF SaveCycle, SaveFails, Stop, Exit, Gone, channels
  <2> QED BY <1>1, <1>4, <2>1
<1>6. CASE AckFails
  <2>1. mem' = [mem EXCEPT !.diagnostics = @ \cup {"ack_failed"}] /\ IsState(mem)
    BY <1>6 DEF AckFails, NoticeInv, TypeOK
  <2>2. mem'.note = mem.note
    BY <2>1 DEF IsState
  <2>3. sent' = sent /\ (Written(mem') \/ UNCHANGED durable)
    BY <1>6 DEF AckFails, channels
  <2> QED BY <1>1, <1>4, <2>2, <2>3
<1>7. CASE UNCHANGED vars \/ Environment \/ AckRecord \/ Enqueue \/ Crash \/ Start
  BY <1>1, <1>7 DEF vars, Environment, EvidenceChanges, SourceChanges, GuardChanges, Submit, Reject,
                    AckRecord, Enqueue, Crash, Gone, Start, durable, channels
<1>8. CASE ObserveReadable \/ ObserveUnreadable \/ ObserveUnnotified
  BY <1>1, <1>8 DEF ObserveReadable, ObserveUnreadable, ObserveUnnotified, Observe, channels
<1>9. CASE WorkerTake \/ SendReturns \/ SendSkipped \/ WorkerReturns
  BY <1>1, <1>9 DEF WorkerTake, SendReturns, SendSkipped, WorkerReturns
<1> QED BY <1>2, <1>3, <1>5, <1>6, <1>7, <1>8, <1>9 DEF Next, Cycle, Worker

\* The monitor with its file, its channels, its failures and its restarts
\* implements the ledger: no status returns to an earlier stage.
THEOREM KeepsLedger == Spec => ImplementsLedger
<1>1. Init => Ledger!Init
  <2> SUFFICES ASSUME Init PROVE Ledger!Init
    OBVIOUS
  <2>1. Open = {}
    BY DEF Init, EmptyState, Open, Present
  <2> QED BY <2>1 DEF Init, Ledger!Init
<1>2. NoticeInv /\ FileInv /\ NoticeInv' /\ [Next]_vars => [Ledger!Next]_<<recorded, Open, claimed, sent>>
  BY LedgerStep DEF ledger
<1> QED BY <1>1, <1>2, NoticesHold, FileAgrees, PTL DEF Spec, ImplementsLedger, Ledger!Spec

-----------------------------------------------------------------------------
(* The cursors and the event list that a cycle leaves. *)

Well(k) == \/ k = KeyOf["coverage"] /\ ~Broken(mem)
           \/ k = KeyOf["protection"] /\ ~guardFault

\* Healing marks the two health cursors, and does not change what a scan is.
LEMMA HealedCursors ==
    ASSUME IsState(mem)
    PROVE  /\ Healed(mem).init = mem.init /\ Healed(mem).generation = mem.generation
           /\ Broken(Healed(mem)) <=> Broken(mem)
           /\ \A k \in Key : Healed(mem).seen[k] =
                 IF Well(k) /\ mem.seen[k] # None THEN "recovered" ELSE mem.seen[k]
<1> DEFINE well == (IF Broken(mem) THEN {} ELSE {KeyOf["coverage"]}) \cup
                   (IF guardFault THEN {} ELSE {KeyOf["protection"]})
<1>1. Healed(mem) = [init |-> mem.init, generation |-> mem.generation,
                     seen |-> [k \in Key |-> IF k \in well /\ mem.seen[k] # None
                                             THEN "recovered" ELSE mem.seen[k]],
                     note |-> mem.note, coverage |-> mem.coverage, diagnostics |-> mem.diagnostics]
  BY StateFields DEF Healed
<1>2. \A k : k \in well <=> Well(k)
  BY DEF Well
<1> HIDE DEF well
<1>3. /\ Healed(mem).init = mem.init /\ Healed(mem).generation = mem.generation
      /\ \A k \in Key : Healed(mem).seen[k] =
            IF Well(k) /\ mem.seen[k] # None THEN "recovered" ELSE mem.seen[k]
  BY <1>1, <1>2
<1>4. \A f \in Evidence : KeyOf[f] \in Key /\ ~Well(KeyOf[f])
  BY DEF Well, Finding, Alarm
<1>5. \A f \in Evidence : Healed(mem).seen[KeyOf[f]] = mem.seen[KeyOf[f]]
  BY <1>3, <1>4
<1> QED BY <1>3, <1>5 DEF Broken, HasSnapshotHistory

\* The cursor of a key after a report.
LEMMA CursorMoved ==
    ASSUME NEW st, NEW R, NEW now, NEW k \in Key
    PROVE  \/ /\ ApplyReport(st, R, now).seen[k] \in R
              /\ KeyOf[ApplyReport(st, R, now).seen[k]] = k
           \/ /\ ApplyReport(st, R, now).seen[k] = st.seen[k]
              /\ ~\E f \in R : IsLast(f, R, k)
<1>1. ApplyReport(st, R, now).seen =
        [j \in Key |-> IF \E f \in R : IsLast(f, R, j)
                       THEN CHOOSE f \in R : IsLast(f, R, j) ELSE st.seen[j]]
  BY DEF ApplyReport
<1>2. CASE \E f \in R : IsLast(f, R, k)
  <2>1. /\ (CHOOSE f \in R : IsLast(f, R, k)) \in R
        /\ IsLast((CHOOSE f \in R : IsLast(f, R, k)), R, k)
    BY <1>2
  <2>2. ApplyReport(st, R, now).seen[k] = CHOOSE f \in R : IsLast(f, R, k)
    BY <1>1, <1>2
  <2>3. KeyOf[CHOOSE f \in R : IsLast(f, R, k)] = k
    BY <2>1 DEF IsLast
  <2> QED BY <2>1, <2>2, <2>3
<1>3. CASE ~\E f \in R : IsLast(f, R, k)
  BY <1>1, <1>3
<1> QED BY <1>2, <1>3

\* The cursors, the coverage, the diagnostics and the list after a cycle.
Leaves(part, readable) ==
    LET R == Report(part, readable) IN
    /\ mem'.init /\ mem'.diagnostics = R \cap Alarm
    /\ mem'.generation <=> mem.generation \/ ValidScan(mem, R)
    /\ mem'.coverage = IF Broken(mem) THEN "degraded" ELSE source
    /\ \A k \in Key : \/ mem'.seen[k] \in R /\ KeyOf[mem'.seen[k]] = k
                      \/ /\ mem'.seen[k] = Healed(mem).seen[k]
                         /\ ~\E f \in R : IsLast(f, R, k)
    /\ Present(mem') = Newest(Present(mem) \cup {<<f, clock + 1>> : f \in CycleFindings(part, readable)})

\* What the classification leaves alone.
LEMMA CycleLeaves ==
    ASSUME TypeOK, NEW readable, NEW configured, NEW part \in Scanned,
           Decides(part, readable, configured)
    PROVE  Leaves(part, readable)
<1> DEFINE st == Applied(part, readable)
           R == Report(part, readable)
           healed == Healed(mem)
           now == clock + 1
<1>1. R \in SUBSET Finding /\ IsState(mem)
  BY ReportType DEF TypeOK
<1>2. mem' = Classified(st, CycleEvents(part, readable), configured, dispatch')
  BY DEF Decides
<1>3. /\ st.init /\ st.diagnostics = R \cap Alarm
      /\ st.generation <=> healed.generation \/ ValidScan(healed, R)
      /\ st.coverage = IF Broken(healed) THEN "degraded" ELSE source
      /\ Present(st) = Newest(Present(healed) \cup {<<f, now>> : f \in Created(healed, R)})
      /\ st = [init |-> st.init, generation |-> st.generation, seen |-> st.seen, note |-> st.note,
               coverage |-> st.coverage, diagnostics |-> st.diagnostics]
  BY DEF Applied, ApplyReport, Present
<1>4. \A k \in Key : \/ st.seen[k] \in R /\ KeyOf[st.seen[k]] = k
                     \/ st.seen[k] = healed.seen[k] /\ ~\E f \in R : IsLast(f, R, k)
  <2>1. st = ApplyReport(healed, R, now)
    BY DEF Applied
  <2>2. R \in SUBSET Finding
    BY <1>1
  <2> HIDE DEF st, R, healed, now
  <2>3. ASSUME NEW k \in Key
        PROVE  \/ st.seen[k] \in R /\ KeyOf[st.seen[k]] = k
               \/ st.seen[k] = healed.seen[k] /\ ~\E f \in R : IsLast(f, R, k)
    <3>1. \/ /\ ApplyReport(healed, R, now).seen[k] \in R
             /\ KeyOf[ApplyReport(healed, R, now).seen[k]] = k
          \/ /\ ApplyReport(healed, R, now).seen[k] = healed.seen[k]
             /\ ~\E f \in R : IsLast(f, R, k)
      BY CursorMoved
    <3> QED BY <2>1, <3>1
  <2> QED BY <2>3
<1>5. /\ Present(healed) = Present(mem) /\ (Broken(healed) <=> Broken(mem))
      /\ healed.generation = mem.generation /\ (ValidScan(healed, R) <=> ValidScan(mem, R))
  <2>1. /\ Present(healed) = Present(mem) /\ (Broken(healed) <=> Broken(mem))
        /\ healed.generation = mem.generation
    BY <1>1, HealedMade, HealedCursors
  <2> QED BY <2>1 DEF ValidScan
<1> HIDE DEF st, R, healed
<1>6. /\ mem'.init = st.init /\ mem'.diagnostics = st.diagnostics /\ mem'.coverage = st.coverage
      /\ mem'.generation = st.generation
      /\ mem'.seen = st.seen /\ Present(mem') = Present(st)
  BY <1>2, <1>3 DEF Classified, Present
<1> QED BY <1>3, <1>4, <1>5, <1>6 DEF Leaves, CycleFindings, R, healed

-----------------------------------------------------------------------------
USE ReportAssumption

(* What a cycle that ends without a save leaves in memory. *)

\* There are finitely many events.
LEMMA IdsFinite == IsFiniteSet(Id)
<1>1. IsFiniteSet(1..MaxClock)
  <2>1. 1 \in Int /\ MaxClock \in Int
    OBVIOUS
  <2> QED BY ONLY <2>1, FS_Interval
<1> QED BY <1>1, FS_Product DEF Id

\* Retention keeps what it has kept.
LEMMA NewestAgain ==
    ASSUME NEW S \in SUBSET Id
    PROVE  Newest(Newest(S)) = Newest(S)
<1>1. Newest(S) \subseteq S
  BY DEF Newest
<1>2. ASSUME NEW i \in Newest(S)
      PROVE  Cardinality({j \in Newest(S) : Older(i, j)}) < MaxEvents
  <2> DEFINE All  == {j \in S : Older(i, j)}
             Some == {j \in Newest(S) : Older(i, j)}
  <2>1. IsFiniteSet(All)
    BY IdsFinite, FS_Subset
  <2>2. Some \in SUBSET All
    BY <1>1
  <2>3. Cardinality(All) < MaxEvents
    BY DEF Newest
  <2> HIDE DEF All, Some
  <2>4. IsFiniteSet(Some) /\ Cardinality(Some) <= Cardinality(All)
    BY <2>1, <2>2, FS_Subset
  <2>5. Cardinality(Some) \in Nat /\ Cardinality(All) \in Nat
    BY <2>1, <2>4, FS_CardinalityType
  <2>6. Cardinality(Some) < MaxEvents
    BY <2>3, <2>4, <2>5
  <2> QED BY <2>6 DEF Some
<1>3. Newest(Newest(S)) = {i \in Newest(S) : Cardinality({j \in Newest(S) : Older(i, j)}) < MaxEvents}
  BY DEF Newest
<1> QED BY <1>2, <1>3

\* What retention drops is older than all it keeps.
LEMMA DroppedOlder ==
    ASSUME NEW S \in SUBSET Id, NEW i \in S \ Newest(S), NEW j \in Newest(S)
    PROVE  Older(i, j)
<1>1. j \in S /\ i # j
  BY DEF Newest
<1>2. /\ i = <<i[1], i[2]>> /\ i[1] \in Finding /\ i[2] \in Nat
      /\ j = <<j[1], j[2]>> /\ j[1] \in Finding /\ j[2] \in Nat
  BY <1>1 DEF Id
<1>3. Older(i, j) \/ Older(j, i)
  <2>1. Order[i[1]] \in Nat /\ Order[j[1]] \in Nat
    BY <1>2
  <2>2. i[2] = j[2] => Order[i[1]] # Order[j[1]]
    BY <1>1, <1>2
  <2> QED BY <1>2, <2>1, <2>2 DEF Older
<1>4. ASSUME Older(j, i) PROVE FALSE
  <2> DEFINE Above(x) == {y \in S : Older(x, y)}
  <2>1. Above(i) \subseteq Above(j)
    <3> SUFFICES ASSUME NEW y \in S, Older(i, y) PROVE Older(j, y)
      OBVIOUS
    <3>1. y[1] \in Finding /\ y[2] \in Nat
      BY DEF Id
    <3>2. Order[i[1]] \in Nat /\ Order[j[1]] \in Nat /\ Order[y[1]] \in Nat
      BY <1>2, <3>1
    <3> QED BY <1>2, <1>4, <3>1, <3>2 DEF Older
  <2>2. IsFiniteSet(Above(j))
    BY IdsFinite, FS_Subset
  <2>3. Cardinality(Above(j)) < MaxEvents /\ ~(Cardinality(Above(i)) < MaxEvents)
    BY DEF Newest
  <2> HIDE DEF Above
  <2>4. IsFiniteSet(Above(i)) /\ Cardinality(Above(i)) <= Cardinality(Above(j))
    BY <2>1, <2>2, FS_Subset
  <2>5. Cardinality(Above(i)) \in Nat /\ Cardinality(Above(j)) \in Nat
    BY <2>2, <2>4, FS_CardinalityType
  <2> QED BY <2>3, <2>4, <2>5
<1> QED BY <1>3, <1>4

\* The two health cursors say what the coverage and the diagnostics say, and
\* the event list is within its bound.
Fits(st) ==
    /\ \A a \in {"coverage", "protection"} : st.seen[KeyOf[a]] \in {None, "recovered", a}
    /\ st.seen[KeyOf["coverage"]] = "coverage" => st.coverage = "degraded"
    /\ st.seen[KeyOf["protection"]] = "protection" => "protection" \in st.diagnostics
    /\ Newest(Present(st)) = Present(st)

\* While the loop acknowledges, queues and waits, the file is behind the memory at
\* most by a baseline of the workspace family, and only once that has been made.
Saved ==
    /\ main \in {"save", "ack", "enqueue", "idle"} => mem.init
    /\ main \in {"ack", "enqueue", "idle"} =>
          /\ disk.init /\ Behind(disk, mem)
          /\ ~mem.generation => /\ ~disk.generation
                                /\ disk.seen = mem.seen /\ Present(disk) = Present(mem)

\* The inductive invariant behind IdleIsDurable.
SavedInv == Fits(mem) /\ Fits(disk) /\ Saved

\* Nothing is behind itself.
LEMMA BehindSelf ==
    ASSUME NEW st, NEW t, t.seen = st.seen, Present(t) = Present(st),
           \A i \in Present(st) : st.note[i] \in {t.note[i], "queue_full"}
    PROVE  Behind(t, st)
BY DEF Behind

\* A change of statuses and another diagnosis change none of that.
LEMMA FitsAlso ==
    ASSUME NEW st, NEW t, Fits(st), t.seen = st.seen, t.coverage = st.coverage,
           st.diagnostics \subseteq t.diagnostics, Present(t) = Present(st)
    PROVE  Fits(t)
BY DEF Fits

\* What a report says of the two health conditions.
LEMMA ReportAlarms ==
    ASSUME TypeOK, NEW readable, NEW part \in Scanned
    PROVE  /\ "coverage" \in Report(part, readable) => Broken(mem)
           /\ "protection" \in Report(part, readable) <=> guardFault
<1>1. part \subseteq Evidence /\ FirstRecords \subseteq Record
  BY DEF Scanned, TypeOK, Source, FirstRecords
<1>2. \A a \in Alarm : a \notin part /\ a \notin FirstRecords
  BY <1>1 DEF Alarm
<1>3. ~Broken(mem) => NextRounds = 0
  BY DEF NextRounds
<1>4. ~Broken(mem) => ~(NextRounds >= BrokenLimit)
  BY <1>3
<1>5. {"coverage", "protection"} \subseteq Alarm
  BY DEF Alarm
<1> QED BY <1>2, <1>4, <1>5 DEF Report

\* A cycle leaves a state in which the health cursors fit.
LEMMA CycleFits ==
    ASSUME TypeOK, Fits(mem), NEW readable, NEW configured, NEW part \in Scanned,
           IsState(mem'), Decides(part, readable, configured)
    PROVE  Fits(mem')
<1> DEFINE R == Report(part, readable)
           S == Present(mem) \cup {<<f, clock + 1>> : f \in CycleFindings(part, readable)}
<1>1. /\ mem'.diagnostics = R \cap Alarm
      /\ mem'.coverage = IF Broken(mem) THEN "degraded" ELSE source
      /\ \A k \in Key : \/ mem'.seen[k] \in R /\ KeyOf[mem'.seen[k]] = k
                        \/ mem'.seen[k] = Healed(mem).seen[k]
      /\ Present(mem') = Newest(S)
  BY CycleLeaves DEF Leaves
<1>2. \A k \in Key : Healed(mem).seen[k] =
          IF Well(k) /\ mem.seen[k] # None THEN "recovered" ELSE mem.seen[k]
  BY HealedCursors DEF TypeOK
<1>3. /\ "coverage" \in R => Broken(mem)
      /\ "protection" \in R <=> guardFault
      /\ R \subseteq Finding
  BY ReportAlarms, ReportType
<1>4. S \subseteq Id
  <2>1. CycleFindings(part, readable) \subseteq Finding
    BY <1>3 DEF CycleFindings, Created
  <2>2. CycleFindings(part, readable) # {} => clock + 1 \in 1..MaxClock
    BY DEF Decides, TypeOK
  <2>3. Present(mem) \subseteq Id
    BY StateFields DEF TypeOK
  <2>4. \A f \in CycleFindings(part, readable) : <<f, clock + 1>> \in Id
    BY <2>1, <2>2 DEF Id
  <2> HIDE DEF R
  <2> QED BY <2>3, <2>4
<1> HIDE DEF R, S
<1>5. Newest(Present(mem')) = Present(mem')
  BY <1>1, <1>4, NewestAgain
<1>6. \A a \in {"coverage", "protection"} :
          /\ KeyOf[a] \in Key /\ a \in Alarm /\ a # None /\ a # "recovered"
          /\ \A f \in Finding : KeyOf[f] = KeyOf[a] => f = a
  BY DEF Alarm, Finding
<1>7. \A a \in {"coverage", "protection"} :
          \/ mem'.seen[KeyOf[a]] = a /\ a \in R
          \/ mem'.seen[KeyOf[a]] = Healed(mem).seen[KeyOf[a]]
  BY <1>1, <1>3, <1>6
<1>8. /\ Well(KeyOf["coverage"]) <=> ~Broken(mem)
      /\ Well(KeyOf["protection"]) <=> ~guardFault
  BY <1>6 DEF Well, Finding, Alarm
<1>9. \A a \in {"coverage", "protection"} : mem'.seen[KeyOf[a]] \in {None, "recovered", a}
  BY <1>2, <1>6, <1>7 DEF Fits
<1>10. mem'.seen[KeyOf["coverage"]] = "coverage" => mem'.coverage = "degraded"
  BY <1>1, <1>2, <1>3, <1>6, <1>7, <1>8
<1>11. mem'.seen[KeyOf["protection"]] = "protection" => "protection" \in mem'.diagnostics
  BY <1>1, <1>2, <1>3, <1>6, <1>7, <1>8
<1> QED BY <1>5, <1>9, <1>10, <1>11 DEF Fits

\* A cycle that ends without a save has changed no cursor, no event and no
\* status, or has made the baseline of the workspace family.
LEMMA CycleUnsaved ==
    ASSUME TypeOK, Fits(mem), NEW readable, NEW configured, NEW part \in Scanned,
           IsState(mem'), Decides(part, readable, configured),
           NothingToSave(mem', CycleEvents(part, readable), batch'),
           \A i \in Present(mem) : i[2] <= clock
    PROVE  /\ mem.generation => mem'.generation
           /\ \/ mem'.seen = mem.seen /\ Present(mem') = Present(mem)
              \/ ~mem.generation /\ mem'.generation
           /\ \A k \in Key : mem'.seen[k] # mem.seen[k] => Uninspected(mem, mem'.seen[k])
           /\ \A i \in Present(mem') \cap Present(mem) : mem'.note[i] = mem.note[i]
           /\ \A i \in Present(mem') \ Present(mem) :
                 mem'.note[i] = "suppressed_upgrade_baseline" /\ Uninspected(mem, i[1])
           /\ \A i \in Present(mem) \ Present(mem'), j \in Present(mem') : Older(i, j)
<1> DEFINE R == Report(part, readable)
           healed == Healed(mem)
           events == CycleEvents(part, readable)
           now == clock + 1
<1>1. mem.init /\ events = {} /\ mem'.coverage = mem.coverage /\ mem'.diagnostics = mem.diagnostics
  BY DEF NothingToSave
<1>2. /\ healed.init = mem.init /\ IsState(healed)
      /\ healed.note = mem.note /\ Present(healed) = Present(mem)
  BY HealedCursors, HealedMade DEF TypeOK
<1>3. \A f \in Created(healed, R) :
          Upgraded(healed, R, f) /\ NewNote(healed, R, f) = "suppressed_upgrade_baseline"
  <2>1. \A f \in CycleFindings(part, readable) :
            Quiet(Healed(mem), Report(part, readable), f) \/ <<f, clock + 1>> \in CycleEvents(part, readable)
    BY DEF CycleEvents
  <2>2. \A f \in Created(healed, R) : Quiet(healed, R, f)
    BY <1>1, <2>1 DEF CycleFindings
  <2> HIDE DEF healed, R
  <2> QED BY <1>1, <1>2, <2>2, NewNotes
<1>4. /\ mem'.diagnostics = R \cap Alarm
      /\ mem'.coverage = IF Broken(mem) THEN "degraded" ELSE source
      /\ mem'.generation <=> mem.generation \/ ValidScan(mem, R)
      /\ \A k \in Key : \/ mem'.seen[k] \in R /\ KeyOf[mem'.seen[k]] = k
                        \/ mem'.seen[k] = healed.seen[k]
      /\ Present(mem') = Newest(Present(mem) \cup {<<f, now>> : f \in Created(healed, R)})
  BY CycleLeaves DEF Leaves, CycleFindings
<1>7. \A k \in Key : healed.seen[k] = mem.seen[k]
  <2>1. \A k \in Key : healed.seen[k] =
            IF Well(k) /\ mem.seen[k] # None THEN "recovered" ELSE mem.seen[k]
    BY HealedCursors DEF TypeOK
  <2>2. "protection" \in R <=> guardFault
    BY ReportAlarms
  <2>3. {"coverage", "protection"} \subseteq Alarm
    BY DEF Alarm
  <2> HIDE DEF R, healed
  <2>4. ~Broken(mem) => mem.seen[KeyOf["coverage"]] \in {None, "recovered"}
    <3>1. ~Broken(mem) => mem'.coverage # "degraded"
      BY <1>4 DEF Broken
    <3> QED BY <1>1, <3>1 DEF Fits
  <2>5. ~guardFault => mem.seen[KeyOf["protection"]] \in {None, "recovered"}
    BY <1>1, <1>4, <2>2, <2>3 DEF Fits
  <2> QED BY <2>1, <2>4, <2>5 DEF Well
<1>8. healed.generation = mem.generation /\ (ValidScan(healed, R) <=> ValidScan(mem, R))
  <2>1. healed.generation = mem.generation /\ (Broken(healed) <=> Broken(mem))
    BY HealedCursors DEF TypeOK
  <2> QED BY <2>1 DEF ValidScan
<1>9. R \subseteq Finding /\ Created(healed, R) \subseteq R
  BY ReportType DEF Created
<1>10. \A f \in Created(healed, R) : Uninspected(mem, f) /\ ValidScan(mem, R)
  <2> SUFFICES ASSUME NEW f \in Created(healed, R)
               PROVE  Uninspected(mem, f) /\ ValidScan(mem, R)
    OBVIOUS
  <2> HIDE DEF healed, R
  <2>1. Uninspected(healed, f) /\ ValidScan(healed, R)
    BY <1>3 DEF Upgraded
  <2>2. f \in Finding /\ KeyOf[f] \in Key
    BY <1>9
  <2> QED BY <1>1, <1>7, <1>8, <2>1, <2>2 DEF Uninspected
<1>11. \A k \in Key : mem'.seen[k] # mem.seen[k] => mem'.seen[k] \in Created(healed, R)
  <2> SUFFICES ASSUME NEW k \in Key, mem'.seen[k] # mem.seen[k]
               PROVE  mem'.seen[k] \in Created(healed, R)
    OBVIOUS
  <2>1. healed.seen[k] = mem.seen[k]
    BY <1>7
  <2> HIDE DEF healed, R
  <2>2. mem'.seen[k] \in R /\ KeyOf[mem'.seen[k]] = k
    BY <1>4, <2>1
  <2> QED BY <2>1, <2>2 DEF Created
<1> DEFINE st == Applied(part, readable)
<1>12. /\ Present(mem') = Present(st)
       /\ \A i \in Present(st) : mem'.note[i] = st.note[i]
       /\ \A i \in Present(st) :
             \/ \E f \in Created(healed, R) : i = <<f, now>> /\ st.note[i] = NewNote(healed, R, f)
             \/ i \in Present(mem) /\ st.note[i] = mem.note[i]
  <2>1. mem' = Classified(st, events, configured, dispatch')
        /\ dispatch' \subseteq Eligible(st, events, configured)
    BY DEF Decides
  <2>2. dispatch' = {}
    BY <1>1, <2>1 DEF Eligible
  <2>3. st = ApplyReport(healed, R, now)
    BY DEF Applied
  <2>4. Created(healed, R) # {} => now \in 1..MaxClock
    BY DEF Decides, CycleFindings, TypeOK
  <2> HIDE DEF st, R, healed, now
  <2>5. /\ IsState(ApplyReport(healed, R, now))
        /\ \A i \in Present(ApplyReport(healed, R, now)) :
              \/ \E f \in Created(healed, R) :
                    i = <<f, now>> /\ ApplyReport(healed, R, now).note[i] = NewNote(healed, R, f)
              \/ i \in Present(healed) /\ ApplyReport(healed, R, now).note[i] = healed.note[i]
    <3>1. R \in SUBSET Finding /\ source \in Source
      BY <1>9 DEF TypeOK
    <3>2. IsState(ApplyReport(healed, R, now))
      BY <1>2, <2>4, <3>1, ReportMade
    <3> QED BY <3>2, AppliedNote
  <2> HIDE DEF events
  <2>6. /\ Present(Classified(st, events, configured, {})) = Present(st)
        /\ \A i \in Present(st) : i \notin events =>
              Classified(st, events, configured, {}).note[i] = st.note[i]
    <3>1. IsState(st) /\ {} \subseteq Eligible(st, events, configured)
      BY <2>3, <2>5
    <3> QED BY <3>1, ClassifiedNote
  <2>7. mem' = Classified(st, events, configured, {})
    BY <2>1, <2>2
  <2> QED BY <1>1, <1>2, <2>3, <2>5, <2>6, <2>7
<1> DEFINE new == {<<f, now>> : f \in Created(healed, R)}
<1>13. Present(mem') = Newest(Present(mem) \cup new) /\ Present(mem) \cup new \subseteq Id
  <2>1. Created(healed, R) # {} => now \in 1..MaxClock
    BY DEF Decides, CycleFindings, TypeOK
  <2>2. Present(mem) \subseteq Id
    BY StateFields DEF TypeOK
  <2> HIDE DEF healed, R, now
  <2> QED BY <1>4, <1>9, <2>1, <2>2 DEF Id
<1>14. \A i \in Present(mem') \cap Present(mem) : mem'.note[i] = mem.note[i]
  <2>1. \A i \in Present(mem) : i[2] # now
    <3>1. \A i \in Present(mem) : i[2] <= clock /\ i[2] \in Nat
      BY StateFields DEF TypeOK, Id
    <3> QED BY <3>1 DEF TypeOK
  <2> HIDE DEF healed, R, now, st
  <2> QED BY <1>12, <2>1
<1> HIDE DEF healed, R, now, st, events
<1>15. \A i \in Present(mem') \ Present(mem) :
          mem'.note[i] = "suppressed_upgrade_baseline" /\ Uninspected(mem, i[1])
  <2> SUFFICES ASSUME NEW i \in Present(mem'), i \notin Present(mem)
               PROVE  mem'.note[i] = "suppressed_upgrade_baseline" /\ Uninspected(mem, i[1])
    OBVIOUS
  <2>1. PICK f \in Created(healed, R) : i = <<f, now>> /\ st.note[i] = NewNote(healed, R, f)
    BY <1>12
  <2>2. i[1] = f /\ mem'.note[i] = st.note[i]
    BY <1>12, <2>1
  <2> QED BY <1>3, <1>10, <2>1, <2>2
<1>16. \A i \in Present(mem) \ Present(mem'), j \in Present(mem') : Older(i, j)
  BY <1>13, DroppedOlder
<1>17. \/ mem'.seen = mem.seen /\ Present(mem') = Present(mem)
       \/ ~mem.generation /\ mem'.generation
  <2>1. CASE Created(healed, R) = {}
    <3>1. mem'.seen \in [Key -> Cursor] /\ mem.seen \in [Key -> Cursor]
      BY StateFields DEF TypeOK
    <3>2. mem'.seen = mem.seen
      BY <1>11, <2>1, <3>1
    <3>3. new = {}
      BY <2>1
    <3> HIDE DEF new
    <3> QED BY <1>13, <3>2, <3>3 DEF Fits
  <2>2. CASE Created(healed, R) # {}
    BY <1>4, <1>10, <2>2 DEF Uninspected
  <2> QED BY <2>1, <2>2
<1> QED BY <1>4, <1>10, <1>11, <1>14, <1>15, <1>16, <1>17

\* The cycle keeps the invariant: it saves next, or has changed nothing.
LEMMA SavedCycleStep ==
    ASSUME NoticeInv, NoticeInv', SavedInv, NEW readable, NEW configured,
           Observe(readable, configured)
    PROVE  SavedInv'
<1>1. PICK part \in Scanned : Decides(part, readable, configured)
  BY ObserveDecides
<1>2. TypeOK /\ IsState(mem') /\ Fits(mem)
  BY DEF NoticeInv, TypeOK, SavedInv
<1>3. UNCHANGED durable
  BY DEF Observe
<1>4. Fits(mem')
  BY <1>1, <1>2, CycleFits
<1>5. Fits(disk)'
  BY <1>3 DEF durable, SavedInv, Fits, Present, Newest
<1>6. Saved'
  <2>1. /\ mem'.init
        /\ \/ main' = "save"
           \/ main' = "idle" /\ NothingToSave(mem', CycleEvents(part, readable), batch')
    <3>1. Leaves(part, readable)
      BY <1>1, <1>2, CycleLeaves
    <3>2. mem'.init
      BY <3>1 DEF Leaves
    <3> QED BY <1>1, <3>2 DEF Decides
  <2>2. CASE main' = "save"
    BY <2>1, <2>2 DEF Saved
  <2>3. CASE main' = "idle" /\ NothingToSave(mem', CycleEvents(part, readable), batch')
    <3>1. /\ mem.generation => mem'.generation
          /\ \/ mem'.seen = mem.seen /\ Present(mem') = Present(mem)
             \/ ~mem.generation /\ mem'.generation
          /\ \A k \in Key : mem'.seen[k] # mem.seen[k] => Uninspected(mem, mem'.seen[k])
          /\ \A i \in Present(mem') \cap Present(mem) : mem'.note[i] = mem.note[i]
          /\ \A i \in Present(mem') \ Present(mem) :
                mem'.note[i] = "suppressed_upgrade_baseline" /\ Uninspected(mem, i[1])
          /\ \A i \in Present(mem) \ Present(mem'), j \in Present(mem') : Older(i, j)
      <4>1. \A i \in Present(mem) : i[2] <= clock
        BY DEF NoticeInv, Past
      <4> QED BY <1>1, <1>2, <2>3, <4>1, CycleUnsaved
    <3>2. main = "idle"
      BY <2>3 DEF NothingToSave
    <3>3. /\ disk.init /\ Behind(disk, mem)
          /\ ~mem.generation => ~disk.generation /\ disk.seen = mem.seen /\ Present(disk) = Present(mem)
      BY <3>2 DEF SavedInv, Saved
    <3>4. disk' = disk
      BY <1>3 DEF durable
    <3>5. CASE mem'.seen = mem.seen /\ Present(mem') = Present(mem)
      <4>1. Behind(disk, mem')
        BY <3>1, <3>3, <3>5 DEF Behind
      <4> QED BY <2>1, <3>1, <3>3, <3>4, <3>5, <4>1 DEF Saved
    <3>6. CASE ~mem.generation /\ mem'.generation
      <4>1. \A f : Uninspected(mem, f) => Uninspected(disk, f)
        BY <3>3, <3>6 DEF Uninspected
      <4>2. \A i \in Present(mem) : mem.note[i] \in {disk.note[i], "queue_full"}
        BY <3>3, <3>6 DEF Behind
      <4>3. Behind(disk, mem')
        BY <3>1, <3>3, <3>6, <4>1, <4>2 DEF Behind
      <4> QED BY <2>1, <3>3, <3>4, <3>6, <4>3 DEF Saved
    <3> QED BY <3>1, <3>5, <3>6
  <2> QED BY <2>1, <2>2, <2>3
<1>7. Fits(mem)'
  BY <1>4 DEF Fits, Present, Newest
<1> QED BY <1>5, <1>6, <1>7 DEF SavedInv

\* The loop goes on without a save; at most one queued event did not fit the channel.
Continued ==
    /\ main \in {"ack", "enqueue", "idle"} /\ disk' = disk
    /\ mem'.seen = mem.seen /\ Present(mem') = Present(mem)
    /\ mem'.generation = mem.generation
    /\ \A i \in Present(mem) : \/ mem'.note[i] = mem.note[i]
                               \/ mem.note[i] = "queued" /\ mem'.note[i] = "queue_full"

\* Any other step keeps it that writes the memory or continues without a change.
LEMMA SavedOtherStep ==
    ASSUME SavedInv, Fits(mem'), disk' \in {disk, mem, mem'},
           main' \in {"save", "ack", "enqueue", "idle"} =>
              mem'.init = mem.init /\ main \in {"save", "ack", "enqueue", "idle"},
           main' \in {"ack", "enqueue", "idle"} => disk' = mem' \/ Continued
    PROVE  SavedInv'
<1>1. Fits(disk')
  BY DEF SavedInv
<1>2. Fits(mem)' /\ Fits(disk)'
  BY <1>1 DEF Fits, Present, Newest
<1>3. main' \in {"save", "ack", "enqueue", "idle"} => mem'.init
  BY DEF SavedInv, Saved
<1>4. ASSUME main' \in {"ack", "enqueue", "idle"}
      PROVE  /\ disk'.init /\ Behind(disk', mem')
             /\ ~mem'.generation => ~disk'.generation /\ disk'.seen = mem'.seen /\ Present(disk') = Present(mem')
  <2>1. CASE disk' = mem'
    <3>1. \A i \in Present(mem') : mem'.note[i] \in {disk'.note[i], "queue_full"}
      BY <2>1
    <3>2. Behind(disk', mem')
      BY <2>1, <3>1, BehindSelf
    <3> QED BY <1>3, <1>4, <2>1, <3>2
  <2>2. CASE Continued
    <3>1. /\ disk' = disk /\ mem'.seen = mem.seen /\ Present(mem') = Present(mem)
          /\ mem'.generation = mem.generation /\ main \in {"ack", "enqueue", "idle"}
          /\ \A i \in Present(mem) : \/ mem'.note[i] = mem.note[i]
                                     \/ mem.note[i] = "queued" /\ mem'.note[i] = "queue_full"
      BY <2>2 DEF Continued
    <3>2. /\ disk.init /\ Behind(disk, mem)
          /\ ~mem.generation => ~disk.generation /\ disk.seen = mem.seen /\ Present(disk) = Present(mem)
      BY <3>1 DEF SavedInv, Saved
    <3>3. Behind(disk, mem')
      <4>1. \A k \in Key : mem'.seen[k] # disk.seen[k] => Uninspected(disk, mem'.seen[k])
        BY <3>2, <3>1 DEF Behind
      <4>2. \A i \in Present(mem') \cap Present(disk) : mem'.note[i] \in {disk.note[i], "queue_full"}
        BY <3>2, <3>1 DEF Behind
      <4>3. \A i \in Present(mem') \ Present(disk) :
                mem'.note[i] = "suppressed_upgrade_baseline" /\ Uninspected(disk, i[1])
        BY <3>2, <3>1 DEF Behind
      <4>4. \A i \in Present(disk) \ Present(mem'), j \in Present(mem') : Older(i, j)
        BY <3>2, <3>1 DEF Behind
      <4> QED BY <4>1, <4>2, <4>3, <4>4 DEF Behind
    <3>4. ~mem'.generation =>
             ~disk.generation /\ disk.seen = mem'.seen /\ Present(disk) = Present(mem')
      BY <3>2, <3>1
    <3>5. disk'.init
      BY <3>2, <3>1
    <3>6. Behind(disk', mem')
      BY <3>1, <3>3
    <3>7. ~mem'.generation =>
             ~disk'.generation /\ disk'.seen = mem'.seen /\ Present(disk') = Present(mem')
      BY <3>1, <3>4
    <3> QED BY <3>5, <3>6, <3>7
  <2> QED BY <1>4, <2>1, <2>2
<1>5. Saved'
  BY <1>3, <1>4 DEF Saved
<1> QED BY <1>2, <1>5 DEF SavedInv

\* Every step keeps it.
LEMMA SavedStep ==
    ASSUME NoticeInv, FileInv, NoticeInv', SavedInv, [Next]_vars
    PROVE  SavedInv'
<1>0. Fits(mem) /\ Fits(disk) /\ IsState(mem) /\ IsState(disk)
  BY DEF SavedInv, NoticeInv, TypeOK
<1>1. ASSUME UNCHANGED <<mem, disk>>, main' = main \/ main \in {"ack", "enqueue"},
              main' \in {"ack", "enqueue", "idle"} => main \in {"ack", "enqueue", "idle"},
              main' = "save" => main = "save"
       PROVE  SavedInv'
  <2>1. main' \in {"ack", "enqueue", "idle"} => Continued
    <3>1. mem' = mem /\ disk' = disk
      BY <1>1
    <3>2. mem'.seen = mem.seen /\ Present(mem') = Present(mem) /\ mem'.generation = mem.generation
      BY <3>1
    <3>3. \A i \in Present(mem) : mem'.note[i] = mem.note[i]
      BY <3>1
    <3> QED BY <1>1, <3>1, <3>2, <3>3 DEF Continued
  <2>2. Fits(mem')
    BY <1>0, <1>1
  <2> QED BY <1>1, <2>1, <2>2, SavedOtherStep
<1>12. CASE UNCHANGED <<mem, main, disk>>
  BY <1>12, <1>1
<1>2. CASE ObserveReadable \/ ObserveUnreadable \/ ObserveUnnotified
  BY <1>2, SavedCycleStep DEF ObserveReadable, ObserveUnreadable, ObserveUnnotified
<1>3. CASE SaveCycle \/ Stop
  <2>1. /\ mem' = mem /\ disk' \in {disk, mem} /\ (main' # "exit" => disk' = mem)
        /\ main \in {"save", "idle"} /\ main' \in {"ack", "enqueue", "idle", "exit"}
    BY <1>3 DEF SaveCycle, SaveFails, Stop, Written, After, durable
  <2> QED BY <1>0, <2>1, SavedOtherStep
<1>4. CASE AckRecord
  <2>1. /\ main = "ack" /\ mem' = mem /\ disk' = disk /\ main' \in {"ack", "enqueue", "idle"}
    BY <1>4 DEF AckRecord, After, durable
  <2> QED BY <1>1, <2>1
<1>5. CASE AckFails
  <2>1. mem' = [mem EXCEPT !.diagnostics = @ \cup {"ack_failed"}]
        /\ disk' \in {disk, mem'} /\ (main' # "exit" => disk' = mem')
        /\ main = "ack" /\ main' \in {"enqueue", "idle", "exit"}
    BY <1>5 DEF AckFails, Written, After, durable
  <2>2. /\ mem'.seen = mem.seen /\ mem'.init = mem.init /\ mem'.coverage = mem.coverage /\ Present(mem') = Present(mem)
        /\ mem.diagnostics \subseteq mem'.diagnostics
    BY <1>0, <2>1 DEF IsState, Present
  <2>3. Fits(mem')
    BY <1>0, <2>2 DEF Fits
  <2> QED BY <2>1, <2>3, SavedOtherStep
<1>6. ASSUME NEW i, NEW n \in Note, IsMarked(mem', mem, i, n)
      PROVE  /\ Fits(mem') /\ mem'.seen = mem.seen /\ Present(mem') = Present(mem)
             /\ mem'.init = mem.init /\ mem'.generation = mem.generation
             /\ \A j \in Present(mem) : mem'.note[j] = IF j = i THEN n ELSE mem.note[j]
  <2>1. /\ Present(mem') = Present(mem)
        /\ \A j \in Present(mem) : mem'.note[j] = IF j = i THEN n ELSE mem.note[j]
    BY <1>0, <1>6, NoteMarked
  <2>2. /\ mem'.seen = mem.seen /\ mem'.coverage = mem.coverage /\ mem'.diagnostics = mem.diagnostics
        /\ mem'.init = mem.init /\ mem'.generation = mem.generation
    BY <1>0, <1>6 DEF IsState, IsMarked
  <2>3. Fits(mem')
    BY <1>0, <2>1, <2>2 DEF Fits
  <2> QED BY <2>1, <2>2, <2>3
<1>7. CASE Enqueue
  <2>1. PICK i \in dispatch : UNCHANGED mem \/ mem' = [mem EXCEPT !.note[i] = "queue_full"]
    BY <1>7 DEF Enqueue
  <2>2. disk' = disk /\ main = "enqueue" /\ main' \in {"enqueue", "idle"}
    BY <1>7 DEF Enqueue, After, durable
  <2>3. CASE UNCHANGED mem
    BY <1>1, <2>2, <2>3
  <2>4. CASE mem' = [mem EXCEPT !.note[i] = "queue_full"]
    <3>1. IsMarked(mem', mem, i, "queue_full") /\ "queue_full" \in Note
      BY <2>4 DEF IsMarked, Note, Retryable
    <3>2. i \in Present(mem) => mem.note[i] = "queued"
      BY DEF FileInv, Waiting, Waiters
    <3>3. /\ Fits(mem') /\ mem'.seen = mem.seen /\ Present(mem') = Present(mem)
          /\ mem'.init = mem.init /\ mem'.generation = mem.generation
          /\ \A j \in Present(mem) : mem'.note[j] = IF j = i THEN "queue_full" ELSE mem.note[j]
      BY <1>6, <3>1
    <3>4. \A j \in Present(mem) : \/ mem'.note[j] = mem.note[j]
                                  \/ mem.note[j] = "queued" /\ mem'.note[j] = "queue_full"
      BY <3>2, <3>3
    <3>5. Continued
      BY <2>2, <3>3, <3>4 DEF Continued
    <3> QED BY <2>2, <3>3, <3>5, SavedOtherStep
  <2> QED BY <2>1, <2>3, <2>4
<1>8. CASE ApplyNotice
  <2> DEFINE m == Head(messages)
  <2>1. m \in Message
    <3>1. messages \in Seq(Message) /\ messages # <<>>
      BY <1>8 DEF ApplyNotice, NoticeInv, TypeOK
    <3> QED BY ONLY <3>1
  <2>2. \/ UNCHANGED <<mem, main, disk>>
        \/ /\ IsMarked(mem', mem, m.id, m.status)
           /\ disk' \in {disk, mem'} /\ (main' # "exit" => disk' = mem')
           /\ main = "idle" /\ main' \in {"idle", "exit"}
    BY <1>8 DEF ApplyNotice, SaveFails, Written, durable, IsMarked
  <2>3. m.status \in Note
    BY <2>1 DEF Message
  <2> HIDE DEF m
  <2>4. CASE /\ IsMarked(mem', mem, m.id, m.status)
             /\ disk' \in {disk, mem'} /\ (main' # "exit" => disk' = mem')
             /\ main = "idle" /\ main' \in {"idle", "exit"}
    <3>1. Fits(mem') /\ mem'.init = mem.init
      BY <1>6, <2>3, <2>4
    <3> QED BY <2>4, <3>1, SavedOtherStep
  <2> QED BY <1>12, <2>2, <2>4
<1>9. CASE Exit \/ Crash
  <2>1. mem' = disk' /\ disk' \in {disk, mem} /\ main' = "down"
    BY <1>9 DEF Exit, Crash, Gone, Written, durable
  <2> QED BY <1>0, <2>1, SavedOtherStep
<1>10. CASE Start
  <2>1. mem' = Interrupted(disk) /\ disk' = disk /\ main' = "first"
    BY <1>10 DEF Start, durable
  <2>2. /\ mem'.seen = disk.seen /\ mem'.coverage = disk.coverage
        /\ mem'.diagnostics = disk.diagnostics /\ Present(mem') = Present(disk)
    BY <1>0, <2>1 DEF Interrupted, IsState, Present
  <2>3. Fits(mem')
    BY <1>0, <2>2 DEF Fits
  <2> QED BY <2>1, <2>3, SavedOtherStep
<1>11. CASE UNCHANGED vars \/ Environment \/ Worker
  BY <1>12, <1>11 DEF vars, Environment, EvidenceChanges, SourceChanges, GuardChanges, Submit, Reject,
                     Worker, WorkerTake, Send, SendReturns, SendSkipped, WorkerReturns, durable
<1> QED BY <1>2, <1>3, <1>4, <1>5, <1>7, <1>8, <1>9, <1>10, <1>11 DEF Next, Cycle

\* The loop that waits has its knowledge in the file.
THEOREM SavedWhenIdle == Spec => []IdleIsDurable
<1>1. Init => SavedInv
  <2> SUFFICES ASSUME Init PROVE SavedInv
    OBVIOUS
  <2>1. mem = EmptyState /\ disk = EmptyState /\ main = "down"
    BY DEF Init
  <2>2. Present(EmptyState) = {} /\ \A k \in Key : EmptyState.seen[k] = None
    BY DEF EmptyState, Present
  <2>3. Newest({}) = {}
    BY DEF Newest
  <2>4. KeyOf["coverage"] \in Key /\ KeyOf["protection"] \in Key
        /\ None # "coverage" /\ None # "protection"
    BY DEF Finding, Alarm
  <2>5. Fits(EmptyState)
    BY <2>2, <2>3, <2>4 DEF Fits
  <2> QED BY <2>1, <2>5 DEF SavedInv, Saved
<1>2. NoticeInv /\ FileInv /\ NoticeInv' /\ SavedInv /\ [Next]_vars => SavedInv'
  BY SavedStep
<1>3. SavedInv => IdleIsDurable
  BY DEF SavedInv, Saved, IdleIsDurable
<1> QED BY <1>1, <1>2, <1>3, NoticesHold, FileAgrees, PTL DEF Spec

-----------------------------------------------------------------------------
(* No accepted record is lost. *)

\* The records that come before a record in the inbox.
Before(r) == {s \in inbox : Order[s] < Order[r]}

\* A batch is no longer than its limit.
LEMMA BatchBounded ==
    ASSUME inbox \subseteq Record
    PROVE  /\ FirstRecords \subseteq inbox /\ IsFiniteSet(FirstRecords)
           /\ Cardinality(FirstRecords) <= BatchLimit
<1> DEFINE Places == 0..(BatchLimit - 1)
           place == [r \in FirstRecords |-> Cardinality(Before(r))]
<1>1. IsFiniteSet(inbox)
  <2>1. inbox \in SUBSET Finding
    BY DEF Finding
  <2> QED BY <2>1, FS_Subset
<1>2. ASSUME NEW r \in inbox
      PROVE  IsFiniteSet(Before(r)) /\ Cardinality(Before(r)) \in Nat
  <2>1. Before(r) \in SUBSET inbox
    BY DEF Before
  <2>2. IsFiniteSet(Before(r))
    BY <1>1, <2>1, FS_Subset
  <2> QED BY <2>2, FS_CardinalityType
<1>3. FirstRecords = {r \in inbox : Cardinality(Before(r)) < BatchLimit}
  BY DEF FirstRecords, Before
<1>4. place \in [FirstRecords -> Places]
  BY <1>2, <1>3
<1>5. ASSUME NEW r \in inbox, NEW s \in inbox, Order[r] < Order[s]
      PROVE  Cardinality(Before(r)) # Cardinality(Before(s))
  <2>1. Order[r] \in Nat /\ Order[s] \in Nat /\ \A t \in inbox : Order[t] \in Nat
    BY DEF Finding
  <2>2. Before(r) \in SUBSET Before(s)
    BY <1>5, <2>1 DEF Before
  <2>3. r \in Before(s) /\ r \notin Before(r)
    BY <1>5, <2>1 DEF Before
  <2>4. Before(r) # Before(s)
    BY <2>3
  <2> QED BY <1>2, <2>2, <2>4, FS_Subset
<1>6. \A r, s \in FirstRecords : place[r] = place[s] => r = s
  <2> SUFFICES ASSUME NEW r \in FirstRecords, NEW s \in FirstRecords, r # s
               PROVE  place[r] # place[s]
    OBVIOUS
  <2>1. r \in inbox /\ s \in inbox /\ r \in Finding /\ s \in Finding
    BY <1>3 DEF Finding
  <2>2. Order[r] \in Nat /\ Order[s] \in Nat /\ Order[r] # Order[s]
    BY <2>1
  <2>3. Cardinality(Before(r)) # Cardinality(Before(s))
    BY <1>5, <2>1, <2>2
  <2> QED BY <2>3
<1>7. place \in Injection(FirstRecords, Places)
  BY <1>4, <1>6 DEF Injection, IsInjective
<1>8. IsFiniteSet(Places) /\ Cardinality(Places) = BatchLimit
  BY FS_Interval
<1> HIDE DEF place, Places
<1>9. IsFiniteSet(FirstRecords) /\ Cardinality(FirstRecords) <= Cardinality(Places)
  BY <1>7, <1>8, FS_Injection
<1> QED BY <1>3, <1>8, <1>9

\* The event of a new record is not evicted by the report that creates it: only
\* the other records of its batch and the guard's finding are newer.
LEMMA RecordsStay ==
    ASSUME NoticeInv, NEW part \in Scanned, NEW readable,
           NEW r \in Record, r \in CycleFindings(part, readable)
    PROVE  <<r, clock + 1>> \in
              Newest(Present(mem) \cup {<<f, clock + 1>> : f \in CycleFindings(part, readable)})
<1> DEFINE R == Report(part, readable)
           now == clock + 1
           new == {<<f, now>> : f \in CycleFindings(part, readable)}
           S == Present(mem) \cup new
           e == <<r, now>>
           Newer == {j \in S : Older(e, j)}
           Rivals == (FirstRecords \ {r}) \cup {"protection"}
           finding == [j \in Newer |-> j[1]]
<1>1. /\ inbox \subseteq Record /\ clock \in Nat /\ \A i \in Present(mem) : i[2] <= clock
      /\ Present(mem) \subseteq Id
  BY StateFields DEF NoticeInv, TypeOK, Past
<1>2. part \subseteq Evidence /\ R \subseteq Finding
  BY ReportType DEF NoticeInv, TypeOK, Scanned, Source
<1>3. r \in R /\ CycleFindings(part, readable) \subseteq R
  BY DEF CycleFindings, Created
<1>4. readable /\ r \in FirstRecords
  <2>1. r \notin part /\ r \notin Alarm
    BY <1>2
  <2> QED BY <1>3, <2>1 DEF Report, Alarm
<1>5. \A f \in R \cap Record : f \in FirstRecords
  <2>1. \A f \in Record : f \notin part /\ f \notin Alarm
    BY <1>2
  <2> QED BY <2>1 DEF Report, Alarm
<1>6. "unreadable" \notin R
  <2>1. \A f \in part \cup FirstRecords : f # "unreadable"
    BY <1>1, <1>2 DEF Alarm, FirstRecords
  <2> QED BY <1>4, <2>1 DEF Report
<1>7. ASSUME NEW j \in Newer
      PROVE  j[1] \in Rivals /\ j = <<j[1], now>>
  <2>1. j \in S /\ Older(e, j)
    OBVIOUS
  <2>2. j \notin Present(mem)
    <3>1. ASSUME j \in Present(mem) PROVE FALSE
      <4>1. j[2] <= clock /\ j[2] \in Nat
        BY <1>1, <3>1 DEF Id, BoundAssumption
      <4> QED BY <1>1, <2>1, <4>1 DEF Older
    <3> QED BY <3>1
  <2>3. PICK f \in CycleFindings(part, readable) : j = <<f, now>>
    BY <2>1, <2>2
  <2>4. f \in R /\ f \in Finding /\ Order[r] < Order[f]
    BY <1>1, <1>2, <1>3, <2>1, <2>3 DEF Older
  <2>5. f \in Record \cup {"unreadable", "protection"} /\ f # r
    BY <2>4
  <2>6. f \in Rivals
    BY <1>5, <1>6, <2>4, <2>5
  <2> QED BY <2>3, <2>6
<1>8. IsFiniteSet(Rivals) /\ Cardinality(Rivals) <= BatchLimit
  <2>1. IsFiniteSet(FirstRecords) /\ Cardinality(FirstRecords) <= BatchLimit
    BY <1>1, BatchBounded
  <2>2. /\ IsFiniteSet(FirstRecords \ {r})
        /\ Cardinality(FirstRecords \ {r}) = Cardinality(FirstRecords) - 1
    BY <1>4, <2>1, FS_RemoveElement
  <2>3. Cardinality(FirstRecords) \in Nat /\ Cardinality(FirstRecords \ {r}) \in Nat
    BY <2>1, <2>2, FS_CardinalityType
  <2>4. /\ IsFiniteSet(Rivals)
        /\ Cardinality(Rivals) \in {Cardinality(FirstRecords \ {r}), Cardinality(FirstRecords \ {r}) + 1}
    BY <2>2, FS_AddElement
  <2> HIDE DEF Rivals
  <2> QED BY <2>1, <2>2, <2>3, <2>4
<1>9. finding \in Injection(Newer, Rivals)
  <2> HIDE DEF Newer, Rivals
  <2>1. finding \in [Newer -> Rivals]
    BY <1>7
  <2>2. \A i, j \in Newer : finding[i] = finding[j] => i = j
    BY <1>7
  <2> QED BY <2>1, <2>2 DEF Injection, IsInjective
<1> HIDE DEF finding, Rivals, Newer
<1>10. IsFiniteSet(Newer) /\ Cardinality(Newer) <= Cardinality(Rivals)
  BY <1>8, <1>9, FS_Injection
<1>11. Cardinality(Newer) < MaxEvents
  <2>1. Cardinality(Newer) \in Nat /\ Cardinality(Rivals) \in Nat
    BY <1>8, <1>10, FS_CardinalityType
  <2> QED BY <1>8, <1>10, <2>1
<1>12. e \in S
  OBVIOUS
<1> QED BY <1>11, <1>12 DEF Newest, Newer

\* An event among S observed this.
HasEvent(f, S) == \E i \in S : i[1] = f

\* A cursor at a record has an event behind it, and so has every record of the
\* batch before it is acknowledged.
Remembered ==
    /\ \A k \in Key : mem.seen[k] \in Record => HasEvent(mem.seen[k], recorded \cup Present(mem))
    /\ \A k \in Key : disk.seen[k] \in Record => HasEvent(disk.seen[k], recorded)
    /\ main = "save" => \A r \in batch : HasEvent(r, recorded \cup Present(mem))
    /\ main = "ack" => \A r \in batch : HasEvent(r, recorded)

\* The inductive invariant behind NoLostRecord.
RecordInv == Remembered /\ NoLostRecord

\* The cycle has an event for every record that it reads or remembers.
LEMMA RecordCycleStep ==
    ASSUME NoticeInv, FileInv, NoticeInv', RecordInv, NEW readable, NEW configured,
           Observe(readable, configured)
    PROVE  RecordInv'
<1>1. PICK part \in Scanned : Decides(part, readable, configured)
  BY ObserveDecides
<1> DEFINE R == Report(part, readable)
           new == {<<f, clock + 1>> : f \in CycleFindings(part, readable)}
<1>2. /\ main \in {"first", "idle"} /\ UNCHANGED <<disk, recorded, inbox, accepted>>
      /\ main' \in {"save", "idle"}
  BY DEF Observe, AtCycle, durable, inboxes
<1>3. TypeOK /\ IsState(mem)
  BY DEF NoticeInv, TypeOK
<1>4. /\ \A k \in Key : \/ mem'.seen[k] \in R /\ KeyOf[mem'.seen[k]] = k
                        \/ mem'.seen[k] = Healed(mem).seen[k]
      /\ Present(mem') = Newest(Present(mem) \cup new)
  BY <1>1, <1>3, CycleLeaves DEF Leaves
<1>5. \A k \in Key : Healed(mem).seen[k] \in Record =>
          /\ Healed(mem).seen[k] = mem.seen[k]
          /\ HasEvent(Healed(mem).seen[k], recorded)
  <2>1. \A k \in Key : Healed(mem).seen[k] \in {"recovered", mem.seen[k]}
    BY <1>3, HealedCursors
  <2>2. ASSUME NEW r \in Record, HasEvent(r, recorded \cup Present(mem))
        PROVE  HasEvent(r, recorded)
    <3>1. PICK i \in recorded \cup Present(mem) : i[1] = r
      BY <2>2 DEF HasEvent
    <3>2. i \in Present(mem) \ recorded => i[1] \in Workspace
      BY <1>2 DEF FileInv, OnFile, Unannounced
    <3>3. i \in recorded
      BY <3>1, <3>2
    <3> QED BY <3>1, <3>3 DEF HasEvent
  <2>3. \A k \in Key : mem.seen[k] \in Record => HasEvent(mem.seen[k], recorded)
    BY <2>2 DEF RecordInv, Remembered
  <2> QED BY <2>1, <2>3
<1>6. ASSUME NEW r \in R \cap Record
      PROVE  HasEvent(r, recorded \cup Present(mem'))
  <2>1. CASE r \in CycleFindings(part, readable)
    <3>1. <<r, clock + 1>> \in Present(mem')
      BY <1>4, <2>1, RecordsStay
    <3> QED BY <3>1 DEF HasEvent
  <2>2. CASE r \notin CycleFindings(part, readable)
    <3>1. Healed(mem).seen[KeyOf[r]] = r /\ KeyOf[r] \in Key
      BY <2>2 DEF CycleFindings, Created, Finding
    <3> QED BY <1>5, <3>1 DEF HasEvent
  <2> QED BY <2>1, <2>2
<1> HIDE DEF R, new
<1>7. \A k \in Key : mem'.seen[k] \in Record => HasEvent(mem'.seen[k], recorded \cup Present(mem'))
  <2> SUFFICES ASSUME NEW k \in Key, mem'.seen[k] \in Record
               PROVE  HasEvent(mem'.seen[k], recorded \cup Present(mem'))
    OBVIOUS
  <2>1. CASE mem'.seen[k] \in R
    BY <1>6, <2>1
  <2>2. CASE mem'.seen[k] = Healed(mem).seen[k]
    BY <1>5, <2>2 DEF HasEvent
  <2> QED BY <1>4, <2>1, <2>2
<1>8. \A r \in batch' : HasEvent(r, recorded \cup Present(mem'))
  <2>1. batch' = IF readable THEN FirstRecords ELSE {}
    BY <1>1 DEF Decides
  <2>2. readable => FirstRecords \subseteq R
    BY DEF Report, R
  <2>3. FirstRecords \subseteq Record
    BY <1>3 DEF FirstRecords, TypeOK
  <2> QED BY <1>6, <2>1, <2>2, <2>3
<1>9. Remembered'
  BY <1>2, <1>7, <1>8 DEF RecordInv, Remembered, HasEvent, Present
<1> QED BY <1>2, <1>9 DEF RecordInv, NoLostRecord

\* Steps other than the cycle read no record: they keep or save the memory, or
\* take it from the file.
LEMMA RecordOtherStep ==
    ASSUME RecordInv, recorded \subseteq recorded',
           \/ mem'.seen = mem.seen /\ Present(mem') = Present(mem)
           \/ mem'.seen = disk'.seen,
           disk'.seen = disk.seen \/ (disk'.seen = mem.seen /\ Present(mem) \subseteq recorded'),
           main' = "save" => main = "save" /\ batch' = batch /\ Present(mem') = Present(mem),
           main' = "ack" => /\ batch' \subseteq batch
                            /\ main = "ack" \/ (main = "save" /\ Present(mem) \subseteq recorded'),
           accepted' \ inbox' \subseteq (accepted \ inbox) \cup (IF main = "ack" THEN batch ELSE {})
    PROVE  RecordInv'
<1>1. ASSUME NEW f, NEW S, NEW T, S \subseteq T, HasEvent(f, S) PROVE HasEvent(f, T)
  BY <1>1 DEF HasEvent
<1>2. /\ \A k \in Key : mem.seen[k] \in Record => HasEvent(mem.seen[k], recorded \cup Present(mem))
      /\ \A k \in Key : disk.seen[k] \in Record => HasEvent(disk.seen[k], recorded)
      /\ main = "save" => \A r \in batch : HasEvent(r, recorded \cup Present(mem))
      /\ main = "ack" => \A r \in batch : HasEvent(r, recorded)
      /\ \A r \in accepted \ inbox : HasEvent(r, recorded)
  BY DEF RecordInv, Remembered, NoLostRecord, HasEvent
<1>3. \A f : HasEvent(f, recorded) => HasEvent(f, recorded')
  BY <1>1
<1>4. \A f : HasEvent(f, recorded \cup Present(mem)) => HasEvent(f, recorded' \cup Present(mem))
  <2>1. recorded \cup Present(mem) \subseteq recorded' \cup Present(mem)
    OBVIOUS
  <2> QED BY <1>1, <2>1
<1>5. Present(mem) \subseteq recorded' =>
          \A f : HasEvent(f, recorded \cup Present(mem)) => HasEvent(f, recorded')
  <2>1. Present(mem) \subseteq recorded' => recorded \cup Present(mem) \subseteq recorded'
    OBVIOUS
  <2> QED BY <1>1, <2>1
<1>6. \A k \in Key : disk'.seen[k] \in Record => HasEvent(disk'.seen[k], recorded')
  BY <1>2, <1>3, <1>4, <1>5
<1>7. \A k \in Key : mem'.seen[k] \in Record => HasEvent(mem'.seen[k], recorded' \cup Present(mem'))
  <2>1. \A f : HasEvent(f, recorded') => HasEvent(f, recorded' \cup Present(mem'))
    BY <1>1
  <2> QED BY <1>2, <1>4, <1>6, <2>1
<1>8. main' = "save" => \A r \in batch' : HasEvent(r, recorded' \cup Present(mem'))
  BY <1>2, <1>4
<1>9. main' = "ack" => \A r \in batch' : HasEvent(r, recorded')
  BY <1>2, <1>3, <1>4, <1>5
<1>10. \A r \in accepted' \ inbox' : HasEvent(r, recorded')
  BY <1>2, <1>3
<1>11. Remembered'
  BY <1>6, <1>7, <1>8, <1>9 DEF Remembered, HasEvent, Present
<1> QED BY <1>10, <1>11 DEF RecordInv, NoLostRecord, HasEvent

\* Every step keeps the events of the records.
LEMMA RecordStep ==
    ASSUME NoticeInv, FileInv, NoticeInv', RecordInv, [Next]_vars
    PROVE  RecordInv'
<1>0. IsState(mem) /\ IsState(disk)
  BY DEF NoticeInv, TypeOK
<1>1. CASE UNCHANGED vars \/ Environment \/ Worker
  BY <1>1, RecordOtherStep
  DEF vars, Environment, EvidenceChanges, SourceChanges, GuardChanges, Submit, Reject,
      Worker, WorkerTake, Send, SendReturns, SendSkipped, WorkerReturns, durable, inboxes, cycleVars
<1>2. CASE ObserveReadable \/ ObserveUnreadable \/ ObserveUnnotified
  BY <1>2, RecordCycleStep DEF ObserveReadable, ObserveUnreadable, ObserveUnnotified
<1>3. CASE SaveCycle \/ Stop
  <2>1. /\ mem' = mem /\ batch' = batch /\ UNCHANGED inboxes
        /\ \/ disk' = mem /\ recorded' = recorded \cup Present(mem)
           \/ UNCHANGED durable /\ main' = "exit"
        /\ main' # "save" /\ (main' = "ack" => main = "save")
    BY <1>3 DEF SaveCycle, SaveFails, Stop, Written, After, durable, cycleVars
  <2> QED BY <2>1, RecordOtherStep DEF durable, inboxes
<1>4. CASE AckRecord
  <2>1. /\ main = "ack" /\ batch' \subseteq batch /\ inbox \subseteq inbox' \cup batch
        /\ UNCHANGED <<accepted, mem, disk, recorded>> /\ main' # "save"
    BY <1>4 DEF AckRecord, After, durable
  <2> QED BY <2>1, RecordOtherStep
<1>5. CASE AckFails
  <2>1. mem' = [mem EXCEPT !.diagnostics = @ \cup {"ack_failed"}] /\ UNCHANGED inboxes
        /\ main' \notin {"save", "ack"} /\ (Written(mem') \/ UNCHANGED durable)
    BY <1>5 DEF AckFails, After
  <2>2. mem'.seen = mem.seen /\ Present(mem') = Present(mem)
    BY <1>0, <2>1 DEF IsState, Present
  <2> QED BY <2>1, <2>2, RecordOtherStep DEF Written, durable, inboxes
<1>6. ASSUME NEW i, NEW n, mem' = mem \/ IsMarked(mem', mem, i, n),
             Written(mem') \/ UNCHANGED durable,
             main' \notin {"save", "ack"}, UNCHANGED inboxes
      PROVE  RecordInv'
  <2>1. mem'.seen = mem.seen /\ Present(mem') = Present(mem)
    BY <1>0, <1>6 DEF IsState, IsMarked, Present
  <2> QED BY <1>6, <2>1, RecordOtherStep DEF Written, durable, inboxes
<1>7. CASE Enqueue
  <2>1. PICK i \in dispatch : mem' = mem \/ IsMarked(mem', mem, i, "queue_full")
    BY <1>7 DEF Enqueue, IsMarked
  <2>2. UNCHANGED durable /\ UNCHANGED inboxes /\ main' \notin {"save", "ack"}
    BY <1>7 DEF Enqueue, After
  <2> QED BY <1>6, <2>1, <2>2
<1>8. CASE ApplyNotice
  <2> DEFINE m == Head(messages)
  <2>1. mem' = mem \/ IsMarked(mem', mem, m.id, m.status)
    BY <1>8 DEF ApplyNotice, IsMarked
  <2>2. /\ Written(mem') \/ UNCHANGED durable
        /\ UNCHANGED inboxes /\ main' \notin {"save", "ack"}
    BY <1>8 DEF ApplyNotice, SaveFails
  <2> HIDE DEF m
  <2> QED BY <1>6, <2>1, <2>2
<1>9. CASE Exit \/ Crash
  <2>1. /\ mem' = disk' /\ main' = "down" /\ UNCHANGED inboxes
        /\ (disk' = mem /\ recorded' = recorded \cup Present(mem)) \/ UNCHANGED durable
    BY <1>9 DEF Exit, Crash, Gone, Written
  <2> QED BY <2>1, RecordOtherStep DEF durable, inboxes
<1>10. CASE Start
  <2>1. mem' = Interrupted(disk) /\ main' = "first" /\ UNCHANGED durable /\ UNCHANGED inboxes
    BY <1>10 DEF Start
  <2>2. mem'.seen = disk'.seen
    BY <1>0, <2>1 DEF Interrupted, IsState, durable
  <2> QED BY <2>1, <2>2, RecordOtherStep DEF durable, inboxes
<1> QED BY <1>1, <1>2, <1>3, <1>4, <1>5, <1>7, <1>8, <1>9, <1>10 DEF Next, Cycle

\* A record that the inbox accepted is in the inbox or has an event in the file.
THEOREM RecordsKept == Spec => []NoLostRecord
<1>1. Init => RecordInv
  <2> SUFFICES ASSUME Init PROVE RecordInv
    OBVIOUS
  <2>1. \A k \in Key : EmptyState.seen[k] = None
    BY DEF EmptyState
  <2>2. None \notin Record
    OBVIOUS
  <2> QED BY <2>1, <2>2 DEF Init, RecordInv, Remembered, NoLostRecord
<1>2. NoticeInv /\ FileInv /\ NoticeInv' /\ RecordInv /\ [Next]_vars => RecordInv'
  BY RecordStep
<1>3. RecordInv => NoLostRecord
  BY DEF RecordInv
<1> QED BY <1>1, <1>2, <1>3, NoticesHold, FileAgrees, PTL DEF Spec
=============================================================================
