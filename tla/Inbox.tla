------------------------------- MODULE Inbox -------------------------------
(***************************************************************************)
(* What the hook inbox promises to the hooks and to the monitor: a record   *)
(* that was accepted stays pending until an event for it has been recorded. *)
(***************************************************************************)
CONSTANT Record
VARIABLES
    pending,   \* records that a read would find
    accepted,  \* records whose submission returned success
    recorded   \* records for which the monitor has saved an event

vars == <<pending, accepted, recorded>>

Init == pending = {} /\ accepted = {} /\ recorded = {}

\* A record becomes visible before its submission returns, or although the
\* submission fails or is killed afterwards.
Appear(r)  == pending' = pending \cup {r} /\ UNCHANGED <<accepted, recorded>>

\* Success is returned for a record that is pending.
Accept(r)  == r \in pending /\ accepted' = accepted \cup {r} /\ UNCHANGED <<pending, recorded>>

\* Only pending records are recorded, several at once; only recorded ones leave.
Save(S)    == S \subseteq pending /\ recorded' = recorded \cup S /\ UNCHANGED <<pending, accepted>>
Consume(r) == r \in recorded /\ pending' = pending \ {r} /\ UNCHANGED <<accepted, recorded>>

Next == \/ \E r \in Record : Appear(r) \/ Accept(r) \/ Consume(r)
        \/ \E S \in SUBSET Record : Save(S)

Spec == Init /\ [][Next]_vars

\* An accepted record is pending or recorded.
AcceptedIsKept == accepted \subseteq pending \cup recorded
=============================================================================
