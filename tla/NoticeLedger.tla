---------------------------- MODULE NoticeLedger ----------------------------
(***************************************************************************)
(* What the monitor promises about the notification of an event, seen from *)
(* the state file and the operating system alone.  An event becomes known  *)
(* when the file first holds it; it is open while it may still be notified, *)
(* and claimed for ever once "dispatching" has reached the file.  A known  *)
(* event that is neither open nor claimed will never be notified.          *)
(***************************************************************************)
EXTENDS Naturals, Sequences

CONSTANT Event

VARIABLES
    known,     \* events the file holds or has held
    open,      \* known events that may still be claimed
    claimed,   \* events claimed for a run of the helper
    delivered  \* the runs of the helper, in order

Delivered == {delivered[n] : n \in 1..Len(delivered)}

Init == known = {} /\ open = {} /\ claimed = {} /\ delivered = <<>>

\* The file changes: only new events open, and only open events are claimed.
Update ==
    /\ known \subseteq known' /\ known' \subseteq Event
    /\ open' \subseteq open \cup (known' \ known)
    /\ claimed \subseteq claimed' /\ claimed' \ claimed \subseteq open \ open'
    /\ open' \cap claimed' = {}
    /\ UNCHANGED delivered

\* The helper runs, for a claimed event it has not been run for.
Deliver ==
    /\ \E i \in claimed \ Delivered : delivered' = Append(delivered, i)
    /\ UNCHANGED <<known, open, claimed>>

Next == Update \/ Deliver

Spec == Init /\ [][Next]_<<known, open, claimed, delivered>>

\* The consequence a user sees: no event is announced twice.
AtMostOnce == \A m, n \in 1..Len(delivered) : delivered[m] = delivered[n] => m = n
=============================================================================
