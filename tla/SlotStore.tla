------------------------------- MODULE SlotStore -------------------------------
(***************************************************************************)
(* What a call of processFullSlot promises to those who make it: the slot  *)
(* is stored in one step, or the call fails without a trace; a call whose  *)
(* context is cancelled may also give up.  This is the view that the       *)
(* workers of BatchProcess have of it (StoreSlot, SlotFails, GiveUpSlot).  *)
(* SlotProcessing shows that the code keeps the promise.                   *)
(***************************************************************************)
EXTENDS FiniteSets

CONSTANTS
    Calls,     \* the calls that may run at once
    SlotSet    \* the slots they may be made for

\* What is there for a slot: all that was asked for, the note that it was
\* skipped, or a row that lacks something.
Kinds == {"full", "skipped", "hollow"}

\* No outcome yet, a nil error or an error.
Outcomes == {"none", "ok", "failed"}

VARIABLES
    stored,      \* the kinds of rows of each slot
    busy,        \* the slot each call is at work on, as a set of one or none
    outcome,     \* how its last call ended
    cancelled    \* the context is cancelled

vars == <<stored, busy, outcome, cancelled>>

TypeOK ==
    /\ stored \in [SlotSet -> SUBSET Kinds]
    /\ busy \in [Calls -> SUBSET SlotSet]
    /\ outcome \in [Calls -> Outcomes]
    /\ cancelled \in BOOLEAN

Init ==
    /\ stored = [n \in SlotSet |-> {}]
    /\ busy = [c \in Calls |-> {}]
    /\ outcome = [c \in Calls |-> "none"]
    /\ cancelled = FALSE

Begin(c, n) ==
    /\ busy[c] = {}
    /\ busy' = [busy EXCEPT ![c] = {n}]
    /\ outcome' = [outcome EXCEPT ![c] = "none"]
    /\ UNCHANGED <<stored, cancelled>>

Return(c, how) ==
    /\ busy' = [busy EXCEPT ![c] = {}]
    /\ outcome' = [outcome EXCEPT ![c] = how]

\* The slot is whole or known to be skipped from here on; the whole row may be
\* the one that lacked something.
Store(c, n) ==
    /\ busy[c] = {n}
    /\ \/ \E kind \in {"full", "skipped"} : stored' = [stored EXCEPT ![n] = @ \cup {kind}]
       \/ stored' = [stored EXCEPT ![n] = (@ \ {"hollow"}) \cup {"full"}]
    /\ Return(c, "ok")
    /\ UNCHANGED cancelled

\* The row without a block that a cancelled call left is in the way of the
\* note that the slot was skipped.
StoreMasked(c, n) ==
    /\ busy[c] = {n}
    /\ "hollow" \in stored[n]
    /\ Return(c, "ok")
    /\ UNCHANGED <<stored, cancelled>>

\* The context is cancelled: nothing is written, or what there is.
GiveUp(c, n) ==
    /\ cancelled
    /\ busy[c] = {n}
    /\ \/ UNCHANGED stored
       \/ stored' = [stored EXCEPT ![n] = @ \cup {"hollow"}]
    /\ Return(c, "ok")
    /\ UNCHANGED cancelled

Fail(c, n) ==
    /\ busy[c] = {n}
    /\ Return(c, "failed")
    /\ UNCHANGED <<stored, cancelled>>

Cancel ==
    /\ cancelled' = TRUE
    /\ UNCHANGED <<stored, busy, outcome>>

\* The application ends, in whatever state, and is started anew.
Restart ==
    /\ busy' = [c \in Calls |-> {}]
    /\ outcome' = [c \in Calls |-> "none"]
    /\ cancelled' = FALSE
    /\ UNCHANGED stored

Next ==
    \/ \E c \in Calls, n \in SlotSet :
           \/ Begin(c, n) \/ Store(c, n) \/ StoreMasked(c, n)
           \/ GiveUp(c, n) \/ Fail(c, n)
    \/ Cancel
    \/ Restart

Spec == Init /\ [][Next]_vars

=============================================================================
