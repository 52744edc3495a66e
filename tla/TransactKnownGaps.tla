--------------------------- MODULE TransactKnownGaps ---------------------------
(***************************************************************************)
(* One call of transactKnownGaps, statement by statement: the loop that    *)
(* upserts one known_gaps row per iteration within the caller's            *)
(* transaction.  The behaviours are checked against KnownGapRows, the      *)
(* closed form that the other modules use.                                 *)
(***************************************************************************)
EXTENDS KnownGapRanges

CONSTANT Increments   \* the values of bc.KnownGapTableIncrement considered

ASSUME IncrementsAssumption == Increments \subseteq 1 .. Width - 1

VARIABLES
    tableIncrement, startSlot, endSlot,   \* the arguments
    chunks, i,                            \* the loop's locals
    rows,                                 \* the rows upserted so far
    pc

vars == <<tableIncrement, startSlot, endSlot, chunks, i, rows, pc>>
args == <<tableIncrement, startSlot, endSlot>>

TypeOK ==
    /\ tableIncrement \in Increments
    /\ startSlot \in Slots
    /\ endSlot \in Slots
    /\ chunks \in Int
    /\ i \in Nat
    /\ rows \subseteq Slots \X Slots
    /\ pc \in {"enter", "loop", "done"}

Init ==
    /\ tableIncrement \in Increments
    /\ startSlot \in Slots
    /\ endSlot \in Slots
    /\ chunks = 0
    /\ i = 0
    /\ rows = {}
    /\ pc = "enter"

\* The range fits: a single upsert.
UpsertWhole ==
    /\ pc = "enter"
    /\ FitsOneRow(tableIncrement, startSlot, endSlot)
    /\ rows' = { <<startSlot, endSlot>> }
    /\ pc' = "done"
    /\ UNCHANGED <<args, chunks, i>>

\* The range does not fit: count the chunks.
CountChunks ==
    /\ pc = "enter"
    /\ ~FitsOneRow(tableIncrement, startSlot, endSlot)
    /\ chunks' = ChunkCount(tableIncrement, startSlot, endSlot)
    /\ pc' = "loop"
    /\ UNCHANGED <<args, i, rows>>

UpsertChunk ==
    /\ pc = "loop"
    /\ i < chunks
    /\ rows' = rows \cup { ChunkRow(tableIncrement, startSlot, endSlot, chunks, i) }
    /\ i' = i + 1
    /\ UNCHANGED <<args, chunks, pc>>

\* A slip: the loop ends one chunk too early (i+1 < chunks for i < chunks).
LeaveLoopEarly ==
    /\ pc = "loop"
    /\ i + 1 >= chunks
    /\ pc' = "done"
    /\ UNCHANGED <<args, chunks, i, rows>>

LeaveLoop ==
    /\ pc = "loop"
    /\ i >= chunks
    /\ pc' = "done"
    /\ UNCHANGED <<args, chunks, i, rows>>

Next == UpsertWhole \/ CountChunks \/ UpsertChunk \/ LeaveLoop

Spec == Init /\ [][Next]_vars

-----------------------------------------------------------------------------

\* A range the callers mean to write: it is not inverted, and it is shorter
\* than 2^63 slots, so that int() of the chunk count is not negative.
ProperRange == startSlot <= endSlot /\ 2 * (endSlot - startSlot) < Width

\* The call returns having upserted exactly the rows of the closed form
\* (transactKnownGaps, both branches and the loop).
LoopMatchesClosedForm ==
    pc = "done" => rows = KnownGapRows(tableIncrement, startSlot, endSlot)

\* For a proper range the rows together stand for exactly the
\* missing slots: none is left out, none outside the range is claimed
\* missing.
RowsCoverRange ==
    pc = "done" /\ ProperRange =>
        UNION { SlotsOf(row) : row \in rows } = startSlot .. endSlot

\* kg.increment is "The max slots within a single entry to the known_gaps
\* table." (cmd/capture.go): no row stands for more slots than that.  The code
\* compares the difference of two inclusive ends, which is one less than their
\* number, and ends each row of a longer range at the start of the next.
RowsWithinIncrement ==
    ProperRange => \A row \in rows : row[2] - row[1] + 1 <= tableIncrement

=============================================================================
