---------------------------- MODULE KnownGapRanges ----------------------------
(***************************************************************************)
(* How a range of missing slots is cut into rows of eth_beacon.known_gaps  *)
(* (pkg/beaconclient/databasewrite.go, transactKnownGaps).                 *)
(*                                                                         *)
(* Slot is a uint64 and the chunk counter an int: both are kept at a       *)
(* finite width, so that a range whose end lies before its start behaves   *)
(* as it does in the code.  A row is the pair <<start_slot, end_slot>>,    *)
(* both ends inclusive; the other columns are left out.                    *)
(***************************************************************************)
EXTENDS Integers

CONSTANT Width   \* the number of values of a Slot, 2^64 in the code

ASSUME WidthAssumption == Width \in Nat \ {0}

Slots == 0 .. Width - 1

\* uint64 addition and subtraction wrap around.
Wrap(n) == n % Width
PlusUnbounded(slot, n) == slot + n      \* a slip: the sum has no width
Plus(slot, n) == Wrap(slot + n)
Minus(a, b) == Wrap(a - b)

\* The conversion int(u) of a uint64.
ToInt(u) == IF 2 * u >= Width THEN u - Width ELSE u

\* The slots a row stands for.
SlotsOf(row) == row[1] .. row[2]

-----------------------------------------------------------------------------

\* A slip: the last row ends a whole increment after its start, not at endSlot.
ChunkRowNoClip(tableIncrement, startSlot, endSlot, chunks, i) ==
    << Plus(startSlot, i * tableIncrement),
       Plus(startSlot, (i + 1) * tableIncrement) >>

-----------------------------------------------------------------------------

\* A range that fits one row is not cut.
FitsOneRow(tableIncrement, startSlot, endSlot) ==
    Minus(endSlot, startSlot) <= tableIncrement

ChunkCount(tableIncrement, startSlot, endSlot) ==
    LET totalSlots == Minus(endSlot, startSlot)
        full       == totalSlots \div tableIncrement
    IN  ToInt(IF totalSlots % tableIncrement # 0 THEN Wrap(full + 1) ELSE full)

\* The i-th row of a range that is cut into `chunks` rows.
ChunkRow(tableIncrement, startSlot, endSlot, chunks, i) ==
    << Plus(startSlot, i * tableIncrement),
       IF i + 1 = chunks THEN endSlot
                         ELSE Plus(startSlot, (i + 1) * tableIncrement) >>

\* Every row that one call of transactKnownGaps upserts.
KnownGapRows(tableIncrement, startSlot, endSlot) ==
    IF FitsOneRow(tableIncrement, startSlot, endSlot)
    THEN { <<startSlot, endSlot>> }
    ELSE LET chunks == ChunkCount(tableIncrement, startSlot, endSlot)
         IN  { ChunkRow(tableIncrement, startSlot, endSlot, chunks, i) :
                   i \in 0 .. chunks - 1 }

=============================================================================
