------------------------ MODULE TransactKnownGaps_proofs ------------------------
(***************************************************************************)
(* What one call of transactKnownGaps upserts, for slots of any width, any *)
(* increment and any range: the rows of the closed form, and, for a range  *)
(* that is not inverted, rows of bounded length that stand for exactly the *)
(* slots of the range.                                                     *)
(***************************************************************************)
EXTENDS TransactKnownGaps, KnownGapRanges_proofs

\* The rows of the first n iterations of the loop.
RowsOfLoop(n) == { ChunkRow(tableIncrement, startSlot, endSlot, chunks, k) : k \in 0 .. n - 1 }

LoopInv ==
    /\ pc = "enter" => i = 0 /\ rows = {}
    /\ pc # "enter" /\ FitsOneRow(tableIncrement, startSlot, endSlot) =>
           pc = "done" /\ rows = { <<startSlot, endSlot>> }
    /\ pc # "enter" /\ ~FitsOneRow(tableIncrement, startSlot, endSlot) =>
           /\ chunks = ChunkCount(tableIncrement, startSlot, endSlot)
           /\ i = 0 \/ i <= chunks
           /\ pc = "done" => i >= chunks
           /\ rows = RowsOfLoop(i)

Inv == TypeOK /\ LoopInv

-----------------------------------------------------------------------------

LEMMA IncrementIsPositive == ASSUME TypeOK PROVE tableIncrement \in 1 .. Width - 1
BY IncrementsAssumption DEF TypeOK

LEMMA InitInv == Init => Inv
BY DEF Init, Inv, TypeOK, LoopInv

\* One iteration more adds its row.
LEMMA NextRow ==
    ASSUME TypeOK
    PROVE  RowsOfLoop(i + 1) =
               RowsOfLoop(i) \cup { ChunkRow(tableIncrement, startSlot, endSlot, chunks, i) }
<1>. DEFINE R(k) == ChunkRow(tableIncrement, startSlot, endSlot, chunks, k)
<1>1. i \in Nat
  BY DEF TypeOK
<1>2. 0 .. (i + 1) - 1 = (0 .. i - 1) \cup {i}
  BY <1>1
<1>. HIDE DEF R
<1>3. { R(k) : k \in 0 .. (i + 1) - 1 } = { R(k) : k \in 0 .. i - 1 } \cup { R(i) }
  BY <1>2
<1>. QED  BY <1>3 DEF RowsOfLoop, R

LEMMA NextInv == ASSUME Inv, [Next]_vars PROVE Inv'
<1>1. CASE UpsertWhole
  BY <1>1 DEF UpsertWhole, args, Inv, TypeOK, LoopInv
<1>2. CASE CountChunks
  <2>. USE <1>2 DEF CountChunks, args
  <2>1. chunks' \in Int
    BY ChunkCountType, IncrementIsPositive DEF Inv, TypeOK
  <2>2. i' = 0 /\ rows' = {} /\ RowsOfLoop(i)' = {}
    BY DEF Inv, LoopInv, RowsOfLoop
  <2>. QED  BY <2>1, <2>2 DEF Inv, TypeOK, LoopInv
<1>3. CASE UpsertChunk
  <2>. USE <1>3 DEF UpsertChunk, args
  <2>1. i' \in Nat /\ i' <= chunks
    BY DEF Inv, TypeOK
  <2>2. ChunkRow(tableIncrement, startSlot, endSlot, chunks, i) \in Slots \X Slots
    BY ChunkRowType, IncrementIsPositive DEF Inv, TypeOK
  <2>3. RowsOfLoop(i)' = RowsOfLoop(i + 1)
    BY DEF RowsOfLoop
  <2>4. RowsOfLoop(i + 1) =
            RowsOfLoop(i) \cup { ChunkRow(tableIncrement, startSlot, endSlot, chunks, i) }
    BY NextRow DEF Inv
  <2>5. TypeOK'
    BY <2>1, <2>2 DEF Inv, TypeOK
  <2>6. LoopInv'
    BY <2>1, <2>3, <2>4 DEF Inv, LoopInv
  <2>. QED  BY <2>5, <2>6 DEF Inv
<1>4. CASE LeaveLoop
  <2>. USE <1>4 DEF LeaveLoop, args
  <2>1. RowsOfLoop(i)' = RowsOfLoop(i)
    BY DEF RowsOfLoop
  <2>. QED  BY <2>1 DEF Inv, TypeOK, LoopInv
<1>5. CASE UNCHANGED vars
  <2>1. RowsOfLoop(i)' = RowsOfLoop(i)
    BY <1>5 DEF vars, RowsOfLoop
  <2>. QED  BY <1>5, <2>1 DEF vars, Inv, TypeOK, LoopInv
<1>. QED  BY <1>1, <1>2, <1>3, <1>4, <1>5 DEF Next

LEMMA SpecInv == Spec => []Inv
BY InitInv, NextInv, PTL DEF Spec

\* Every variable has its type at all times (TypeOK).
THEOREM TypeCorrect == Spec => []TypeOK
<1>1. Inv => TypeOK
  BY DEF Inv
<1>. QED  BY <1>1, SpecInv, PTL

\* Once the loop is left it has upserted the rows of the closed form.
LEMMA RowsAtTheEnd ==
    ASSUME Inv, pc = "done"
    PROVE  rows = KnownGapRows(tableIncrement, startSlot, endSlot)
<1>1. CASE FitsOneRow(tableIncrement, startSlot, endSlot)
  BY <1>1 DEF Inv, LoopInv, KnownGapRows
<1>2. CASE ~FitsOneRow(tableIncrement, startSlot, endSlot)
  <2>1. /\ chunks = ChunkCount(tableIncrement, startSlot, endSlot)
        /\ rows = RowsOfLoop(i)
        /\ i >= chunks /\ (i = 0 \/ i <= chunks)
    BY <1>2 DEF Inv, LoopInv
  <2>2. 0 .. i - 1 = 0 .. chunks - 1
    BY <2>1 DEF Inv, TypeOK
  <2>. QED  BY <1>2, <2>1, <2>2 DEF KnownGapRows, RowsOfLoop
<1>. QED  BY <1>1, <1>2

\* The call returns having upserted exactly the rows of the closed form, for
\* inverted ranges and for those that wrap around as for all others
\* (transactKnownGaps, both branches and the loop).
THEOREM LoopIsClosedForm == Spec => []LoopMatchesClosedForm
<1>1. Inv => LoopMatchesClosedForm
  BY RowsAtTheEnd DEF LoopMatchesClosedForm
<1>. QED  BY <1>1, SpecInv, PTL

\* For a range that is not inverted the rows stand for exactly the missing
\* slots: no slot is left out at the seam of two rows or at the end, and none
\* outside is claimed missing.
THEOREM NoSlotIsLeftOut == Spec => []RowsCoverRange
<1>1. ASSUME Inv PROVE RowsCoverRange
  <2>. SUFFICES ASSUME pc = "done", ProperRange
                PROVE  UNION { SlotsOf(row) : row \in rows } = startSlot .. endSlot
    BY DEF RowsCoverRange
  <2>1. rows = KnownGapRows(tableIncrement, startSlot, endSlot)
    BY <1>1, RowsAtTheEnd
  <2>2. /\ tableIncrement \in 1 .. Width - 1 /\ startSlot \in Slots /\ endSlot \in Slots
        /\ startSlot <= endSlot /\ 2 * (endSlot - startSlot) < Width
    BY <1>1, IncrementIsPositive DEF Inv, TypeOK, ProperRange
  <2>. QED  BY <2>1, <2>2, RowsOfProperRange
<1>. QED  BY <1>1, SpecInv, PTL

\* The bound that the code does keep, one slot more than it says.
RowsAreBounded ==
    ProperRange =>
        \A row \in rows : row[1] <= row[2] /\ row[2] - row[1] <= tableIncrement

\* No row spans more than one increment beyond its first slot, at any time of
\* the call.
THEOREM NoRowIsLong == Spec => []RowsAreBounded
<1>1. ASSUME Inv PROVE RowsAreBounded
  <2>. SUFFICES ASSUME ProperRange, NEW row \in rows
                PROVE  row[1] <= row[2] /\ row[2] - row[1] <= tableIncrement
    BY DEF RowsAreBounded
  <2>1. /\ tableIncrement \in 1 .. Width - 1 /\ startSlot \in Slots /\ endSlot \in Slots
        /\ startSlot <= endSlot /\ 2 * (endSlot - startSlot) < Width
    BY <1>1, IncrementIsPositive DEF Inv, TypeOK, ProperRange
  <2>2. row \in KnownGapRows(tableIncrement, startSlot, endSlot)
    <3>1. pc # "enter"
      BY <1>1 DEF Inv, LoopInv
    <3>2. CASE FitsOneRow(tableIncrement, startSlot, endSlot)
      BY <1>1, <3>1, <3>2 DEF Inv, LoopInv, KnownGapRows
    <3>3. CASE ~FitsOneRow(tableIncrement, startSlot, endSlot)
      <4>1. /\ chunks = ChunkCount(tableIncrement, startSlot, endSlot)
            /\ rows = RowsOfLoop(i)
            /\ i = 0 \/ i <= chunks
        BY <1>1, <3>1, <3>3 DEF Inv, LoopInv
      <4>2. 0 .. i - 1 \subseteq 0 .. chunks - 1
        BY <1>1, <4>1 DEF Inv, TypeOK
      <4>. QED  BY <3>3, <4>1, <4>2 DEF KnownGapRows, RowsOfLoop
    <3>. QED  BY <3>2, <3>3
  <2>. QED  BY <2>1, <2>2, RowsOfProperRange
<1>. QED  BY <1>1, SpecInv, PTL

=============================================================================
