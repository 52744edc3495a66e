------------------------- MODULE KnownGapRanges_proofs -------------------------
(***************************************************************************)
(* The rows of a range, for slots of any width and any increment: they are *)
(* pairs of slots whatever wraps around, and for a range that is not       *)
(* inverted and spans less than half of the slots they stand for exactly   *)
(* its slots.                                                              *)
(***************************************************************************)
EXTENDS KnownGapRanges, TLAPS

-----------------------------------------------------------------------------
(* Arithmetic *)

LEMMA Division ==
    ASSUME NEW d \in Nat, NEW t \in Nat \ {0}
    PROVE  /\ d \div t \in Nat /\ d % t \in 0 .. t - 1
           /\ d = (t * (d \div t)) + (d % t)
OBVIOUS

LEMMA ProductsAreOrdered ==
    ASSUME NEW a \in Int, NEW b \in Int, NEW t \in Nat, a <= b
    PROVE  a * t \in Int /\ b * t \in Int /\ a * t <= b * t
OBVIOUS

LEMMA WrapInSlots == ASSUME NEW n \in Int PROVE Wrap(n) \in Slots
BY WidthAssumption DEF Wrap, Slots

\* What needs no wrapping is what it is.
LEMMA WrapOfSlot == ASSUME NEW n \in Slots PROVE Wrap(n) = n
BY WidthAssumption DEF Wrap, Slots

LEMMA SlotsAreNaturals == Slots \subseteq Nat
BY WidthAssumption DEF Slots

-----------------------------------------------------------------------------
(* The rows of a range *)

LEMMA ChunkCountType ==
    ASSUME NEW t \in 1 .. Width - 1, NEW s \in Slots, NEW e \in Slots
    PROVE  ChunkCount(t, s, e) \in Int
<1>. DEFINE d == Minus(e, s)
<1>1. d \in Nat
  <2>1. e - s \in Int
    BY SlotsAreNaturals
  <2>. QED  BY <2>1, WrapInSlots, SlotsAreNaturals DEF Minus
<1>2. d \div t \in Nat /\ d % t \in Nat
  BY <1>1, Division, WidthAssumption
<1>3. Wrap((d \div t) + 1) \in Nat
  <2>1. (d \div t) + 1 \in Int
    BY <1>2
  <2>. QED  BY <2>1, WrapInSlots, SlotsAreNaturals
<1>4. ASSUME NEW u \in Nat PROVE ToInt(u) \in Int
  BY WidthAssumption DEF ToInt
<1>5. (IF d % t # 0 THEN Wrap((d \div t) + 1) ELSE d \div t) \in Nat
  BY <1>2, <1>3
<1>. QED  BY <1>4, <1>5 DEF ChunkCount

LEMMA ChunkRowType ==
    ASSUME NEW t \in 1 .. Width - 1, NEW s \in Slots, NEW e \in Slots,
           NEW c \in Int, NEW k \in Nat
    PROVE  ChunkRow(t, s, e, c, k) \in Slots \X Slots
<1>1. /\ s \in Nat /\ t \in Nat
      /\ s + (k * t) \in Int
      /\ s + ((k + 1) * t) \in Int
  <2>1. s \in Nat /\ t \in Nat
    BY SlotsAreNaturals, WidthAssumption
  <2>. QED  BY <2>1
<1>. QED  BY <1>1, WrapInSlots DEF ChunkRow, Plus

\* The chunks of a range that is not inverted: the last one begins within the
\* range and ends at or after its end.
LEMMA ProperChunks ==
    ASSUME NEW t \in 1 .. Width - 1, NEW s \in Slots, NEW e \in Slots,
           s <= e, 2 * (e - s) < Width, ~FitsOneRow(t, s, e)
    PROVE  LET c == ChunkCount(t, s, e)
           IN  c \in Nat \ {0} /\ (c - 1) * t < e - s /\ e - s <= c * t
<1>. DEFINE d == e - s
            q == d \div t
            r == d % t
<1>1. d \in Slots /\ t \in Nat \ {0} /\ Width \in Nat
  BY WidthAssumption DEF Slots
<1>2. Minus(e, s) = d
  BY <1>1, WrapOfSlot DEF Minus
<1>3. d > t
  BY <1>1, <1>2, SlotsAreNaturals DEF FitsOneRow
<1>4. q \in Nat /\ r \in 0 .. t - 1 /\ d = (t * q) + r
  BY <1>1, SlotsAreNaturals, Division
<1>5. ChunkCount(t, s, e) = ToInt(IF r # 0 THEN Wrap(q + 1) ELSE q)
  BY <1>2 DEF ChunkCount
<1>6. d \in Nat /\ 2 * d < Width
  BY <1>1, SlotsAreNaturals
<1>. HIDE DEF d, q, r
<1>7. q > 0 /\ q <= d
  BY <1>1, <1>3, <1>4, <1>6
<1>8. CASE r = 0
  <2>1. ChunkCount(t, s, e) = q
    BY <1>4, <1>5, <1>6, <1>7, <1>8, <1>1 DEF ToInt
  <2>2. (q - 1) * t < d /\ d <= q * t
    BY <1>1, <1>4, <1>8
  <2>. QED  BY <1>4, <1>7, <2>1, <2>2 DEF d
<1>9. CASE r # 0
  <2>1. q + 1 <= d
    <3>1. t > 1
      BY <1>1, <1>4, <1>9
    <3>2. 2 * q <= t * q
      BY <3>1, <1>1, <1>4
    <3>. QED  BY <3>2, <1>1, <1>4, <1>6, <1>7
  <2>2. q + 1 \in Slots /\ Wrap(q + 1) = q + 1
    BY <2>1, <1>1, <1>4, <1>6, WrapOfSlot DEF Slots
  <2>3. ChunkCount(t, s, e) = q + 1
    BY <2>1, <2>2, <1>1, <1>4, <1>5, <1>6, <1>9 DEF ToInt
  <2>4. ((q + 1) - 1) * t < d /\ d <= (q + 1) * t
    BY <1>1, <1>4, <1>6, <1>9
  <2>. QED  BY <1>4, <2>3, <2>4 DEF d
<1>. QED  BY <1>8, <1>9

\* A row of such a range, without the wrapping.
LEMMA ProperRow ==
    ASSUME NEW t \in Nat \ {0}, NEW s \in Slots, NEW e \in Slots, NEW c \in Nat \ {0},
           s <= e, (c - 1) * t < e - s, e - s <= c * t, NEW k \in 0 .. c - 1
    PROVE  LET row == ChunkRow(t, s, e, c, k)
           IN  /\ row[1] = s + (k * t)
               /\ row[2] = IF k + 1 = c THEN e ELSE s + ((k + 1) * t)
               /\ row[1] <= row[2] /\ row[2] <= e /\ row[2] - row[1] <= t
<1>0. s \in Nat /\ e \in Nat /\ Width \in Nat /\ e < Width
  BY WidthAssumption DEF Slots
<1>1. k * t \in Nat /\ k * t <= (c - 1) * t /\ (k + 1) * t = (k * t) + t /\ c * t = ((c - 1) * t) + t
  <2>1. k \in Int /\ c - 1 \in Int /\ k <= c - 1
    OBVIOUS
  <2>2. k * t <= (c - 1) * t
    BY <2>1, ProductsAreOrdered
  <2>. QED  BY <2>2
<1>2. Plus(s, k * t) = s + (k * t)
  BY <1>0, <1>1, WrapOfSlot DEF Plus, Slots
<1>3. CASE k + 1 = c
  BY <1>0, <1>1, <1>2, <1>3 DEF ChunkRow
<1>4. CASE k + 1 # c
  <2>1. (k + 1) * t <= (c - 1) * t
    BY <1>4, ProductsAreOrdered
  <2>2. Plus(s, (k + 1) * t) = s + ((k + 1) * t)
    BY <1>0, <1>1, <2>1, WrapOfSlot DEF Plus, Slots
  <2>. QED  BY <1>0, <1>1, <1>2, <1>4, <2>1, <2>2 DEF ChunkRow
<1>. QED  BY <1>3, <1>4

\* The rows stand for the slots of the range, and none is long.
LEMMA RowsOfProperRange ==
    ASSUME NEW t \in 1 .. Width - 1, NEW s \in Slots, NEW e \in Slots,
           s <= e, 2 * (e - s) < Width
    PROVE  /\ UNION { SlotsOf(row) : row \in KnownGapRows(t, s, e) } = s .. e
           /\ \A row \in KnownGapRows(t, s, e) : row[1] <= row[2] /\ row[2] - row[1] <= t
<1>0. t \in Nat \ {0} /\ s \in Nat /\ e \in Nat
  BY WidthAssumption DEF Slots
<1>1. CASE FitsOneRow(t, s, e)
  <2>1. e - s <= t
    <3>1. e - s \in Slots
      BY WidthAssumption DEF Slots
    <3>. QED  BY <1>1, <3>1, WrapOfSlot DEF FitsOneRow, Minus
  <2>. QED  BY <1>0, <1>1, <2>1 DEF KnownGapRows, SlotsOf
<1>2. CASE ~FitsOneRow(t, s, e)
  <2>. DEFINE c == ChunkCount(t, s, e)
              R(k) == ChunkRow(t, s, e, c, k)
              first(k) == s + (k * t)
              last(k) == IF k + 1 = c THEN e ELSE s + ((k + 1) * t)
  <2>1. c \in Nat \ {0} /\ (c - 1) * t < e - s /\ e - s <= c * t
    BY <1>2, ProperChunks
  <2>2. KnownGapRows(t, s, e) = { R(k) : k \in 0 .. c - 1 }
    BY <1>2 DEF KnownGapRows
  <2>. HIDE DEF c
  <2>3. ASSUME NEW k \in 0 .. c - 1
        PROVE  /\ R(k)[1] = first(k) /\ R(k)[2] = last(k)
               /\ R(k)[1] <= R(k)[2] /\ R(k)[2] <= e /\ R(k)[2] - R(k)[1] <= t
               /\ first(k) \in Nat /\ last(k) \in Nat /\ s <= first(k)
    <3>1. /\ R(k)[1] = first(k) /\ R(k)[2] = last(k)
          /\ R(k)[1] <= R(k)[2] /\ R(k)[2] <= e /\ R(k)[2] - R(k)[1] <= t
      BY <1>0, <2>1, ProperRow
    <3>2. k * t \in Nat /\ (k + 1) * t \in Nat
      BY <1>0, <2>1
    <3>. QED  BY <1>0, <3>1, <3>2
  <2>4. ASSUME NEW k \in 0 .. c - 1, NEW n \in SlotsOf(R(k))
        PROVE  n \in s .. e
    BY <1>0, <2>3 DEF SlotsOf
  <2>5. ASSUME NEW n \in s .. e
        PROVE  \E k \in 0 .. c - 1 : n \in SlotsOf(R(k))
    <3>. DEFINE x == n - s
                m == x \div t
    <3>1. x \in Nat /\ x <= e - s
      BY <1>0
    <3>2. m \in Nat /\ m * t <= x /\ x < (m + 1) * t
      BY <1>0, <3>1, Division
    <3>. HIDE DEF x, m
    <3>3. CASE m < c
      <4>1. m \in 0 .. c - 1
        BY <2>1, <3>2, <3>3
      <4>2. first(m) <= n /\ n <= last(m)
        BY <1>0, <3>1, <3>2 DEF x
      <4>. QED  BY <4>1, <4>2, <2>3 DEF SlotsOf
    <3>4. CASE m >= c
      <4>1. c * t <= m * t
        BY <3>2, <3>4, <2>1, <1>0, ProductsAreOrdered
      <4>2. n = e
        BY <4>1, <1>0, <2>1, <3>1, <3>2 DEF x
      <4>3. c - 1 \in 0 .. c - 1 /\ (c - 1) + 1 = c
        BY <2>1
      <4>4. R(c - 1)[2] = e /\ R(c - 1)[1] <= R(c - 1)[2] /\ R(c - 1)[1] \in Nat
        BY <4>3, <2>3
      <4>. QED  BY <1>0, <4>2, <4>3, <4>4 DEF SlotsOf
    <3>. QED  BY <2>1, <3>2, <3>3, <3>4
  <2>6. UNION { SlotsOf(row) : row \in { R(k) : k \in 0 .. c - 1 } } = s .. e
    <3>. HIDE DEF R
    <3>. QED  BY <2>4, <2>5
  <2>7. \A row \in { R(k) : k \in 0 .. c - 1 } : row[1] <= row[2] /\ row[2] - row[1] <= t
    <3>. HIDE DEF R, first, last
    <3>. QED  BY <2>3
  <2>. QED  BY <2>2, <2>6, <2>7
<1>. QED  BY <1>1, <1>2

\* Every row that transactKnownGaps writes is a pair of slots.
LEMMA RowsAreSlots ==
    ASSUME NEW t \in 1 .. Width - 1, NEW s \in Slots, NEW e \in Slots
    PROVE  KnownGapRows(t, s, e) \subseteq Slots \X Slots
<1>1. CASE FitsOneRow(t, s, e)
  BY <1>1 DEF KnownGapRows
<1>2. CASE ~FitsOneRow(t, s, e)
  <2>. DEFINE c == ChunkCount(t, s, e)
  <2>1. c \in Int
    BY ChunkCountType
  <2>2. ASSUME NEW k \in 0 .. c - 1 PROVE ChunkRow(t, s, e, c, k) \in Slots \X Slots
    <3>1. k \in Nat
      BY <2>1
    <3>. HIDE DEF c
    <3>. QED  BY <2>1, <3>1, ChunkRowType
  <2>3. KnownGapRows(t, s, e) = { ChunkRow(t, s, e, c, k) : k \in 0 .. c - 1 }
    BY <1>2 DEF KnownGapRows
  <2>. QED  BY <2>2, <2>3
<1>. QED  BY <1>1, <1>2

=============================================================================
