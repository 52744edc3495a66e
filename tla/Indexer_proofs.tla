----------------------------- MODULE Indexer_proofs -----------------------------
(***************************************************************************)
(* What holds of head tracking and the known-gaps process on one database, *)
(* for any block tree, any numbers of goroutines and any bounds: the types *)
(* and the agreement of the two views of known_gaps, and that no slot is   *)
(* dropped between the two.                                                *)
(***************************************************************************)
EXTENDS Indexer, HeadTracking_proofs

GapGetter  == getter[GapProc]
GapDist    == dist[GapProc]
GapHandler == handler[GapProc]
GapPollers == pollers[GapProc]

\* A goroutine that works on a row has one, and the distributor's next slot is
\* one of its row's.
InHandInv ==
    /\ GapGetter.pc \in {"checkout", "send"} => GapGetter.row \in G!Rows
    /\ GapDist.pc # "receive" => GapDist.row \in G!Rows
    /\ GapDist.pc = "work" => GapDist.next \in SlotsOf(GapDist.row)

TypeInv == IndexerTypeOK /\ InHandInv

-----------------------------------------------------------------------------

LEMMA GapRowFacts ==
    ASSUME NEW r \in G!Rows
    PROVE  /\ r[1] \in Slots /\ r[2] \in Slots
           /\ r[1] \in Nat /\ r[2] \in Nat
           /\ SlotsOf(r) \subseteq Slots
<1>1. r[1] \in Slots /\ r[2] \in Slots
  BY DEF G!Rows
<1>2. Slots \subseteq Nat
  BY WidthAssumption DEF Slots
<1>3. r[1] .. r[2] \subseteq Slots
  BY <1>1, WidthAssumption DEF Slots
<1>. QED  BY <1>1, <1>2, <1>3 DEF SlotsOf

LEMMA GapConstants ==
    /\ G!KnownGaps \in G!Tables
    /\ G!Ids = {NodeId}
    /\ G!Absent # G!Free /\ NodeId # G!Absent /\ NodeId # G!Free
BY GapsAssumption DEF G!KnownGaps, G!Tables, G!Historic, G!Ids, G!Absent, G!Free

LEMMA NewGapStates ==
    /\ G!NewGetter \in G!GetterState /\ G!NewDist \in G!DistState
    /\ G!NewWorker \in G!WorkerState /\ G!NewHandler \in G!HandlerState
    /\ G!NewGetter.pc = "top" /\ G!NewDist.pc = "receive"
BY DEF G!NewGetter, G!NewDist, G!NewWorker, G!NewHandler, G!GetterState, G!DistState,
   G!WorkerState, G!HandlerState, G!NoSlot

LEMMA StartsWithTypes == ASSUME IndexerInit PROVE TypeInv
<1>1. TypeOK
  BY InitType DEF IndexerInit
<1>2. table \in G!TableType
  BY DEF IndexerInit, G!TableType
<1>3. knownGaps = { r \in G!Rows : table[G!KnownGaps][r] # G!Absent }
  BY GapConstants DEF IndexerInit, Init
<1>4. ctx \in [{GapProc} -> {"down", "run"}] /\ pollers \in [{GapProc} -> SUBSET G!Rows]
  BY DEF IndexerInit
<1>5. /\ getter \in [{GapProc} -> G!GetterState]
      /\ dist \in [{GapProc} -> G!DistState]
      /\ worker \in [GapWorkers -> G!WorkerState]
      /\ handler \in [{GapProc} -> G!HandlerState]
  BY NewGapStates DEF IndexerInit
<1>6. InHandInv
  BY NewGapStates DEF IndexerInit, InHandInv, GapGetter, GapDist
<1>. QED  BY <1>1, <1>2, <1>3, <1>4, <1>5, <1>6 DEF TypeInv, IndexerTypeOK

-----------------------------------------------------------------------------
(* A step of head tracking adds to known_gaps, and leaves the known-gaps     *)
(* process alone or ends it.                                                 *)


HeadKeeps ==
    /\ TypeOK'
    /\ knownGaps \subseteq knownGaps'
    /\ \A k \in Keys : slots[k] # NoRow => slots'[k] # NoRow

LEMMA NextKeeps == ASSUME TypeOK, [Next]_vars PROVE HeadKeeps
BY StepTypeOK, KnownGapsGrow, RowsStay DEF HeadKeeps

LEMMA KillKeeps == ASSUME TypeOK, Kill PROVE HeadKeeps
<1>1. spent' \in [Bounds -> Nat]
  BY SpendType DEF Kill, Bounds
<1>. QED  BY <1>1, DieType DEF Kill, HeadKeeps, TypeOK

\* The steps of head tracking that the composition takes.
HeadMoves ==
    \/ \E j \in HeadJobs, b \in Blocks : HandleHead(j, b)
    \/ \E j \in Jobs : Proceed(j) \/ Fail(j)
    \/ Kill
    \/ Restart

HeadMoved ==
    /\ HeadMoves
    /\ table' = TableWith(knownGaps')
    /\ IF Dies THEN G!Lose(NodeId)
               ELSE UNCHANGED <<ctx, getter, dist, worker, handler, pollers>>

LEMMA HeadMovesKeep == ASSUME TypeOK, HeadMoves PROVE HeadKeeps
BY NextKeeps, KillKeeps DEF HeadMoves, Next

LEMMA TableWithFacts ==
    ASSUME table \in G!TableType, NEW rows
    PROVE  /\ TableWith(rows) \in G!TableType
           /\ \A r \in G!Rows : TableWith(rows)[G!KnownGaps][r] # G!Absent <=>
                                    r \in rows \/ table[G!KnownGaps][r] # G!Absent
BY GapConstants DEF TableWith, G!TableType

LEMMA HeadMovedTypes ==
    ASSUME TypeInv, HeadMoved
    PROVE  TypeInv'
<1>. USE DEF TypeInv, IndexerTypeOK
<1>1. TypeOK' /\ knownGaps \subseteq knownGaps' /\ knownGaps' \subseteq G!Rows
  BY HeadMovesKeep DEF HeadMoved, HeadKeeps, TypeOK, G!Rows
<1>2. table' \in G!TableType
      /\ knownGaps' = { r \in G!Rows : table'[G!KnownGaps][r] # G!Absent }
  BY <1>1, TableWithFacts DEF HeadMoved
<1>3. CASE UNCHANGED <<ctx, getter, dist, worker, handler, pollers>>
  BY <1>1, <1>2, <1>3 DEF InHandInv, GapGetter, GapDist
<1>4. CASE G!Lose(NodeId)
  <2>1. /\ ctx' \in [{GapProc} -> {"down", "run"}]
        /\ pollers' \in [{GapProc} -> SUBSET G!Rows]
    BY <1>4 DEF G!Lose
  <2>2. /\ getter' \in [{GapProc} -> G!GetterState] /\ getter'[GapProc] = G!NewGetter
        /\ dist' \in [{GapProc} -> G!DistState] /\ dist'[GapProc] = G!NewDist
        /\ handler' \in [{GapProc} -> G!HandlerState]
    BY <1>4, NewGapStates DEF G!Lose
  <2>3. worker' \in [GapWorkers -> G!WorkerState]
    BY <1>4, NewGapStates DEF G!Lose
  <2>4. InHandInv'
    BY <2>2, NewGapStates DEF InHandInv, GapGetter, GapDist
  <2>. QED  BY <1>1, <1>2, <2>1, <2>2, <2>3, <2>4
<1>. QED  BY <1>3, <1>4 DEF HeadMoved

-----------------------------------------------------------------------------
(* The known-gaps process *)

GapMoves ==
    \/ G!Start(GapProc) \/ G!StartUnreleased(GapProc)
    \/ G!Getter(GapProc) \/ G!Distributor(GapProc)
    \/ G!Handler(GapProc) \/ G!Remover(GapProc)
    \/ \E w \in GapWorkers : GapWorker(w)

LEMMA GapSpendType ==
    ASSUME TypeOK, NEW max, G!Spend("faults", max)
    PROVE  spent' \in [Bounds -> Nat]
BY DEF TypeOK, G!Spend, Bounds

\* What is left to show of a step that does not touch the slots table.
LEMMA GapStepTypes ==
    ASSUME TypeInv, UNCHANGED <<process, client, jobs, slots>>,
           spent' \in [Bounds -> Nat],
           table' \in G!TableType,
           knownGaps' = { r \in G!Rows : table'[G!KnownGaps][r] # G!Absent },
           ctx' \in [{GapProc} -> {"down", "run"}],
           getter' \in [{GapProc} -> G!GetterState],
           dist' \in [{GapProc} -> G!DistState],
           worker' \in [GapWorkers -> G!WorkerState],
           handler' \in [{GapProc} -> G!HandlerState],
           pollers' \in [{GapProc} -> SUBSET G!Rows],
           InHandInv'
    PROVE  TypeInv'
<1>1. knownGaps' \subseteq Slots \X Slots
  BY DEF G!Rows
<1>2. TypeOK'
  BY <1>1 DEF TypeInv, IndexerTypeOK, TypeOK, client
<1>. QED  BY <1>2 DEF TypeInv, IndexerTypeOK

\* The table after a release, after a row was checked out or deleted, and after
\* a known gap was written.
LEMMA GapTables ==
    ASSUME table \in G!TableType
    PROVE  /\ G!WithReleased(GapProc) \in G!TableType
           /\ \A r \in G!Rows : \A v \in {G!Absent, G!Free, NodeId} :
                  [table EXCEPT ![G!KnownGaps][r] = v] \in G!TableType
           /\ \A n \in Slots : G!WithKnownGap(n) \in G!TableType
<1>1. G!WithReleased(GapProc) \in G!TableType
  BY GapConstants DEF G!WithReleased, G!TableType
<1>2. \A r \in G!Rows : \A v \in {G!Absent, G!Free, NodeId} :
          [table EXCEPT ![G!KnownGaps][r] = v] \in G!TableType
  BY GapConstants DEF G!TableType
<1>3. ASSUME NEW n \in Slots PROVE G!WithKnownGap(n) \in G!TableType
  <2>1. <<n, n>> \in G!Rows
    BY DEF G!Rows
  <2>. QED  BY <2>1, GapConstants DEF G!WithKnownGap, G!TableType
<1>. QED  BY <1>1, <1>2, <1>3

LEMMA GapGetterTypes ==
    ASSUME TypeInv, G!Getter(GapProc)
    PROVE  /\ UNCHANGED <<ctx, dist, worker, handler, pollers>>
           /\ spent' \in [Bounds -> Nat] /\ table' \in G!TableType
           /\ getter' \in [{GapProc} -> G!GetterState]
           /\ GapGetter'.pc \in {"checkout", "send"} => GapGetter'.row \in G!Rows
<1>. DEFINE g == getter[GapProc]
<1>. USE DEF TypeInv, IndexerTypeOK, G!GetterStep
<1>0. g \in G!GetterState /\ g.errs + 1 \in Nat
  BY DEF G!GetterState
<1>00. spent \in [Bounds -> Nat]
  BY DEF TypeOK
<1>000. \A h \in G!GetterState : [getter EXCEPT ![GapProc] = h] \in [{GapProc} -> G!GetterState]
                                 /\ [getter EXCEPT ![GapProc] = h][GapProc] = h
  OBVIOUS
<1>1. CASE G!GetterLoop(GapProc)
  <2>1. \A pc \in {"select", "done"} : [g EXCEPT !.pc = pc] \in G!GetterState
                                       /\ [g EXCEPT !.pc = pc].pc = pc
    BY <1>0 DEF G!GetterState
  <2>. QED  BY <1>1, <1>00, <1>000, <2>1 DEF G!GetterLoop, GapGetter
<1>2. CASE G!SelectRow(GapProc)
  <2>1. PICK r \in G!Rows : getter' = [getter EXCEPT ![GapProc] =
                                           [g EXCEPT !.pc = "checkout", !.row = r]]
    BY <1>2 DEF G!SelectRow, G!Selectable
  <2>2. [g EXCEPT !.pc = "checkout", !.row = r] \in G!GetterState
        /\ [g EXCEPT !.pc = "checkout", !.row = r].row = r
    BY <1>0 DEF G!GetterState
  <2>. QED  BY <1>2, <1>00, <1>000, <2>1, <2>2 DEF G!SelectRow, GapGetter
<1>3. CASE G!SelectNone(GapProc)
  <2>1. [g EXCEPT !.pc = "top"] \in G!GetterState /\ [g EXCEPT !.pc = "top"].pc = "top"
    BY <1>0 DEF G!GetterState
  <2>. QED  BY <1>3, <1>00, <1>000, <2>1 DEF G!SelectNone, GapGetter
<1>4. CASE G!SelectFails(GapProc)
  <2>1. /\ [g EXCEPT !.pc = "top", !.errs = @ + 1] \in G!GetterState
        /\ [g EXCEPT !.pc = "top", !.errs = @ + 1].pc = "top"
    BY <1>0 DEF G!GetterState
  <2>2. spent' \in [Bounds -> Nat]
    BY <1>4, GapSpendType DEF G!SelectFails
  <2>. QED  BY <1>4, <1>000, <2>1, <2>2 DEF G!SelectFails, GapGetter
<1>5. CASE G!CheckOutRow(GapProc)
  <2>1. g.pc = "checkout" /\ g.row \in G!Rows
    BY <1>5 DEF G!CheckOutRow, InHandInv, GapGetter
  <2>2. /\ [g EXCEPT !.pc = "send"] \in G!GetterState
        /\ [g EXCEPT !.pc = "send"].row = g.row
    BY <1>0 DEF G!GetterState
  <2>3. table' = [table EXCEPT ![G!KnownGaps][g.row] = NodeId]
    BY <1>5 DEF G!CheckOutRow, G!KnownGaps
  <2>4. table' \in G!TableType
    BY <2>1, <2>3, GapTables
  <2>. QED  BY <1>5, <1>00, <1>000, <2>1, <2>2, <2>4 DEF G!CheckOutRow, GapGetter
<1>6. CASE G!CheckOutFails(GapProc)
  <2>1. /\ [g EXCEPT !.pc = "top", !.row = G!NoRange, !.errs = @ + 1] \in G!GetterState
        /\ [g EXCEPT !.pc = "top", !.row = G!NoRange, !.errs = @ + 1].pc = "top"
    BY <1>0 DEF G!GetterState
  <2>2. spent' \in [Bounds -> Nat]
    BY <1>6, <1>00, GapSpendType DEF G!CheckOutFails
  <2>. QED  BY <1>6, <1>000, <2>1, <2>2 DEF G!CheckOutFails, GapGetter
<1>. QED  BY <1>1, <1>2, <1>3, <1>4, <1>5, <1>6 DEF G!Getter

LEMMA GapDistributorTypes ==
    ASSUME TypeInv, G!Distributor(GapProc)
    PROVE  /\ UNCHANGED <<table, ctx, spent>>
           /\ getter' \in [{GapProc} -> G!GetterState]
           /\ dist' \in [{GapProc} -> G!DistState]
           /\ worker' \in [GapWorkers -> G!WorkerState]
           /\ handler' \in [{GapProc} -> G!HandlerState]
           /\ pollers' \in [{GapProc} -> SUBSET G!Rows]
           /\ InHandInv'
<1>. DEFINE g == getter[GapProc]
            d == dist[GapProc]
<1>. USE DEF TypeInv, IndexerTypeOK, G!GetterStep, G!DistStep
<1>0. g \in G!GetterState /\ d \in G!DistState
  OBVIOUS
<1>1. \A e \in G!DistState : [dist EXCEPT ![GapProc] = e] \in [{GapProc} -> G!DistState]
                             /\ [dist EXCEPT ![GapProc] = e][GapProc] = e
  OBVIOUS
<1>2. \A r \in G!Rows : \A n \in {r[1], r[2]} : [pc |-> "error", slot |-> n] \in G!HandlerState
  BY GapRowFacts DEF G!HandlerState
<1>3. CASE G!ReceiveRow(GapProc)
  <2>. DEFINE r == g.row
              e == [pc |-> IF r[1] > r[2] THEN "startError" ELSE "work", row |-> r, next |-> r[1]]
              h == [g EXCEPT !.pc = "top", !.row = G!NoRange]
  <2>1. r \in G!Rows
    BY <1>3 DEF G!ReceiveRow, InHandInv, GapGetter
  <2>2. r[1] \in Nat /\ r[2] \in Nat
    BY <2>1, GapRowFacts
  <2>3. e \in G!DistState /\ e.row = r /\ e.next = r[1]
    BY <2>1, <2>2 DEF G!DistState
  <2>4. e.pc = "work" => r[1] \in SlotsOf(r)
    BY <2>2 DEF SlotsOf
  <2>5. h \in G!GetterState /\ h.pc = "top"
    BY <1>0 DEF G!GetterState
  <2>6. /\ getter' = [getter EXCEPT ![GapProc] = h]
        /\ dist' = [dist EXCEPT ![GapProc] = e]
    BY <1>3 DEF G!ReceiveRow
  <2>. HIDE DEF e, h, g
  <2>7. getter' \in [{GapProc} -> G!GetterState] /\ getter'[GapProc].pc = "top"
    BY <2>5, <2>6
  <2>8. dist' \in [{GapProc} -> G!DistState] /\ dist'[GapProc] = e
    BY <2>3, <2>6
  <2>9. InHandInv'
    BY <2>1, <2>3, <2>4, <2>7, <2>8 DEF InHandInv, GapGetter, GapDist
  <2>. QED  BY <1>3, <2>7, <2>8, <2>9 DEF G!ReceiveRow
<1>4. CASE G!ReceiveProcessed(GapProc)
  <2>1. d.row \in G!Rows
    BY <1>4 DEF G!ReceiveProcessed, InHandInv, GapDist
  <2>2. pollers' \in [{GapProc} -> SUBSET G!Rows]
    BY <1>4, <2>1 DEF G!ReceiveProcessed
  <2>3. dist' \in [{GapProc} -> G!DistState] /\ dist'[GapProc] = G!NewDist
    BY <1>4, NewGapStates DEF G!ReceiveProcessed
  <2>4. InHandInv'
    BY <1>4, <2>3, NewGapStates DEF G!ReceiveProcessed, InHandInv, GapGetter, GapDist
  <2>. QED  BY <1>4, <2>2, <2>3, <2>4 DEF G!ReceiveProcessed
<1>5. CASE G!ReportRangeOrder(GapProc)
  <2>1. d.row \in G!Rows
    BY <1>5 DEF G!ReportRangeOrder, InHandInv, GapDist
  <2>2. handler' \in [{GapProc} -> G!HandlerState]
    BY <1>5, <2>1, <1>2 DEF G!ReportRangeOrder
  <2>3. /\ [d EXCEPT !.pc = "endError"] \in G!DistState
        /\ [d EXCEPT !.pc = "endError"].pc = "endError"
        /\ [d EXCEPT !.pc = "endError"].row = d.row
    BY <1>0 DEF G!DistState
  <2>4. dist' \in [{GapProc} -> G!DistState]
        /\ dist'[GapProc] \in {G!NewDist, [d EXCEPT !.pc = "endError"]}
    BY <1>5, <1>1, <2>3, NewGapStates DEF G!ReportRangeOrder
  <2>5. InHandInv'
    BY <1>5, <2>1, <2>3, <2>4, NewGapStates DEF G!ReportRangeOrder, InHandInv, GapGetter, GapDist
  <2>. QED  BY <1>5, <2>2, <2>4, <2>5 DEF G!ReportRangeOrder
<1>6. ASSUME NEW w \in GapWorkers, G!HandOutSlot(GapProc, w)
      PROVE  /\ UNCHANGED <<table, ctx, spent, getter, handler, pollers>>
             /\ dist' \in [{GapProc} -> G!DistState]
             /\ worker' \in [GapWorkers -> G!WorkerState]
             /\ InHandInv'
  <2>. DEFINE n == d.next
              r == d.row
              e == [d EXCEPT !.next = n + 1, !.pc = IF n = r[2] THEN "processed" ELSE "work"]
  <2>1. r \in G!Rows /\ n \in SlotsOf(r)
    BY <1>6 DEF G!HandOutSlot, InHandInv, GapDist
  <2>2. n \in Slots /\ n \in Nat /\ r[1] \in Nat /\ r[2] \in Nat
    BY <2>1, GapRowFacts DEF SlotsOf
  <2>3. n + 1 \in Nat /\ (n # r[2] => n + 1 \in SlotsOf(r))
    BY <2>1, <2>2 DEF SlotsOf
  <2>4. e \in G!DistState /\ e.row = r /\ e.next = n + 1 /\ (e.pc = "work" => n # r[2])
    BY <1>0, <2>3 DEF G!DistState
  <2>5. dist' = [dist EXCEPT ![GapProc] = e]
    BY <1>6 DEF G!HandOutSlot
  <2>6. worker' = [worker EXCEPT ![w] = [pc |-> "busy", slot |-> n]]
    BY <1>6 DEF G!HandOutSlot
  <2>7. worker' \in [GapWorkers -> G!WorkerState]
    BY <2>2, <2>6 DEF G!WorkerState
  <2>. HIDE DEF e, d, n, r
  <2>8. dist' \in [{GapProc} -> G!DistState] /\ dist'[GapProc] = e
    BY <2>4, <2>5
  <2>9. InHandInv'
    BY <1>6, <2>1, <2>3, <2>4, <2>8 DEF G!HandOutSlot, InHandInv, GapGetter, GapDist
  <2>. QED  BY <1>6, <2>7, <2>8, <2>9 DEF G!HandOutSlot
<1>. QED  BY <1>3, <1>4, <1>5, <1>6 DEF G!Distributor, G!ReceiveRow, G!ReceiveProcessed, G!ReportRangeOrder

LEMMA GapHandlerTypes ==
    ASSUME TypeInv, G!Handler(GapProc)
    PROVE  /\ UNCHANGED <<ctx, spent, getter, dist, worker, pollers>>
           /\ table' \in G!TableType
           /\ handler' \in [{GapProc} -> G!HandlerState]
<1>. USE DEF TypeInv, IndexerTypeOK, G!HandlerStep
<1>0. handler[GapProc] \in G!HandlerState
      /\ [handler[GapProc] EXCEPT !.pc = "write"] \in G!HandlerState
      /\ handler[GapProc].slot \in Slots
  BY WidthAssumption DEF G!HandlerState, Slots, G!NoSlot
<1>1. CASE G!CheckKnownGap(GapProc)
  BY <1>0, <1>1, NewGapStates DEF G!CheckKnownGap
<1>2. CASE G!WriteKnownGap(GapProc)
  BY <1>0, <1>2, NewGapStates, GapTables DEF G!WriteKnownGap
<1>. QED  BY <1>1, <1>2 DEF G!Handler

LEMMA GapRemoverTypes ==
    ASSUME TypeInv, G!Remover(GapProc)
    PROVE  /\ UNCHANGED <<ctx, getter, dist, worker, handler>>
           /\ spent' \in [Bounds -> Nat] /\ table' \in G!TableType
           /\ pollers' \in [{GapProc} -> SUBSET G!Rows]
<1>. USE DEF TypeInv, IndexerTypeOK
<1>0. spent \in [Bounds -> Nat]
  BY DEF TypeOK
<1>1. ASSUME NEW r \in G!Rows, G!RemoveRow(GapProc, r)
      PROVE  /\ UNCHANGED <<ctx, getter, dist, worker, handler, spent>>
             /\ table' \in G!TableType
             /\ pollers' \in [{GapProc} -> SUBSET G!Rows]
  <2>1. table' = [table EXCEPT ![G!KnownGaps][r] = G!Absent]
    BY <1>1 DEF G!RemoveRow, G!KnownGaps
  <2>2. table' \in G!TableType
    BY <2>1, GapTables
  <2>. QED  BY <1>1, <2>2 DEF G!RemoveRow
<1>2. ASSUME NEW r \in G!Rows, G!RemoveFails(GapProc, r)
      PROVE  /\ UNCHANGED <<table, ctx, getter, dist, worker, handler>>
             /\ spent' \in [Bounds -> Nat]
             /\ pollers' \in [{GapProc} -> SUBSET G!Rows]
  BY <1>2, GapSpendType DEF G!RemoveFails
<1>. QED  BY <1>0, <1>1, <1>2 DEF G!Remover

LEMMA GapWorkerTypes ==
    ASSUME TypeInv, NEW w \in GapWorkers, GapWorker(w)
    PROVE  /\ UNCHANGED <<table, ctx, getter, dist, pollers>>
           /\ spent' \in [Bounds -> Nat]
           /\ worker' \in [GapWorkers -> G!WorkerState]
           /\ handler' \in [{GapProc} -> G!HandlerState]
<1>. USE DEF TypeInv, IndexerTypeOK, G!WorkerStep
<1>0. /\ worker[w] \in G!WorkerState
      /\ [worker[w] EXCEPT !.pc = "error"] \in G!WorkerState
      /\ [pc |-> "error", slot |-> worker[w].slot] \in G!HandlerState
  BY DEF G!WorkerState, G!HandlerState
<1>00. spent \in [Bounds -> Nat]
  BY DEF TypeOK
<1>1. CASE G!SlotFails(w)
  BY <1>0, <1>1, GapSpendType DEF G!SlotFails
<1>2. CASE G!ReportError(w)
  BY <1>0, <1>00, <1>2, NewGapStates DEF G!ReportError
<1>. QED  BY <1>1, <1>2 DEF GapWorker

LEMMA GapMovedTypes ==
    ASSUME TypeInv, GapStep(GapMoves)
    PROVE  TypeInv'
<1>0. /\ UNCHANGED <<process, client, jobs, slots>>
      /\ knownGaps' = { r \in G!Rows : table'[G!KnownGaps][r] # G!Absent }
  BY DEF GapStep
<1>00. spent \in [Bounds -> Nat]
  BY DEF TypeInv, IndexerTypeOK, TypeOK
<1>1. CASE G!Start(GapProc)
  <2>1. /\ UNCHANGED <<spent, getter, dist, worker, handler, pollers>>
        /\ table' \in G!TableType
        /\ ctx' \in [{GapProc} -> {"down", "run"}]
    BY <1>1, GapTables DEF G!Start, G!goroutines, TypeInv, IndexerTypeOK
  <2>2. InHandInv'
    BY <2>1 DEF TypeInv, InHandInv, GapGetter, GapDist
  <2>. QED  BY <1>0, <1>00, <2>1, <2>2, GapStepTypes DEF TypeInv, IndexerTypeOK
<1>2. CASE G!Getter(GapProc)
  <2>1. InHandInv'
    BY <1>2, GapGetterTypes DEF TypeInv, InHandInv, GapGetter, GapDist
  <2>. QED  BY <1>0, <1>2, <2>1, GapGetterTypes, GapStepTypes DEF TypeInv, IndexerTypeOK
<1>3. CASE G!Distributor(GapProc)
  BY <1>0, <1>00, <1>3, GapDistributorTypes, GapStepTypes DEF TypeInv, IndexerTypeOK
<1>4. CASE G!Handler(GapProc)
  <2>1. InHandInv'
    BY <1>4, GapHandlerTypes DEF TypeInv, InHandInv, GapGetter, GapDist
  <2>. QED  BY <1>0, <1>00, <1>4, <2>1, GapHandlerTypes, GapStepTypes DEF TypeInv, IndexerTypeOK
<1>5. CASE G!Remover(GapProc)
  <2>1. InHandInv'
    BY <1>5, GapRemoverTypes DEF TypeInv, InHandInv, GapGetter, GapDist
  <2>. QED  BY <1>0, <1>5, <2>1, GapRemoverTypes, GapStepTypes DEF TypeInv, IndexerTypeOK
<1>6. ASSUME NEW w \in GapWorkers, GapWorker(w) PROVE TypeInv'
  <2>1. InHandInv'
    BY <1>6, GapWorkerTypes DEF TypeInv, InHandInv, GapGetter, GapDist
  <2>. QED  BY <1>0, <1>6, <2>1, GapWorkerTypes, GapStepTypes DEF TypeInv, IndexerTypeOK
<1>7. CASE G!StartUnreleased(GapProc)
  <2>1. /\ UNCHANGED <<table, getter, dist, worker, handler, pollers>>
        /\ spent' \in [Bounds -> Nat]
        /\ ctx' \in [{GapProc} -> {"down", "run"}]
    BY <1>7, GapSpendType DEF G!StartUnreleased, G!goroutines, TypeInv, IndexerTypeOK
  <2>2. InHandInv'
    BY <2>1 DEF TypeInv, InHandInv, GapGetter, GapDist
  <2>. QED  BY <1>0, <2>1, <2>2, GapStepTypes DEF TypeInv, IndexerTypeOK
<1>. QED  BY <1>1, <1>2, <1>3, <1>4, <1>5, <1>6, <1>7 DEF GapStep, GapMoves

\* A worker writes rows of eth_beacon.slots and deletes none.
LEMMA StoreKeeps ==
    ASSUME TypeInv, NEW w \in GapWorkers, StoreGapSlot(w)
    PROVE  /\ TypeInv'
           /\ UNCHANGED <<process, client, jobs, knownGaps, table, ctx, getter, dist, handler,
                          pollers, spent>>
           /\ worker' = [worker EXCEPT ![w] = G!NewWorker]
           /\ \A k \in Keys : slots[k] # NoRow => slots'[k] # NoRow
           /\ \E k \in Keys : k[1] = worker[w].slot /\ slots'[k] # NoRow
<1>1. PICK k \in Keys :
          /\ k[1] = worker[w].slot
          /\ slots' = IF slots[k] # NoRow THEN slots
                      ELSE [slots EXCEPT ![k] = IF k[2] = NoRoot THEN "skipped" ELSE "proposed"]
  BY DEF StoreGapSlot
<1>2. /\ UNCHANGED <<process, client, jobs, knownGaps, table, ctx, getter, dist, handler,
                     pollers, spent>>
      /\ worker' = [worker EXCEPT ![w] = G!NewWorker]
  BY DEF StoreGapSlot, G!StoreSlot, G!WorkerStep
<1>3. slots' \in [Keys -> Statuses \cup {NoRow}]
      /\ slots'[k] # NoRow
      /\ \A kk \in Keys : slots[kk] # NoRow => slots'[kk] # NoRow
  BY <1>1 DEF TypeInv, IndexerTypeOK, TypeOK, Statuses, NoRow
<1>4. TypeOK'
  BY <1>2, <1>3 DEF TypeInv, IndexerTypeOK, TypeOK, client
<1>5. worker' \in [GapWorkers -> G!WorkerState]
  BY <1>2, NewGapStates DEF TypeInv, IndexerTypeOK
<1>6. TypeInv'
  BY <1>2, <1>4, <1>5 DEF TypeInv, IndexerTypeOK, InHandInv, GapGetter, GapDist
<1>. QED  BY <1>1, <1>2, <1>3, <1>6

\* Every step of the composition is one of these.
LEMMA IndexerSteps ==
    ASSUME [IndexerNext]_indexerVars
    PROVE  \/ HeadMoved
           \/ GapStep(GapMoves)
           \/ \E w \in GapWorkers : StoreGapSlot(w)
           \/ UNCHANGED indexerVars
BY DEF IndexerNext, HeadStep, HeadMoved, HeadMoves, GapStep, GapMoves

LEMMA IndexerStepType ==
    ASSUME TypeInv, [IndexerNext]_indexerVars
    PROVE  TypeInv'
<1>1. CASE UNCHANGED indexerVars
  BY <1>1 DEF indexerVars, vars, client, tables, gapVars, TypeInv, IndexerTypeOK, TypeOK,
     InHandInv, GapGetter, GapDist
<1>. QED  BY <1>1, IndexerSteps, HeadMovedTypes, GapMovedTypes, StoreKeeps

-----------------------------------------------------------------------------
(***************************************************************************)
(* A slot that was followed is followed.  A row leaves known_gaps only in  *)
(* the hands of a poller, and all slots of such a row are kept: each is    *)
(* stored, or some goroutine of the known-gaps process has it in hand, or  *)
(* it has a row of its own, which is deleted when the slot is stored.      *)
(* Nothing that head tracking writes takes any of this away.               *)
(***************************************************************************)

IsStored(n) == \E k \in Keys : k[1] = n /\ slots[k] # NoRow
Kept(n) == IsStored(n) \/ <<n, n>> \in knownGaps \/ G!InHand(n)

HandedOutIsKept ==
    /\ \A r \in GapPollers : \A n \in SlotsOf(r) : Kept(n)
    /\ GapDist.pc = "processed" => \A n \in SlotsOf(GapDist.row) : Kept(n)
    /\ GapDist.pc = "work" => \A n \in SlotsOf(GapDist.row) : n < GapDist.next => Kept(n)

IndexerInv == TypeInv /\ HandedOutIsKept

LEMMA ProcessedIsStored == ASSUME NEW n \in Slots PROVE G!Processed(n) <=> IsStored(n)
BY DEF G!Processed, StoredKinds, IsStored

\* What a step of the known-gaps process does to known_gaps.
LEMMA GapMovesOnGaps ==
    ASSUME TypeInv, GapStep(GapMoves)
    PROVE  \/ knownGaps' = knownGaps
           \/ G!WriteKnownGap(GapProc) /\ knownGaps' = knownGaps \cup {<<GapHandler.slot, GapHandler.slot>>}
           \/ \E r \in GapPollers : /\ knownGaps' = knownGaps \ {r}
                                    /\ IsStored(r[1]) /\ IsStored(r[2])
<1>. USE DEF TypeInv, IndexerTypeOK
<1>0. knownGaps' = { r \in G!Rows : table'[G!KnownGaps][r] # G!Absent }
  BY DEF GapStep
<1>1. CASE UNCHANGED table
  BY <1>0, <1>1
<1>2. CASE G!Start(GapProc)
  <2>1. table' = G!WithReleased(GapProc)
    BY <1>2 DEF G!Start
  <2>2. \A r \in G!Rows : table'[G!KnownGaps][r] # G!Absent <=> table[G!KnownGaps][r] # G!Absent
    BY <2>1, GapConstants DEF G!WithReleased, G!TableType
  <2>. QED  BY <1>0, <2>2
<1>3. CASE G!CheckOutRow(GapProc)
  <2>. DEFINE r == getter[GapProc].row
  <2>1. /\ table' = [table EXCEPT ![G!KnownGaps][r] = NodeId]
        /\ table[G!KnownGaps][r] # G!Absent /\ r \in G!Rows
    BY <1>3 DEF G!CheckOutRow, G!GetterStep, G!Exists, G!KnownGaps, InHandInv, GapGetter
  <2>2. \A q \in G!Rows : table'[G!KnownGaps][q] # G!Absent <=> table[G!KnownGaps][q] # G!Absent
    BY <2>1, GapConstants DEF G!TableType
  <2>. QED  BY <1>0, <2>2
<1>4. CASE G!WriteKnownGap(GapProc)
  <2>. DEFINE n == GapHandler.slot
  <2>1. table' = G!WithKnownGap(n)
    BY <1>4 DEF G!WriteKnownGap, GapHandler
  <2>2. \A q \in G!Rows : table'[G!KnownGaps][q] # G!Absent <=>
                              q = <<n, n>> \/ table[G!KnownGaps][q] # G!Absent
    BY <2>1, GapConstants DEF G!WithKnownGap, G!TableType
  <2>3. knownGaps' = knownGaps \cup ({<<n, n>>} \cap G!Rows)
    BY <1>0, <2>2
  <2>. QED  BY <1>4, <2>3
<1>5. ASSUME NEW r \in G!Rows, G!RemoveRow(GapProc, r)
      PROVE  r \in GapPollers /\ knownGaps' = knownGaps \ {r} /\ IsStored(r[1]) /\ IsStored(r[2])
  <2>1. /\ table' = [table EXCEPT ![G!KnownGaps][r] = G!Absent]
        /\ r \in GapPollers
        /\ G!Processed(r[1]) /\ G!Processed(r[2])
    BY <1>5 DEF G!RemoveRow, G!KnownGaps, GapPollers
  <2>2. \A q \in G!Rows : table'[G!KnownGaps][q] # G!Absent <=>
                              q # r /\ table[G!KnownGaps][q] # G!Absent
    BY <2>1, GapConstants DEF G!TableType
  <2>3. knownGaps' = knownGaps \ {r}
    BY <1>0, <2>2
  <2>. QED  BY <2>1, <2>3, GapRowFacts, ProcessedIsStored
<1>6. \/ UNCHANGED table \/ G!Start(GapProc) \/ G!CheckOutRow(GapProc) \/ G!WriteKnownGap(GapProc)
      \/ \E r \in G!Rows : G!RemoveRow(GapProc, r)
  BY DEF GapStep, GapMoves, G!StartUnreleased, G!Getter, G!GetterLoop, G!SelectRow,
     G!SelectNone, G!SelectFails,
     G!CheckOutFails, G!Distributor, G!ReceiveRow, G!ReceiveProcessed, G!ReportRangeOrder,
     G!HandOutSlot, G!Handler, G!CheckKnownGap, G!Remover, G!RemoveFails, GapWorker,
     G!SlotFails, G!ReportError
<1>. QED  BY <1>1, <1>2, <1>3, <1>4, <1>5, <1>6

\* What it does to the goroutines that have a slot in hand.
LEMMA GapMovesOnHands ==
    ASSUME TypeInv, GapStep(GapMoves)
    PROVE  /\ \A w \in GapWorkers :
                 \/ worker'[w] = worker[w] \/ worker[w].pc = "receive"
                 \/ G!SlotFails(w) \/ G!ReportError(w)
           /\ \/ handler' = handler \/ GapHandler.pc = "receive"
              \/ G!CheckKnownGap(GapProc) \/ G!WriteKnownGap(GapProc)
<1>. USE DEF TypeInv, IndexerTypeOK
<1>1. CASE UNCHANGED <<worker, handler>>
  BY <1>1
<1>2. CASE G!ReportRangeOrder(GapProc)
  BY <1>2 DEF G!ReportRangeOrder, GapHandler
<1>3. ASSUME NEW v \in GapWorkers, G!HandOutSlot(GapProc, v)
      PROVE  /\ \A w \in GapWorkers : worker'[w] = worker[w] \/ worker[w].pc = "receive"
             /\ handler' = handler
  BY <1>3 DEF G!HandOutSlot
<1>4. ASSUME NEW v \in GapWorkers, GapWorker(v)
      PROVE  /\ \A w \in GapWorkers : worker'[w] = worker[w] \/ G!SlotFails(w) \/ G!ReportError(w)
             /\ handler' = handler \/ GapHandler.pc = "receive"
  BY <1>4 DEF GapWorker, G!SlotFails, G!ReportError, G!WorkerStep, GapHandler
<1>5. CASE G!Handler(GapProc)
  BY <1>5 DEF G!Handler, G!CheckKnownGap, G!WriteKnownGap
<1>6. \/ UNCHANGED <<worker, handler>> \/ G!ReportRangeOrder(GapProc) \/ G!Handler(GapProc)
      \/ \E v \in GapWorkers : G!HandOutSlot(GapProc, v) \/ GapWorker(v)
  BY DEF GapStep, GapMoves, G!Start, G!StartUnreleased, G!goroutines, G!Getter,
     G!GetterLoop, G!SelectRow,
     G!SelectNone, G!SelectFails, G!CheckOutRow, G!CheckOutFails, G!Distributor, G!ReceiveRow,
     G!ReceiveProcessed, G!Remover, G!RemoveRow, G!RemoveFails
<1>. QED  BY <1>1, <1>2, <1>3, <1>4, <1>5, <1>6

LEMMA KeptStaysInGapStep ==
    ASSUME TypeInv, GapStep(GapMoves), NEW n \in Slots, Kept(n)
    PROVE  Kept(n)'
<1>. USE DEF TypeInv, IndexerTypeOK
<1>0. IsStored(n) => IsStored(n)'
  BY DEF GapStep, IsStored
<1>1. CASE IsStored(n)
  BY <1>0, <1>1 DEF Kept
<1>2. CASE <<n, n>> \in knownGaps
  <2>1. <<n, n>> \in knownGaps' \/ IsStored(n)
    BY <1>2, GapMovesOnGaps
  <2>. QED  BY <1>0, <2>1 DEF Kept
<1>3. ASSUME NEW w \in GapWorkers, worker[w].pc # "receive", worker[w].slot = n
      PROVE  Kept(n)'
  <2>1. CASE worker'[w] = worker[w]
    BY <1>3, <2>1 DEF Kept, G!InHand
  <2>2. CASE G!SlotFails(w)
    <3>1. worker'[w].pc = "error" /\ worker'[w].slot = n
      BY <1>3, <2>2 DEF G!SlotFails, G!WorkerStep, G!WorkerState
    <3>. QED  BY <3>1 DEF Kept, G!InHand
  <2>3. CASE G!ReportError(w)
    <3>1. handler'[GapProc].pc = "error" /\ handler'[GapProc].slot = n
      BY <1>3, <2>3 DEF G!ReportError
    <3>. QED  BY <3>1 DEF Kept, G!InHand
  <2>. QED  BY <1>3, <2>1, <2>2, <2>3, GapMovesOnHands
<1>4. ASSUME GapHandler.pc # "receive", GapHandler.slot = n
      PROVE  Kept(n)'
  <2>1. CASE handler' = handler
    BY <1>4, <2>1 DEF Kept, G!InHand, GapHandler
  <2>2. CASE G!CheckKnownGap(GapProc)
    <3>1. CASE table[G!KnownGaps][<<n, n>>] # G!Absent
      <4>1. <<n, n>> \in G!Rows
        BY DEF G!Rows
      <4>2. <<n, n>> \in knownGaps
        BY <3>1, <4>1
      <4>. QED  BY <1>2, <4>2
    <3>2. CASE table[G!KnownGaps][<<n, n>>] = G!Absent
      <4>1. handler' = [handler EXCEPT ![GapProc] = [handler[GapProc] EXCEPT !.pc = "write"]]
        BY <1>4, <2>2, <3>2 DEF G!CheckKnownGap, G!HandlerStep, G!Exists, GapHandler
      <4>2. handler'[GapProc].pc = "write" /\ handler'[GapProc].slot = n
        BY <1>4, <4>1 DEF G!HandlerState, GapHandler
      <4>. QED  BY <4>2 DEF Kept, G!InHand
    <3>. QED  BY <3>1, <3>2
  <2>3. CASE G!WriteKnownGap(GapProc)
    <3>1. table' = G!WithKnownGap(n)
      BY <1>4, <2>3 DEF G!WriteKnownGap, GapHandler
    <3>2. <<n, n>> \in G!Rows
      BY DEF G!Rows
    <3>3. table'[G!KnownGaps][<<n, n>>] # G!Absent
      BY <3>1, <3>2, GapConstants DEF G!WithKnownGap, G!TableType
    <3>4. <<n, n>> \in knownGaps'
      BY <3>2, <3>3 DEF GapStep
    <3>. QED  BY <3>4 DEF Kept
  <2>. QED  BY <1>4, <2>1, <2>2, <2>3, GapMovesOnHands
<1>. QED  BY <1>1, <1>2, <1>3, <1>4 DEF Kept, G!InHand, GapHandler

LEMMA KeptStays ==
    ASSUME TypeInv, [IndexerNext]_indexerVars, ~Dies,
           NEW n \in Slots, Kept(n)
    PROVE  Kept(n)'
<1>1. CASE HeadMoved
  <2>1. UNCHANGED <<worker, handler>>
    BY <1>1 DEF HeadMoved
  <2>2. knownGaps \subseteq knownGaps' /\ (IsStored(n) => IsStored(n)')
    BY <1>1, HeadMovesKeep DEF HeadMoved, HeadKeeps, TypeInv, IndexerTypeOK, IsStored
  <2>. QED  BY <2>1, <2>2 DEF Kept, G!InHand
<1>2. CASE GapStep(GapMoves)
  BY <1>2, KeptStaysInGapStep
<1>3. ASSUME NEW v \in GapWorkers, StoreGapSlot(v) PROVE Kept(n)'
  <2>1. /\ UNCHANGED <<knownGaps, handler>>
        /\ worker' = [worker EXCEPT ![v] = G!NewWorker]
        /\ IsStored(n) => IsStored(n)'
        /\ worker[v].slot = n => IsStored(n)'
    BY <1>3, StoreKeeps DEF IsStored
  <2>2. \A w \in GapWorkers : w # v => worker'[w] = worker[w]
    BY <2>1 DEF TypeInv, IndexerTypeOK
  <2>. QED  BY <2>1, <2>2 DEF Kept, G!InHand
<1>4. CASE UNCHANGED indexerVars
  BY <1>4 DEF indexerVars, vars, tables, gapVars, Kept, IsStored, G!InHand
<1>. QED  BY <1>1, <1>2, <1>3, <1>4, IndexerSteps

\* Whatever the distributor has handed out of its row, and all of a row that a
\* poller watches, is kept.
LEMMA HandedOutStaysKept ==
    ASSUME IndexerInv, [IndexerNext]_indexerVars
    PROVE  HandedOutIsKept'
<1>. USE DEF IndexerInv
<1>1. CASE HeadMoved /\ Dies
  <2>1. GapPollers' = {} /\ GapDist' = G!NewDist
    BY <1>1 DEF HeadMoved, G!Lose, GapPollers, GapDist
  <2>. QED  BY <2>1, NewGapStates DEF HandedOutIsKept
<1>2. CASE ~Dies
  <2>1. \A n \in Slots : Kept(n) => Kept(n)'
    BY <1>2, KeptStays
  <2>2. /\ GapDist \in G!DistState /\ GapPollers \subseteq G!Rows
        /\ GapDist.pc # "receive" => GapDist.row \in G!Rows
    BY DEF TypeInv, IndexerTypeOK, InHandInv, GapDist, GapPollers
  <2>3. \A r \in GapPollers : \A n \in SlotsOf(r) : Kept(n)'
    BY <2>1, <2>2, GapRowFacts DEF HandedOutIsKept
  <2>4. CASE UNCHANGED <<dist, pollers>>
    <3>1. GapDist.pc # "receive" => \A n \in SlotsOf(GapDist.row) : Kept(n) => Kept(n)'
      BY <2>1, <2>2, GapRowFacts
    <3>. QED  BY <2>3, <2>4, <3>1 DEF HandedOutIsKept, GapDist, GapPollers
  <2>5. CASE UNCHANGED dist /\ GapPollers' \subseteq GapPollers
    <3>1. GapDist.pc # "receive" => \A n \in SlotsOf(GapDist.row) : Kept(n) => Kept(n)'
      BY <2>1, <2>2, GapRowFacts
    <3>. QED  BY <2>3, <2>5, <3>1 DEF HandedOutIsKept, GapDist
  <2>6. CASE G!ReceiveRow(GapProc)
    <3>. DEFINE r == getter[GapProc].row
    <3>1. r \in G!Rows
      BY <2>6 DEF G!ReceiveRow, G!GetterStep, TypeInv, InHandInv, GapGetter
    <3>2. GapDist' = [pc |-> IF r[1] > r[2] THEN "startError" ELSE "work",
                      row |-> r, next |-> r[1]]
      BY <2>6 DEF G!ReceiveRow, G!DistStep, TypeInv, IndexerTypeOK, GapDist
    <3>3. \A n \in SlotsOf(r) : ~ (n < r[1])
      BY <3>1, GapRowFacts DEF SlotsOf
    <3>4. GapPollers' = GapPollers
      BY <2>6 DEF G!ReceiveRow, GapPollers
    <3>. QED  BY <2>3, <3>2, <3>3, <3>4 DEF HandedOutIsKept
  <2>7. CASE G!ReceiveProcessed(GapProc)
    <3>1. GapDist.pc = "processed" /\ GapDist' = G!NewDist
          /\ GapPollers' = GapPollers \cup {GapDist.row}
      BY <2>7 DEF G!ReceiveProcessed, G!DistStep, TypeInv, IndexerTypeOK, GapDist, GapPollers
    <3>2. \A n \in SlotsOf(GapDist.row) : Kept(n)'
      BY <2>1, <2>2, <3>1, GapRowFacts DEF HandedOutIsKept
    <3>. QED  BY <2>3, <3>1, <3>2, NewGapStates DEF HandedOutIsKept
  <2>8. CASE G!ReportRangeOrder(GapProc)
    <3>1. GapDist'.pc \in {"endError", "receive"}
      BY <2>2, <2>8, NewGapStates
      DEF G!ReportRangeOrder, G!DistStep, G!DistState, TypeInv, IndexerTypeOK, GapDist
    <3>2. GapPollers' = GapPollers
      BY <2>8 DEF G!ReportRangeOrder, GapPollers
    <3>. QED  BY <2>3, <3>1, <3>2 DEF HandedOutIsKept
  <2>9. ASSUME NEW w \in GapWorkers, G!HandOutSlot(GapProc, w)
        PROVE  HandedOutIsKept'
    <3>1. PICK r \in G!Rows : r = GapDist.row
      BY <2>2, <2>9 DEF G!HandOutSlot, G!DistStep, GapDist
    <3>2. PICK n \in Slots : n = GapDist.next /\ n \in SlotsOf(r)
      BY <2>9, <3>1, GapRowFacts DEF G!HandOutSlot, G!DistStep, GapDist, TypeInv, InHandInv
    <3>3. worker'[w] = [pc |-> "busy", slot |-> n]
      BY <2>9, <3>2 DEF G!HandOutSlot, TypeInv, IndexerTypeOK, GapDist
    <3>4. Kept(n)'
      BY <3>3 DEF Kept, G!InHand
    <3>5. \A m \in SlotsOf(r) : m < n => Kept(m)'
      BY <2>1, <2>9, <3>1, <3>2, GapRowFacts DEF G!HandOutSlot, G!DistStep, HandedOutIsKept, GapDist
    <3>6. /\ GapDist'.row = r
          /\ GapDist'.next = n + 1
          /\ GapDist'.pc = "processed" => n = r[2]
          /\ GapPollers' = GapPollers
      BY <2>2, <2>9, <3>1, <3>2
      DEF G!HandOutSlot, G!DistStep, G!DistState, TypeInv, IndexerTypeOK, GapDist, GapPollers
    <3>7. n \in Nat /\ r[1] \in Nat /\ r[2] \in Nat /\ SlotsOf(r) \subseteq Nat
      BY <3>1, <3>2, GapRowFacts DEF SlotsOf
    <3>8. \A m \in SlotsOf(r) : m < n + 1 => Kept(m)'
      BY <3>4, <3>5, <3>7
    <3>9. n = r[2] => \A m \in SlotsOf(r) : m < n + 1
      BY <3>7 DEF SlotsOf
    <3>. QED  BY <2>3, <3>6, <3>8, <3>9 DEF HandedOutIsKept
  <2>10. \/ UNCHANGED <<dist, pollers>>
         \/ UNCHANGED dist /\ GapPollers' \subseteq GapPollers
         \/ G!ReceiveRow(GapProc) \/ G!ReceiveProcessed(GapProc) \/ G!ReportRangeOrder(GapProc)
         \/ \E w \in GapWorkers : G!HandOutSlot(GapProc, w)
    <3>1. HeadMoved => UNCHANGED <<dist, pollers>>
      BY <1>2 DEF HeadMoved
    <3>2. \A w \in GapWorkers : StoreGapSlot(w) => UNCHANGED <<dist, pollers>>
      BY StoreKeeps
    <3>3. UNCHANGED indexerVars => UNCHANGED <<dist, pollers>>
      BY DEF indexerVars, gapVars
    <3>4. G!Remover(GapProc) => UNCHANGED dist /\ GapPollers' \subseteq GapPollers
      BY DEF G!Remover, G!RemoveRow, G!RemoveFails, TypeInv, IndexerTypeOK, GapPollers
    <3>5. GapStep(GapMoves) => \/ UNCHANGED <<dist, pollers>>
                               \/ G!Remover(GapProc) \/ G!Distributor(GapProc)
      BY DEF GapStep, GapMoves, G!Start, G!StartUnreleased, G!goroutines, G!Getter,
     G!GetterLoop, G!SelectRow,
         G!SelectNone, G!SelectFails, G!CheckOutRow, G!CheckOutFails, G!Handler,
         G!CheckKnownGap, G!WriteKnownGap, GapWorker, G!SlotFails, G!ReportError
    <3>. QED  BY <3>1, <3>2, <3>3, <3>4, <3>5, IndexerSteps DEF G!Distributor
  <2>. QED  BY <2>4, <2>5, <2>6, <2>7, <2>8, <2>9, <2>10
<1>3. CASE Dies /\ ~HeadMoved
  <2>1. process' = process
    BY <1>3, IndexerSteps, StoreKeeps DEF GapStep, indexerVars, vars
  <2>. QED  BY <1>3, <2>1 DEF Dies
<1>. QED  BY <1>1, <1>2, <1>3

\* A slot that is in a row that leaves known_gaps was kept.
LEMMA FollowedStays ==
    ASSUME IndexerInv, [IndexerNext]_indexerVars, ~Dies,
           NEW n \in Slots, Followed(n)
    PROVE  Followed(n)'
<1>. USE DEF IndexerInv
<1>1. ASSUME Kept(n)' PROVE Followed(n)'
  <2>1. n \in Int
    BY SlotsAreIntegers
  <2>2. n \in SlotsOf(<<n, n>>)
    BY <2>1 DEF SlotsOf
  <2>. QED  BY <1>1, <2>2 DEF Kept, IsStored, Followed, Tracked, InGap
<1>2. CASE Kept(n)
  BY <1>1, <1>2, KeptStays
<1>3. ASSUME NEW r \in knownGaps, n \in SlotsOf(r) PROVE Followed(n)'
  <2>1. CASE r \in knownGaps'
    BY <1>3, <2>1 DEF Followed, Tracked, InGap
  <2>2. CASE r \notin knownGaps'
    <3>1. CASE HeadMoved
      BY <2>2, <3>1, HeadMovesKeep DEF HeadMoved, HeadKeeps, TypeInv, IndexerTypeOK
    <3>2. CASE GapStep(GapMoves)
      <4>1. r \in GapPollers
        BY <2>2, <3>2, GapMovesOnGaps
      <4>2. Kept(n)
        BY <1>3, <4>1 DEF HandedOutIsKept
      <4>. QED  BY <1>2, <4>2
    <3>3. CASE \E w \in GapWorkers : StoreGapSlot(w)
      BY <2>2, <3>3, StoreKeeps
    <3>4. CASE UNCHANGED indexerVars
      BY <2>2, <3>4 DEF indexerVars, vars, tables
    <3>. QED  BY <3>1, <3>2, <3>3, <3>4, IndexerSteps
  <2>. QED  BY <2>1, <2>2
<1>. QED  BY <1>2, <1>3 DEF Followed, Tracked, InGap, Kept, IsStored

LEMMA IndexerInvHolds == IndexerSpec => []IndexerInv
<1>1. IndexerInit => IndexerInv
  <2>. SUFFICES ASSUME IndexerInit PROVE IndexerInv
    OBVIOUS
  <2>1. GapPollers = {} /\ GapDist = G!NewDist
    BY DEF IndexerInit, GapPollers, GapDist
  <2>. QED  BY <2>1, StartsWithTypes, NewGapStates DEF IndexerInv, HandedOutIsKept
<1>2. IndexerInv /\ [IndexerNext]_indexerVars => IndexerInv'
  BY IndexerStepType, HandedOutStaysKept DEF IndexerInv
<1>. QED  BY <1>1, <1>2, PTL DEF IndexerSpec

\* Head tracking and the known-gaps process agree on what is in known_gaps, and
\* each stays within its types whatever the other does to the database.
THEOREM TheViewsAgree == IndexerSpec => []IndexerTypeOK
<1>1. IndexerInv => IndexerTypeOK
  BY DEF IndexerInv, TypeInv
<1>. QED  BY <1>1, IndexerInvHolds, PTL

\* A slot that is stored, in known_gaps or in the hands of the known-gaps
\* process is one of these after every step of either component, except for
\* the death of the process (processHeadSlot and handleBatchProcess).
THEOREM SlotsAreNotDropped == IndexerSpec => NoSlotIsDropped
<1>1. IndexerInv /\ [IndexerNext]_indexerVars =>
          [~Dies => \A n \in Slots : Followed(n) => Followed(n)']_indexerVars
  BY FollowedStays
<1>. QED  BY <1>1, IndexerInvHolds, PTL DEF IndexerSpec, NoSlotIsDropped

=============================================================================
