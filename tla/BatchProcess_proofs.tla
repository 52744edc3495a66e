------------------------- MODULE BatchProcess_proofs -------------------------
(***************************************************************************)
(* What holds of batch processing for any number of applications, workers, *)
(* rows and slots, and any number of faults, stops and crashes: the types, *)
(* that no slot of a row is forgotten, and that no row is left locked.     *)
(***************************************************************************)
EXTENDS BatchProcess, TLAPS

\* A goroutine that works on a row has one, and the distributor's next slot
\* is one of its row's.
GetterInv == { g \in GetterState : g.pc \in {"checkout", "send"} => g.row \in Rows }
DistInv   == { d \in DistState : /\ d.pc # "receive" => d.row \in Rows
                                 /\ d.pc = "work" => d.next \in SlotsOf(d.row) }

TypeInv ==
    /\ TypeOK
    /\ getter \in [Procs -> GetterInv]
    /\ dist \in [Procs -> DistInv]

LEMMA InitialRowsAreRows == \A t \in Tables : InitialRows[t] \subseteq Rows
<1>. SUFFICES ASSUME NEW t \in Tables PROVE InitialRows[t] \in SUBSET Rows
  OBVIOUS
<1>. QED  BY RowsAssumption DEF Rows

\* The slots of a row, whichever way it is ordered, are slots.
LEMMA RowSlots ==
    ASSUME NEW r \in Rows
    PROVE  /\ r[1] \in SlotSet /\ r[2] \in SlotSet
           /\ r[1] \in Nat /\ r[2] \in Nat
           /\ SlotsOf(r) \subseteq SlotSet
BY RowsAssumption DEF Rows, SlotsOf

LEMMA IdsType == \A p \in Procs : TableOf[p] \in Tables /\ IdOf[p] \in Ids
BY ProcsAssumption DEF Ids

LEMMA SpendType ==
    ASSUME TypeOK, NEW bound \in {"faults", "stops", "crashes"}, NEW max, Spend(bound, max)
    PROVE  spent' \in SpentType
BY DEF Spend, TypeOK, SpentType

\* The table after a release, after a known gap was written, and after one
\* row changed.
LEMMA WithReleasedType ==
    ASSUME TypeOK, NEW p \in Procs
    PROVE  WithReleased(p) \in TableType
BY IdsType DEF TypeOK, TableType, WithReleased

LEMMA WithRowType ==
    ASSUME TypeOK, NEW t \in Tables, NEW r, NEW v \in {Absent, Free} \cup Ids
    PROVE  [table EXCEPT ![t][r] = v] \in TableType
BY DEF TypeOK, TableType

LEMMA WithKnownGapType == ASSUME TypeOK, NEW n PROVE WithKnownGap(n) \in TableType
<1>. DEFINE v == IF table[KnownGaps][<<n, n>>] = Absent THEN Free ELSE table[KnownGaps][<<n, n>>]
<1>1. CASE <<n, n>> \in Rows
  <2>1. v \in {Absent, Free} \cup Ids
    BY <1>1 DEF TypeOK, TableType, Tables
  <2>2. WithKnownGap(n) = [table EXCEPT ![KnownGaps][<<n, n>>] = v]
    BY DEF WithKnownGap
  <2>3. KnownGaps \in Tables
    BY DEF Tables
  <2>. HIDE DEF v
  <2>4. [table EXCEPT ![KnownGaps][<<n, n>>] = v] \in TableType
    BY <2>1, <2>3 DEF TypeOK, TableType
  <2>. QED  BY <2>2, <2>4
<1>2. CASE <<n, n>> \notin Rows
  <2>1. WithKnownGap(n) = table
    BY <1>2 DEF WithKnownGap, TypeOK, TableType, Tables
  <2>. QED  BY <2>1 DEF TypeOK
<1>. QED  BY <1>1, <1>2

LEMMA GetterStepType ==
    ASSUME TypeInv, NEW p \in Procs, NEW from, NEW g \in GetterInv, GetterStep(p, from, g)
    PROVE  getter' \in [Procs -> GetterState] /\ getter' \in [Procs -> GetterInv]
BY DEF TypeInv, TypeOK, GetterInv, GetterStep

LEMMA DistStepType ==
    ASSUME TypeInv, NEW p \in Procs, NEW from, NEW d \in DistInv, DistStep(p, from, d)
    PROVE  dist' \in [Procs -> DistState] /\ dist' \in [Procs -> DistInv]
BY DEF TypeInv, TypeOK, DistInv, DistStep

LEMMA NewStates ==
    /\ NewGetter \in GetterInv /\ NewDist \in DistInv
    /\ NewGetter \in GetterState /\ NewDist \in DistState
    /\ NewWorker \in WorkerState /\ NewHandler \in HandlerState
<1>1. NewGetter \in GetterState /\ NewGetter \in GetterInv
  BY DEF NewGetter, GetterState, GetterInv
<1>2. NewDist \in DistState /\ NewDist \in DistInv
  BY DEF NewDist, DistState, DistInv, NoSlot
<1>3. NewWorker \in WorkerState /\ NewHandler \in HandlerState
  BY DEF NewWorker, NewHandler, WorkerState, HandlerState
<1>. QED  BY <1>1, <1>2, <1>3

LEMMA InitType == Init => TypeInv
<1>. SUFFICES ASSUME Init PROVE TypeInv
  OBVIOUS
<1>1. table \in TableType
  BY DEF Init, TableType
<1>2. stored \in [SlotSet -> SUBSET Kinds] /\ pollers \in [Procs -> SUBSET Rows]
  BY DEF Init
<1>3. spent \in SpentType
  BY DEF Init, SpentType
<1>. QED  BY <1>1, <1>2, <1>3, NewStates DEF Init, TypeInv, TypeOK

LEMMA LoseType ==
    ASSUME TypeInv, NEW node, Lose(node), spent' \in SpentType
    PROVE  TypeInv'
<1>. USE DEF Lose, TypeInv, TypeOK
<1>1. ctx' \in [Procs -> {"down", "run", "cancelled", "released"}]
      /\ pollers' \in [Procs -> SUBSET Rows]
  OBVIOUS
<1>2. getter' \in [Procs -> GetterState] /\ getter' \in [Procs -> GetterInv]
  BY NewStates
<1>3. dist' \in [Procs -> DistState] /\ dist' \in [Procs -> DistInv]
  BY NewStates
<1>4. worker' \in [Workers -> WorkerState] /\ handler' \in [Procs -> HandlerState]
  BY NewStates
<1>. QED  BY <1>1, <1>2, <1>3, <1>4

LEMMA LifeType == ASSUME TypeInv, NEW p \in Procs, Life(p) PROVE TypeInv'
<1>. USE DEF TypeInv, TypeOK, goroutines
<1>1. CASE Start(p)
  BY <1>1, WithReleasedType DEF Start
<1>2. CASE StartUnreleased(p)
  BY <1>2, SpendType DEF StartUnreleased
<1>3. CASE Cancel(p)
  BY <1>3, SpendType DEF Cancel
<1>4. CASE ReleaseDbLocks(p)
  BY <1>4, WithReleasedType DEF ReleaseDbLocks
<1>5. CASE ReleaseFails(p)
  BY <1>5 DEF ReleaseFails
<1>. QED  BY <1>1, <1>2, <1>3, <1>4, <1>5 DEF Life

LEMMA GetterType == ASSUME TypeInv, NEW p \in Procs, Getter(p) PROVE TypeInv'
<1>. USE DEF TypeInv
<1>0. getter[p] \in GetterState /\ getter[p] \in GetterInv /\ getter[p].errs + 1 \in Nat
  BY DEF TypeOK, GetterState
<1>1. CASE GetterLoop(p)
  <2>1. \A pc \in {"select", "done"} : [getter[p] EXCEPT !.pc = pc] \in GetterInv
    BY <1>0 DEF GetterInv, GetterState
  <2>. QED  BY <1>1, <2>1, GetterStepType DEF GetterLoop, TypeOK
<1>2. CASE SelectRow(p)
  <2>1. \A r \in Rows : [getter[p] EXCEPT !.pc = "checkout", !.row = r] \in GetterInv
    BY <1>0 DEF GetterInv, GetterState
  <2>2. Selectable(TableOf[p]) \subseteq Rows
    BY DEF Selectable
  <2>. QED  BY <1>2, <2>1, <2>2, GetterStepType DEF SelectRow, TypeOK
<1>3. CASE SelectNone(p)
  <2>1. [getter[p] EXCEPT !.pc = "top"] \in GetterInv
    BY <1>0 DEF GetterInv, GetterState
  <2>. QED  BY <1>3, <2>1, GetterStepType DEF SelectNone, TypeOK
<1>4. CASE SelectFails(p)
  <2>1. [getter[p] EXCEPT !.pc = "top", !.errs = @ + 1] \in GetterInv
    BY <1>0 DEF GetterInv, GetterState
  <2>2. spent' \in SpentType
    BY <1>4, SpendType DEF SelectFails, TypeOK
  <2>. QED  BY <1>4, <2>1, <2>2, GetterStepType DEF SelectFails, TypeOK
<1>5. CASE CheckOutRow(p)
  <2>1. [getter[p] EXCEPT !.pc = "send"] \in GetterInv
    BY <1>0, <1>5 DEF GetterInv, GetterState, CheckOutRow, GetterStep
  <2>2. table' \in TableType
    BY <1>5, IdsType, WithRowType DEF CheckOutRow
  <2>. QED  BY <1>5, <2>1, <2>2, GetterStepType DEF CheckOutRow, TypeOK
<1>6. CASE CheckOutFails(p)
  <2>1. [getter[p] EXCEPT !.pc = "top", !.row = NoRange, !.errs = @ + 1] \in GetterInv
    BY <1>0 DEF GetterInv, GetterState
  <2>2. spent' \in SpentType
    BY <1>6, SpendType DEF CheckOutFails, TypeOK
  <2>. QED  BY <1>6, <2>1, <2>2, GetterStepType DEF CheckOutFails, TypeOK
<1>. QED  BY <1>1, <1>2, <1>3, <1>4, <1>5, <1>6 DEF Getter

LEMMA DistributorType == ASSUME TypeInv, NEW p \in Procs, Distributor(p) PROVE TypeInv'
<1>. USE DEF TypeInv
<1>0. dist[p] \in DistState /\ dist[p] \in DistInv /\ getter[p] \in GetterState
  BY DEF TypeOK
<1>00. \A r \in Rows : [pc |-> "error", slot |-> r[1]] \in HandlerState
                      /\ [pc |-> "error", slot |-> r[2]] \in HandlerState
  BY RowSlots DEF HandlerState
<1>1. CASE ReceiveRow(p)
  <2>. DEFINE r == getter[p].row
              d == [pc |-> IF r[1] > r[2] THEN "startError" ELSE "work", row |-> r, next |-> r[1]]
  <2>1. r \in Rows
    BY <1>1 DEF ReceiveRow, GetterStep, GetterInv
  <2>2. r[1] \in Nat /\ r[2] \in Nat
    BY <2>1, RowSlots
  <2>3. ~ (r[1] > r[2]) => r[1] \in SlotsOf(r)
    BY <2>2 DEF SlotsOf
  <2>4. d \in DistInv
    BY <2>1, <2>2, <2>3 DEF DistInv, DistState
  <2>5. [getter[p] EXCEPT !.pc = "top", !.row = NoRange] \in GetterInv
    BY <1>0 DEF GetterInv, GetterState
  <2>6. GetterStep(p, "send", [getter[p] EXCEPT !.pc = "top", !.row = NoRange])
        /\ DistStep(p, "receive", d)
    BY <1>1 DEF ReceiveRow
  <2>. HIDE DEF d
  <2>. QED  BY <1>1, <2>4, <2>5, <2>6, GetterStepType, DistStepType DEF ReceiveRow, TypeOK
<1>2. CASE ReceiveProcessed(p)
  <2>1. dist[p].row \in Rows
    BY <1>2 DEF ReceiveProcessed, DistStep, DistInv
  <2>2. pollers' \in [Procs -> SUBSET Rows]
    BY <1>2, <2>1 DEF ReceiveProcessed, TypeOK
  <2>. QED  BY <1>2, <2>2, NewStates, DistStepType DEF ReceiveProcessed, TypeOK
<1>3. CASE ReportRangeOrder(p)
  <2>1. dist[p].row \in Rows
    BY <1>3 DEF ReportRangeOrder, DistStep, DistInv
  <2>2. handler' \in [Procs -> HandlerState]
    BY <1>3, <2>1, <1>00 DEF ReportRangeOrder, TypeOK
  <2>3. [dist[p] EXCEPT !.pc = "endError"] \in DistInv
    BY <1>0, <2>1 DEF DistInv, DistState
  <2>. QED  BY <1>3, <2>2, <2>3, NewStates, DistStepType DEF ReportRangeOrder, TypeOK
<1>4. ASSUME NEW w \in Workers, HandOutSlot(p, w) PROVE TypeInv'
  <2>. DEFINE n == dist[p].next
              r == dist[p].row
              d == [dist[p] EXCEPT !.next = n + 1, !.pc = IF n = r[2] THEN "processed" ELSE "work"]
  <2>1. r \in Rows /\ n \in SlotsOf(r)
    BY <1>4 DEF HandOutSlot, DistStep, DistInv
  <2>2. n \in SlotSet /\ r[1] \in Nat /\ r[2] \in Nat
    BY <2>1, RowSlots
  <2>3. n + 1 \in Nat /\ (n # r[2] => n + 1 \in SlotsOf(r))
    BY <2>1, <2>2 DEF SlotsOf
  <2>4. d \in DistInv
    BY <1>0, <2>1, <2>3 DEF DistInv, DistState
  <2>5. DistStep(p, "work", d) /\ worker' = [worker EXCEPT ![w] = [pc |-> "busy", slot |-> n]]
    BY <1>4 DEF HandOutSlot
  <2>6. worker' \in [Workers -> WorkerState]
    BY <2>2, <2>5 DEF TypeOK, WorkerState
  <2>. HIDE DEF d
  <2>. QED  BY <1>4, <2>4, <2>5, <2>6, DistStepType DEF HandOutSlot, TypeOK
<1>. QED  BY <1>1, <1>2, <1>3, <1>4 DEF Distributor

\* What a written slot has: nothing whole is lost, and no hollow row comes up.
LEMMA WrittenKinds ==
    ASSUME NEW kinds \in SUBSET Kinds, NEW more \in Written(kinds)
    PROVE  /\ more \subseteq Kinds /\ more # {}
           /\ kinds \ {"hollow"} \subseteq more
           /\ "hollow" \notin kinds => /\ more \subseteq {"full", "skipped"}
                                      /\ more \cap {"full", "skipped"} # {}
BY DEF Written, Kinds

LEMMA StoresWritten ==
    ASSUME TypeInv, NEW w \in Workers, StoreSlot(w)
    PROVE  /\ DOMAIN stored' = SlotSet /\ stored' = [n \in SlotSet |-> stored'[n]]
           /\ \A n \in SlotSet : stored'[n] = stored[n] \/ stored'[n] \in Written(stored[n])
<1>1. PICK kinds \in Written(stored[worker[w].slot]) :
          stored' = [stored EXCEPT ![worker[w].slot] = kinds]
  BY DEF StoreSlot
<1>. QED  BY <1>1 DEF TypeInv, TypeOK

LEMMA WorkerType == ASSUME TypeInv, NEW w \in Workers, Worker(w) PROVE TypeInv'
<1>. USE DEF WorkerStep, TypeInv, TypeOK
<1>0. worker[w] \in WorkerState /\ [worker[w] EXCEPT !.pc = "error"] \in WorkerState
      /\ [pc |-> "error", slot |-> worker[w].slot] \in HandlerState
  BY DEF WorkerState, HandlerState
<1>1. CASE StoreSlot(w)
  <2>1. stored' \in [SlotSet -> SUBSET Kinds]
    BY <1>1, StoresWritten, WrittenKinds
  <2>. QED  BY <1>1, <2>1, NewStates DEF StoreSlot
<1>2. CASE GiveUpSlot(w)
  <2>1. stored' \in [SlotSet -> SUBSET Kinds]
    BY <1>2 DEF GiveUpSlot, Kinds
  <2>. QED  BY <1>2, <2>1, NewStates DEF GiveUpSlot
<1>3. CASE SlotFails(w)
  BY <1>0, <1>3, SpendType DEF SlotFails
<1>4. CASE ReportError(w)
  BY <1>0, <1>4, NewStates DEF ReportError
<1>. QED  BY <1>1, <1>2, <1>3, <1>4 DEF Worker

LEMMA HandlerType == ASSUME TypeInv, NEW p \in Procs, Handler(p) PROVE TypeInv'
<1>. USE DEF HandlerStep, TypeInv, TypeOK
<1>0. handler[p] \in HandlerState /\ [handler[p] EXCEPT !.pc = "write"] \in HandlerState
  BY DEF HandlerState
<1>1. CASE CheckKnownGap(p)
  BY <1>0, <1>1, NewStates DEF CheckKnownGap
<1>2. CASE WriteKnownGap(p)
  BY <1>2, NewStates, WithKnownGapType DEF WriteKnownGap
<1>. QED  BY <1>1, <1>2 DEF Handler

LEMMA RemoverType == ASSUME TypeInv, NEW p \in Procs, Remover(p) PROVE TypeInv'
<1>. USE DEF TypeInv, TypeOK
<1>1. ASSUME NEW r \in Rows, RemoveRow(p, r) PROVE TypeInv'
  <2>1. table' \in TableType
    BY <1>1, IdsType, WithRowType DEF RemoveRow
  <2>. QED  BY <1>1, <2>1 DEF RemoveRow
<1>2. ASSUME NEW r \in Rows, RemoveFails(p, r) PROVE TypeInv'
  BY <1>2, SpendType DEF RemoveFails
<1>. QED  BY <1>1, <1>2 DEF Remover

LEMMA StepType == TypeInv /\ [Next]_vars => TypeInv'
<1>. SUFFICES ASSUME TypeInv, [Next]_vars PROVE TypeInv'
  OBVIOUS
<1>1. ASSUME NEW p \in Procs, Life(p) PROVE TypeInv'
  BY <1>1, LifeType
<1>2. ASSUME NEW node \in { NodeOf[p] : p \in Procs }, Exit(node) \/ Crash(node) PROVE TypeInv'
  <2>1. spent' \in SpentType
    BY <1>2, SpendType DEF Exit, Crash, TypeInv, TypeOK
  <2>. QED  BY <1>2, <2>1, LoseType DEF Exit, Crash
<1>3. ASSUME NEW p \in Procs, Getter(p) \/ Distributor(p) \/ Handler(p) \/ Remover(p)
      PROVE  TypeInv'
  BY <1>3, GetterType, DistributorType, HandlerType, RemoverType
<1>4. ASSUME NEW w \in Workers, Worker(w) PROVE TypeInv'
  BY <1>4, WorkerType
<1>5. CASE UNCHANGED vars
  BY <1>5 DEF vars, goroutines, TypeInv, TypeOK
<1>. QED  BY <1>1, <1>2, <1>3, <1>4, <1>5 DEF Next

\* The types of the tables, the processes and the goroutines' states
\* (BatchProcess's variables); the distributor hands out slots only.
THEOREM TypeCorrect == Spec => []TypeOK
<1>1. TypeInv => TypeOK
  BY DEF TypeInv
<1>. QED  BY <1>1, InitType, StepType, PTL DEF Spec

-----------------------------------------------------------------------------
(***************************************************************************)
(* What no step undoes: nothing takes a slot out of eth_beacon.slots, and  *)
(* a row is deleted only by a poller that has found both end slots there.  *)
(* Everything else that writes to the tables checks a row out, releases it *)
(* or adds one.                                                            *)
(***************************************************************************)

TablesAdvance ==
    /\ \A n \in SlotSet : /\ stored[n] \ {"hollow"} \subseteq stored'[n]
                          /\ Processed(n) => Processed(n)'
    /\ \A t \in Tables, r \in Rows :
           Exists(t, r) => Exists(t, r)' \/ (Processed(r[1]) /\ Processed(r[2]))

LEMMA SameTablesAdvance == ASSUME UNCHANGED <<table, stored>> PROVE TablesAdvance
BY DEF TablesAdvance, Exists, Processed

LEMMA ReleaseAdvances ==
    ASSUME TypeInv, NEW p \in Procs, table' = WithReleased(p), stored' = stored
    PROVE  TablesAdvance
BY IdsAssumption, IdsType DEF TablesAdvance, Exists, Processed, WithReleased, TypeInv, TypeOK,
   TableType, Free, Absent

LEMMA StepAdvances == ASSUME TypeInv, [Next]_vars PROVE TablesAdvance
<1>1. ASSUME NEW p \in Procs, Life(p) PROVE TablesAdvance
  BY <1>1, ReleaseAdvances, SameTablesAdvance
  DEF Life, Start, StartUnreleased, Cancel, ReleaseDbLocks, ReleaseFails
<1>2. ASSUME NEW node \in { NodeOf[p] : p \in Procs }, Exit(node) \/ Crash(node)
      PROVE  TablesAdvance
  BY <1>2, SameTablesAdvance DEF Exit, Crash, Lose
<1>3. ASSUME NEW p \in Procs, Getter(p) PROVE TablesAdvance
  <2>1. CASE CheckOutRow(p)
    BY <2>1, IdsType, IdsAssumption DEF CheckOutRow, TablesAdvance, Exists, Processed, TypeInv,
       TypeOK, TableType
  <2>. QED  BY <1>3, <2>1, SameTablesAdvance
            DEF Getter, GetterLoop, SelectRow, SelectNone, SelectFails, CheckOutFails
<1>4. ASSUME NEW p \in Procs, Distributor(p) PROVE TablesAdvance
  BY <1>4, SameTablesAdvance
  DEF Distributor, ReceiveRow, ReceiveProcessed, ReportRangeOrder, HandOutSlot
<1>5. ASSUME NEW p \in Procs, Handler(p) PROVE TablesAdvance
  <2>1. CASE WriteKnownGap(p)
    BY <2>1 DEF WriteKnownGap, WithKnownGap, TablesAdvance, Exists, Processed, TypeInv, TypeOK,
                TableType
  <2>. QED  BY <1>5, <2>1, SameTablesAdvance DEF Handler, CheckKnownGap
<1>6. ASSUME NEW p \in Procs, Remover(p) PROVE TablesAdvance
  <2>1. ASSUME NEW r \in Rows, RemoveRow(p, r) PROVE TablesAdvance
    BY <2>1 DEF RemoveRow, TablesAdvance, Exists, Processed, TypeInv, TypeOK, TableType
  <2>. QED  BY <1>6, <2>1, SameTablesAdvance DEF Remover, RemoveFails
<1>7. ASSUME NEW w \in Workers, Worker(w) PROVE TablesAdvance
  <2>1. CASE StoreSlot(w)
    <3>1. UNCHANGED table
      BY <2>1 DEF StoreSlot
    <3>. QED  BY <2>1, <3>1, StoresWritten, WrittenKinds
              DEF TablesAdvance, Exists, Processed, TypeInv, TypeOK
  <2>2. CASE GiveUpSlot(w)
    BY <2>2 DEF GiveUpSlot, TablesAdvance, Exists, Processed, TypeInv, TypeOK
  <2>. QED  BY <1>7, <2>1, <2>2, SameTablesAdvance DEF Worker, SlotFails, ReportError
<1>8. CASE UNCHANGED vars
  BY <1>8, SameTablesAdvance DEF vars
<1>. QED  BY <1>1, <1>2, <1>3, <1>4, <1>5, <1>6, <1>7, <1>8 DEF Next

-----------------------------------------------------------------------------
(***************************************************************************)
(* Without stops and crashes no slot is forgotten.  Once the distributor   *)
(* has handed a slot out the slot is delivered and stays so: a goroutine   *)
(* has it in hand, or it is stored, or it failed and has a known_gaps row  *)
(* of its own, which only a poller that sees the slot stored deletes.  A   *)
(* row is deleted only when all of its slots were handed out.              *)
(***************************************************************************)

Delivered(n) == Whole(n) \/ InHand(n) \/ Exists(KnownGaps, <<n, n>>)

Undisturbed ==
    /\ \A p \in Procs : ctx[p] \in {"down", "run"}
    /\ \A n \in SlotSet : stored[n] \subseteq {"full", "skipped"}

HandedOutIsDelivered ==
    \A p \in Procs :
        /\ \A r \in pollers[p] : \A n \in SlotsOf(r) : Delivered(n)
        /\ dist[p].pc = "processed" => \A n \in SlotsOf(dist[p].row) : Delivered(n)
        /\ dist[p].pc = "work" =>
               \A n \in SlotsOf(dist[p].row) : n < dist[p].next => Delivered(n)

PipelineInv == TypeInv /\ Undisturbed /\ HandedOutIsDelivered /\ NothingForgotten

Calm == MaxStops = 0 /\ MaxCrashes = 0

LEMMA EverEnqueuedAreSlots == EverEnqueued \subseteq SlotSet
<1>. SUFFICES ASSUME NEW t \in Tables, NEW r \in InitialRows[t] PROVE SlotsOf(r) \subseteq SlotSet
  BY DEF EverEnqueued
<1>1. r \in Rows
  BY InitialRowsAreRows
<1>. QED  BY <1>1, RowSlots

\* Without stops the processes run, and nothing half-fetched is written.
LEMMA StepUndisturbed ==
    ASSUME Calm, TypeInv, Undisturbed, [Next]_vars
    PROVE  /\ Undisturbed'
           /\ \A p \in Procs : Life(p) => Start(p) \/ StartUnreleased(p)
           /\ \A node : ~Exit(node) /\ ~Crash(node)
<1>. USE DEF Undisturbed
<1>1. \A p \in Procs : Life(p) => Start(p) \/ StartUnreleased(p)
  BY DEF Life, Cancel, ReleaseDbLocks, ReleaseFails, Spend, Calm, TypeInv, TypeOK, SpentType
<1>2. \A node : ~Exit(node) /\ ~Crash(node)
  BY DEF Exit, Crash, Spend, Calm, TypeInv, TypeOK, SpentType
<1>3. ASSUME NEW p \in Procs, Start(p) \/ StartUnreleased(p) PROVE Undisturbed'
  BY <1>3 DEF Start, StartUnreleased, TypeInv, TypeOK
<1>4. ASSUME NEW p \in Procs, Getter(p) \/ Distributor(p) \/ Handler(p) \/ Remover(p)
      PROVE  Undisturbed'
  <2>1. UNCHANGED <<ctx, stored>>
    BY <1>4 DEF Getter, Distributor, Handler, Remover, GetterLoop, SelectRow,
                SelectNone, SelectFails, CheckOutRow, CheckOutFails, ReceiveRow,
                ReceiveProcessed, ReportRangeOrder,
                HandOutSlot, CheckKnownGap, WriteKnownGap, RemoveRow, RemoveFails
  <2>. QED  BY <2>1
<1>5. ASSUME NEW w \in Workers, Worker(w) PROVE Undisturbed'
  <2>1. CASE StoreSlot(w)
    <3>1. \A n \in SlotSet : stored'[n] \subseteq {"full", "skipped"}
      BY <2>1, StoresWritten, WrittenKinds DEF TypeInv, TypeOK
    <3>. QED  BY <2>1, <3>1 DEF StoreSlot
  <2>2. CASE GiveUpSlot(w)
    BY <2>2, ProcsAssumption DEF GiveUpSlot, WorkerStep, Alive
  <2>3. CASE SlotFails(w) \/ ReportError(w)
    BY <2>3 DEF SlotFails, ReportError
  <2>. QED  BY <1>5, <2>1, <2>2, <2>3 DEF Worker
<1>6. ASSUME UNCHANGED vars PROVE Undisturbed'
  BY <1>6 DEF vars
<1>7. \/ UNCHANGED vars
      \/ \E p \in Procs : Life(p)
      \/ \E node \in { NodeOf[p] : p \in Procs } : Exit(node) \/ Crash(node)
      \/ \E p \in Procs : Getter(p) \/ Distributor(p) \/ Handler(p) \/ Remover(p)
      \/ \E w \in Workers : Worker(w)
  BY DEF Next
<1>. HIDE DEF Undisturbed
<1>8. Undisturbed'
  BY <1>1, <1>2, <1>3, <1>4, <1>5, <1>6, <1>7
<1>. QED  BY <1>1, <1>2, <1>8

\* What can happen to a worker, a handler, a distributor and to the pollers.
LEMMA StepsOfGoroutines ==
    ASSUME Calm, TypeInv, Undisturbed, [Next]_vars
    PROVE  /\ \A w \in Workers :
                 \/ worker'[w] = worker[w]
                 \/ StoreSlot(w) \/ SlotFails(w) \/ ReportError(w)
                 \/ worker[w].pc = "receive"
           /\ \A p \in Procs :
                 \/ handler'[p] = handler[p]
                 \/ CheckKnownGap(p) \/ WriteKnownGap(p)
                 \/ handler[p].pc = "receive"
           /\ \A p \in Procs :
                 \/ dist'[p] = dist[p]
                 \/ Distributor(p)
           /\ \A p \in Procs :
                 \/ pollers'[p] \subseteq pollers[p]
                 \/ ReceiveProcessed(p)
<1>. USE DEF TypeInv, TypeOK
<1>1. ASSUME NEW p \in Procs, Start(p) \/ StartUnreleased(p)
      PROVE  UNCHANGED <<worker, handler, dist, pollers>>
  BY <1>1 DEF Start, StartUnreleased, goroutines
<1>2. ASSUME NEW p \in Procs, Getter(p)
      PROVE  UNCHANGED <<worker, handler, dist, pollers>>
  BY <1>2 DEF Getter, GetterLoop, SelectRow, SelectNone, SelectFails, CheckOutRow, CheckOutFails
<1>3. ASSUME NEW p \in Procs, Distributor(p)
      PROVE  /\ \A w \in Workers : worker'[w] = worker[w] \/ worker[w].pc = "receive"
             /\ \A q \in Procs : handler'[q] = handler[q] \/ handler[q].pc = "receive"
             /\ \A q \in Procs : q # p => dist'[q] = dist[q] /\ pollers'[q] = pollers[q]
             /\ pollers'[p] \subseteq pollers[p] \/ ReceiveProcessed(p)
  <2>1. CASE ReceiveRow(p)
    BY <2>1 DEF ReceiveRow, DistStep
  <2>2. CASE ReceiveProcessed(p)
    BY <2>2 DEF ReceiveProcessed, DistStep
  <2>3. CASE ReportRangeOrder(p)
    BY <2>3 DEF ReportRangeOrder, DistStep
  <2>4. ASSUME NEW w \in Workers, HandOutSlot(p, w)
        PROVE  /\ \A v \in Workers : worker'[v] = worker[v] \/ worker[v].pc = "receive"
               /\ UNCHANGED <<handler, pollers>>
               /\ \A q \in Procs : q # p => dist'[q] = dist[q]
    BY <2>4 DEF HandOutSlot, DistStep
  <2>. QED  BY <1>3, <2>1, <2>2, <2>3, <2>4 DEF Distributor
<1>4. ASSUME NEW p \in Procs, Handler(p)
      PROVE  /\ UNCHANGED <<worker, dist, pollers>>
             /\ CheckKnownGap(p) \/ WriteKnownGap(p)
             /\ \A q \in Procs : q # p => handler'[q] = handler[q]
  BY <1>4 DEF Handler, CheckKnownGap, WriteKnownGap, HandlerStep
<1>5. ASSUME NEW p \in Procs, Remover(p)
      PROVE  /\ UNCHANGED <<worker, dist, handler>>
             /\ \A q \in Procs : pollers'[q] \subseteq pollers[q]
  BY <1>5 DEF Remover, RemoveRow, RemoveFails
<1>6. ASSUME NEW w \in Workers, Worker(w)
      PROVE  /\ UNCHANGED <<dist, pollers>>
             /\ StoreSlot(w) \/ SlotFails(w) \/ ReportError(w)
             /\ \A v \in Workers : v # w => worker'[v] = worker[v]
             /\ \A q \in Procs : handler'[q] = handler[q] \/ handler[q].pc = "receive"
  <2>1. ~GiveUpSlot(w)
    BY ProcsAssumption DEF GiveUpSlot, WorkerStep, Alive, Undisturbed
  <2>2. CASE StoreSlot(w)
    BY <2>2 DEF StoreSlot, WorkerStep
  <2>3. CASE SlotFails(w)
    BY <2>3 DEF SlotFails, WorkerStep
  <2>4. CASE ReportError(w)
    BY <2>4 DEF ReportError, WorkerStep
  <2>. QED  BY <1>6, <2>1, <2>2, <2>3, <2>4 DEF Worker
<1>7. CASE UNCHANGED vars
  BY <1>7 DEF vars, goroutines
<1>8. \A p \in Procs : Life(p) => Start(p) \/ StartUnreleased(p)
  BY StepUndisturbed
<1>9. \A node : ~Exit(node) /\ ~Crash(node)
  BY StepUndisturbed
<1>10. CASE \E p \in Procs : Start(p) \/ StartUnreleased(p) \/ Getter(p)
  BY <1>1, <1>2, <1>10
<1>11. CASE \E p \in Procs : Distributor(p)
  BY <1>3, <1>11
<1>12. CASE \E p \in Procs : Handler(p)
  BY <1>4, <1>12
<1>13. CASE \E p \in Procs : Remover(p)
  BY <1>5, <1>13
<1>14. CASE \E w \in Workers : Worker(w)
  BY <1>6, <1>14
<1>15. \/ UNCHANGED vars
       \/ \E p \in Procs : Start(p) \/ StartUnreleased(p) \/ Getter(p)
       \/ \E p \in Procs : Distributor(p)
       \/ \E p \in Procs : Handler(p)
       \/ \E p \in Procs : Remover(p)
       \/ \E w \in Workers : Worker(w)
  BY <1>8, <1>9 DEF Next
<1>. QED  BY <1>7, <1>10, <1>11, <1>12, <1>13, <1>14, <1>15

LEMMA WholeStays ==
    ASSUME TypeInv, [Next]_vars, NEW n \in SlotSet, Whole(n)
    PROVE  Whole(n)'
BY StepAdvances DEF TablesAdvance, Whole

LEMMA StaysDelivered ==
    ASSUME Calm, TypeInv, Undisturbed, [Next]_vars, NEW n \in SlotSet, Delivered(n)
    PROVE  Delivered(n)'
<1>. USE DEF TypeInv, TypeOK
<1>1. CASE Whole(n)
  BY <1>1, WholeStays DEF Delivered
<1>2. CASE Exists(KnownGaps, <<n, n>>)
  <2>1. <<n, n>> \in Rows /\ KnownGaps \in Tables
    BY DEF Rows, Tables
  <2>2. Exists(KnownGaps, <<n, n>>)' \/ Processed(n)
    BY <1>2, <2>1, StepAdvances DEF TablesAdvance
  <2>3. Processed(n) => Whole(n)
    BY DEF Processed, Whole, Undisturbed
  <2>. QED  BY <2>2, <2>3, WholeStays DEF Delivered
<1>3. ASSUME NEW w \in Workers, worker[w].pc # "receive", worker[w].slot = n
      PROVE  Delivered(n)'
  <2>1. CASE worker'[w] = worker[w]
    BY <1>3, <2>1 DEF Delivered, InHand
  <2>2. CASE StoreSlot(w)
    <3>1. stored'[n] \in Written(stored[n]) /\ "hollow" \notin stored[n]
      BY <1>3, <2>2 DEF StoreSlot, Undisturbed
    <3>2. Whole(n)'
      BY <3>1, WrittenKinds DEF Whole
    <3>. QED  BY <3>2 DEF Delivered
  <2>3. CASE SlotFails(w)
    <3>1. worker'[w].pc = "error" /\ worker'[w].slot = n
      BY <1>3, <2>3 DEF SlotFails, WorkerStep, WorkerState
    <3>. QED  BY <3>1 DEF Delivered, InHand
  <2>4. CASE ReportError(w)
    <3>1. ProcOf[w] \in Procs /\ handler'[ProcOf[w]] = [pc |-> "error", slot |-> n]
      BY <1>3, <2>4, ProcsAssumption DEF ReportError
    <3>. QED  BY <3>1 DEF Delivered, InHand
  <2>. QED  BY <1>3, <2>1, <2>2, <2>3, <2>4, StepsOfGoroutines
<1>4. ASSUME NEW p \in Procs, handler[p].pc # "receive", handler[p].slot = n
      PROVE  Delivered(n)'
  <2>1. CASE handler'[p] = handler[p]
    BY <1>4, <2>1 DEF Delivered, InHand
  <2>2. CASE CheckKnownGap(p)
    <3>1. CASE Exists(KnownGaps, <<n, n>>)
      BY <3>1, <2>2 DEF CheckKnownGap, Exists, Delivered
    <3>2. CASE ~Exists(KnownGaps, <<n, n>>)
      <4>1. handler'[p] = [handler[p] EXCEPT !.pc = "write"]
        BY <1>4, <2>2, <3>2 DEF CheckKnownGap, HandlerStep
      <4>2. handler'[p].pc = "write" /\ handler'[p].slot = n
        BY <1>4, <4>1 DEF HandlerState
      <4>. QED  BY <4>2 DEF Delivered, InHand
    <3>. QED  BY <3>1, <3>2
  <2>3. CASE WriteKnownGap(p)
    <3>1. <<n, n>> \in Rows
      BY DEF Rows
    <3>2. table' = WithKnownGap(n)
      BY <1>4, <2>3 DEF WriteKnownGap
    <3>3. table'[KnownGaps][<<n, n>>] # Absent
      BY <3>1, <3>2 DEF WithKnownGap, TableType, Tables, Free, Absent
    <3>. QED  BY <3>3 DEF Delivered, Exists
  <2>. QED  BY <1>4, <2>1, <2>2, <2>3, StepsOfGoroutines
<1>. QED  BY <1>1, <1>2, <1>3, <1>4 DEF Delivered, InHand

\* Whatever the distributor has handed out of its row, and all of a row that
\* a poller watches, is delivered.
LEMMA StepHandedOut ==
    ASSUME Calm, TypeInv, Undisturbed, HandedOutIsDelivered, [Next]_vars
    PROVE  HandedOutIsDelivered'
<1>. SUFFICES ASSUME NEW p \in Procs
              PROVE  /\ \A r \in pollers'[p] : \A n \in SlotsOf(r) : Delivered(n)'
                     /\ dist'[p].pc = "processed" =>
                            \A n \in SlotsOf(dist'[p].row) : Delivered(n)'
                     /\ dist'[p].pc = "work" =>
                            \A n \in SlotsOf(dist'[p].row) : n < dist'[p].next => Delivered(n)'
  BY DEF HandedOutIsDelivered, SlotsOf
<1>. USE DEF TypeInv, TypeOK
<1>1. \A n \in SlotSet : Delivered(n) => Delivered(n)'
  BY StaysDelivered
<1>2. dist[p] \in DistState /\ dist[p] \in DistInv /\ pollers[p] \subseteq Rows
  OBVIOUS
<1>3. \A r \in pollers'[p] : \A n \in SlotsOf(r) : Delivered(n)'
  <2>1. CASE pollers'[p] \subseteq pollers[p]
    BY <1>1, <1>2, <2>1, RowSlots DEF HandedOutIsDelivered
  <2>2. CASE ReceiveProcessed(p)
    <3>1. dist[p].pc = "processed" /\ dist[p].row \in Rows
      BY <1>2, <2>2 DEF ReceiveProcessed, DistStep, DistInv
    <3>2. pollers'[p] = pollers[p] \cup {dist[p].row}
      BY <2>2 DEF ReceiveProcessed
    <3>3. \A n \in SlotsOf(dist[p].row) : Delivered(n)'
      BY <1>1, <3>1, RowSlots DEF HandedOutIsDelivered
    <3>4. \A r \in pollers[p] : \A n \in SlotsOf(r) : Delivered(n)'
      BY <1>1, <1>2, RowSlots DEF HandedOutIsDelivered
    <3>. QED  BY <3>2, <3>3, <3>4
  <2>. QED  BY <2>1, <2>2, StepsOfGoroutines
<1>4. CASE dist'[p] = dist[p]
  <2>1. dist[p].pc # "receive" => \A n \in SlotsOf(dist[p].row) : Delivered(n) => Delivered(n)'
    BY <1>1, <1>2, RowSlots DEF DistInv
  <2>. QED  BY <1>3, <1>4, <2>1 DEF HandedOutIsDelivered
<1>5. CASE ReceiveRow(p)
  <2>. DEFINE r == getter[p].row
  <2>1. dist'[p] = [pc |-> IF r[1] > r[2] THEN "startError" ELSE "work", row |-> r, next |-> r[1]]
    BY <1>5 DEF ReceiveRow, DistStep
  <2>2. r \in Rows
    BY <1>5 DEF ReceiveRow, GetterStep, GetterInv
  <2>3. \A n \in SlotsOf(r) : ~ (n < r[1])
    BY <2>2, RowSlots DEF SlotsOf
  <2>. QED  BY <1>3, <2>1, <2>3
<1>6. CASE ReceiveProcessed(p)
  <2>1. dist'[p].pc = "receive"
    BY <1>6 DEF ReceiveProcessed, DistStep, NewDist
  <2>. QED  BY <1>3, <2>1
<1>7. CASE ReportRangeOrder(p)
  <2>1. dist'[p].pc \in {"endError", "receive"}
    BY <1>2, <1>7 DEF ReportRangeOrder, DistStep, NewDist, DistState
  <2>. QED  BY <1>3, <2>1
<1>8. ASSUME NEW w \in Workers, HandOutSlot(p, w)
      PROVE  /\ dist'[p].pc = "processed" =>
                    \A n \in SlotsOf(dist'[p].row) : Delivered(n)'
             /\ dist'[p].pc = "work" =>
                    \A n \in SlotsOf(dist'[p].row) : n < dist'[p].next => Delivered(n)'
  <2>1. PICK n \in SlotSet : n = dist[p].next
    BY <1>2, <1>8, RowSlots DEF HandOutSlot, DistStep, DistInv
  <2>2. PICK r \in Rows : r = dist[p].row /\ n \in SlotsOf(r) /\ dist[p].pc = "work"
    BY <1>2, <1>8, <2>1 DEF HandOutSlot, DistStep, DistInv
  <2>3. worker'[w] = [pc |-> "busy", slot |-> n]
    BY <1>8, <2>1 DEF HandOutSlot
  <2>4. Delivered(n)'
    BY <2>3 DEF Delivered, InHand
  <2>5. \A m \in SlotsOf(r) : m < n => Delivered(m)'
    BY <1>1, <2>1, <2>2, RowSlots DEF HandedOutIsDelivered
  <2>6. /\ dist'[p].row = r
        /\ dist'[p].next = n + 1
        /\ dist'[p].pc = "processed" => n = r[2]
    BY <1>2, <1>8, <2>1, <2>2 DEF HandOutSlot, DistStep, DistState
  <2>7. n \in Nat /\ r[1] \in Nat /\ r[2] \in Nat /\ SlotsOf(r) \subseteq Nat
    BY <2>1, <2>2, RowSlots, RowsAssumption
  <2>8. \A m \in SlotsOf(r) : m < n + 1 => Delivered(m)'
    BY <2>4, <2>5, <2>7
  <2>9. n = r[2] => \A m \in SlotsOf(r) : m < n + 1
    BY <2>7 DEF SlotsOf
  <2>. QED  BY <2>6, <2>8, <2>9
<1>. QED  BY <1>3, <1>4, <1>5, <1>6, <1>7, <1>8, StepsOfGoroutines DEF Distributor

\* A row that is not there any more was watched by a poller.
LEMMA RemovedRowWasPolled ==
    ASSUME Calm, TypeInv, Undisturbed, [Next]_vars,
           NEW t \in Tables, NEW r \in Rows, Exists(t, r), ~Exists(t, r)'
    PROVE  \E p \in Procs : r \in pollers[p]
<1>1. ASSUME NEW p \in Procs, Start(p) \/ StartUnreleased(p) PROVE FALSE
  BY <1>1, IdsAssumption, IdsType
  DEF Start, StartUnreleased, Exists, WithReleased, TypeInv, TypeOK, TableType, Free, Absent
<1>2. ASSUME NEW p \in Procs, Getter(p) PROVE FALSE
  <2>1. CASE CheckOutRow(p)
    BY <2>1, IdsType, IdsAssumption DEF CheckOutRow, Exists, TypeInv, TypeOK, TableType
  <2>. QED  BY <1>2, <2>1
            DEF Getter, GetterLoop, SelectRow, SelectNone, SelectFails, CheckOutFails, Exists
<1>3. ASSUME NEW p \in Procs, Distributor(p) PROVE FALSE
  BY <1>3 DEF Distributor, ReceiveRow, ReceiveProcessed, ReportRangeOrder, HandOutSlot, Exists
<1>4. ASSUME NEW p \in Procs, Handler(p) PROVE FALSE
  <2>1. CASE WriteKnownGap(p)
    BY <2>1 DEF WriteKnownGap, WithKnownGap, Exists, TypeInv, TypeOK, TableType
  <2>. QED  BY <1>4, <2>1 DEF Handler, CheckKnownGap, Exists
<1>5. ASSUME NEW p \in Procs, NEW q \in Rows, RemoveRow(p, q) PROVE r \in pollers[p]
  BY <1>5 DEF RemoveRow, Exists, TypeInv, TypeOK, TableType
<1>6. ASSUME NEW p \in Procs, NEW q \in Rows, RemoveFails(p, q) PROVE FALSE
  BY <1>6 DEF RemoveFails, Exists
<1>7. ASSUME NEW w \in Workers, Worker(w) PROVE FALSE
  BY <1>7 DEF Worker, StoreSlot, GiveUpSlot, SlotFails, ReportError, Exists
<1>8. ASSUME UNCHANGED vars PROVE FALSE
  BY <1>8 DEF vars, Exists
<1>9. /\ \A p \in Procs : Life(p) => Start(p) \/ StartUnreleased(p)
      /\ \A node : ~Exit(node) /\ ~Crash(node)
  BY StepUndisturbed
<1>. QED  BY <1>1, <1>2, <1>3, <1>4, <1>5, <1>6, <1>7, <1>8, <1>9 DEF Next, Remover

LEMMA StepNothingForgotten ==
    ASSUME Calm, PipelineInv, [Next]_vars
    PROVE  NothingForgotten'
<1>. SUFFICES ASSUME NEW n \in EverEnqueued
              PROVE  Whole(n)' \/ Enqueued(n)' \/ InHand(n)'
  BY DEF NothingForgotten
<1>. USE DEF PipelineInv
<1>1. n \in SlotSet /\ <<n, n>> \in Rows /\ KnownGaps \in Tables
  BY EverEnqueuedAreSlots DEF Rows, Tables
<1>2. n \in SlotsOf(<<n, n>>)
  BY <1>1, RowsAssumption DEF SlotsOf
<1>3. ASSUME Delivered(n)' PROVE Whole(n)' \/ Enqueued(n)' \/ InHand(n)'
  BY <1>1, <1>2, <1>3 DEF Delivered, Enqueued
<1>4. CASE Delivered(n)
  BY <1>1, <1>3, <1>4, StaysDelivered
<1>5. ASSUME NEW t \in Tables, NEW r \in Rows, Exists(t, r), n \in SlotsOf(r)
      PROVE  Whole(n)' \/ Enqueued(n)' \/ InHand(n)'
  <2>1. CASE Exists(t, r)'
    BY <1>5, <2>1 DEF Enqueued
  <2>2. CASE ~Exists(t, r)'
    <3>1. Delivered(n)
      BY <1>5, <2>2, RemovedRowWasPolled DEF HandedOutIsDelivered
    <3>. QED  BY <1>4, <3>1
  <2>. QED  BY <2>1, <2>2
<1>6. Whole(n) \/ Enqueued(n) \/ InHand(n)
  BY DEF NothingForgotten
<1>. QED  BY <1>4, <1>5, <1>6 DEF Delivered, Enqueued

LEMMA InitPipeline == Init => PipelineInv
<1>. SUFFICES ASSUME Init PROVE PipelineInv
  OBVIOUS
<1>1. Undisturbed
  BY DEF Init, Undisturbed
<1>2. HandedOutIsDelivered
  BY DEF Init, HandedOutIsDelivered, NewDist
<1>3. ASSUME NEW n \in EverEnqueued PROVE Enqueued(n)
  <2>1. PICK t \in Tables : \E r \in InitialRows[t] : n \in SlotsOf(r)
    BY DEF EverEnqueued
  <2>2. PICK r \in InitialRows[t] : n \in SlotsOf(r)
    BY <2>1
  <2>3. r \in Rows
    BY InitialRowsAreRows
  <2>4. Exists(t, r)
    BY <2>3 DEF Init, Exists, Free, Absent
  <2>. QED  BY <2>2, <2>3, <2>4 DEF Enqueued
<1>. QED  BY <1>1, <1>2, <1>3, InitType DEF PipelineInv, NothingForgotten

\* While nothing stops or dies, however many applications, workers, rows and
\* failing requests or statements there are, every slot that was enqueued is
\* stored, in a row of a table, or in the hands of a worker or of an error
\* handler (handleBatchProcess with removeRowPostProcess and
\* handleProcessingErrors).
THEOREM NoSlotIsForgotten == ASSUME Calm PROVE Spec => []NothingForgotten
<1>1. PipelineInv /\ [Next]_vars => PipelineInv'
  BY StepType, StepUndisturbed, StepHandedOut, StepNothingForgotten DEF PipelineInv
<1>2. PipelineInv => NothingForgotten
  BY DEF PipelineInv
<1>. QED  BY <1>1, <1>2, InitPipeline, PTL DEF Spec

-----------------------------------------------------------------------------
(***************************************************************************)
(* The row locks: a row that is checked out is in the hands of the process *)
(* that checked it out.                                                    *)
(*                                                                         *)
(* Four things would leave a row locked with nobody at work on it, and the *)
(* theorem names them: two applications with one identifier (the help text *)
(* of the flag asks for a unique one), a row whose end is before its start *)
(* (the distributor reports it and drops it), a statement of the remover   *)
(* that fails (its error goes to a channel that nobody reads), and a       *)
(* release that fails at a start (it is logged, and the goroutines are     *)
(* started).  A release that fails at a stop does not: the next start      *)
(* makes up for it.                                                        *)
(***************************************************************************)

InOrder(r) == r[1] <= r[2]

\* No two processes of one table share an identifier.
UniqueIds ==
    \A p, q \in Procs : TableOf[p] = TableOf[q] /\ IdOf[p] = IdOf[q] => p = q

InitialRowsInOrder == \A t \in Tables : \A r \in InitialRows[t] : InOrder(r)

\* The distributor never meets an inverted row: there is none to check out.
RowsInOrder ==
    /\ \A t \in Tables, r \in Rows : Exists(t, r) => InOrder(r)
    /\ \A p \in Procs : /\ getter[p].pc = "send" => InOrder(getter[p].row)
                        /\ dist[p].pc \notin {"startError", "endError"}

LockInv == TypeInv /\ RowsInOrder /\ NoRowLeftBehind

RemoverFails == \E p \in Procs, r \in Rows : RemoveFails(p, r)
StartFails   == \E p \in Procs : StartUnreleased(p)

\* A row that a process has checked out, in the table it works on.
Locks(p, r) == table[TableOf[p]][r] = IdOf[p]

LEMMA InitLocks == ASSUME InitialRowsInOrder PROVE Init => LockInv
<1>. SUFFICES ASSUME Init PROVE LockInv
  OBVIOUS
<1>1. RowsInOrder
  BY DEF Init, RowsInOrder, InitialRowsInOrder, Exists, NewGetter, NewDist
<1>2. NoRowLeftBehind
  BY DEF Init, NoRowLeftBehind
<1>. QED  BY <1>1, <1>2, InitType DEF LockInv

\* What each step does to the tables: rows are added by writeKnownGaps only,
\* and there with equal ends.
LEMMA NewRowsInOrder ==
    ASSUME TypeInv, [Next]_vars, NEW t \in Tables, NEW r \in Rows, Exists(t, r)', ~Exists(t, r)
    PROVE  InOrder(r)
<1>. USE DEF TypeInv, TypeOK, TableType, Exists
<1>1. ASSUME NEW p \in Procs, table' = WithReleased(p) PROVE FALSE
  BY <1>1, IdsType, IdsAssumption DEF WithReleased
<1>2. ASSUME NEW p \in Procs, Getter(p) PROVE FALSE
  <2>1. CASE CheckOutRow(p)
    BY <2>1, IdsType DEF CheckOutRow
  <2>. QED  BY <1>2, <2>1
            DEF Getter, GetterLoop, SelectRow, SelectNone, SelectFails, CheckOutFails
<1>3. ASSUME NEW p \in Procs, Distributor(p) PROVE FALSE
  BY <1>3 DEF Distributor, ReceiveRow, ReceiveProcessed, ReportRangeOrder, HandOutSlot
<1>4. ASSUME NEW p \in Procs, Handler(p) PROVE InOrder(r)
  <2>1. CASE WriteKnownGap(p)
    <3>1. r = <<handler[p].slot, handler[p].slot>>
      BY <2>1 DEF WriteKnownGap, WithKnownGap, Tables
    <3>. QED  BY <3>1, RowSlots DEF InOrder
  <2>. QED  BY <1>4, <2>1 DEF Handler, CheckKnownGap
<1>5. ASSUME NEW p \in Procs, Remover(p) PROVE FALSE
  BY <1>5, IdsType DEF Remover, RemoveRow, RemoveFails
<1>6. ASSUME NEW w \in Workers, Worker(w) PROVE FALSE
  BY <1>6 DEF Worker, StoreSlot, GiveUpSlot, SlotFails, ReportError
<1>7. ASSUME UNCHANGED table PROVE FALSE
  BY <1>7
<1>. QED  BY <1>1, <1>2, <1>3, <1>4, <1>5, <1>6, <1>7
          DEF Next, Life, Start, StartUnreleased, Cancel, ReleaseDbLocks, ReleaseFails,
              Exit, Crash, Lose, vars

\* Only an application's end, a getter and a distributor change the state of
\* a getter or a distributor.
LEMMA GoroutinesOfOthers ==
    ASSUME TypeInv, [Next]_vars, NEW p \in Procs
    PROVE  \/ getter'[p] = NewGetter /\ dist'[p] = NewDist /\ ctx'[p] = "down"
           \/ Getter(p)
           \/ Distributor(p)
           \/ UNCHANGED <<getter[p], dist[p]>>
<1>. USE DEF TypeInv, TypeOK
<1>1. ASSUME NEW q \in Procs, Life(q) PROVE UNCHANGED <<getter[p], dist[p]>>
  BY <1>1 DEF Life, Start, StartUnreleased, Cancel, ReleaseDbLocks, ReleaseFails, goroutines
<1>2. ASSUME NEW node, Exit(node) \/ Crash(node)
      PROVE  \/ getter'[p] = NewGetter /\ dist'[p] = NewDist /\ ctx'[p] = "down"
             \/ UNCHANGED <<getter[p], dist[p]>>
  BY <1>2 DEF Exit, Crash, Lose
<1>3. ASSUME NEW q \in Procs, Getter(q), q # p PROVE UNCHANGED <<getter[p], dist[p]>>
  BY <1>3 DEF Getter, GetterLoop, SelectRow, SelectNone, SelectFails, CheckOutRow,
     CheckOutFails, GetterStep
<1>4. ASSUME NEW q \in Procs, Distributor(q), q # p PROVE UNCHANGED <<getter[p], dist[p]>>
  BY <1>4 DEF Distributor, ReceiveRow, ReceiveProcessed, ReportRangeOrder, HandOutSlot,
     GetterStep, DistStep
<1>5. ASSUME NEW q \in Procs, Handler(q) \/ Remover(q) PROVE UNCHANGED <<getter[p], dist[p]>>
  BY <1>5 DEF Handler, CheckKnownGap, WriteKnownGap, Remover, RemoveRow, RemoveFails
<1>6. ASSUME NEW w \in Workers, Worker(w) PROVE UNCHANGED <<getter[p], dist[p]>>
  BY <1>6 DEF Worker, StoreSlot, GiveUpSlot, SlotFails, ReportError
<1>7. CASE UNCHANGED vars
  BY <1>7 DEF vars, goroutines
<1>. QED  BY <1>1, <1>2, <1>3, <1>4, <1>5, <1>6, <1>7 DEF Next

LEMMA StepInOrder ==
    ASSUME TypeInv, RowsInOrder, [Next]_vars
    PROVE  RowsInOrder'
<1>. USE DEF RowsInOrder
<1>1. ASSUME NEW t \in Tables, NEW r \in Rows, Exists(t, r)' PROVE InOrder(r)
  BY <1>1, NewRowsInOrder
<1>2. ASSUME NEW p \in Procs
      PROVE  /\ getter'[p].pc = "send" => InOrder(getter'[p].row)
             /\ dist'[p].pc \notin {"startError", "endError"}
  <2>0. getter \in [Procs -> GetterInv] /\ dist \in [Procs -> DistState]
        /\ getter[p] \in GetterInv /\ getter[p] \in GetterState /\ dist[p] \in DistState
    BY DEF TypeInv, TypeOK
  <2>1. CASE getter'[p] = NewGetter /\ dist'[p] = NewDist
    BY <2>1 DEF NewGetter, NewDist
  <2>2. CASE Getter(p)
    <3>1. CASE CheckOutRow(p)
      <4>1. getter[p].row \in Rows /\ TableOf[p] \in Tables
        BY <2>0, <3>1, IdsType DEF CheckOutRow, GetterStep, GetterInv
      <4>2. getter'[p].row = getter[p].row /\ dist'[p] = dist[p]
        BY <2>0, <3>1 DEF CheckOutRow, GetterStep, GetterState
      <4>3. InOrder(getter[p].row)
        BY <3>1, <4>1 DEF CheckOutRow
      <4>. QED  BY <4>2, <4>3
    <3>2. CASE ~CheckOutRow(p)
      <4>1. dist' = dist /\ getter'[p].pc # "send"
        BY <2>0, <2>2, <3>2 DEF Getter, GetterLoop, SelectRow, SelectNone, SelectFails,
           CheckOutFails, GetterStep, GetterState
      <4>. QED  BY <4>1
    <3>. QED  BY <3>1, <3>2
  <2>3. CASE Distributor(p)
    <3>1. CASE ReceiveRow(p)
      <4>1. getter'[p].pc = "top"
        BY <2>0, <3>1 DEF ReceiveRow, GetterStep, GetterState
      <4>2. getter[p].row \in Rows /\ InOrder(getter[p].row)
        BY <2>0, <3>1 DEF ReceiveRow, GetterStep, GetterInv
      <4>3. dist'[p].pc = "work"
        BY <2>0, <3>1, <4>2, RowSlots DEF ReceiveRow, DistStep, InOrder
      <4>. QED  BY <4>1, <4>3
    <3>2. CASE ReceiveProcessed(p)
      <4>1. getter' = getter /\ dist'[p] = NewDist
        BY <2>0, <3>2 DEF ReceiveProcessed, DistStep
      <4>. QED  BY <4>1 DEF NewDist
    <3>3. ASSUME NEW w \in Workers, HandOutSlot(p, w)
          PROVE  getter' = getter /\ dist'[p].pc \in {"processed", "work"}
      BY <2>0, <3>3 DEF HandOutSlot, DistStep, DistState
    <3>4. ~ReportRangeOrder(p)
      BY DEF ReportRangeOrder, DistStep
    <3>. QED  BY <2>3, <3>1, <3>2, <3>3, <3>4 DEF Distributor
  <2>4. CASE UNCHANGED <<getter[p], dist[p]>>
    BY <2>4
  <2>5. \/ getter'[p] = NewGetter /\ dist'[p] = NewDist
        \/ Getter(p) \/ Distributor(p) \/ UNCHANGED <<getter[p], dist[p]>>
    BY GoroutinesOfOthers
  <2>. QED  BY <2>1, <2>2, <2>3, <2>4, <2>5
<1>. QED  BY <1>1, <1>2

\* A row comes to be checked out by a process only in its getter's UPDATE.
LEMMA LockIsOldOrNew ==
    ASSUME UniqueIds, TypeInv, [Next]_vars, ~StartFails,
           NEW p \in Procs, NEW r \in Rows, ctx'[p] = "run", Locks(p, r)'
    PROVE  \/ ctx[p] = "run" /\ Locks(p, r)
           \/ CheckOutRow(p) /\ r = getter[p].row
<1>. USE DEF TypeInv, TypeOK, TableType, Locks
<1>0. TableOf[p] \in Tables /\ IdOf[p] \in Ids /\ IdOf[p] # Absent /\ IdOf[p] # Free
  BY IdsType, IdsAssumption
<1>1. ASSUME NEW q \in Procs, table' = WithReleased(q) PROVE Locks(p, r) /\ q # p
  BY <1>0, <1>1, IdsType, IdsAssumption DEF WithReleased
<1>2. ASSUME NEW q \in Procs, CheckOutRow(q), ~Locks(p, r)
      PROVE  CheckOutRow(p) /\ r = getter[p].row
  <2>1. TableOf[q] = TableOf[p] /\ IdOf[q] = IdOf[p] /\ r = getter[q].row
    BY <1>0, <1>2, IdsType DEF CheckOutRow
  <2>2. q = p
    BY <2>1 DEF UniqueIds
  <2>. QED  BY <1>2, <2>1, <2>2
<1>3. ASSUME NEW q \in Procs, WriteKnownGap(q) PROVE Locks(p, r)
  BY <1>0, <1>3 DEF WriteKnownGap, WithKnownGap
<1>4. ASSUME NEW q \in Procs, NEW s \in Rows, RemoveRow(q, s) PROVE Locks(p, r)
  BY <1>0, <1>4, IdsType DEF RemoveRow
<1>5. ASSUME NEW q \in Procs, Start(q) \/ ReleaseDbLocks(q)
      PROVE  ctx[p] = "run" /\ Locks(p, r)
  BY <1>1, <1>5 DEF Start, ReleaseDbLocks
<1>6. ASSUME NEW q \in Procs, Cancel(q) \/ ReleaseFails(q)
      PROVE  ctx[p] = "run" /\ Locks(p, r)
  BY <1>6 DEF Cancel, ReleaseFails
<1>7. ASSUME NEW node, Exit(node) \/ Crash(node) PROVE ctx[p] = "run" /\ Locks(p, r)
  BY <1>7 DEF Exit, Crash, Lose
<1>8. ASSUME NEW q \in Procs, Getter(q) \/ Distributor(q) \/ Handler(q) \/ Remover(q)
      PROVE  /\ ctx[p] = "run"
             /\ \/ Locks(p, r)
                \/ CheckOutRow(p) /\ r = getter[p].row
  <2>1. CASE Getter(q)
    BY <1>2, <2>1 DEF Getter, GetterLoop, SelectRow, SelectNone, SelectFails, CheckOutRow,
       CheckOutFails
  <2>2. CASE Distributor(q)
    BY <2>2 DEF Distributor, ReceiveRow, ReceiveProcessed, ReportRangeOrder, HandOutSlot
  <2>3. CASE Handler(q)
    BY <1>3, <2>3 DEF Handler, CheckKnownGap, WriteKnownGap
  <2>4. CASE Remover(q)
    BY <1>4, <2>4 DEF Remover, RemoveRow, RemoveFails
  <2>. QED  BY <1>8, <2>1, <2>2, <2>3, <2>4
<1>9. ASSUME NEW w \in Workers, Worker(w) PROVE ctx[p] = "run" /\ Locks(p, r)
  BY <1>9 DEF Worker, StoreSlot, GiveUpSlot, SlotFails, ReportError
<1>10. CASE UNCHANGED vars
  BY <1>10 DEF vars
<1>. QED  BY <1>5, <1>6, <1>7, <1>8, <1>9, <1>10 DEF Next, Life, StartFails

\* A process keeps a row in hand, from the getter to the distributor and to a
\* poller, until the poller deletes it.
LEMMA HeldUntilRemoved ==
    ASSUME TypeInv, RowsInOrder, [Next]_vars, ~RemoverFails,
           NEW p \in Procs, NEW r \in Holds(p), ctx'[p] = "run"
    PROVE  r \in Holds(p)' \/ RemoveRow(p, r)
<1>. USE DEF TypeInv, TypeOK, Holds
<1>0. /\ getter[p] \in GetterState /\ dist[p] \in DistState
      /\ DOMAIN getter = Procs /\ DOMAIN dist = Procs /\ DOMAIN pollers = Procs
      /\ r \in Rows
  OBVIOUS
<1>1. ASSUME UNCHANGED <<getter[p], dist[p], pollers[p]>> PROVE r \in Holds(p)'
  BY <1>1
<1>2. ASSUME NEW q \in Procs, Life(q) PROVE r \in Holds(p)'
  BY <1>2 DEF Life, Start, StartUnreleased, Cancel, ReleaseDbLocks, ReleaseFails, goroutines
<1>3. ASSUME NEW node, Exit(node) \/ Crash(node) PROVE r \in Holds(p)'
  BY <1>1, <1>3 DEF Exit, Crash, Lose
<1>4. ASSUME NEW q \in Procs, Getter(q) PROVE r \in Holds(p)'
  <2>1. dist' = dist /\ pollers' = pollers
    BY <1>4 DEF Getter, GetterLoop, SelectRow, SelectNone, SelectFails, CheckOutRow, CheckOutFails
  <2>2. getter'[p] = getter[p] \/ getter[p].pc # "send"
    BY <1>0, <1>4 DEF Getter, GetterLoop, SelectRow, SelectNone, SelectFails, CheckOutRow,
       CheckOutFails, GetterStep
  <2>. QED  BY <2>1, <2>2
<1>5. ASSUME NEW q \in Procs, Distributor(q) PROVE r \in Holds(p)'
  <2>1. CASE ReceiveRow(q)
    <3>1. q # p => UNCHANGED <<getter[p], dist[p], pollers[p]>>
      BY <1>0, <2>1 DEF ReceiveRow, GetterStep, DistStep
    <3>2. CASE q = p
      <4>1. /\ dist[p].pc = "receive" /\ pollers' = pollers
            /\ dist'[p].pc # "receive" /\ dist'[p].row = getter[p].row
        BY <1>0, <2>1, <3>2 DEF ReceiveRow, DistStep
      <4>. QED  BY <4>1
    <3>. QED  BY <1>1, <3>1, <3>2
  <2>2. CASE ReceiveProcessed(q)
    <3>1. q # p => UNCHANGED <<getter[p], dist[p], pollers[p]>>
      BY <1>0, <2>2 DEF ReceiveProcessed, DistStep
    <3>2. CASE q = p
      <4>1. getter' = getter /\ pollers'[p] = pollers[p] \cup {dist[p].row}
        BY <1>0, <2>2, <3>2 DEF ReceiveProcessed
      <4>. QED  BY <1>0, <4>1
    <3>. QED  BY <1>1, <3>1, <3>2
  <2>3. ~ReportRangeOrder(q)
    BY DEF RowsInOrder, ReportRangeOrder, DistStep
  <2>4. ASSUME NEW w \in Workers, HandOutSlot(q, w) PROVE r \in Holds(p)'
    <3>1. getter' = getter /\ pollers' = pollers
      BY <2>4 DEF HandOutSlot
    <3>2. dist'[p] = dist[p] \/ (dist'[p].pc # "receive" /\ dist'[p].row = dist[p].row)
      BY <1>0, <2>4 DEF HandOutSlot, DistStep, DistState
    <3>. QED  BY <3>1, <3>2
  <2>. QED  BY <1>5, <2>1, <2>2, <2>3, <2>4 DEF Distributor
<1>6. ASSUME NEW q \in Procs, Handler(q) PROVE r \in Holds(p)'
  BY <1>1, <1>6 DEF Handler, CheckKnownGap, WriteKnownGap
<1>7. ASSUME NEW q \in Procs, Remover(q) PROVE r \in Holds(p)' \/ RemoveRow(p, r)
  <2>1. PICK s \in Rows : RemoveRow(q, s)
    BY <1>7 DEF Remover, RemoverFails
  <2>2. getter' = getter /\ dist' = dist /\ pollers' = [pollers EXCEPT ![q] = @ \ {s}]
    BY <2>1 DEF RemoveRow
  <2>. QED  BY <1>0, <2>1, <2>2
<1>8. ASSUME NEW w \in Workers, Worker(w) PROVE r \in Holds(p)'
  BY <1>1, <1>8 DEF Worker, StoreSlot, GiveUpSlot, SlotFails, ReportError
<1>9. CASE UNCHANGED vars
  BY <1>1, <1>9 DEF vars, goroutines
<1>. QED  BY <1>2, <1>3, <1>4, <1>5, <1>6, <1>7, <1>8, <1>9 DEF Next

LEMMA StepLocks ==
    ASSUME UniqueIds
    PROVE  LockInv /\ [Next]_vars /\ [~RemoverFails]_vars /\ [~StartFails]_vars => LockInv'
<1>. SUFFICES ASSUME LockInv, [Next]_vars, [~RemoverFails]_vars, [~StartFails]_vars
              PROVE  LockInv'
  OBVIOUS
<1>. USE DEF LockInv
<1>0. TypeInv' /\ RowsInOrder'
  BY StepType, StepInOrder
<1>1. CASE UNCHANGED vars
  <2>1. NoRowLeftBehind'
    BY <1>1 DEF NoRowLeftBehind, Holds, vars, goroutines
  <2>. QED  BY <1>0, <2>1
<1>2. ASSUME ~RemoverFails, ~StartFails, NEW p \in Procs, NEW r \in Rows, ctx'[p] = "run", Locks(p, r)'
      PROVE  r \in Holds(p)'
  <2>1. CASE ctx[p] = "run" /\ Locks(p, r)
    <3>1. r \in Holds(p)
      BY <2>1 DEF NoRowLeftBehind, Locks
    <3>2. ~RemoveRow(p, r)
      BY <1>2, IdsType, IdsAssumption DEF RemoveRow, Locks, TypeInv, TypeOK, TableType
    <3>. QED  BY <1>2, <3>1, <3>2, HeldUntilRemoved
  <2>2. CASE CheckOutRow(p) /\ r = getter[p].row
    BY <2>2 DEF CheckOutRow, GetterStep, Holds, TypeInv, TypeOK, GetterState
  <2>. QED  BY <1>2, <2>1, <2>2, LockIsOldOrNew
<1>. QED  BY <1>0, <1>1, <1>2 DEF NoRowLeftBehind, Locks

\* While a process is not stopping, a row its identifier has checked out is
\* held by its getter, its distributor or a poller: with unique identifiers,
\* rows that are not inverted, a remover whose statements succeed and a release
\* at the start that succeeds; other requests and statements, the release at
\* the stop among them, may fail, and any application may stop or die.
THEOREM RowsAreNotLeftBehind ==
    ASSUME UniqueIds, InitialRowsInOrder
    PROVE  Spec /\ [][~RemoverFails]_vars /\ [][~StartFails]_vars => []NoRowLeftBehind
<1>1. LockInv => NoRowLeftBehind
  BY DEF LockInv
<1>. QED  BY <1>1, InitLocks, StepLocks, PTL DEF Spec

=============================================================================
