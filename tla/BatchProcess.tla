----------------------------- MODULE BatchProcess -----------------------------
(***************************************************************************)
(* Historic and known-gaps processing: handleBatchProcess of               *)
(* pkg/beaconclient/capturehistoric.go with the two implementations of     *)
(* BatchProcessing, HistoricProcessing and KnownGapsProcessing.            *)
(*                                                                         *)
(* One process per pair of an application (node) and a table.  In each, a  *)
(* getter checks rows out of its table, a distributor hands their slots to *)
(* workers one by one, a remover starts for each distributed row a poller  *)
(* that deletes it when its end slots are stored, and an error handler     *)
(* writes the slots that failed to known_gaps.  The channels between them  *)
(* are unbuffered: a send and its receive are one action.  A goroutine     *)
(* that may return on ctx.Done() is one that need not take another step    *)
(* once the context is cancelled.                                          *)
(*                                                                         *)
(* A table row is <<start_slot, end_slot>>; its value tells whether it is  *)
(* there, and which identifier has it checked out (checked_out and         *)
(* checked_out_by are always written together).                            *)
(***************************************************************************)
EXTENDS Integers, FiniteSets

CONSTANTS
    Procs,        \* the batch processes of all the applications
    NodeOf,       \* the application a process belongs to
    TableOf,      \* the table it works on
    IdOf,         \* the application's uniqueNodeIdentifier
    Workers,      \* the worker goroutines of all the processes
    ProcOf,       \* the process a worker belongs to
    SlotSet,      \* the slots that exist
    InitialRows,  \* the rows of each table at the start
    MinimumSlot,  \* bc.minimumSlot, kg.minimumSlot
    ErrLimit,     \* errors after which a getter gives up, 5 in the code
    MaxFaults, MaxStops, MaxCrashes   \* bounds

Historic  == "historic_process"
KnownGaps == "known_gaps"
Tables    == {Historic, KnownGaps}

ASSUME ProcsAssumption ==
    /\ TableOf \in [Procs -> Tables]
    /\ DOMAIN NodeOf = Procs
    /\ DOMAIN IdOf = Procs
    /\ ProcOf \in [Workers -> Procs]

ASSUME RowsAssumption ==
    /\ SlotSet \subseteq Nat
    /\ \A a, b \in SlotSet : a .. b \subseteq SlotSet
    /\ InitialRows \in [Tables -> SUBSET (SlotSet \X SlotSet)]

ASSUME BoundsAssumption ==
    /\ MinimumSlot \in Nat
    /\ ErrLimit \in Nat \ {0}
    /\ {MaxFaults, MaxStops, MaxCrashes} \subseteq Nat

Rows == SlotSet \X SlotSet

\* A row of a table is absent, free, or checked out by an identifier.
Absent  == "absent"
Free    == "free"
Ids     == { IdOf[p] : p \in Procs }

ASSUME IdsAssumption == Absent \notin Ids /\ Free \notin Ids

\* What the slots table and its companions hold for a slot: the block and the
\* state, the note that it was skipped, or a row without either.
Kinds == {"full", "skipped", "hollow"}

NoSlot == 0
NoRange == <<NoSlot, NoSlot>>

VARIABLES
    table,    \* the rows of historic_process and known_gaps
    stored,   \* the kinds of eth_beacon.slots rows of each slot
    ctx,      \* each process: down, run, cancelled, released
    getter,   \* getBatchProcessRow
    dist,     \* the distributor
    worker,   \* processSlotRangeWorker
    handler,  \* handleProcessingErrors
    pollers,  \* the rows that goroutines of removeRowPostProcess poll for
    spent     \* how much of each bound is used up

goroutines == <<getter, dist, worker, handler, pollers>>
vars == <<table, stored, ctx, goroutines, spent>>

NewGetter  == [pc |-> "top", row |-> NoRange, errs |-> 0]
NewDist    == [pc |-> "receive", row |-> NoRange, next |-> NoSlot]
NewWorker  == [pc |-> "receive", slot |-> NoSlot]
NewHandler == [pc |-> "receive", slot |-> NoSlot]

Spend(bound, max) ==
    /\ spent[bound] < max
    /\ spent' = [spent EXCEPT ![bound] = @ + 1]

-----------------------------------------------------------------------------

Processed(n) == stored[n] # {}             \* isSlotProcessed
Exists(t, r) == table[t][r] # Absent
Alive(p) == ctx[p] # "down"

\* The rows that getHpEntryStmt and getKgEntryStmt select from.
Selectable(t) == { r \in Rows : table[t][r] = Free /\ r[2] >= MinimumSlot }

\* INSERT INTO eth_beacon.known_gaps ... ON CONFLICT DO NOTHING.
WithKnownGap(n) ==
    [table EXCEPT ![KnownGaps][<<n, n>>] = IF @ = Absent THEN Free ELSE @]

\* A slip: the rows of the others are released instead of one's own.
WithReleasedOthers(p) ==
    [table EXCEPT ![TableOf[p]] =
        [r \in Rows |-> IF @[r] \in Ids \ {IdOf[p]} THEN Free ELSE @[r]]]

\* releaseDbLocks: whatever this identifier has checked out is free again.
WithReleased(p) ==
    [table EXCEPT ![TableOf[p]] =
        [r \in Rows |-> IF @[r] = IdOf[p] THEN Free ELSE @[r]]]

-----------------------------------------------------------------------------

Init ==
    /\ table = [t \in Tables |-> [r \in Rows |-> IF r \in InitialRows[t] THEN Free ELSE Absent]]
    /\ stored = [n \in SlotSet |-> {}]
    /\ ctx = [p \in Procs |-> "down"]
    /\ getter = [p \in Procs |-> NewGetter]
    /\ dist = [p \in Procs |-> NewDist]
    /\ worker = [w \in Workers |-> NewWorker]
    /\ handler = [p \in Procs |-> NewHandler]
    /\ pollers = [p \in Procs |-> {}]
    /\ spent = [bound \in {"faults", "stops", "crashes"} |-> 0]

\* A slip: the goroutines are started without releasing anything first.
StartWithoutRelease(p) ==
    /\ ctx[p] = "down"
    /\ ctx' = [ctx EXCEPT ![p] = "run"]
    /\ UNCHANGED <<table, stored, goroutines, spent>>

\* handleBatchProcess: release what an earlier run left checked out, then
\* start the goroutines.
Start(p) ==
    /\ ctx[p] = "down"
    /\ ctx' = [ctx EXCEPT ![p] = "run"]
    /\ table' = WithReleased(p)
    /\ UNCHANGED <<stored, goroutines, spent>>

\* The release fails, which is only logged: the goroutines are started with
\* the rows of an earlier run still checked out.
StartUnreleased(p) ==
    /\ ctx[p] = "down"
    /\ Spend("faults", MaxFaults)
    /\ ctx' = [ctx EXCEPT ![p] = "run"]
    /\ UNCHANGED <<table, stored, goroutines>>

\* StopHistoric, StopKnownGapsProcessing: cancel the context ...
Cancel(p) ==
    /\ ctx[p] = "run"
    /\ Spend("stops", MaxStops)
    /\ ctx' = [ctx EXCEPT ![p] = "cancelled"]
    /\ UNCHANGED <<table, stored, goroutines>>

\* ... then release the rows, without waiting for the goroutines.
ReleaseDbLocks(p) ==
    /\ ctx[p] = "cancelled"
    /\ ctx' = [ctx EXCEPT ![p] = "released"]
    /\ table' = WithReleased(p)
    /\ UNCHANGED <<stored, goroutines, spent>>

\* ... which may fail as well ("Manual Intervention is needed!"): the stop goes
\* on with the rows checked out.
ReleaseFails(p) ==
    /\ ctx[p] = "cancelled"
    /\ ctx' = [ctx EXCEPT ![p] = "released"]
    /\ UNCHANGED <<table, stored, goroutines, spent>>

\* The memory of the node's processes is lost.
Lose(node) ==
    LET gone(p) == NodeOf[p] = node
    IN  /\ ctx' = [p \in Procs |-> IF gone(p) THEN "down" ELSE ctx[p]]
        /\ getter' = [p \in Procs |-> IF gone(p) THEN NewGetter ELSE getter[p]]
        /\ dist' = [p \in Procs |-> IF gone(p) THEN NewDist ELSE dist[p]]
        /\ worker' = [w \in Workers |-> IF gone(ProcOf[w]) THEN NewWorker ELSE worker[w]]
        /\ handler' = [p \in Procs |-> IF gone(p) THEN NewHandler ELSE handler[p]]
        /\ pollers' = [p \in Procs |-> IF gone(p) THEN {} ELSE pollers[p]]
        /\ UNCHANGED <<table, stored>>

\* The application exits once its processes are stopped, or dies.
Exit(node) ==
    /\ \E p \in Procs : NodeOf[p] = node /\ ctx[p] = "released"
    /\ \A p \in Procs : NodeOf[p] = node => ctx[p] \in {"released", "down"}
    /\ Lose(node)
    /\ UNCHANGED spent

Crash(node) ==
    /\ \E p \in Procs : NodeOf[p] = node /\ Alive(p)
    /\ Spend("crashes", MaxCrashes)
    /\ Lose(node)

-----------------------------------------------------------------------------
(* getBatchProcessRow *)

GetterStep(p, from, g) ==
    /\ Alive(p)
    /\ getter[p].pc = from
    /\ getter' = [getter EXCEPT ![p] = g]

\* for len(errCount) < 5, and the test of the context.
GetterLoop(p) ==
    /\ GetterStep(p, "top",
           [getter[p] EXCEPT !.pc =
               IF getter[p].errs < ErrLimit /\ ctx[p] = "run" THEN "select" ELSE "done"])
    /\ UNCHANGED <<table, stored, ctx, dist, worker, handler, pollers, spent>>

\* There is a row and it is read.  Priorities are left out: any may be next.
SelectRow(p) ==
    /\ \E r \in Selectable(TableOf[p]) :
           GetterStep(p, "select", [getter[p] EXCEPT !.pc = "checkout", !.row = r])
    /\ UNCHANGED <<table, stored, ctx, dist, worker, handler, pollers, spent>>

\* A slip: without a row the getter returns.
SelectNoneReturns(p) ==
    /\ Selectable(TableOf[p]) = {}
    /\ GetterStep(p, "select", [getter[p] EXCEPT !.pc = "done"])
    /\ UNCHANGED <<table, stored, ctx, dist, worker, handler, pollers, spent>>

\* There is none: sleep and look again.
SelectNone(p) ==
    /\ Selectable(TableOf[p]) = {}
    /\ GetterStep(p, "select", [getter[p] EXCEPT !.pc = "top"])
    /\ UNCHANGED <<table, stored, ctx, dist, worker, handler, pollers, spent>>

\* The check for new rows, the Begin or the SELECT fails.  A failed check does
\* not leave the iteration, but the wrapper's result of it affects 0 rows
\* without an error of its own: one error is counted.
SelectFails(p) ==
    /\ GetterStep(p, "select", [getter[p] EXCEPT !.pc = "top", !.errs = @ + 1])
    /\ Spend("faults", MaxFaults)
    /\ UNCHANGED <<table, stored, ctx, dist, worker, handler, pollers>>

\* The UPDATE ... WHERE start_slot = $1 AND end_slot = $2, and the commit.
CheckOutRow(p) ==
    /\ GetterStep(p, "checkout", [getter[p] EXCEPT !.pc = "send"])
    /\ Exists(TableOf[p], getter[p].row)
    /\ table' = [table EXCEPT ![TableOf[p]][getter[p].row] = IdOf[p]]
    /\ UNCHANGED <<stored, ctx, dist, worker, handler, pollers, spent>>

\* A slip: the getter returns at the first error.
CheckOutFailsReturns(p) ==
    /\ GetterStep(p, "checkout",
           [getter[p] EXCEPT !.pc = "done", !.row = NoRange, !.errs = @ + 1])
    /\ IF Exists(TableOf[p], getter[p].row) THEN Spend("faults", MaxFaults)
                                            ELSE UNCHANGED spent
    /\ UNCHANGED <<table, stored, ctx, dist, worker, handler, pollers>>

\* The row is gone ("We did not lock a single row."), or a statement fails.
CheckOutFails(p) ==
    /\ GetterStep(p, "checkout",
           [getter[p] EXCEPT !.pc = "top", !.row = NoRange, !.errs = @ + 1])
    /\ IF Exists(TableOf[p], getter[p].row) THEN Spend("faults", MaxFaults)
                                            ELSE UNCHANGED spent
    /\ UNCHANGED <<table, stored, ctx, dist, worker, handler, pollers>>

-----------------------------------------------------------------------------
(* The distributor *)

DistStep(p, from, d) ==
    /\ Alive(p)
    /\ dist[p].pc = from
    /\ dist' = [dist EXCEPT ![p] = d]

\* slotsCh <- sp
ReceiveRow(p) ==
    LET r == getter[p].row
    IN  /\ GetterStep(p, "send", [getter[p] EXCEPT !.pc = "top", !.row = NoRange])
        /\ DistStep(p, "receive",
               [pc |-> IF r[1] > r[2] THEN "startError" ELSE "work", row |-> r, next |-> r[1]])
        /\ UNCHANGED <<table, stored, ctx, worker, handler, pollers, spent>>

\* A slip: the loop goes on until it is past the end slot.
HandOutSlotPastEnd(p, w) ==
    LET n == dist[p].next
    IN  /\ ProcOf[w] = p
        /\ worker[w].pc = "receive"
        /\ DistStep(p, "work",
               [dist[p] EXCEPT !.next = n + 1,
                               !.pc = IF n > dist[p].row[2] THEN "processed" ELSE "work"])
        /\ worker' = [worker EXCEPT ![w] = [pc |-> "busy", slot |-> n]]
        /\ UNCHANGED <<table, stored, ctx, getter, handler, pollers, spent>>

\* workCh <- i
HandOutSlot(p, w) ==
    LET n == dist[p].next
    IN  /\ ProcOf[w] = p
        /\ worker[w].pc = "receive"
        /\ DistStep(p, "work",
               [dist[p] EXCEPT !.next = n + 1,
                               !.pc = IF n = dist[p].row[2] THEN "processed" ELSE "work"])
        /\ worker' = [worker EXCEPT ![w] = [pc |-> "busy", slot |-> n]]
        /\ UNCHANGED <<table, stored, ctx, getter, handler, pollers, spent>>

\* processedCh <- slots: the remover starts a poller for the row.
ReceiveProcessed(p) ==
    /\ DistStep(p, "processed", NewDist)
    /\ pollers' = [pollers EXCEPT ![p] = @ \cup {dist[p].row}]
    /\ UNCHANGED <<table, stored, ctx, getter, worker, handler, spent>>

\* errCh <- RangeOrder, once for each end of a row whose start is greater.
ReportRangeOrder(p) ==
    /\ handler[p].pc = "receive"
    /\ \/ /\ DistStep(p, "startError", [dist[p] EXCEPT !.pc = "endError"])
          /\ handler' = [handler EXCEPT ![p] = [pc |-> "error", slot |-> dist[p].row[1]]]
       \/ /\ DistStep(p, "endError", NewDist)
          /\ handler' = [handler EXCEPT ![p] = [pc |-> "error", slot |-> dist[p].row[2]]]
    /\ UNCHANGED <<table, stored, ctx, getter, worker, pollers, spent>>

-----------------------------------------------------------------------------
(* processSlotRangeWorker, with processFullSlot as one step *)

WorkerStep(w, from, new) ==
    /\ Alive(ProcOf[w])
    /\ worker[w].pc = from
    /\ worker' = [worker EXCEPT ![w] = new]

\* What there can be of a slot once it is written, or is there already (see
\* SlotStore): a row that lacked something is whole, is left beside the new
\* one, or is in the way of the note that the slot was skipped.
Written(kinds) ==
    {kinds \cup {"full"}, (kinds \ {"hollow"}) \cup {"full"}, kinds \cup {"skipped"}}
        \cup IF "hollow" \in kinds THEN {kinds} ELSE {}

StoreSlot(w) ==
    /\ WorkerStep(w, "busy", NewWorker)
    /\ \E kinds \in Written(stored[worker[w].slot]) :
           stored' = [stored EXCEPT ![worker[w].slot] = kinds]
    /\ UNCHANGED <<table, ctx, getter, dist, handler, pollers, spent>>

\* The context is cancelled: the slot is given up without an error, or, when
\* that is noticed only by the goroutines that fetch the block and the state,
\* written without them.
GiveUpSlot(w) ==
    /\ ctx[ProcOf[w]] # "run"
    /\ WorkerStep(w, "busy", NewWorker)
    /\ \/ UNCHANGED stored
       \/ stored' = [stored EXCEPT ![worker[w].slot] = @ \cup {"hollow"}]
    /\ UNCHANGED <<table, ctx, getter, dist, handler, pollers, spent>>

SlotFails(w) ==
    /\ Spend("faults", MaxFaults)
    /\ WorkerStep(w, "busy", [worker[w] EXCEPT !.pc = "error"])
    /\ UNCHANGED <<table, stored, ctx, getter, dist, handler, pollers>>

\* errCh <- errMs
ReportError(w) ==
    LET p == ProcOf[w]
    IN  /\ handler[p].pc = "receive"
        /\ WorkerStep(w, "error", NewWorker)
        /\ handler' = [handler EXCEPT ![p] = [pc |-> "error", slot |-> worker[w].slot]]
        /\ UNCHANGED <<table, stored, ctx, getter, dist, pollers, spent>>

-----------------------------------------------------------------------------
(* handleProcessingErrors *)

HandlerStep(p, from, h) ==
    /\ Alive(p)
    /\ handler[p].pc = from
    /\ handler' = [handler EXCEPT ![p] = h]

\* A slip: any known_gaps row with the slot in its range is taken for it.
CheckKnownGapInRange(p) ==
    LET noted == /\ TableOf[p] = KnownGaps
                 /\ \E r \in Rows : Exists(KnownGaps, r) /\ handler[p].slot \in r[1] .. r[2]
    IN  /\ HandlerStep(p, "error",
               IF noted THEN NewHandler ELSE [handler[p] EXCEPT !.pc = "write"])
        /\ UNCHANGED <<table, stored, ctx, getter, dist, worker, pollers, spent>>

\* The known-gaps process asks whether the slot has a row of its own; if so
\* the error is noted in that row.  The historic process does not ask.
CheckKnownGap(p) ==
    LET noted == TableOf[p] = KnownGaps
                 /\ Exists(KnownGaps, <<handler[p].slot, handler[p].slot>>)
    IN  /\ HandlerStep(p, "error",
               IF noted THEN NewHandler ELSE [handler[p] EXCEPT !.pc = "write"])
        /\ UNCHANGED <<table, stored, ctx, getter, dist, worker, pollers, spent>>

\* writeKnownGaps(slot, slot)
WriteKnownGap(p) ==
    /\ HandlerStep(p, "write", NewHandler)
    /\ table' = WithKnownGap(handler[p].slot)
    /\ UNCHANGED <<stored, ctx, getter, dist, worker, pollers, spent>>

-----------------------------------------------------------------------------
(* removeRowPostProcess: the polling goroutines, which ignore the context *)

\* A slip: the row is deleted as soon as its slots are handed out.
RemoveRowUnchecked(p, r) ==
    /\ Alive(p)
    /\ r \in pollers[p]
    /\ table' = [table EXCEPT ![TableOf[p]][r] = Absent]
    /\ pollers' = [pollers EXCEPT ![p] = @ \ {r}]
    /\ UNCHANGED <<stored, ctx, getter, dist, worker, handler, spent>>

\* Both end slots are in eth_beacon.slots: the row is deleted.
RemoveRow(p, r) ==
    /\ Alive(p)
    /\ r \in pollers[p]
    /\ Processed(r[1]) /\ Processed(r[2])
    /\ table' = [table EXCEPT ![TableOf[p]][r] = Absent]
    /\ pollers' = [pollers EXCEPT ![p] = @ \ {r}]
    /\ UNCHANGED <<stored, ctx, getter, dist, worker, handler, spent>>

\* A query or the delete fails.  The error is sent to errCh, which nobody
\* receives from: len(errCh) of an unbuffered channel is always 0.
RemoveFails(p, r) ==
    /\ Alive(p)
    /\ r \in pollers[p]
    /\ Spend("faults", MaxFaults)
    /\ pollers' = [pollers EXCEPT ![p] = @ \ {r}]
    /\ UNCHANGED <<table, stored, ctx, getter, dist, worker, handler>>

-----------------------------------------------------------------------------

Life(p) ==
    \/ Start(p) \/ StartUnreleased(p)
    \/ Cancel(p) \/ ReleaseDbLocks(p) \/ ReleaseFails(p)

Getter(p) ==
    \/ GetterLoop(p)
    \/ SelectRow(p) \/ SelectNone(p) \/ SelectFails(p)
    \/ CheckOutRow(p) \/ CheckOutFails(p)

Distributor(p) ==
    \/ ReceiveRow(p) \/ ReceiveProcessed(p) \/ ReportRangeOrder(p)
    \/ \E w \in Workers : HandOutSlot(p, w)

Worker(w) == StoreSlot(w) \/ GiveUpSlot(w) \/ SlotFails(w) \/ ReportError(w)

Handler(p) == CheckKnownGap(p) \/ WriteKnownGap(p)

Remover(p) == \E r \in Rows : RemoveRow(p, r) \/ RemoveFails(p, r)

Next ==
    \/ \E p \in Procs : Life(p)
    \/ \E node \in { NodeOf[p] : p \in Procs } : Exit(node) \/ Crash(node)
    \/ \E p \in Procs : Getter(p) \/ Distributor(p) \/ Handler(p) \/ Remover(p)
    \/ \E w \in Workers : Worker(w)

Spec == Init /\ [][Next]_vars

\* An application that ended is started again; while its context is not
\* cancelled every goroutine that can take a step takes one, and a request
\* that is not answered with an error is answered with the slot.
Running(p, A) == ctx[p] = "run" /\ A

FairSpec ==
    /\ Spec
    /\ \A p \in Procs :
           /\ WF_vars(Start(p) \/ StartUnreleased(p))
           /\ WF_vars(ReleaseDbLocks(p) \/ ReleaseFails(p))
           /\ WF_vars(Running(p, Getter(p)))
           /\ WF_vars(Running(p, ReceiveRow(p)))
           /\ WF_vars(Running(p, \E w \in Workers : HandOutSlot(p, w)))
           /\ WF_vars(Running(p, ReceiveProcessed(p)))
           /\ WF_vars(Running(p, ReportRangeOrder(p)))
           /\ WF_vars(Running(p, Handler(p)))
           /\ \A r \in Rows : WF_vars(Running(p, RemoveRow(p, r)))
    /\ \A node \in { NodeOf[p] : p \in Procs } : WF_vars(Exit(node))
    /\ \A w \in Workers :
           /\ WF_vars(Running(ProcOf[w], StoreSlot(w)))
           /\ WF_vars(Running(ProcOf[w], ReportError(w)))

-----------------------------------------------------------------------------

GetterState  == [pc : {"top", "select", "checkout", "send", "done"},
                 row : Rows \cup {NoRange}, errs : Nat]
DistState    == [pc : {"receive", "work", "processed", "startError", "endError"},
                 row : Rows \cup {NoRange}, next : Nat]
WorkerState  == [pc : {"receive", "busy", "error"}, slot : SlotSet \cup {NoSlot}]
HandlerState == [pc : {"receive", "error", "write"}, slot : SlotSet \cup {NoSlot}]

TableType == [Tables -> [Rows -> {Absent, Free} \cup Ids]]
SpentType == [{"faults", "stops", "crashes"} -> Nat]

TypeOK ==
    /\ table \in TableType
    /\ stored \in [SlotSet -> SUBSET Kinds]
    /\ ctx \in [Procs -> {"down", "run", "cancelled", "released"}]
    /\ getter \in [Procs -> GetterState]
    /\ dist \in [Procs -> DistState]
    /\ worker \in [Workers -> WorkerState]
    /\ handler \in [Procs -> HandlerState]
    /\ pollers \in [Procs -> SUBSET Rows]
    /\ spent \in SpentType

SlotsOf(r) == r[1] .. r[2]

\* The slot is stored, whole or as skipped; or a row is there from which it
\* will be processed.
Whole(n) == stored[n] \cap {"full", "skipped"} # {}
Enqueued(n) == \E t \in Tables, r \in Rows : Exists(t, r) /\ n \in SlotsOf(r)

\* A goroutine has the slot in hand.
InHand(n) ==
    \/ \E w \in Workers : worker[w].pc # "receive" /\ worker[w].slot = n
    \/ \E p \in Procs : handler[p].pc # "receive" /\ handler[p].slot = n

EverEnqueued == UNION { SlotsOf(r) : r \in UNION { InitialRows[t] : t \in Tables } }

\* The end slots of the rows that are inverted.
InvertedEnds ==
    LET rows == UNION { InitialRows[t] : t \in Tables }
    IN  UNION { {r[1], r[2]} : r \in { row \in rows : row[1] > row[2] } }

\* "After a row has been processed it should be removed from its appropriate
\* table." (processhistoric.go), and an error becomes a known gap: no slot of
\* a row is forgotten on the way between the getter, the distributor, the
\* workers, the error handler and the pollers.  It holds while nothing dies or
\* stops; the row is deleted when its end slots are stored, so that a crash
\* loses a slot between them that a worker has in hand.
NothingForgotten ==
    \A n \in EverEnqueued : Whole(n) \/ Enqueued(n) \/ InHand(n)

\* The ranges that a process has in hand.
Holds(p) ==
    { r \in Rows : \/ getter[p].pc = "send" /\ getter[p].row = r
                   \/ dist[p].pc # "receive" /\ dist[p].row = r
                   \/ r \in pollers[p] }

\* While no process is stopping, a row checked out by an identifier is in the
\* hands of its process: none is left behind, locked, with nobody at work on
\* it.  A process started anew releases what the one before it held, whether
\* that one died, stopped, or could not release it; it is not so of a process
\* whose own release at the start failed (StartUnreleased).
NoRowLeftBehind ==
    \A p \in Procs : ctx[p] = "run" =>
        \A r \in Rows : table[TableOf[p]][r] = IdOf[p] => r \in Holds(p)

\* capturehistoric_test.go: once the locks are released no row is checked out
\* by this application.
ReleasedMeansFree ==
    \A p \in Procs : ctx[p] = "released" =>
        \A r \in Rows : table[TableOf[p]][r] # IdOf[p]

\* Every row that is not inverted is processed in the end and removed,
\* however often the application is stopped or dies, as long as no slot fails
\* and the release at the start succeeds.
RowsAreRemoved ==
    \A t \in Tables : \A r \in InitialRows[t] :
        r[1] <= r[2] /\ r[2] >= MinimumSlot => <>[](table[t][r] = Absent)

\* Every slot of a row, and both ends of an inverted one, is stored in the
\* end or has a known_gaps row of its own, which tells that it failed
\* (handleProcessingErrors): a failure is neither lost nor in the way of the
\* other slots, and the goroutines do not come to wait for each other.
SlotsAreSettled ==
    \A n \in EverEnqueued \cup InvertedEnds :
        <>[](Whole(n) \/ Exists(KnownGaps, <<n, n>>))

=============================================================================
