# ipld-eth-beacon-indexer: formal models

TLA+ models of the indexer in `src/`, the TLC runs that check them and the
theorems that TLAPS proves about them. Paths below are relative to `src/`;
`BC` stands for `pkg/beaconclient`. `PROJECT.json` lists the components, the
runs, the mutants, the source lines of every definition, the findings, the
hazards and the theorems.

## 1. The system

The indexer copies the blocks and states of the consensus chain from a beacon
node into PostgreSQL. Several applications may share one database.

| component | state | operations | interacts with |
|---|---|---|---|
| SSE intake (`BC/incomingsse.go`, `BC/capturehead.go`, `BC/beaconclient.go`) | per topic (head, chain_reorg) the client `sseClient`, `MessagesCh`, `ProcessCh`, `ErrorCh`; an idle timer for heads | subscribe, decode a message in a goroutine of its own, log errors, reconnect on idle, disconnect at shutdown | hands events to `handleHead` and `handleReorg`; shutdown |
| head tracking (`BC/processevents.go`, `BC/processslot.go`, `BC/databasewrite.go`) | `PreviousSlot`, `PreviousBlockRoot`, `StartingSlot`, the count of bad heads; per head a goroutine with an SQL transaction | `handleHead`, `processHeadSlot`, `processFullSlot`, `checkPreviousSlot`, `writeStartUpGaps`; `handleReorg`, `writeReorgs`, `transactReorgs` | tables `slots`, `signed_block`, `state`, `public.blocks`, `known_gaps` |
| known gaps (`BC/databasewrite.go`) | rows of `eth_beacon.known_gaps` | `transactKnownGaps` cuts a range into rows, `writeKnownGaps`, `updateKnownGapErrors` | written by head tracking and by the batch processes, read by the known-gaps process |
| batch processing (`BC/capturehistoric.go`, `BC/processhistoric.go`, `BC/processknowngaps.go`) | rows of `historic_process` and `known_gaps` with `checked_out_by`; a getter, a distributor, workers, an error handler, a remover with its pollers, joined by unbuffered channels | `handleBatchProcess`, `getBatchProcessRow`, `processSlotRangeWorker`, `removeRowPostProcess`, `handleProcessingErrors`, `releaseDbLocks` | the tables, the other applications through them, `processFullSlot` |
| slot processing (`BC/processslot.go`, `BC/queryserver.go`, `BC/databasewrite.go`) | per call: block, state, roots, status | `processFullSlot`: fetch block and state in two goroutines, `provideFinalHash`, CheckDb, write all tables in one transaction | called by head tracking and by the batch workers; beacon node, database |
| boot (`internal/boot`, `cmd`) | the client and the database handle, the number of attempts | `BootApplicationWithRetry`: create the client, check the beacon node, connect, check the sync status; start the services of the command | health and sync checks, database wrapper |
| shutdown (`internal/shutdown`, `pkg/gracefulshutdown`) | a signal, a time limit, the operation under way | stop the services one after another, close the pool | all services |
| database wrapper (`pkg/database/sql`) | a pool of connections | Begin, Exec, Query, Commit, Rollback, Close | PostgreSQL |
| health and sync checks (`BC/healthcheck.go`, `BC/checkbeaconserverstatus.go`) | none | single queries of a boot attempt | boot |
| metrics, logging, command line | counters, flags | | |

What makes it hard: a goroutine per head event and a transaction per goroutine
at READ COMMITTED, compared with a previous head that was read when the event
arrived; known gaps written inside the very transaction that may fail; rows
checked out in the database and worked on in memory; deletion of a row on the
evidence of its two ends; two components that read and write one `known_gaps`
table; a client field that three goroutines replace without a lock; a shutdown
that cancels a context and does not wait.
`PROJECT.json` lists these under `hazards`, each with its line.

What makes it correct:

* known gaps: the rows of a range cover exactly the range;
* head tracking: no slot between the oldest and the newest one is missing from
  both `slots` and `known_gaps`; a reorg leaves each slot with a row that is not
  forked or with a known gap; every head event leaves a trace;
* batch processing: no slot of a row is dropped, whatever fails; every slot ends up
  stored or as a known gap of its own; no row stays locked with nobody at work on
  it; all rows are removed in the end;
* slot processing: for its callers a slot is stored in one step, or the call
  fails without a trace; the key of a state leads to that state;
* both on one database: a slot that is stored, known to be missing or in work is
  so from then on, and a gap is filled while the head moves on;
* SSE intake: every event comes through or is reported, once; the head topic is
  subscribed again whatever fails;
* boot and shutdown: the services run on what one successful attempt made; a
  signal ends the process; an end called graceful is one.

## 2. Modules

| module | models | extends |
|---|---|---|
| `KnownGapRanges` | Slot arithmetic at `Width` values (2^64 in the code); `KnownGapRows`, all the rows one call of `transactKnownGaps` upserts, as a closed form | |
| `TransactKnownGaps` | that call statement by statement | `KnownGapRanges` |
| `HeadTracking` | head tracking, the reorg updates, restarts | `KnownGapRanges` |
| `BatchProcess` | batch processing by any number of applications | |
| `SlotStore` | what a call of `processFullSlot` promises: an abstract specification | |
| `SlotProcessing` | `processFullSlot` with its fetches, queries and writes; implements `SlotStore` | |
| `Indexer` | head tracking and the known-gaps process in one process on one database | `HeadTracking`, an instance of `BatchProcess` |
| `EventIntake` | the SSE loops, reconnection, the hand-over of events, `StopHeadTracking` | |
| `Lifecycle` | boot with retries, the four commands, signal, time limit and shutdown | |
| `MC_HeadTracking`, `MC_BatchProcess`, `MC_SlotProcessing`, `MC_Indexer`, `MC_EventIntake`, `MC_Lifecycle` | block trees, applications, workers, events for TLC | |
| `KnownGapRanges_proofs` | lemmas about slot arithmetic, the chunks of a range and its rows | `KnownGapRanges`, TLAPS |
| `TransactKnownGaps_proofs`, `HeadTracking_proofs`, `BatchProcess_proofs`, `SlotProcessing_proofs`, `Indexer_proofs`, `EventIntake_proofs`, `Lifecycle_proofs` | the theorems about each module | the module, TLAPS; `Indexer_proofs` also `HeadTracking_proofs`, `TransactKnownGaps_proofs` also `KnownGapRanges_proofs` |

Definitions named in a comment as "a slip" are not part of a specification.
They are wrong versions of the definition they stand next to, and show that each
property notices a plausible mistake (`PROJECT.json`, `mutants`).

### KnownGapRanges, TransactKnownGaps

`Plus` and `Minus` wrap around, `ToInt` is Go's `int()` of a `uint64`. A row is
`<<start, end>>`, both ends inclusive. `TransactKnownGaps` has one action per
statement (`UpsertWhole`, `CountChunks`, `UpsertChunk`, `LeaveLoop`); its
property `LoopMatchesClosedForm` justifies the use of the closed form elsewhere.

### HeadTracking

`prevSlot`, `prevRoot`, `startSlot` and `errorSlots` are the fields of
`BeaconClient` and the local of `handleHead`. `slots` and `knownGaps` are the
committed rows. `jobs[j]` is a goroutine `processHeadSlot` (or, for `ReorgJob`,
`handleReorg`) with its locals and its open transaction: `pend`, the status it
gave to each row, and `gaps`, the known gaps it upserted. One step is the code
between two points at which another goroutine can be observed: a query, a
statement, a commit.

| step (`pc`) | action | code |
|---|---|---|
| event | `HandleHead`, `HandleBadHead`, `HandleReorg` | `handleHead`, `handleReorg` |
| `startup`, `startgaps` | `ReadMaxSlot`, `WriteStartUpGaps` | `writeStartUpGaps` |
| `fetch` | `Fetch`, `FetchSkipped`, `FetchFails` | `processFullSlot` up to `CheckDb` (in detail: `SlotProcessing`) |
| `insert` | `InsertSlot` (with `CheckPreviousSlot`), `InsertFails` | `transactFullSlot`, `checkPreviousSlot` |
| `fork`, `propose` | `UpdateForked`, `UpdateProposed`, `DeadlockVictim` | `transactReorgs` |
| `commit` | `Commit`, `CommitFails` | `processFullSlot`, `writeReorgs` |
| `record` | `RecordFailure` | `processHeadSlot`, `writeKnownGaps` |
| | `Crash`, `Restart` | kill, `log.Fatal`, panic; a new start |

PostgreSQL is modelled from how the code uses it: statements see committed rows
and their own, a written row is locked until the transaction ends
(`Unobstructed`), and of two transactions that wait for each other one is
aborted. The reorg code answers an aborted statement with another statement in
the same transaction, which ends in `log.Fatal`: `DeadlockVictim` is `Die`.

`PerformBeaconBlockProcessing` and `PerformBeaconStateProcessing` are taken as
on; the rows of `signed_block`, `state` and `public.blocks` are written in the
transaction of the `slots` row and are not told apart from it here. An INSERT
into `known_gaps` of a row that is there does nothing (`Missing`), so a
transaction owns only the rows it added.

### BatchProcess

One process per pair of an application and a table. `table[t][row]` is `Absent`,
`Free` or the identifier that has the row checked out. `getter`, `dist`,
`worker` and `handler` are the goroutines with their program counters, `pollers`
the rows for which a polling goroutine of `removeRowPostProcess` exists. The
channels are unbuffered, so a send and its receive are one action (`ReceiveRow`,
`HandOutSlot`, `ReceiveProcessed`, `ReportRangeOrder`, `ReportError`).
`processFullSlot` is one step: `StoreSlot`, `SlotFails`, or, once the context is
cancelled, `GiveUpSlot`, which either does nothing or writes a row without block
and state (kind `hollow`), as the code does when only the fetching goroutines
notice the cancelled context. These three are the steps of `SlotStore`, which
`SlotProcessing` shows the code to implement. `RemoveFails` ends the poller: the
code sends the error on an unbuffered channel that nobody receives from.
`Start`, `Cancel`, `ReleaseDbLocks` (together `Life`), `Exit` and `Crash` are the life of
a process; `Start` releases the rows of its identifier first. A release that fails is only
logged: `StartUnreleased` starts the goroutines and `ReleaseFails` ends the process with
the rows still checked out.

Left out: the priority of rows (any selectable row may be next), the
`reprocessing_error` text, and slots beyond the ones of the rows.

### SlotStore, SlotProcessing

`SlotStore` has the slots' rows as `stored` (of kind `full`, `skipped` or
`hollow`), the calls at work and how each ended. `Store` makes a slot whole or
known to be skipped and returns no error; `Fail` writes nothing; a `hollow` row
comes only from `GiveUp` of a call whose context is cancelled, and a later note
that the slot was skipped then finds it in its way (`StoreMasked`).

`SlotProcessing` has the tables `slots`, `signedBlocks`, `states` and `blobs`
(`public.blocks`: what is held under the key of each root, if anything), the beacon node's `canonical` block of each slot, and per call
the two fetching goroutines (`blockPc`, `statePc`: test the context, ask, done or
failed) and then `checkBlock`, `checkState`, `write`. `config` holds the switches
for blocks, states and CheckDb. A call of a head knows its root, a historic one
asks by slot. `KeepsPromise` is `SlotStore!Spec` under the mapping that reads
`stored` off the tables with the switches in mind (`KindsOf`, `Complete`): a whole slot
has its rows, and the key of its state leads to a state of that slot. With
blocks off a historic call has nothing to take a root from (`StateOnlyHistoric`), and all
such states share the key of the empty root, where only the first is kept; the
run and the theorems leave these calls out, and section 5 shows what they lose.
A head's call for the state alone has its root and is included.

### Indexer

`startHeadTracking` with `kg.processKnownGaps`. The composition keeps the
variables of both components and makes every step of one a step of the other's
view: `knownGaps` of `HeadTracking` is the set of the rows that `table` of
`BatchProcess` has (`TableWith`, `GapStep`), and `stored` of `BatchProcess` is an
expression over `slots` that takes a row of any status for a stored slot, as the
queries do (`StoredKinds`). `StoreGapSlot` writes the row of `slots` that a
worker stores, and waits for row locks of the head goroutines. Both share the
process: `Dies` loses the memory of both. The known-gaps process works on any
slot, since the rows that head tracking writes wrap around with its arithmetic
(`Width` is 6 in the runs).

### EventIntake

Per topic: `client` (nil, made, subscribed), `messages` (the one place of
`MessagesCh`), the goroutine of the first `Connect` (`starter`), the loop of
`handleIncomingSseEvent` (`loop`), the goroutines `processMsg` (`parsing`), the
handler at the other end of `ProcessCh` (`handler`) and `finishProcessingChannel`
(`finisher`). Sends on the unbuffered channels are one action with their receive
(`HandOver`, `ReceiveError`). The SSE library is modelled from its use:
`SubscribeChanRaw` blocks until there is a subscription or an error, and
`Unsubscribe` waits for it. `NilClient` is the panic of a goroutine whose client
another one set to nil after its test.

### Lifecycle

`main` is the main goroutine: `create`, `check`, `connect`, `sync`, `retry` of
`BootApplicationWithRetry`, then `prepare` (the switch on the mode), `launch` and
`waiting` in `ShutdownServices`, or one of `Ends`. `client` and `db` are what the
attempts left in BC and DB, named by the attempt; 0 is the package's own empty
value, which is used when there are no retries, and `None` is nil. `handler`,
`todo` and `timer` are `gracefulshutdown.Shutdown` with the operation of the
command as a list. Each service is its goroutines, which hold connections or
not; `Close` refuses connections and returns once all are back.

## 3. Runs

All runs use two workers. The states are distinct ones; each run takes less
than three minutes.

| run | instance | states | shows |
|---|---|---|---|
| `ranges` | 32 slot values, increments 1, 2, 3, 5, 10, 31, every start and end | 39,000 | `LoopMatchesClosedForm` (wrapped ranges and negative chunk counts included), `RowsCoverRange` |
| `head_sequential` | blocks g, a3, b3, b4, a6 (fork at slot 3, two empty slots before 6), g stored, 4 heads, 1 bad head, 2 crashes, CheckDb | 64,000 | `TypeOK`, `NoUndetectedGap`: with one head at a time the start-up gap, the gap between heads and restarts together leave nothing out |
| `head_concurrent` | a3, b3, b4, a6; two goroutines, 3 heads in any order, a chain_reorg event with any slot it can parse to | 231,000 | `NoGapSinceStart`, `ForkedSlotIsRecoverable` |
| `head_liveness` | a3, b3 stored, b4; two goroutines, 2 heads, a reorg, a skipped slot, a fault | 71,000 | `HeadIsRecorded` |
| `batch_faults` | one application with both tables, the inverted historic row 5-4 and the known gap 1-3, slots from 2, a worker each, 1 fault anywhere, also in the release at the start | 180,000 | `TypeOK`, `NothingForgotten`, `SlotsAreSettled` |
| `batch_restarts` | two applications on the row 1-2, one of which is stopped or crashes at any step; its release at the stop may fail | 672,000 | `NoRowLeftBehind`, `RowsAreRemoved` |
| `slot` | three slots: two blocks compete for one, one has a block, one none; 2 calls at once, a reorg, a missing block, a fault, a restart, the context cancelled at any step; blocks, states and CheckDb on or off, but not CheckDb with neither of the others; no historic call for the state alone | 435,000 | `TypeOK`, `StatesAreTheirOwn`, `KeepsPromise` |
| `indexer` | g2 - a3 and g2 - (b3) - b4 - b5, g stored; 2 heads, one worker, 1 fault, which may be the death of the process | 41,000 | `IndexerTypeOK`, `NoSlotIsDropped`, `GapsAreFilled` |
| `intake` | both topics; a head event that is not JSON, one whose slot is not a number, a reorg event; 1 failed or broken subscription; the shutdown at any step | 181,000 | `TypeOK`, `EveryEventIsSomewhere`, `EventsComeThrough`, `HeadIsResubscribed` |
| `lifecycle` | the four commands, 0, 2 or unlimited retries, sync check and known gaps on or off, 3 faults | 62,000 | `TypeOK`, `RunsOnOneAttempt`, `GracefulMeansReleased`, `BootEnds`, `SignalEndsProcess` |
| `head_lostgap` | a3 and a6, nothing stored, one goroutine, 3 heads and a fault | | violation, section 5 |
| `indexer_forked` | the instance of `indexer` | | violation, section 5 |

Why the bounds are enough to be interesting: three heads are needed for a fork
followed by its successor, or for a jump and a late one; two goroutines for every race
between transactions, since each race in the code is between two; a
reorg event gives the third transaction. `Width` keeps wrapped slots apart
from the tree's. In `batch_faults` the row of three slots has a middle one, which
is the slot that the deletion test does not look at, and one below
`MinimumSlot`; the inverted row is the one whose two errors are reported. One
fault is the bound because a second one may be the getter's last, after which
nothing is settled any more. In `batch_restarts` a second application is what a
restarted one has to leave alone; `OneEnd` makes a run one with a stop or a crash,
whichever comes; a fault is not spent there, so every start releases its rows. Two calls of `processFullSlot` are the race in the code: the
head's and a worker's, or two workers of overlapping rows. In `slot` historic
calls are made for slots that are not reorganised: the code pairs a block
and a state by slot, and nothing in it relates the two. In `indexer` two heads
give a gap, its filling, and a fork beside it. Two retries and three faults let a
boot fail before, between and after the connection, and succeed at last.

`MaxHeads`, `MaxBadHeads`, `MaxReorgs`, `MaxSkips`, `MaxFaults`, `MaxCrashes`,
`MaxStops`, `MaxCalls`, `MaxRestarts` bound events, not states: what is under
way is always completed. The deadlock check is off where nothing happens once
the events are used up or the process has ended; the batch runs keep it on, since a
getter looks for rows for ever. `head_concurrent` permutes the two goroutines,
which the specification does not tell apart; the liveness runs use no symmetry.

### Fairness

* `HeadTracking!FairSpec`: weak fairness of each goroutine's next step. The Go
  scheduler runs every goroutine; PostgreSQL answers every statement or aborts
  it; the beacon node answers or refuses. The last is an assumption, since the
  HTTP client has no timeout. Events, faults, crashes and restarts are not fair.
* `BatchProcess!FairSpec`: weak fairness of every goroutine while its context is
  not cancelled, of the restart of an application that ended (it runs under a
  supervisor; the rows wait for it otherwise), whether it releases its rows or not, of the
  release of the locks, successful or not, and of the exit after a cancel. Selecting a row is fair as a whole and not per row: which row
  comes next is the database's choice. Handing out, receiving and reporting are
  fair one by one because each is a blocked channel operation of a goroutine of its own.

## 4. Theorems

Every safety property that a passing run checks is a theorem, for every value of the
constants that satisfies the modules' assumptions: any block tree, width,
increment, number of goroutines, applications, calls, events, retries and any
bound. The type invariants (`TypeCorrect` in each module, `TheViewsAgree` in
`Indexer_proofs`) are the base of the others. Every inductive invariant was
checked by TLC before it was proved.

| theorem | property | inductive invariant, beyond the types |
|---|---|---|
| `TransactKnownGaps_proofs!LoopIsClosedForm`, `NoSlotIsLeftOut`, `NoRowIsLong` | `LoopMatchesClosedForm`, `RowsCoverRange`; no row has more than increment + 1 slots, the bound that the code keeps (section 5) | the rows so far are those of the first chunks; the count is that of the closed form |
| `HeadTracking_proofs!ForkedSlotsAreRecoverable` | `ForkedSlotIsRecoverable` | `ReorgInv` |
| `HeadTracking_proofs!GapsAreDetected` | `NoUndetectedGap` | `SequentialInv` |
| `HeadTracking_proofs!NoGapIsLost` | `NoGapSinceStart` | `SinceStartInv` |
| `BatchProcess_proofs!NoSlotIsForgotten` | `NothingForgotten` | `PipelineInv` |
| `BatchProcess_proofs!RowsAreNotLeftBehind` | `NoRowLeftBehind` | `LockInv` |
| `SlotProcessing_proofs!PromiseIsKept` | `KeepsPromise`, the refinement of `SlotStore` | `Inv`, `RootedInv` |
| `SlotProcessing_proofs!StatesBelongToRoots` | `StatesAreTheirOwn` | `OwnInv`, `RootedInv` |
| `EventIntake_proofs!NoEventIsLostOrDoubled` | `EveryEventIsSomewhere` | `Inv` |
| `Lifecycle_proofs!OneAttemptServes`, `GracefulIsReleased` | `RunsOnOneAttempt`, `GracefulMeansReleased` | `Inv` |
| `Indexer_proofs!SlotsAreNotDropped` | `NoSlotIsDropped` | `IndexerInv` |

The arguments:

* Ranges. `Wrap`, the number of chunks and the chunks' ends are reduced to facts
  about division (`Division`, `WrapInSlots`, `ProperChunks`, `ProperRow` in
  `KnownGapRanges_proofs`). A slot of a proper range lies in the chunk of its
  quotient, so nothing falls between two rows.
* Forked slots. The property speaks of committed rows and is not inductive: it
  is the transaction that has to be whole. `ReorgsAreWhole` says that a
  transaction that has marked rows forked marks rows of one slot only, and
  before it reaches its commit it has marked a row of that slot proposed or put
  the slot into its gaps. `CommitIsRecoverable` compares the committed rows
  before and after.
* Undetected gaps. Both proofs rest on `JobsInv`: what a goroutine knows of its
  head and the previous one, that a transaction adds the row of its own block
  only (a reorg update adds none), and that after the comparison its gaps hold
  every slot between the two heads (`ComparisonIsWhole`, by `RowsOfProperRange`).
  `GapsAreDetected` adds that the previous head is stored, or the head at work is
  itself the previous one; that the highest slot read at the start still has its
  row; and that once the start-up gaps are written nothing below the first head
  is missing. `NoGapIsLost` adds that every slot from the first head of the start
  up to the furthest one announced is tracked or promised: it is the slot of a
  goroutine still at work, or between the two heads that one compares. So the
  property holds when all are done, in whatever order they were.
* No slot is forgotten. Every slot that the distributor has handed out, of the
  row in its hands or of a row that a poller watches, is stored, in a
  goroutine's hands or a known gap of its own (`HandedOutIsDelivered`), and no
  row is written hollow (`Undisturbed`). Without the first a poller could delete
  a row whose middle slot nobody has.
* No row is left behind. A row comes to be checked out by a process in its own
  getter only (`LockIsOldOrNew`), which then has it in hand, and what a process
  holds it keeps until its poller deletes the row (`HeldUntilRemoved`). A start begins
  with none, which is why it must have released its rows; whether the process
  before it did, does not matter.
* The promise. Each step of `SlotProcessing` is a step of `SlotStore` or a
  stutter: the write is `Store` or `StoreMasked`, or `GiveUp` when a fetching
  goroutine met a cancelled context. The invariant says what a call in each place
  has found, that what was asked for and is missing is missing because the context
  was cancelled, that no block or state is there without its row of `slots`, and
  that `public.blocks` has under the key of a block's root only states of its slot;
  only with it does the mapping read off the whole slot. Rows without a root share
  one key there: `RootedInv` says that with blocks off there are no calls that write
  one, and with blocks on such a row is never whole (`OthersStay`).
* States. `OwnInv`: a historic call's block and state are the canonical ones of
  its slot, a head's state is the one of its root, and the tables hold what such
  calls have written. With blocks on, a cancelled call can leave a row of `state`
  without a root (section 5); the property leaves out these rows and no others.
* Events. `PlaceInv`: every event is in exactly one of the places, or has not
  been received, and was handed over at most once; each action moves one event
  from one place to the next.
* Boot and shutdown. `BootedInv`: when the boot is over `client` and `db` are those
  of the last attempt and its pool is open, or there was an error. `OperationInv`:
  the first thing the shutdown does in a command with historical processing is to
  cancel it, and it is done only when the pool is closed and nothing is held.
* Both components on one database. The steps of each are those of its own
  module, so both type invariants carry over (`TheViewsAgree`); `known_gaps` as
  a set and as a table agree. A row is deleted by a poller with both ends stored,
  or all its slots are kept (`HandedOutIsKept`): stored, in the hands of a goroutine of
  the known-gaps process, or in a row of their own. Head tracking only adds rows.

Hypotheses, and why they are there. A theorem of the form
`Spec /\ [][~A]_vars => []P` is about the behaviours without the steps `A`.

| hypothesis | theorem | why |
|---|---|---|
| `SlotsAreSmall`: twice a slot is below `Width` | `GapsAreDetected`, `NoGapIsLost` | the number of chunks must be a positive `int`; slots of 2^63 are 10^12 years off |
| no `HeadFails` | both | the code loses the gap before a head that fails or is not served: run `head_lostgap`, section 5 |
| no `GenesisComes` | both | slot 0 as the previous slot means "no previous head" to `handleHead` |
| no `HeadsOverlap` | `GapsAreDetected` | a head that commits before the first one's query hides the start-up gap: section 5. A goroutine takes less than the 12 s of a slot unless the database or the beacon node is slow; `NoGapIsLost` does without |
| `GaplessStart` | `GapsAreDetected` | the code looks for gaps above the highest stored slot only; with an empty database and slot 1 first, slot 0 is lost (section 5) |
| no `StartsBehind` | `NoGapIsLost` | rows above the first head are from before the start, and nothing compares them |
| no `ComesAgain` | `NoGapIsLost` | only with CheckDb (the default, `cmd/capture.go:99`): a head announced again can drop the gap of the first one, section 5 |
| `Calm`: no stop, no crash | `NoSlotIsForgotten` | it is false otherwise: a middle slot in work when the process dies, section 5 |
| `UniqueIds` | `RowsAreNotLeftBehind` | "Each application connecting to the DB should have a unique identifier" (`cmd/capture.go:98`) |
| `InitialRowsInOrder` | `RowsAreNotLeftBehind` | the two ends of an inverted row are reported, no poller gets it, and it stays checked out |
| no `RemoverFails` | `RowsAreNotLeftBehind` | a poller whose query fails waits for ever to report it, and its row stays checked out (`BC/processhistoric.go:246`) |
| no `StartFails` | `RowsAreNotLeftBehind` | a release that fails at the start is only logged and the goroutines start all the same (`BC/capturehistoric.go:101`): the rows stay checked out with nobody at work until a start that releases them. A release that fails at a stop needs no excluding |
| no `StateOnlyHistoric` | `PromiseIsKept`, `StatesBelongToRoots` | with blocks off and states on a historic state has no root, and all but the first are dropped (`BC/databasewrite.go:177`, section 5) |
| `SomethingIsAsked` | `PromiseIsKept` | with CheckDb on and blocks and states both off a call asks for nothing, takes the slot as stored and returns no error (section 5): there is no promise to keep |
| `HistoryIsSettled` | `StatesBelongToRoots` | block and state of a historic slot are asked for by slot, and nothing in the code relates the two answers |

Each hypothesis holds in the run that checks the property (`slot` has a constraint for
`StateOnlyHistoric`), and without it the
property is false of the code or, for `SlotsAreSmall` and `GenesisComes`, about
slots that cannot occur. The theorems on `Indexer`, `EventIntake`, `Lifecycle`
and the ranges have none.

Only model-checked: the liveness properties (`HeadIsRecorded`,
`RowsAreRemoved`, `SlotsAreSettled`, `GapsAreFilled`, `EventsComeThrough`,
`HeadIsResubscribed`, `BootEnds`, `SignalEndsProcess`), because reasoning about
fairness and ENABLED is out of the prover's reach.

## 5. Where the code departs from what it says

Two runs end in a counterexample.

* `head_lostgap`: the heads of slots 3 and 6, the second of which fails. The
  gap 4-5 is part of the transaction that is rolled back; only slot 6 becomes a
  known gap. The next head compares with slot 6 and finds no gap.
* `indexer_forked`: the fetch of a3 fails and slot 3 becomes the known gap 3-3;
  the known-gaps process stores a3 and has not yet deleted the row. Head b4, whose
  parent is another block, marks a3 forked, and since b3 is not in the table it
  inserts 3-3 into `known_gaps`, where the old row makes that a no-op. The poller
  finds slot 3 processed, whatever its status, and deletes the row. Slot 3 is left
  with a forked block and no known gap
  (`BC/capturehead_test.go:405`, `BC/databasewrite.go:71`).

Statements that the modules define and that TLC refutes when they are added to a
configuration. For three there is one to run: `MC_TransactKnownGaps_documented.cfg`
(`RowsWithinIncrement`, on the module itself), `MC_BatchProcess_lostmiddle.cfg` (`NothingForgotten`) and
`MC_SlotProcessing_stateonly.cfg` (`StatesAreTheirOwn`).

* `HeadTracking!OneProposedPerSlot`, with two goroutines: neither transaction of
  two heads of one slot sees the other's row; both stay proposed
  (`BC/capturehead_test.go:493`, which sends the heads one after the other).
* `TransactKnownGaps!RowsWithinIncrement`, with an increment of 10: the range 0-10
  is one row of 11 slots, since the ends of a range are compared by their
  difference, and every full row of a longer range ends on the slot with which
  the next one begins (`BC/databasewrite.go:443`). The increment is "The max slots
  within a single entry to the known_gaps table" (`cmd/capture.go:107`, likewise
  `BC/beaconclient.go:51`), and the comment at `BC/databasewrite.go:433` has rows
  1-10, 11-20. So no slot is lost, and one in each row is processed twice.
* `BatchProcess!NothingForgotten`, with the row 1-3, two workers and a crash: slots 1
  and 3 are stored while 2 is still in work; the row is deleted, and a crash now
  loses slot 2 (`BC/processhistoric.go:252`). "After a row has been processed it
  should be removed from its appropriate table" (`BC/processhistoric.go:229`): here
  it is removed before.
* `SlotProcessing!StatesAreTheirOwn` and `KeepsPromise`, with states on and blocks
  off, and without the constraint of the run: two historic calls, of slots 2 and
  3. Neither has a block to take the roots from (`BC/processslot.go:450`), so both
  states go under the key of the empty root in `public.blocks`, where ON CONFLICT
  DO NOTHING keeps the first (`BC/databasewrite.go:48`, `177`, `321`). `state` has a row for
  each, both calls return no error, and one state is lost, of all that the
  application is to capture (`README.md:13`).
* `BatchProcess!ReleasedMeansFree`, with a stop: the getter has selected a row when
  the locks are released, and then checks it out (`BC/capturehistoric_test.go:299`).
  The next start of the same identifier repairs it, hence `NoRowLeftBehind`.
* `EventIntake!StopReturns`: with a message in `MessagesCh` at the first test the
  shutdown sleeps 5 s times a million, 57 days (`BC/capturehead.go:55`).
* `Lifecycle!TooManyErrorsEnd`: the getter gives up and the application goes on
  without it (`BC/processhistoric.go:132`, `cmd/historic.go`).
* `Lifecycle!CountersAreLive`: after a second boot attempt the registered counters
  are those of the first client (`BC/metrics.go:84`).

The models show more: with the flags alone, without a configuration file, blocks and
states are both off and CheckDb is on (`cmd/head.go:55`, `cmd/capture.go:99`), and
every slot counts as "already in the DB" without having been written
(`BC/processslot.go:219`); after a release that fails at the start, rows stay
checked out with nobody at work on them until a later start
(`BC/capturehistoric.go:101`); with two
goroutines, a second head that commits before the first one's query of the
highest slot hides the start-up gap (`BC/databasewrite.go:520`); a head at or
before the previous slot, after a bad one, writes an inverted row
(`BC/processevents.go:61`); with an empty database and slot 1 as the first head
slot 0 is lost (`BC/databasewrite.go:533`); two applications can both check the
same row out (`BC/processhistoric.go:187`); a head after a jump that is not
served (404) hides the jump, since skipped slots are not compared
(`BC/processslot.go:256`); a slot given up by a cancelled context can be stored
without block and state (`BC/processslot.go:156`), and a later note that it was
skipped is then dropped; one that lacks the block only puts its state under the
key of the empty root, or refers to the one that is there; a chain_reorg event for a slot ahead of the head, once
that slot is stored, raises the highest slot, so that a crash hides the slots
before it; with CheckDb, a head that is announced again after a jump (slots 3, 5
and 5) may find no gap, since it compares with itself, and commit before the
goroutine that does, which then finds its block stored and drops the gap
(`BC/processslot.go:150`); a reconnect and the shutdown can panic on each other's nil client
(`BC/beaconclient.go:142`); a boot attempt that fails its sync check leaves its
pool open (`internal/boot/boot.go:78`); with no retries left, or none at all, the
command goes on with a nil or an empty client and panics (`internal/boot/boot.go:126`);
a signal before `signal.Notify` or before the services have set their fields is
fatal (`BC/capturehistoric.go:42`); a known-gaps process that starts during the
shutdown is not stopped (`internal/shutdown/shutdown.go:94`).

## 6. Plan and what is not modelled

Done: all the modules of section 2, and a theorem for every safety property that a
passing run checks. Next, in this order:

1. `BatchProcess` implements `SlotStore` as well: its steps `StoreSlot`,
   `SlotFails` and `GiveUpSlot` as steps of the specification that
   `SlotProcessing` is proved to implement, checked by TLC first.
2. `NoSlotIsForgotten` for several applications of which only one stops, in the
   form that holds: the slots of the rows of the others.
3. The two gap theorems with heads that fail, except one that comes after a jump:
   that one loses the gap (run `head_lostgap`), and only that one needs excluding.

Not modelled, and why. SSZ decoding, multihashes and roots are data: whether
they succeed is a choice in the models. A reorg deeper than one block, and a
stored block that becomes head again, would need the canonical chain as a
reference, which the code does not keep; the models only do what the code does
there. The priority of rows only orders the getter's choice. The size of the
pool, a setting of the user's, and with it the rollbacks that `getBatchProcessRow`
defers within its loop: a pass that ends without a commit keeps its transaction
open until the getter returns, and a pass that finds no row
(`BC/processhistoric.go:177`) is not counted as an error, so that nothing in the
code bounds the connections it holds. The values of the
counters, the log, and the reading of flags are read by no other part.
`IsSlotInDb` and `UpdateLatestSlotInBeaconServer` have no effect on the rest. The
migrations of the database are not part of the repository.
