----------------------------- MODULE HeadTracking -----------------------------
(***************************************************************************)
(* Following the head of the chain (pkg/beaconclient: processevents.go,    *)
(* processslot.go, databasewrite.go).                                      *)
(*                                                                         *)
(* handleHead takes one head event after another; for each it starts a     *)
(* goroutine processHeadSlot and remembers the slot and root as the        *)
(* previous ones.  The goroutine writes the start-up gap if it is the      *)
(* first, fetches the block and the state, and writes the slot in one SQL  *)
(* transaction in which it also compares the block with the previous head  *)
(* (checkPreviousSlot).  handleReorg runs the same reorg update for each   *)
(* chain_reorg event.  The process may die at any step and be restarted.   *)
(*                                                                         *)
(* The database runs at READ COMMITTED.  A transaction's writes are kept   *)
(* in its job (pend, gaps) until Commit; a row written by one transaction  *)
(* is locked for the others; of a cycle of two transactions waiting for    *)
(* each other the server aborts one.  eth_beacon.signed_block, state and   *)
(* public.blocks are written in the same transaction as the slots row, so  *)
(* a row that is present and not skipped stands for all of them.           *)
(***************************************************************************)
EXTENDS KnownGapRanges, FiniteSets

CONSTANTS
    Blocks,         \* the block roots the beacon node may announce
    NoRoot,         \* the empty root ""
    OtherRoot,      \* the root of a parent outside Blocks
    SlotOf,         \* the slot of each block
    ParentOf,       \* the parent root of each block
    StoredBlocks,   \* the blocks in the database at the first start
    HeadJobs,       \* the goroutines processHeadSlot that can run at once
    ReorgJob,       \* the goroutine handleReorg
    TableIncrement, \* bc.KnownGapTableIncrement
    CheckDb,        \* bc.CheckDb
    MaxHeads, MaxBadHeads, MaxReorgs, MaxSkips, MaxFaults, MaxCrashes   \* bounds

ASSUME BlocksAssumption ==
    /\ NoRoot \notin Blocks
    /\ OtherRoot \notin Blocks \cup {NoRoot}
    /\ SlotOf \in [Blocks -> Slots]
    /\ ParentOf \in [Blocks -> Blocks \cup {OtherRoot}]
    /\ StoredBlocks \subseteq Blocks

ASSUME JobsAssumption == ReorgJob \notin HeadJobs

ASSUME ConfigAssumption ==
    /\ TableIncrement \in 1 .. Width - 1
    /\ CheckDb \in BOOLEAN
    /\ {MaxHeads, MaxBadHeads, MaxReorgs, MaxSkips, MaxFaults, MaxCrashes} \subseteq Nat

Roots == Blocks \cup {NoRoot, OtherRoot}

\* The primary keys (slot, block_root) of eth_beacon.slots that can be
\* written: a block, or the skipped slot at which it was looked for.
Keys == { <<SlotOf[b], b>> : b \in Blocks } \cup { <<SlotOf[b], NoRoot>> : b \in Blocks }

Statuses == {"proposed", "forked", "skipped"}
NoRow    == "none"                \* no row, or a row the transaction left alone

Jobs == HeadJobs \cup {ReorgJob}

PCs == {"idle", "startup", "startgaps", "fetch", "insert", "fork", "propose",
        "commit", "record"}

Bounds == {"heads", "badHeads", "reorgs", "skips", "faults", "crashes"}

Untouched == [k \in Keys |-> NoRow]

Idle == [pc |-> "idle", slot |-> 0, root |-> NoRoot, prevSlot |-> 0,
         prevRoot |-> NoRoot, maxSlot |-> 0, reorgSlot |-> 0,
         reorgRoot |-> NoRoot, pend |-> Untouched, gaps |-> {}]

VARIABLES
    process,     \* "up", or "down" after a crash or a log.Fatal
    prevSlot,    \* bc.PreviousSlot
    prevRoot,    \* bc.PreviousBlockRoot
    startSlot,   \* bc.StartingSlot
    errorSlots,  \* handleHead's count of head events it could not parse
    jobs,        \* the local state of each goroutine and of its transaction
    slots,       \* eth_beacon.slots: the committed status of each key
    knownGaps,   \* eth_beacon.known_gaps: the committed <<start, end>> rows
    spent        \* how much of each bound is used up

client == <<prevSlot, prevRoot, startSlot, errorSlots>>
tables == <<slots, knownGaps>>
vars   == <<process, client, jobs, tables, spent>>

Spend(bound, max) ==
    /\ spent[bound] < max
    /\ spent' = [spent EXCEPT ![bound] = @ + 1]

-----------------------------------------------------------------------------

\* What a statement of job j's transaction sees: committed rows and its own.
Visible(j) == { k \in Keys : slots[k] # NoRow \/ jobs[j].pend[k] # NoRow }

Locked(j) == { k \in Keys : jobs[j].pend[k] # NoRow }

\* updateForked: the rows of the slot whose root is another one.
ForkTargets(j) ==
    { k \in Visible(j) : k[1] = jobs[j].reorgSlot /\ k[2] # jobs[j].reorgRoot }

\* updateProposed: the row of the slot with this root, if there is one.
ProposeTargets(j) ==
    { k \in Visible(j) : k = <<jobs[j].reorgSlot, jobs[j].reorgRoot>> }

\* The rows the job's next statement locks.
Wants(j) ==
    CASE jobs[j].pc = "insert"  -> { <<jobs[j].slot, jobs[j].root>> }
      [] jobs[j].pc = "fork"    -> ForkTargets(j)
      [] jobs[j].pc = "propose" -> ProposeTargets(j)
      [] OTHER                  -> {}

\* Job i's transaction makes job j wait.
Obstructs(i, j) == i # j /\ Locked(i) \cap Wants(j) # {}
Unobstructed(j) == \A i \in Jobs : ~Obstructs(i, j)

\* SELECT COALESCE(MAX(slot), 0) FROM eth_beacon.slots yields m.
IsHighestSlot(m) ==
    LET present == { k[1] : k \in { kk \in Keys : slots[kk] # NoRow } }
    IN  (\A n \in present : n <= m) /\ m \in present \cup {0}

\* INSERT INTO eth_beacon.known_gaps ... ON CONFLICT DO NOTHING: of these rows
\* the ones that the statement does not find there already.
Missing(rows) == rows \ knownGaps

FirstHead(slot, root) == slot = 0 /\ root = NoRoot

Step(j, from, job) ==
    /\ process = "up"
    /\ jobs[j].pc = from
    /\ jobs' = [jobs EXCEPT ![j] = job]

\* The transaction is rolled back and processHeadSlot gets the error.
RolledBack(job) == [job EXCEPT !.pc = "record", !.pend = Untouched, !.gaps = {}]

-----------------------------------------------------------------------------

Init ==
    /\ process = "up"
    /\ prevSlot = 0
    /\ prevRoot = NoRoot
    /\ startSlot = 0
    /\ errorSlots = 0
    /\ jobs = [j \in Jobs |-> Idle]
    /\ slots = [k \in Keys |-> IF k[2] \in StoredBlocks THEN "proposed" ELSE NoRow]
    /\ knownGaps = {}
    /\ spent = [bound \in Bounds |-> 0]

\* handleHead: a head event that parses.  When events before it did not, the
\* slots since the previous head are written to known_gaps first.
HandleHead(j, b) ==
    LET badHeads == errorSlots # 0 /\ prevSlot # 0
        first    == FirstHead(prevSlot, prevRoot)
    IN  /\ Spend("heads", MaxHeads)
        /\ Step(j, "idle", [Idle EXCEPT !.pc = IF first THEN "startup" ELSE "fetch",
                                        !.slot = SlotOf[b], !.root = b,
                                        !.prevSlot = prevSlot, !.prevRoot = prevRoot])
        /\ knownGaps' = knownGaps \cup
               IF badHeads
               THEN KnownGapRows(TableIncrement, Plus(prevSlot, 1), SlotOf[b])
               ELSE {}
        /\ errorSlots' = IF badHeads THEN 0 ELSE errorSlots
        /\ startSlot' = IF first THEN SlotOf[b] ELSE startSlot
        /\ prevSlot' = SlotOf[b]
        /\ prevRoot' = b
        /\ UNCHANGED <<process, slots>>

\* handleHead: a head event whose slot is not a number.
HandleBadHead ==
    /\ process = "up"
    /\ Spend("badHeads", MaxBadHeads)
    /\ errorSlots' = errorSlots + 1
    /\ UNCHANGED <<process, prevSlot, prevRoot, startSlot, jobs, tables>>

\* writeStartUpGaps: the query, and whether there is a gap to write.
ReadMaxSlot(j) ==
    /\ \E m \in Slots :
           /\ IsHighestSlot(m)
           /\ Step(j, "startup",
                   [jobs[j] EXCEPT !.maxSlot = m,
                        !.pc = IF m < Minus(jobs[j].slot, 1) THEN "startgaps" ELSE "fetch"])
    /\ UNCHANGED <<process, client, tables, spent>>

\* A slip: the gap ends one slot too early.
WriteStartUpGapsShort(j) ==
    LET m == jobs[j].maxSlot
    IN  /\ Step(j, "startgaps", [jobs[j] EXCEPT !.pc = "fetch"])
        /\ knownGaps' = knownGaps \cup
               KnownGapRows(TableIncrement, IF m = 0 THEN m ELSE Plus(m, 1),
                            Minus(jobs[j].slot, 2))
        /\ UNCHANGED <<process, client, slots, spent>>

\* writeStartUpGaps: the rows, in a transaction of their own.
WriteStartUpGaps(j) ==
    LET m == jobs[j].maxSlot
    IN  /\ Step(j, "startgaps", [jobs[j] EXCEPT !.pc = "fetch"])
        /\ knownGaps' = knownGaps \cup
               KnownGapRows(TableIncrement, IF m = 0 THEN m ELSE Plus(m, 1),
                            Minus(jobs[j].slot, 1))
        /\ UNCHANGED <<process, client, slots, spent>>

\* processFullSlot: block and state are fetched; with CheckDb a slot that the
\* database already has is left at that.
Fetch(j) ==
    LET stored == CheckDb /\ slots[<<jobs[j].slot, jobs[j].root>>] # NoRow
    IN  /\ Step(j, "fetch", IF stored THEN Idle ELSE [jobs[j] EXCEPT !.pc = "insert"])
        /\ UNCHANGED <<process, client, tables, spent>>

\* The beacon node has no such block (404): the slot counts as skipped.
FetchSkipped(j) ==
    /\ Spend("skips", MaxSkips)
    /\ Step(j, "fetch", [jobs[j] EXCEPT !.pc = "insert", !.root = NoRoot])
    /\ UNCHANGED <<process, client, tables>>

\* A query fails or what it returns does not decode.
FetchFails(j) ==
    /\ Spend("faults", MaxFaults)
    /\ Step(j, "fetch", RolledBack(jobs[j]))
    /\ UNCHANGED <<process, client, tables>>

\* A slip: a previous head two slots back counts as the one before.
CheckPreviousSlotLax(job) ==
    LET compared == job.prevSlot # 0 /\ job.prevRoot # NoRoot /\ job.root # NoRoot
        ahead    == compared /\ job.prevSlot < job.slot
        next     == Plus(job.prevSlot, 1)
    IN  CASE compared /\ job.prevSlot = job.slot ->
                 [job EXCEPT !.pc = "fork", !.reorgSlot = job.slot, !.reorgRoot = job.root]
          [] ahead /\ Plus(next, 1) < job.slot ->
                 [job EXCEPT !.pc = "commit",
                             !.gaps = Missing(KnownGapRows(TableIncrement, next, Minus(job.slot, 1)))]
          [] ahead /\ job.prevRoot # ParentOf[job.root] ->
                 [job EXCEPT !.pc = "fork", !.reorgSlot = job.prevSlot,
                             !.reorgRoot = ParentOf[job.root]]
          [] OTHER -> [job EXCEPT !.pc = "commit"]

\* What remains to be done in the transaction once the slot is inserted: the
\* comparison with the previous head (checkPreviousSlot) and its outcome.
CheckPreviousSlot(job) ==
    LET compared == job.prevSlot # 0 /\ job.prevRoot # NoRoot /\ job.root # NoRoot
        ahead    == compared /\ job.prevSlot < job.slot
        next     == Plus(job.prevSlot, 1)
    IN  CASE compared /\ job.prevSlot = job.slot ->
                 [job EXCEPT !.pc = "fork", !.reorgSlot = job.slot, !.reorgRoot = job.root]
          [] ahead /\ next # job.slot ->
                 [job EXCEPT !.pc = "commit",
                             !.gaps = Missing(KnownGapRows(TableIncrement, next, Minus(job.slot, 1)))]
          [] ahead /\ next = job.slot /\ job.prevRoot # ParentOf[job.root] ->
                 [job EXCEPT !.pc = "fork", !.reorgSlot = job.prevSlot,
                             !.reorgRoot = ParentOf[job.root]]
          [] OTHER -> [job EXCEPT !.pc = "commit"]

\* transactFullSlot (ON CONFLICT DO NOTHING) and checkPreviousSlot.
InsertSlot(j) ==
    LET key    == <<jobs[j].slot, jobs[j].root>>
        status == IF jobs[j].root = NoRoot THEN "skipped" ELSE "proposed"
    IN  /\ Unobstructed(j)
        /\ Step(j, "insert",
                CheckPreviousSlot(
                    IF slots[key] = NoRow THEN [jobs[j] EXCEPT !.pend[key] = status]
                                          ELSE jobs[j]))
        /\ UNCHANGED <<process, client, tables, spent>>

InsertFails(j) ==
    /\ Spend("faults", MaxFaults)
    /\ Step(j, "insert", RolledBack(jobs[j]))
    /\ UNCHANGED <<process, client, tables>>

\* transactReorgs, first statement.
UpdateForked(j) ==
    /\ Unobstructed(j)
    /\ Step(j, "fork",
            [jobs[j] EXCEPT !.pc = "propose",
                 !.pend = [k \in Keys |-> IF k \in ForkTargets(j) THEN "forked" ELSE @[k]]])
    /\ UNCHANGED <<process, client, tables, spent>>

\* A slip: that no row could be marked is only logged.
UpdateProposedLogOnly(j) ==
    /\ Unobstructed(j)
    /\ Step(j, "propose",
            [jobs[j] EXCEPT !.pc = "commit",
                 !.pend = [k \in Keys |-> IF k \in ProposeTargets(j) THEN "proposed" ELSE @[k]]])
    /\ UNCHANGED <<process, client, tables, spent>>

\* transactReorgs, second statement; with no row to mark, the slot becomes a
\* known gap.
UpdateProposed(j) ==
    LET n == jobs[j].reorgSlot
    IN  /\ Unobstructed(j)
        /\ Step(j, "propose",
                [jobs[j] EXCEPT !.pc = "commit",
                     !.pend = [k \in Keys |-> IF k \in ProposeTargets(j) THEN "proposed" ELSE @[k]],
                     !.gaps = @ \cup IF ProposeTargets(j) = {} THEN Missing({ <<n, n>> }) ELSE {}])
        /\ UNCHANGED <<process, client, tables, spent>>

Commit(j) ==
    /\ Step(j, "commit", Idle)
    /\ slots' = [k \in Keys |-> IF jobs[j].pend[k] = NoRow THEN slots[k] ELSE jobs[j].pend[k]]
    /\ knownGaps' = knownGaps \cup jobs[j].gaps
    /\ UNCHANGED <<process, client, spent>>

\* A slip: the error is only logged.
RecordFailureLogOnly(j) ==
    /\ Step(j, "record", Idle)
    /\ UNCHANGED <<process, client, tables, spent>>

\* processHeadSlot: the error becomes a known gap of one slot.
RecordFailure(j) ==
    /\ Step(j, "record", Idle)
    /\ knownGaps' = knownGaps \cup
           KnownGapRows(TableIncrement, jobs[j].slot, jobs[j].slot)
    /\ UNCHANGED <<process, client, slots, spent>>

\* handleReorg: a chain_reorg event, and one whose slot does not parse, for
\* which strconv.ParseUint returns 0 or the largest uint64.
HandleReorg(slot, b) ==
    /\ Spend("reorgs", MaxReorgs)
    /\ Step(ReorgJob, "idle", [Idle EXCEPT !.pc = "fork", !.reorgSlot = slot, !.reorgRoot = b])
    /\ UNCHANGED <<process, client, tables>>

ReorgSlots(b) == {SlotOf[b], 0, Width - 1}

\* What the memory of the process held is lost, its transactions with it.
Die ==
    /\ process = "up"
    /\ process' = "down"
    /\ prevSlot' = 0
    /\ prevRoot' = NoRoot
    /\ startSlot' = 0
    /\ errorSlots' = 0
    /\ jobs' = [j \in Jobs |-> Idle]
    /\ UNCHANGED tables

\* Two transactions wait for each other and the server aborts one of them:
\* updateForked or updateProposed fails, transactReorgs then tries to write a
\* known gap within the aborted transaction, and upsertKnownGaps calls
\* log.Fatal.
DeadlockVictim(j) ==
    /\ \E i \in Jobs : Obstructs(i, j) /\ Obstructs(j, i)
    /\ Die
    /\ UNCHANGED spent

\* A commit that fails is an error for processHeadSlot, and fatal for
\* writeReorgs.
CommitFails(j) ==
    /\ Spend("faults", MaxFaults)
    /\ jobs[j].pc = "commit"
    /\ IF j = ReorgJob
       THEN Die
       ELSE /\ Step(j, "commit", RolledBack(jobs[j]))
            /\ UNCHANGED <<process, client, tables>>

\* The process is killed, or any other log.Fatal or panic ends it.
Crash == Die /\ Spend("crashes", MaxCrashes)

Restart ==
    /\ process = "down"
    /\ process' = "up"
    /\ UNCHANGED <<client, jobs, tables, spent>>

-----------------------------------------------------------------------------

\* The next step of goroutine j.
Proceed(j) ==
    \/ ReadMaxSlot(j) \/ WriteStartUpGaps(j)
    \/ Fetch(j)
    \/ InsertSlot(j) \/ UpdateForked(j) \/ UpdateProposed(j) \/ Commit(j)
    \/ RecordFailure(j)
    \/ DeadlockVictim(j)

Fail(j) == FetchSkipped(j) \/ FetchFails(j) \/ InsertFails(j) \/ CommitFails(j)

Next ==
    \/ \E j \in HeadJobs, b \in Blocks : HandleHead(j, b)
    \/ HandleBadHead
    \/ \E b \in Blocks : \E n \in ReorgSlots(b) : HandleReorg(n, b)
    \/ \E j \in Jobs : Proceed(j) \/ Fail(j)
    \/ Crash
    \/ Restart

Spec == Init /\ [][Next]_vars

\* The scheduler runs every goroutine, the beacon node answers every query
\* and the database every statement.
FairSpec == Spec /\ \A j \in Jobs : WF_vars(Proceed(j))

-----------------------------------------------------------------------------

HeadRoots == Blocks \cup {NoRoot}

Job == [pc : PCs, slot : Slots, root : HeadRoots, prevSlot : Slots, prevRoot : HeadRoots,
        maxSlot : Slots, reorgSlot : Slots, reorgRoot : Roots,
        pend : [Keys -> Statuses \cup {NoRow}], gaps : SUBSET (Slots \X Slots)]

TypeOK ==
    /\ process \in {"up", "down"}
    /\ prevSlot \in Slots
    /\ prevRoot \in HeadRoots
    /\ startSlot \in Slots
    /\ errorSlots \in Nat
    /\ jobs \in [Jobs -> Job]
    /\ slots \in [Keys -> Statuses \cup {NoRow}]
    /\ knownGaps \subseteq Slots \X Slots
    /\ spent \in [Bounds -> Nat]

\* The slot is in the database, or known to be missing from it.
InGap(n) == \E row \in knownGaps : n \in SlotsOf(row)
Tracked(n) == InGap(n) \/ \E k \in Keys : k[1] = n /\ slots[k] # NoRow

Quiet == \A j \in Jobs : jobs[j].pc = "idle"

\* writeStartUpGaps, checkPreviousSlot and the restart between them leave no
\* undetected gap: every slot between the oldest slot stored at the first
\* start and the newest one is in the database or in known_gaps.
NoUndetectedGap ==
    \A k \in Keys : slots[k] # NoRow =>
        \A n \in 0 .. k[1] :
            (StoredBlocks = {} \/ \E b \in StoredBlocks : SlotOf[b] <= n) => Tracked(n)

\* Gaps between head events are recorded whatever order their goroutines
\* commit in: no undetected gap from the slot at which this process started
\* (bc.StartingSlot) on, once no slot is being processed.
NoGapSinceStart ==
    process = "up" /\ Quiet /\ startSlot # 0 =>
        \A k \in Keys : slots[k] # NoRow =>
            \A n \in startSlot .. k[1] : Tracked(n)

\* The reorg update (transactReorgs) of a slot, whatever runs beside it and
\* wherever it stops, leaves a row of the slot that is not marked forked, or
\* an entry in known_gaps from which the right block is fetched later.
ForkedSlotIsRecoverable ==
    \A n \in Slots :
        LET rows == { k \in Keys : k[1] = n /\ slots[k] # NoRow }
        IN  rows # {} /\ (\A k \in rows : slots[k] = "forked") => InGap(n)

\* A head event that processHeadSlot took up ends with its slot in the
\* database or in known_gaps, unless the process dies: no goroutine waits
\* for ever for another's transaction and no error is dropped.
HeadIsRecorded ==
    \A n \in { SlotOf[b] : b \in Blocks } :
        (\E j \in HeadJobs : jobs[j].pc # "idle" /\ jobs[j].slot = n)
            ~> (Tracked(n) \/ process = "down")

\* capturehead_test.go: of the blocks of one slot only one is proposed, the
\* others are forked.
OneProposedPerSlot ==
    Quiet => \A k1, k2 \in Keys :
        k1[1] = k2[1] /\ slots[k1] = "proposed" /\ slots[k2] = "proposed" => k1 = k2

=============================================================================
