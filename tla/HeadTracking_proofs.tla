-------------------------- MODULE HeadTracking_proofs --------------------------
(***************************************************************************)
(* Theorems about HeadTracking, for every block tree, number of goroutines *)
(* and bound.                                                              *)
(***************************************************************************)
EXTENDS HeadTracking, KnownGapRanges_proofs

\* A uint64 expression is a slot, whatever wraps around.
LEMMA SlotArithmetic ==
    /\ 0 \in Slots
    /\ Width - 1 \in Slots
    /\ \A a, b \in Int : Plus(a, b) \in Slots /\ Minus(a, b) \in Slots
<1>1. 0 \in Slots /\ Width - 1 \in Slots
  BY WidthAssumption DEF Slots
<1>2. ASSUME NEW a \in Int, NEW b \in Int
      PROVE  Plus(a, b) \in Slots /\ Minus(a, b) \in Slots
  <2>1. a + b \in Int /\ a - b \in Int
    OBVIOUS
  <2>. QED  BY <2>1, WrapInSlots DEF Plus, Minus
<1>. QED  BY <1>1, <1>2

LEMMA SlotsAreIntegers == Slots \subseteq Int
BY WidthAssumption DEF Slots

\* Every row that transactKnownGaps writes is a pair of slots.
LEMMA KnownGapRowsType ==
    ASSUME NEW start \in Slots, NEW end \in Slots
    PROVE  KnownGapRows(TableIncrement, start, end) \subseteq Slots \X Slots
BY RowsAreSlots, ConfigAssumption

-----------------------------------------------------------------------------

LEMMA IdleIsAJob == Idle \in Job
BY SlotArithmetic DEF Idle, Job, PCs, Roots, HeadRoots, Untouched

\* A step of one goroutine leaves the others as they are.
LEMMA StepType ==
    ASSUME TypeOK, NEW j \in Jobs, NEW from, NEW job \in Job, Step(j, from, job)
    PROVE  jobs' \in [Jobs -> Job]
BY DEF TypeOK, Step

LEMMA SpendType ==
    ASSUME TypeOK, NEW bound \in Bounds, NEW max, Spend(bound, max)
    PROVE  spent' \in [Bounds -> Nat]
BY DEF TypeOK, Spend

LEMMA RolledBackType == ASSUME NEW job \in Job PROVE RolledBack(job) \in Job
BY DEF RolledBack, Job, PCs, Untouched

\* checkPreviousSlot changes a job into a job.
LEMMA CheckPreviousSlotType ==
    ASSUME NEW job \in Job
    PROVE  CheckPreviousSlot(job) \in Job
<1>. DEFINE next == Plus(job.prevSlot, 1)
            prev == Minus(job.slot, 1)
<1>1. next \in Slots /\ prev \in Slots
  <2>1. job.prevSlot \in Int /\ job.slot \in Int
    BY SlotsAreIntegers DEF Job
  <2>. QED  BY <2>1, SlotArithmetic
<1>2. KnownGapRows(TableIncrement, next, prev) \in SUBSET (Slots \X Slots)
  BY <1>1, KnownGapRowsType
<1>3. job.root \in Roots /\ (job.root # NoRoot => ParentOf[job.root] \in Roots)
  BY BlocksAssumption DEF Job, Roots, HeadRoots
<1>4. [job EXCEPT !.pc = "commit"] \in Job
  BY DEF Job, PCs
<1>5. [job EXCEPT !.pc = "commit",
                  !.gaps = Missing(KnownGapRows(TableIncrement, next, prev))] \in Job
  BY <1>2 DEF Job, PCs, Missing
<1>6. ASSUME NEW n \in Slots, NEW r \in Roots
      PROVE  [job EXCEPT !.pc = "fork", !.reorgSlot = n, !.reorgRoot = r] \in Job
  BY DEF Job, PCs
<1>7. job.slot \in Slots /\ job.prevSlot \in Slots
  BY DEF Job
<1>. HIDE DEF next, prev
<1>8. CASE job.root = NoRoot
  BY <1>8, <1>4 DEF CheckPreviousSlot
<1>9. CASE job.root # NoRoot
  <2>1. [job EXCEPT !.pc = "fork", !.reorgSlot = job.slot, !.reorgRoot = job.root] \in Job
    BY <1>6, <1>7, <1>3
  <2>2. [job EXCEPT !.pc = "fork", !.reorgSlot = job.prevSlot,
                    !.reorgRoot = ParentOf[job.root]] \in Job
    BY <1>6, <1>7, <1>3, <1>9
  <2>. QED  BY <2>1, <2>2, <1>4, <1>5 DEF CheckPreviousSlot, next, prev
<1>. QED  BY <1>8, <1>9

-----------------------------------------------------------------------------

LEMMA InitType == Init => TypeOK
<1>. SUFFICES ASSUME Init PROVE TypeOK
  OBVIOUS
<1>1. /\ process \in {"up", "down"}
      /\ prevSlot \in Slots /\ startSlot \in Slots
      /\ prevRoot \in HeadRoots
      /\ errorSlots \in Nat
      /\ knownGaps \subseteq Slots \X Slots
  BY SlotArithmetic DEF Init, HeadRoots
<1>2. jobs \in [Jobs -> Job]
  BY IdleIsAJob DEF Init
<1>3. slots \in [Keys -> Statuses \cup {NoRow}]
  BY DEF Init, Statuses, NoRow
<1>4. spent \in [Bounds -> Nat]
  BY DEF Init, Bounds
<1>. QED  BY <1>1, <1>2, <1>3, <1>4 DEF TypeOK

\* The end of the process leaves a state of the right type.
LEMMA DieType ==
    ASSUME TypeOK, Die
    PROVE  /\ process' \in {"up", "down"}
           /\ prevSlot' \in Slots /\ startSlot' \in Slots
           /\ prevRoot' \in HeadRoots
           /\ errorSlots' \in Nat
           /\ jobs' \in [Jobs -> Job]
           /\ slots' = slots
           /\ knownGaps' = knownGaps
BY IdleIsAJob, SlotArithmetic DEF TypeOK, Die, tables, HeadRoots

LEMMA StepTypeOK == TypeOK /\ [Next]_vars => TypeOK'
<1>. SUFFICES ASSUME TypeOK, [Next]_vars PROVE TypeOK'
  OBVIOUS
<1>. USE DEF Bounds
<1>1. ASSUME NEW j \in HeadJobs, NEW b \in Blocks, HandleHead(j, b)
      PROVE  TypeOK'
  <2>. DEFINE job == [Idle EXCEPT
                 !.pc = IF FirstHead(prevSlot, prevRoot) THEN "startup" ELSE "fetch",
                 !.slot = SlotOf[b], !.root = b,
                 !.prevSlot = prevSlot, !.prevRoot = prevRoot]
  <2>1. SlotOf[b] \in Slots /\ Plus(prevSlot, 1) \in Slots /\ b \in HeadRoots
    BY BlocksAssumption, SlotArithmetic, SlotsAreIntegers DEF TypeOK, HeadRoots
  <2>2. job \in Job
    BY <2>1, IdleIsAJob DEF Job, PCs, TypeOK
  <2>3. j \in Jobs /\ Step(j, "idle", job)
    BY <1>1 DEF HandleHead, Jobs
  <2>4. jobs' \in [Jobs -> Job]
    BY <2>2, <2>3, StepType
  <2>5. KnownGapRows(TableIncrement, Plus(prevSlot, 1), SlotOf[b]) \subseteq Slots \X Slots
    BY <2>1, KnownGapRowsType
  <2>6. knownGaps' \subseteq Slots \X Slots
    BY <2>5, <1>1 DEF HandleHead, TypeOK
  <2>7. spent' \in [Bounds -> Nat]
    BY <1>1, SpendType DEF HandleHead
  <2>8. prevSlot' \in Slots /\ startSlot' \in Slots /\ prevRoot' \in HeadRoots
        /\ errorSlots' \in Nat
    BY <1>1, <2>1 DEF HandleHead, TypeOK
  <2>. QED  BY <1>1, <2>4, <2>6, <2>7, <2>8 DEF HandleHead, TypeOK
<1>2. CASE HandleBadHead
  <2>1. spent' \in [Bounds -> Nat]
    BY <1>2, SpendType DEF HandleBadHead
  <2>. QED  BY <1>2, <2>1 DEF HandleBadHead, TypeOK, tables
<1>3. ASSUME NEW b \in Blocks, NEW n \in ReorgSlots(b), HandleReorg(n, b)
      PROVE  TypeOK'
  <2>1. n \in Slots /\ b \in Roots
    BY BlocksAssumption, SlotArithmetic DEF ReorgSlots, Roots
  <2>2. [Idle EXCEPT !.pc = "fork", !.reorgSlot = n, !.reorgRoot = b] \in Job
    BY <2>1, IdleIsAJob DEF Job, PCs
  <2>3. jobs' \in [Jobs -> Job]
    BY <1>3, <2>2, StepType DEF HandleReorg, Jobs
  <2>4. spent' \in [Bounds -> Nat]
    BY <1>3, SpendType DEF HandleReorg
  <2>. QED  BY <1>3, <2>3, <2>4 DEF HandleReorg, TypeOK, client, tables
<1>4. ASSUME NEW j \in Jobs, Proceed(j)
      PROVE  TypeOK'
  <2>. USE DEF TypeOK, client, tables
  <2>0. jobs[j] \in Job /\ jobs[j].slot \in Slots /\ jobs[j].slot \in Int
    BY SlotsAreIntegers DEF Job
  <2>1. CASE ReadMaxSlot(j)
    <3>1. PICK m \in Slots :
              Step(j, "startup",
                   [jobs[j] EXCEPT !.maxSlot = m,
                        !.pc = IF m < Minus(jobs[j].slot, 1) THEN "startgaps" ELSE "fetch"])
      BY <2>1 DEF ReadMaxSlot
    <3>2. [jobs[j] EXCEPT !.maxSlot = m,
               !.pc = IF m < Minus(jobs[j].slot, 1) THEN "startgaps" ELSE "fetch"] \in Job
      BY <2>0 DEF Job, PCs
    <3>3. jobs' \in [Jobs -> Job]
      BY <3>1, <3>2, StepType
    <3>. QED  BY <2>1, <3>3 DEF ReadMaxSlot
  <2>2. CASE WriteStartUpGaps(j)
    <3>. DEFINE m == jobs[j].maxSlot
    <3>1. [jobs[j] EXCEPT !.pc = "fetch"] \in Job
      BY <2>0 DEF Job, PCs
    <3>2. jobs' \in [Jobs -> Job]
      BY <2>2, <3>1, StepType DEF WriteStartUpGaps
    <3>3. m \in Slots /\ Plus(m, 1) \in Slots /\ Minus(jobs[j].slot, 1) \in Slots
      <4>1. m \in Slots /\ m \in Int
        BY <2>0, SlotsAreIntegers DEF Job
      <4>. QED  BY <4>1, <2>0, SlotArithmetic
    <3>4. KnownGapRows(TableIncrement, IF m = 0 THEN m ELSE Plus(m, 1),
                       Minus(jobs[j].slot, 1)) \subseteq Slots \X Slots
      BY <3>3, KnownGapRowsType
    <3>. QED  BY <2>2, <3>2, <3>4 DEF WriteStartUpGaps
  <2>3. CASE Fetch(j)
    <3>1. [jobs[j] EXCEPT !.pc = "insert"] \in Job
      BY <2>0 DEF Job, PCs
    <3>2. jobs' \in [Jobs -> Job]
      BY <2>3, <3>1, IdleIsAJob, StepType DEF Fetch
    <3>. QED  BY <2>3, <3>2 DEF Fetch
  <2>4. CASE InsertSlot(j)
    <3>. DEFINE key    == <<jobs[j].slot, jobs[j].root>>
                status == IF jobs[j].root = NoRoot THEN "skipped" ELSE "proposed"
                job    == IF slots[key] = NoRow THEN [jobs[j] EXCEPT !.pend[key] = status]
                                                ELSE jobs[j]
    <3>1. job \in Job
      BY <2>0 DEF Job, Statuses
    <3>2. CheckPreviousSlot(job) \in Job
      BY <3>1, CheckPreviousSlotType
    <3>3. Step(j, "insert", CheckPreviousSlot(job))
      BY <2>4 DEF InsertSlot
    <3>4. jobs' \in [Jobs -> Job]
      BY <3>2, <3>3, StepType
    <3>. QED  BY <2>4, <3>4 DEF InsertSlot
  <2>5. CASE UpdateForked(j)
    <3>1. [jobs[j] EXCEPT !.pc = "propose",
               !.pend = [k \in Keys |-> IF k \in ForkTargets(j) THEN "forked" ELSE @[k]]] \in Job
      BY <2>0 DEF Job, PCs, Statuses
    <3>2. jobs' \in [Jobs -> Job]
      BY <2>5, <3>1, StepType DEF UpdateForked
    <3>. QED  BY <2>5, <3>2 DEF UpdateForked
  <2>6. CASE UpdateProposed(j)
    <3>. DEFINE n == jobs[j].reorgSlot
                pend == [k \in Keys |-> IF k \in ProposeTargets(j) THEN "proposed"
                                                                   ELSE jobs[j].pend[k]]
                gaps == jobs[j].gaps \cup
                            IF ProposeTargets(j) = {} THEN Missing({ <<n, n>> }) ELSE {}
    <3>1. pend \in [Keys -> Statuses \cup {NoRow}] /\ gaps \in SUBSET (Slots \X Slots)
      BY <2>0 DEF Job, Statuses, Missing
    <3>2. [jobs[j] EXCEPT !.pc = "commit", !.pend = pend, !.gaps = gaps] \in Job
      BY <2>0, <3>1 DEF Job, PCs
    <3>3. Step(j, "propose", [jobs[j] EXCEPT !.pc = "commit", !.pend = pend, !.gaps = gaps])
      BY <2>6 DEF UpdateProposed
    <3>4. jobs' \in [Jobs -> Job]
      BY <3>2, <3>3, StepType
    <3>. QED  BY <2>6, <3>4 DEF UpdateProposed
  <2>7. CASE Commit(j)
    <3>1. jobs' \in [Jobs -> Job]
      BY <2>7, IdleIsAJob, StepType DEF Commit
    <3>2. jobs[j].pend \in [Keys -> Statuses \cup {NoRow}]
          /\ jobs[j].gaps \subseteq Slots \X Slots
      BY <2>0 DEF Job
    <3>3. slots' \in [Keys -> Statuses \cup {NoRow}]
      BY <2>7, <3>2 DEF Commit
    <3>. QED  BY <2>7, <3>1, <3>2, <3>3 DEF Commit
  <2>8. CASE RecordFailure(j)
    <3>1. jobs' \in [Jobs -> Job]
      BY <2>8, IdleIsAJob, StepType DEF RecordFailure
    <3>2. KnownGapRows(TableIncrement, jobs[j].slot, jobs[j].slot) \subseteq Slots \X Slots
      BY <2>0, KnownGapRowsType
    <3>. QED  BY <2>8, <3>1, <3>2 DEF RecordFailure
  <2>9. CASE DeadlockVictim(j)
    BY <2>9, DieType DEF DeadlockVictim
  <2>. QED  BY <1>4, <2>1, <2>2, <2>3, <2>4, <2>5, <2>6, <2>7, <2>8, <2>9 DEF Proceed
<1>5. ASSUME NEW j \in Jobs, Fail(j)
      PROVE  TypeOK'
  <2>. USE DEF TypeOK, client, tables
  <2>0. jobs[j] \in Job
    OBVIOUS
  <2>1. CASE FetchSkipped(j)
    <3>1. [jobs[j] EXCEPT !.pc = "insert", !.root = NoRoot] \in Job
      BY <2>0 DEF Job, PCs, HeadRoots
    <3>2. jobs' \in [Jobs -> Job] /\ spent' \in [Bounds -> Nat]
      BY <2>1, <3>1, StepType, SpendType DEF FetchSkipped
    <3>. QED  BY <2>1, <3>2 DEF FetchSkipped
  <2>2. CASE FetchFails(j)
    <3>1. jobs' \in [Jobs -> Job] /\ spent' \in [Bounds -> Nat]
      BY <2>2, <2>0, RolledBackType, StepType, SpendType DEF FetchFails
    <3>. QED  BY <2>2, <3>1 DEF FetchFails
  <2>3. CASE InsertFails(j)
    <3>1. jobs' \in [Jobs -> Job] /\ spent' \in [Bounds -> Nat]
      BY <2>3, <2>0, RolledBackType, StepType, SpendType DEF InsertFails
    <3>. QED  BY <2>3, <3>1 DEF InsertFails
  <2>4. CASE CommitFails(j)
    <3>1. spent' \in [Bounds -> Nat]
      BY <2>4, SpendType DEF CommitFails
    <3>2. CASE j = ReorgJob
      BY <2>4, <3>1, <3>2, DieType DEF CommitFails
    <3>3. CASE j # ReorgJob
      <4>1. jobs' \in [Jobs -> Job]
        BY <2>4, <3>3, <2>0, RolledBackType, StepType DEF CommitFails
      <4>. QED  BY <2>4, <3>1, <3>3, <4>1 DEF CommitFails
    <3>. QED  BY <3>2, <3>3
  <2>. QED  BY <1>5, <2>1, <2>2, <2>3, <2>4 DEF Fail
<1>6. CASE Crash
  <2>1. spent' \in [Bounds -> Nat]
    BY <1>6, SpendType DEF Crash
  <2>. QED  BY <1>6, <2>1, DieType DEF Crash, TypeOK
<1>7. CASE Restart
  BY <1>7 DEF Restart, TypeOK, client, tables
<1>8. CASE UNCHANGED vars
  BY <1>8 DEF vars, client, tables, TypeOK
<1>. QED  BY <1>1, <1>2, <1>3, <1>4, <1>5, <1>6, <1>7, <1>8 DEF Next

\* The types of the process's variables, of every goroutine's state and of
\* the two tables (HeadTracking's state, from start to crash to restart).
THEOREM TypeCorrect == Spec => []TypeOK
BY InitType, StepTypeOK, PTL DEF Spec

-----------------------------------------------------------------------------
(***************************************************************************)
(* A slot whose rows are all forked is a known gap.  The invariant looks   *)
(* into the transactions: rows are marked forked between UpdateForked and  *)
(* Commit only, all of one slot, and a transaction that is ready to commit *)
(* has also marked a row of that slot proposed or added its known gap.     *)
(***************************************************************************)

Marks(job, status) == { k \in Keys : job.pend[k] = status }

ReorgIsWhole(job) ==
    /\ \A k \in Marks(job, "forked") :
           k[1] = job.reorgSlot /\ job.pc \in {"propose", "commit"}
    /\ job.pc = "commit" /\ Marks(job, "forked") # {} =>
           \/ \E k \in Marks(job, "proposed") : k[1] = job.reorgSlot
           \/ <<job.reorgSlot, job.reorgSlot>> \in job.gaps \cup knownGaps

ReorgsAreWhole == \A j \in Jobs : ReorgIsWhole(jobs[j])

ReorgInv == TypeOK /\ ReorgsAreWhole /\ ForkedSlotIsRecoverable

LEMMA IdleIsWhole == ReorgIsWhole(Idle)
BY DEF ReorgIsWhole, Marks, Idle, Untouched, NoRow

\* A job without a row marked forked has nothing to make whole.
LEMMA UnmarkedIsWhole ==
    ASSUME NEW job, Marks(job, "forked") = {}
    PROVE  ReorgIsWhole(job)
BY DEF ReorgIsWhole

LEMMA StepIsWhole ==
    ASSUME TypeOK, ReorgsAreWhole, NEW j \in Jobs, NEW from, NEW job,
           Step(j, from, job), ReorgIsWhole(job), knownGaps \subseteq knownGaps'
    PROVE  ReorgsAreWhole'
<1>1. jobs' = [jobs EXCEPT ![j] = job]
  BY DEF Step
<1>2. \A i \in Jobs : jobs'[i] = IF i = j THEN job ELSE jobs[i]
  BY <1>1 DEF TypeOK
<1>3. \A i \in Jobs : ReorgIsWhole(jobs'[i])
  BY <1>2 DEF ReorgsAreWhole
<1>. QED  BY <1>3 DEF ReorgsAreWhole, ReorgIsWhole, Marks

\* Nothing that leaves the slots table alone and only adds known gaps makes a
\* slot unrecoverable.
LEMMA MoreGapsAreRecoverable ==
    ASSUME ForkedSlotIsRecoverable, slots' = slots, knownGaps \subseteq knownGaps'
    PROVE  ForkedSlotIsRecoverable'
BY DEF ForkedSlotIsRecoverable, InGap

LEMMA RolledBackIsWhole == ASSUME NEW job \in Job PROVE ReorgIsWhole(RolledBack(job))
<1>1. \A k \in Keys : RolledBack(job).pend[k] = NoRow
  BY DEF RolledBack, Job, Untouched
<1>. QED  BY <1>1, UnmarkedIsWhole DEF Marks, NoRow

\* checkPreviousSlot itself marks nothing.
LEMMA CheckPreviousSlotMarks ==
    ASSUME NEW job \in Job
    PROVE  CheckPreviousSlot(job).pend = job.pend
BY DEF CheckPreviousSlot, Job

\* The commit of a whole reorg leaves every slot recoverable.
LEMMA CommitIsRecoverable ==
    ASSUME ReorgInv, NEW j \in Jobs, Commit(j)
    PROVE  ForkedSlotIsRecoverable'
<1>. DEFINE job == jobs[j]
<1>1. /\ job \in Job
      /\ job.pc = "commit"
      /\ ReorgIsWhole(job)
      /\ slots' = [k \in Keys |-> IF job.pend[k] = NoRow THEN slots[k] ELSE job.pend[k]]
      /\ knownGaps' = knownGaps \cup job.gaps
  BY DEF ReorgInv, TypeOK, ReorgsAreWhole, Commit, Step
<1>. HIDE DEF job
<1>. SUFFICES ASSUME NEW n \in Slots,
                     \E k \in Keys : k[1] = n /\ slots'[k] # NoRow,
                     \A k \in Keys : k[1] = n /\ slots'[k] # NoRow => slots'[k] = "forked"
              PROVE  InGap(n)'
  BY DEF ForkedSlotIsRecoverable
<1>2. CASE \E k \in Keys : k[1] = n /\ job.pend[k] = "forked"
  <2>1. job.reorgSlot = n /\ Marks(job, "forked") # {}
    BY <1>1, <1>2 DEF ReorgIsWhole, Marks
  <2>2. ~ \E k \in Marks(job, "proposed") : k[1] = n
    BY <1>1 DEF Marks, NoRow
  <2>3. <<n, n>> \in knownGaps'
    BY <1>1, <2>1, <2>2 DEF ReorgIsWhole
  <2>4. n \in SlotsOf(<<n, n>>)
    BY SlotsAreIntegers DEF SlotsOf
  <2>. QED  BY <2>3, <2>4 DEF InGap
<1>3. CASE \A k \in Keys : k[1] = n => job.pend[k] # "forked"
  <2>1. \A k \in Keys : k[1] = n => slots'[k] = slots[k]
    BY <1>1, <1>3
  <2>2. InGap(n)
    BY <2>1 DEF ReorgInv, ForkedSlotIsRecoverable
  <2>. QED  BY <1>1, <2>2 DEF InGap
<1>. QED  BY <1>2, <1>3

LEMMA InitReorgInv == Init => ReorgInv
<1>. SUFFICES ASSUME Init PROVE ReorgInv
  OBVIOUS
<1>1. ReorgsAreWhole
  BY IdleIsWhole DEF Init, ReorgsAreWhole
<1>2. ForkedSlotIsRecoverable
  BY DEF Init, ForkedSlotIsRecoverable, NoRow
<1>. QED  BY <1>1, <1>2, InitType DEF ReorgInv

LEMMA DieReorgInv ==
    ASSUME ReorgInv, Die
    PROVE  ReorgsAreWhole' /\ ForkedSlotIsRecoverable'
<1>1. \A i \in Jobs : jobs'[i] = Idle
  BY DEF Die
<1>2. ReorgsAreWhole'
  BY <1>1, IdleIsWhole DEF Die, tables, ReorgsAreWhole, ReorgIsWhole, Marks
<1>. QED  BY <1>2, MoreGapsAreRecoverable DEF Die, tables, ReorgInv

\* A row of eth_beacon.slots stays.
LEMMA RowsStay ==
    ASSUME TypeOK, [Next]_vars, NEW k \in Keys, slots[k] # NoRow
    PROVE  slots'[k] # NoRow
<1>1. UNCHANGED slots \/ \E j \in Jobs : Commit(j)
  BY DEF Next, HandleHead, HandleBadHead, HandleReorg, Proceed, Fail, Crash, Restart,
     ReadMaxSlot, WriteStartUpGaps, Fetch, InsertSlot, UpdateForked, UpdateProposed,
     RecordFailure, DeadlockVictim, FetchSkipped, FetchFails, InsertFails, CommitFails,
     Die, vars, tables
<1>2. ASSUME NEW j \in Jobs, Commit(j) PROVE slots'[k] # NoRow
  BY <1>2 DEF Commit
<1>. QED  BY <1>1, <1>2

\* The head side never takes a known gap back.
LEMMA KnownGapsGrow == [Next]_vars => knownGaps \subseteq knownGaps'
<1>. SUFFICES ASSUME [Next]_vars PROVE knownGaps \subseteq knownGaps'
  OBVIOUS
<1>1. Die => knownGaps \subseteq knownGaps'
  BY DEF Die, tables
<1>2. ASSUME NEW j \in HeadJobs, NEW b \in Blocks, HandleHead(j, b)
      PROVE  knownGaps \subseteq knownGaps'
  BY <1>2 DEF HandleHead
<1>3. ASSUME NEW b \in Blocks, NEW n \in ReorgSlots(b), HandleReorg(n, b)
      PROVE  knownGaps \subseteq knownGaps'
  BY <1>3 DEF HandleReorg, tables
<1>4. ASSUME NEW j \in Jobs, Proceed(j) PROVE knownGaps \subseteq knownGaps'
  BY <1>1, <1>4 DEF Proceed, ReadMaxSlot, WriteStartUpGaps, Fetch, InsertSlot, UpdateForked,
       UpdateProposed, Commit, RecordFailure, DeadlockVictim, tables
<1>5. ASSUME NEW j \in Jobs, Fail(j) PROVE knownGaps \subseteq knownGaps'
  BY <1>1, <1>5 DEF Fail, FetchSkipped, FetchFails, InsertFails, CommitFails, tables
<1>6. CASE HandleBadHead \/ Crash \/ Restart \/ UNCHANGED vars
  BY <1>1, <1>6 DEF HandleBadHead, Crash, Restart, vars, tables
<1>. QED  BY <1>2, <1>3, <1>4, <1>5, <1>6 DEF Next

LEMMA StepReorgInv == ReorgInv /\ [Next]_vars => ReorgInv'
<1>. SUFFICES ASSUME ReorgInv, [Next]_vars PROVE ReorgsAreWhole' /\ ForkedSlotIsRecoverable'
  BY StepTypeOK DEF ReorgInv
<1>. USE DEF ReorgInv
<1>1. ASSUME NEW j \in HeadJobs, NEW b \in Blocks, HandleHead(j, b)
      PROVE  ReorgsAreWhole' /\ ForkedSlotIsRecoverable'
  <2>. DEFINE job == [Idle EXCEPT
                 !.pc = IF FirstHead(prevSlot, prevRoot) THEN "startup" ELSE "fetch",
                 !.slot = SlotOf[b], !.root = b,
                 !.prevSlot = prevSlot, !.prevRoot = prevRoot]
  <2>1. ReorgIsWhole(job)
    BY UnmarkedIsWhole DEF Marks, Idle, Untouched, NoRow
  <2>2. j \in Jobs /\ Step(j, "idle", job)
    BY <1>1 DEF HandleHead, Jobs
  <2>. HIDE DEF job
  <2>3. ReorgsAreWhole'
    BY <2>1, <2>2, KnownGapsGrow, StepIsWhole
  <2>. QED  BY <1>1, <2>3, MoreGapsAreRecoverable DEF HandleHead
<1>2. CASE HandleBadHead
  BY <1>2, MoreGapsAreRecoverable DEF HandleBadHead, tables, ReorgsAreWhole, ReorgIsWhole, Marks
<1>3. ASSUME NEW b \in Blocks, NEW n \in ReorgSlots(b), HandleReorg(n, b)
      PROVE  ReorgsAreWhole' /\ ForkedSlotIsRecoverable'
  <2>1. ReorgIsWhole([Idle EXCEPT !.pc = "fork", !.reorgSlot = n, !.reorgRoot = b])
    BY UnmarkedIsWhole DEF Marks, Idle, Untouched, NoRow
  <2>2. ReorgsAreWhole'
    BY <1>3, <2>1, KnownGapsGrow, StepIsWhole DEF HandleReorg, Jobs
  <2>. QED  BY <1>3, <2>2, MoreGapsAreRecoverable DEF HandleReorg, tables
<1>4. ASSUME NEW j \in Jobs, Proceed(j)
      PROVE  ReorgsAreWhole' /\ ForkedSlotIsRecoverable'
  <2>0. jobs[j] \in Job /\ ReorgIsWhole(jobs[j])
    BY DEF TypeOK, ReorgsAreWhole
  <2>00. jobs[j].pc \notin {"propose", "commit"} => Marks(jobs[j], "forked") = {}
    BY <2>0 DEF ReorgIsWhole
  <2>1. CASE ReadMaxSlot(j)
    <3>1. PICK m \in Slots :
              Step(j, "startup",
                   [jobs[j] EXCEPT !.maxSlot = m,
                        !.pc = IF m < Minus(jobs[j].slot, 1) THEN "startgaps" ELSE "fetch"])
      BY <2>1 DEF ReadMaxSlot
    <3>2. ReorgIsWhole([jobs[j] EXCEPT !.maxSlot = m,
               !.pc = IF m < Minus(jobs[j].slot, 1) THEN "startgaps" ELSE "fetch"])
      BY <3>1, <2>0, <2>00, UnmarkedIsWhole DEF Marks, Job, Step
    <3>3. ReorgsAreWhole'
      BY <3>1, <3>2, KnownGapsGrow, StepIsWhole
    <3>. QED  BY <2>1, <3>3, MoreGapsAreRecoverable DEF ReadMaxSlot, tables
  <2>2. CASE WriteStartUpGaps(j)
    <3>1. Step(j, "startgaps", [jobs[j] EXCEPT !.pc = "fetch"])
      BY <2>2 DEF WriteStartUpGaps
    <3>2. ReorgIsWhole([jobs[j] EXCEPT !.pc = "fetch"])
      BY <3>1, <2>0, <2>00, UnmarkedIsWhole DEF Marks, Job, Step
    <3>3. ReorgsAreWhole'
      BY <3>1, <3>2, KnownGapsGrow, StepIsWhole
    <3>. QED  BY <2>2, <3>3, MoreGapsAreRecoverable DEF WriteStartUpGaps
  <2>3. CASE Fetch(j)
    <3>. DEFINE stored == CheckDb /\ slots[<<jobs[j].slot, jobs[j].root>>] # NoRow
                job    == IF stored THEN Idle ELSE [jobs[j] EXCEPT !.pc = "insert"]
    <3>1. Step(j, "fetch", job)
      BY <2>3 DEF Fetch
    <3>2. ReorgIsWhole([jobs[j] EXCEPT !.pc = "insert"])
      BY <3>1, <2>0, <2>00, UnmarkedIsWhole DEF Marks, Job, Step
    <3>3. ReorgsAreWhole'
      BY <3>1, <3>2, IdleIsWhole, KnownGapsGrow, StepIsWhole
    <3>. QED  BY <2>3, <3>3, MoreGapsAreRecoverable DEF Fetch, tables
  <2>4. CASE InsertSlot(j)
    <3>. DEFINE key    == <<jobs[j].slot, jobs[j].root>>
                status == IF jobs[j].root = NoRoot THEN "skipped" ELSE "proposed"
                job    == IF slots[key] = NoRow THEN [jobs[j] EXCEPT !.pend[key] = status]
                                                ELSE jobs[j]
    <3>1. Step(j, "insert", CheckPreviousSlot(job))
      BY <2>4 DEF InsertSlot
    <3>2. job \in Job /\ Marks(job, "forked") = {}
      BY <3>1, <2>0, <2>00 DEF Job, Statuses, Marks, Step
    <3>. HIDE DEF job
    <3>3. ReorgIsWhole(CheckPreviousSlot(job))
      <4>1. CheckPreviousSlot(job).pend = job.pend
        BY <3>2, CheckPreviousSlotMarks
      <4>2. Marks(CheckPreviousSlot(job), "forked") = {}
        BY <3>2, <4>1 DEF Marks
      <4>. QED  BY <4>2, UnmarkedIsWhole
    <3>4. ReorgsAreWhole'
      BY <3>1, <3>3, KnownGapsGrow, StepIsWhole
    <3>. QED  BY <2>4, <3>4, MoreGapsAreRecoverable DEF InsertSlot, tables
  <2>5. CASE UpdateForked(j)
    <3>. DEFINE pend == [k \in Keys |-> IF k \in ForkTargets(j) THEN "forked" ELSE jobs[j].pend[k]]
                job  == [jobs[j] EXCEPT !.pc = "propose", !.pend = pend]
    <3>1. Step(j, "fork", job)
      BY <2>5 DEF UpdateForked
    <3>2. job.pc = "propose" /\ job.pend = pend /\ job.reorgSlot = jobs[j].reorgSlot
      BY <2>0 DEF Job
    <3>3. \A k \in Marks(job, "forked") : k \in ForkTargets(j)
      BY <3>1, <3>2, <2>00 DEF Marks, Step
    <3>4. ReorgIsWhole(job)
      BY <3>2, <3>3 DEF ReorgIsWhole, ForkTargets
    <3>5. ReorgsAreWhole'
      BY <3>1, <3>4, KnownGapsGrow, StepIsWhole
    <3>. QED  BY <2>5, <3>5, MoreGapsAreRecoverable DEF UpdateForked, tables
  <2>6. CASE UpdateProposed(j)
    <3>. DEFINE n == jobs[j].reorgSlot
                pend == [k \in Keys |-> IF k \in ProposeTargets(j) THEN "proposed"
                                                                   ELSE jobs[j].pend[k]]
                gaps == jobs[j].gaps \cup
                            IF ProposeTargets(j) = {} THEN Missing({ <<n, n>> }) ELSE {}
                job  == [jobs[j] EXCEPT !.pc = "commit", !.pend = pend, !.gaps = gaps]
    <3>1. Step(j, "propose", job)
      BY <2>6 DEF UpdateProposed
    <3>2. job.pc = "commit" /\ job.pend = pend /\ job.reorgSlot = n /\ job.gaps = gaps
      BY <2>0 DEF Job
    <3>3. \A k \in Marks(job, "forked") : k[1] = n
      BY <3>2, <2>0 DEF Marks, ReorgIsWhole
    <3>4. ReorgIsWhole(job)
      <4>1. CASE ProposeTargets(j) = {}
        <5>1. <<n, n>> \in gaps \cup knownGaps
          BY <4>1 DEF Missing
        <5>. QED  BY <3>2, <3>3, <5>1 DEF ReorgIsWhole
      <4>2. CASE ProposeTargets(j) # {}
        <5>1. PICK k \in ProposeTargets(j) : TRUE
          BY <4>2
        <5>2. k \in Keys /\ k[1] = n
          BY <5>1 DEF ProposeTargets, Visible
        <5>3. k \in Marks(job, "proposed")
          BY <5>1, <5>2, <3>2 DEF Marks
        <5>. QED  BY <3>2, <3>3, <5>2, <5>3 DEF ReorgIsWhole
      <4>. QED  BY <4>1, <4>2
    <3>5. ReorgsAreWhole'
      BY <3>1, <3>4, KnownGapsGrow, StepIsWhole
    <3>. QED  BY <2>6, <3>5, MoreGapsAreRecoverable DEF UpdateProposed, tables
  <2>7. CASE Commit(j)
    <3>1. ReorgsAreWhole'
      BY <2>7, IdleIsWhole, KnownGapsGrow, StepIsWhole DEF Commit
    <3>. QED  BY <2>7, <3>1, CommitIsRecoverable
  <2>8. CASE RecordFailure(j)
    <3>1. ReorgsAreWhole'
      BY <2>8, IdleIsWhole, KnownGapsGrow, StepIsWhole DEF RecordFailure
    <3>. QED  BY <2>8, <3>1, MoreGapsAreRecoverable DEF RecordFailure
  <2>9. CASE DeadlockVictim(j)
    BY <2>9, DieReorgInv DEF DeadlockVictim
  <2>. QED  BY <1>4, <2>1, <2>2, <2>3, <2>4, <2>5, <2>6, <2>7, <2>8, <2>9 DEF Proceed
<1>5. ASSUME NEW j \in Jobs, Fail(j)
      PROVE  ReorgsAreWhole' /\ ForkedSlotIsRecoverable'
  <2>0. jobs[j] \in Job /\ ReorgIsWhole(jobs[j])
    BY DEF TypeOK, ReorgsAreWhole
  <2>1. CASE FetchSkipped(j)
    <3>1. Step(j, "fetch", [jobs[j] EXCEPT !.pc = "insert", !.root = NoRoot])
      BY <2>1 DEF FetchSkipped
    <3>2. ReorgIsWhole([jobs[j] EXCEPT !.pc = "insert", !.root = NoRoot])
      BY <3>1, <2>0, UnmarkedIsWhole DEF Marks, Job, Step, ReorgIsWhole
    <3>3. ReorgsAreWhole'
      BY <3>1, <3>2, KnownGapsGrow, StepIsWhole
    <3>. QED  BY <2>1, <3>3, MoreGapsAreRecoverable DEF FetchSkipped, tables
  <2>2. CASE FetchFails(j)
    <3>1. ReorgsAreWhole'
      BY <2>2, <2>0, RolledBackIsWhole, KnownGapsGrow, StepIsWhole DEF FetchFails
    <3>. QED  BY <2>2, <3>1, MoreGapsAreRecoverable DEF FetchFails, tables
  <2>3. CASE InsertFails(j)
    <3>1. ReorgsAreWhole'
      BY <2>3, <2>0, RolledBackIsWhole, KnownGapsGrow, StepIsWhole DEF InsertFails
    <3>. QED  BY <2>3, <3>1, MoreGapsAreRecoverable DEF InsertFails, tables
  <2>4. CASE CommitFails(j)
    <3>1. CASE j = ReorgJob
      BY <2>4, <3>1, DieReorgInv DEF CommitFails
    <3>2. CASE j # ReorgJob
      <4>1. ReorgsAreWhole'
        BY <2>4, <3>2, <2>0, RolledBackIsWhole, KnownGapsGrow, StepIsWhole DEF CommitFails
      <4>. QED  BY <2>4, <3>2, <4>1, MoreGapsAreRecoverable DEF CommitFails, tables
    <3>. QED  BY <3>1, <3>2
  <2>. QED  BY <1>5, <2>1, <2>2, <2>3, <2>4 DEF Fail
<1>6. CASE Crash
  BY <1>6, DieReorgInv DEF Crash
<1>7. CASE Restart
  BY <1>7, MoreGapsAreRecoverable DEF Restart, tables, ReorgsAreWhole, ReorgIsWhole, Marks
<1>8. CASE UNCHANGED vars
  BY <1>8, MoreGapsAreRecoverable DEF vars, tables, ReorgsAreWhole, ReorgIsWhole, Marks
<1>. QED  BY <1>1, <1>2, <1>3, <1>4, <1>5, <1>6, <1>7, <1>8 DEF Next

\* Whatever heads and reorgs run at once, whichever statement fails and
\* wherever the process dies, a slot whose rows are all marked forked by
\* transactReorgs is in known_gaps.
THEOREM ForkedSlotsAreRecoverable == Spec => []ForkedSlotIsRecoverable
<1>1. ReorgInv => ForkedSlotIsRecoverable
  BY DEF ReorgInv
<1>. QED  BY <1>1, InitReorgInv, StepReorgInv, PTL DEF Spec

-----------------------------------------------------------------------------
(***************************************************************************)
(* Undetected gaps.  Both properties about them need a head side on which  *)
(* nothing fails: a head that is not served, or whose statement or commit  *)
(* fails, takes the gap before it along (README, section 5).  The slots    *)
(* are below half of the uint64 range, so that the number of chunks of a   *)
(* range is a positive int, and no head is at slot 0, which handleHead     *)
(* takes for "no previous head".                                           *)
(***************************************************************************)

SlotsAreSmall == \A b \in Blocks : 2 * SlotOf[b] < Width

HeadFails == \E j \in HeadJobs : Fail(j)

GenesisComes == \E j \in HeadJobs, b \in Blocks : HandleHead(j, b) /\ SlotOf[b] = 0

OwnKey(job) == <<job.slot, job.root>>

Active(job)  == job.pc # "idle"
Written(job) == job.pc \in {"fork", "propose", "commit"}

\* The slots that a goroutine has to record when it compares its head with the
\* previous one.
Between(job, n) == job.prevRoot # NoRoot /\ job.prevSlot < n /\ n < job.slot

\* What a goroutine of a head knows: its block, and the previous one unless it
\* is the first.
LegalHeads == { job \in Job :
    /\ job.pc # "record"
    /\ job.pc \in {"startup", "startgaps"} => job.prevRoot = NoRoot
    /\ Active(job) => job.root \in Blocks /\ job.slot = SlotOf[job.root] /\ job.slot # 0
    /\ job.prevRoot # NoRoot =>
           job.prevRoot \in Blocks /\ job.prevSlot = SlotOf[job.prevRoot] /\ job.prevSlot # 0 }

HeadsAreLegal == \A j \in HeadJobs : jobs[j] \in LegalHeads

ReorgIsLegal == jobs[ReorgJob].pc \in {"idle", "fork", "propose", "commit"}

PreviousIsLegal ==
    /\ prevRoot = NoRoot => prevSlot = 0 /\ \A j \in HeadJobs : ~Active(jobs[j])
    /\ prevRoot # NoRoot => prevSlot = SlotOf[prevRoot] /\ prevSlot # 0

\* The only row that a transaction adds is the one of its own block.
OnlyOwnRows ==
    \A j \in Jobs : \A k \in Keys :
        jobs[j].pend[k] # NoRow => slots[k] # NoRow \/ (j \in HeadJobs /\ k = OwnKey(jobs[j]))

\* Once it has compared its head, a transaction holds the row of its block and
\* the slots between the previous head and its own.
HeadsAreWhole ==
    \A j \in HeadJobs : Written(jobs[j]) =>
        /\ slots[OwnKey(jobs[j])] # NoRow \/ jobs[j].pend[OwnKey(jobs[j])] # NoRow
        /\ \A n \in Slots : Between(jobs[j], n) =>
               InGap(n) \/ \E row \in jobs[j].gaps : n \in SlotsOf(row)

JobsInv ==
    /\ TypeOK
    /\ HeadsAreLegal
    /\ ReorgIsLegal
    /\ PreviousIsLegal
    /\ OnlyOwnRows
    /\ HeadsAreWhole

-----------------------------------------------------------------------------
(***************************************************************************)
(* Since the start: goroutines of successive heads in any order.           *)
(***************************************************************************)

\* The first head after a start is behind what is stored.
StartsBehind ==
    \E j \in HeadJobs, b \in Blocks :
        /\ HandleHead(j, b)
        /\ prevRoot = NoRoot
        /\ \E k \in Keys : slots[k] # NoRow /\ SlotOf[b] < k[1]

\* With CheckDb, a head that is stored or in work is announced once more: the
\* goroutine that finds it stored may be the only one that knows of a gap.
ComesAgain ==
    \E j \in HeadJobs, b \in Blocks :
        /\ HandleHead(j, b)
        /\ CheckDb /\ prevRoot # NoRoot
        /\ \/ slots[<<SlotOf[b], b>>] # NoRow
           \/ \E i \in HeadJobs : Active(jobs[i]) /\ jobs[i].root = b

\* No two goroutines have one block, and none has a block that was stored
\* before it looked.
HeadsAreNew ==
    CheckDb =>
        /\ \A i, j \in HeadJobs :
               i # j /\ Active(jobs[i]) /\ Active(jobs[j]) => jobs[i].root # jobs[j].root
        /\ \A j \in HeadJobs :
               jobs[j].pc = "fetch" /\ jobs[j].prevRoot # NoRoot => slots[OwnKey(jobs[j])] = NoRow

WillTrack(job, n) == Active(job) /\ (n = job.slot \/ Between(job, n))

\* The slot is tracked, or a goroutine will see to it.
Promised(n) == Tracked(n) \/ \E j \in HeadJobs : WillTrack(jobs[j], n)

Reached(n) ==
    \/ n <= prevSlot
    \/ \E k \in Keys : slots[k] # NoRow /\ n <= k[1]
    \/ \E j \in HeadJobs : Active(jobs[j]) /\ n <= jobs[j].slot

ReachedIsPromised ==
    startSlot # 0 => \A n \in Slots : startSlot <= n /\ Reached(n) => Promised(n)

SinceStartInv == JobsInv /\ HeadsAreNew /\ ReachedIsPromised

-----------------------------------------------------------------------------
(***************************************************************************)
(* Over restarts: one head at a time.                                      *)
(***************************************************************************)

\* A head comes while the goroutine of another is at work.
HeadsOverlap ==
    \E j \in HeadJobs, b \in Blocks :
        HandleHead(j, b) /\ \E i \in HeadJobs : Active(jobs[i])

\* The database has no gap to begin with; if it is empty the chain does not
\* begin with slot 1, for which writeStartUpGaps takes slot 0 as stored.
GaplessStart ==
    /\ \A b, c \in StoredBlocks : \A n \in SlotOf[b] .. SlotOf[c] :
           \E d \in StoredBlocks : SlotOf[d] = n
    /\ StoredBlocks = {} => \A b \in Blocks : SlotOf[b] # 1

\* From the oldest slot stored at the first start on.
Relevant(n) == StoredBlocks = {} \/ \E b \in StoredBlocks : SlotOf[b] <= n

StoredKeys == { k \in Keys : slots[k] # NoRow }

OneHeadAtATime ==
    \A i, j \in HeadJobs : Active(jobs[i]) /\ Active(jobs[j]) => i = j

StoredStays == \A b \in StoredBlocks : <<SlotOf[b], b>> \in StoredKeys

\* The previous head is stored, or the goroutine at work is its own.
PreviousIsStored ==
    prevRoot # NoRoot =>
        \/ <<prevSlot, prevRoot>> \in StoredKeys
        \/ \E j \in HeadJobs : Active(jobs[j]) /\ OwnKey(jobs[j]) = <<prevSlot, prevRoot>>

\* Below the slot of the first head nothing is missing once the start-up gaps
\* are written; the highest slot that was read is still the highest; and the
\* previous head of any other is stored.
ReadyHeads == { job \in LegalHeads :
    /\ Active(job) /\ job.prevRoot # NoRoot => <<job.prevSlot, job.prevRoot>> \in StoredKeys
    /\ job.prevRoot = NoRoot /\ job.pc \notin {"idle", "startup", "startgaps"} =>
           \A n \in Slots : Relevant(n) /\ n < job.slot => Tracked(n)
    /\ job.pc = "startgaps" =>
           /\ job.maxSlot + 1 < job.slot
           /\ job.maxSlot = 0 \/ \E k \in StoredKeys : k[1] = job.maxSlot }

HeadsAreReady == \A j \in HeadJobs : jobs[j] \in ReadyHeads

SequentialInv ==
    /\ JobsInv
    /\ OneHeadAtATime
    /\ StoredStays
    /\ PreviousIsStored
    /\ HeadsAreReady
    /\ NoUndetectedGap

\* What a step of a head's goroutine does, if it is not its last one ...
SameHead(new, job) ==
    new.slot = job.slot /\ new.root = job.root
    /\ new.prevSlot = job.prevSlot /\ new.prevRoot = job.prevRoot

GoesOn(j) ==
    /\ slots' = slots
    /\ jobs'[j] \in LegalHeads /\ Active(jobs'[j]) /\ SameHead(jobs'[j], jobs[j])
    /\ jobs'[j].pc # "startup"
    /\ jobs'[j].pc = "startgaps" => jobs[j].pc = "startup"
    /\ jobs'[j].pc = "fetch" => jobs[j].prevRoot = NoRoot
    /\ \A k \in Keys : jobs'[j].pend[k] # NoRow => slots[k] # NoRow \/ k = OwnKey(jobs[j])
    /\ Written(jobs'[j]) =>
           /\ slots[OwnKey(jobs[j])] # NoRow \/ jobs'[j].pend[OwnKey(jobs[j])] # NoRow
           /\ \A n \in Slots : Between(jobs[j], n) =>
                  InGap(n) \/ \E row \in jobs'[j].gaps : n \in SlotsOf(row)

\* ... and if it is: the slots up to its own are tracked, unless it has found
\* its block stored.
Ends(j) ==
    /\ jobs'[j] = Idle
    /\ \A k \in Keys : slots'[k] # NoRow => slots[k] # NoRow \/ k = OwnKey(jobs[j])
    /\ slots'[OwnKey(jobs[j])] # NoRow
    /\ \/ \A n \in Slots : Between(jobs[j], n) => InGap(n)'
       \/ CheckDb /\ jobs[j].pc = "fetch" /\ slots' = slots

HeadProceeds(j) ==
    /\ Active(jobs[j])
    /\ \A i \in Jobs : i # j => jobs'[i] = jobs[i]
    /\ prevSlot' = prevSlot /\ prevRoot' = prevRoot /\ startSlot' = startSlot
    /\ GoesOn(j) \/ Ends(j)

LEMMA IdleHeadIsLegal == Idle \in LegalHeads /\ ~Active(Idle) /\ Idle.root = NoRoot
BY IdleIsAJob DEF LegalHeads, Idle, Active

LEMMA OwnKeyIsAKey ==
    ASSUME NEW job \in LegalHeads, Active(job)
    PROVE  OwnKey(job) \in Keys
BY DEF LegalHeads, OwnKey, Keys

LEMMA SlotNumbers ==
    /\ Slots \subseteq Nat
    /\ \A b \in Blocks : SlotOf[b] \in Slots
BY SlotsAreNaturals, BlocksAssumption

LEMMA KeySlots == \A k \in Keys : k[1] \in Slots /\ k[1] \in Nat
<1>1. ASSUME NEW k \in Keys PROVE k[1] \in Slots
  BY <1>1, SlotNumbers DEF Keys
<1>. QED  BY <1>1, SlotNumbers

\* The rows of a gap that ends before a head.
LEMMA RowsOfAGap ==
    ASSUME SlotsAreSmall, NEW b \in Blocks, NEW s \in Slots, s < SlotOf[b]
    PROVE  /\ Minus(SlotOf[b], 1) = SlotOf[b] - 1
           /\ Plus(s, 1) = s + 1
           /\ \A n \in Slots : s <= n /\ n < SlotOf[b] =>
                  \E row \in KnownGapRows(TableIncrement, s, SlotOf[b] - 1) : n \in SlotsOf(row)
<1>1. s \in Nat /\ SlotOf[b] \in Nat /\ SlotOf[b] < Width /\ Width \in Nat
  BY SlotNumbers, WidthAssumption DEF Slots
<1>2. SlotOf[b] - 1 \in Slots /\ s + 1 \in Slots
  BY <1>1 DEF Slots
<1>3. Minus(SlotOf[b], 1) = SlotOf[b] - 1 /\ Plus(s, 1) = s + 1
  BY <1>2, WrapOfSlot DEF Minus, Plus
<1>4. s <= SlotOf[b] - 1 /\ 2 * ((SlotOf[b] - 1) - s) < Width
  BY <1>1 DEF SlotsAreSmall
<1>5. UNION { SlotsOf(row) : row \in KnownGapRows(TableIncrement, s, SlotOf[b] - 1) }
          = s .. (SlotOf[b] - 1)
  BY <1>2, <1>4, RowsOfProperRange, ConfigAssumption
<1>6. ASSUME NEW n \in Slots, s <= n, n < SlotOf[b] PROVE n \in s .. (SlotOf[b] - 1)
  BY <1>1, <1>6, SlotNumbers
<1>. QED  BY <1>3, <1>5, <1>6

\* checkPreviousSlot: whichever way it goes, the slots between the heads are
\* in the transaction's gaps, or there already.
LEMMA ComparisonIsWhole ==
    ASSUME TypeOK, SlotsAreSmall, NEW job \in LegalHeads, Active(job)
    PROVE  LET new == CheckPreviousSlot(job)
           IN  /\ new.pc \in {"fork", "commit"} /\ new.pend = job.pend /\ SameHead(new, job)
               /\ \A n \in Slots : Between(job, n) =>
                      InGap(n) \/ \E row \in new.gaps : n \in SlotsOf(row)
<1>. DEFINE new == CheckPreviousSlot(job)
            next == Plus(job.prevSlot, 1)
            rows == KnownGapRows(TableIncrement, next, Minus(job.slot, 1))
<1>0. job \in Job /\ job.root \in Blocks /\ job.slot = SlotOf[job.root] /\ job.root # NoRoot
      /\ job.slot \in Nat /\ job.prevSlot \in Slots /\ job.prevSlot \in Nat
  BY SlotNumbers, BlocksAssumption DEF LegalHeads, Job
<1>1. new.pc \in {"fork", "commit"} /\ new.pend = job.pend /\ SameHead(new, job)
  BY <1>0 DEF CheckPreviousSlot, Job, SameHead
<1>2. ASSUME NEW n \in Slots, Between(job, n)
      PROVE  InGap(n) \/ \E row \in new.gaps : n \in SlotsOf(row)
  <2>1. n \in Nat /\ job.prevRoot # NoRoot /\ job.prevSlot < n /\ n < job.slot /\ job.prevSlot # 0
    BY <1>2, SlotNumbers DEF Between, LegalHeads
  <2>2. next = job.prevSlot + 1 /\ job.prevSlot + 1 \in Slots /\ job.prevSlot + 1 < SlotOf[job.root]
    <3>1. job.prevSlot < SlotOf[job.root]
      BY <1>0, <2>1
    <3>2. Plus(job.prevSlot, 1) = job.prevSlot + 1
      BY <1>0, <3>1, RowsOfAGap
    <3>. QED  BY <1>0, <2>1, <3>2, SlotNumbers, WidthAssumption DEF Slots
  <2>3. new.gaps = Missing(rows)
    <3>1. next # job.slot /\ job.prevSlot # job.slot /\ job.prevSlot < job.slot
      BY <1>0, <2>1, <2>2
    <3>. HIDE DEF next
    <3>2. new = [job EXCEPT !.pc = "commit", !.gaps = Missing(rows)]
      BY <1>0, <2>1, <3>1 DEF CheckPreviousSlot, next
    <3>. QED  BY <1>0, <3>2 DEF Job
  <2>4. \E row \in rows : n \in SlotsOf(row)
    <3>1. \A m \in Slots : job.prevSlot + 1 <= m /\ m < SlotOf[job.root] =>
              \E row \in KnownGapRows(TableIncrement, job.prevSlot + 1, SlotOf[job.root] - 1) :
                  m \in SlotsOf(row)
      BY <1>0, <2>2, RowsOfAGap
    <3>2. Minus(SlotOf[job.root], 1) = SlotOf[job.root] - 1
      BY <1>0, <2>2, RowsOfAGap
    <3>3. job.prevSlot + 1 <= n /\ n < SlotOf[job.root]
      BY <1>0, <2>1
    <3>. QED  BY <1>0, <2>2, <3>1, <3>2, <3>3
  <2>. QED  BY <2>3, <2>4 DEF Missing, InGap
<1>. QED  BY <1>1, <1>2

LEMMA StepJobs ==
    ASSUME TypeOK, NEW j \in Jobs, NEW from, NEW job, Step(j, from, job)
    PROVE  /\ jobs[j].pc = from /\ jobs'[j] = job
           /\ \A i \in Jobs : i # j => jobs'[i] = jobs[i]
BY DEF Step, TypeOK

LEMMA HeadIsNotReorg == \A j \in HeadJobs : j \in Jobs /\ j # ReorgJob
BY JobsAssumption DEF Jobs

\* Up to the comparison a goroutine has written nothing.
LEMMA BeforeTheComparison ==
    ASSUME JobsInv, NEW j \in HeadJobs, NEW new \in Job, jobs'[j] = new,
           new.pc \in {"startgaps", "fetch", "insert"}, Active(jobs[j]),
           new.pc = "startgaps" => jobs[j].pc = "startup",
           new.pc # "insert" => jobs[j].prevRoot = NoRoot,
           SameHead(new, jobs[j]), new.pend = jobs[j].pend, slots' = slots
    PROVE  GoesOn(j)
<1>1. jobs[j] \in LegalHeads /\ j \in Jobs
  BY HeadIsNotReorg DEF JobsInv, HeadsAreLegal
<1>2. new \in LegalHeads /\ Active(new) /\ ~Written(new)
  BY <1>1 DEF LegalHeads, SameHead, Active, Written
<1>3. \A k \in Keys : new.pend[k] # NoRow => slots[k] # NoRow \/ k = OwnKey(jobs[j])
  BY <1>1 DEF JobsInv, OnlyOwnRows
<1>. QED  BY <1>2, <1>3 DEF GoesOn

LEMMA HeadGoesOnOrEnds ==
    ASSUME JobsInv, SlotsAreSmall, NEW j \in HeadJobs, Proceed(j), ~DeadlockVictim(j)
    PROVE  HeadProceeds(j)
<1>. DEFINE job == jobs[j]
<1>0. /\ job \in LegalHeads /\ job \in Job /\ j \in Jobs /\ TypeOK
      /\ \A k \in Keys : job.pend[k] # NoRow => slots[k] # NoRow \/ k = OwnKey(job)
      /\ Written(job) =>
             /\ slots[OwnKey(job)] # NoRow \/ job.pend[OwnKey(job)] # NoRow
             /\ \A n \in Slots : Between(job, n) =>
                    InGap(n) \/ \E row \in job.gaps : n \in SlotsOf(row)
  BY HeadIsNotReorg DEF JobsInv, HeadsAreLegal, LegalHeads, OnlyOwnRows, HeadsAreWhole
<1>1. CASE ReadMaxSlot(j)
  <2>1. PICK m \in Slots :
            Step(j, "startup",
                 [job EXCEPT !.maxSlot = m,
                      !.pc = IF m < Minus(job.slot, 1) THEN "startgaps" ELSE "fetch"])
    BY <1>1 DEF ReadMaxSlot
  <2>. DEFINE new == [job EXCEPT !.maxSlot = m,
                      !.pc = IF m < Minus(job.slot, 1) THEN "startgaps" ELSE "fetch"]
  <2>2. /\ new \in Job /\ new.pc \in {"startgaps", "fetch"}
        /\ SameHead(new, job) /\ new.pend = job.pend
    BY <1>0 DEF Job, PCs, SameHead
  <2>3. job.pc = "startup" /\ jobs'[j] = new /\ \A i \in Jobs : i # j => jobs'[i] = jobs[i]
    <3>. HIDE DEF job
    <3>. QED  BY <1>0, <2>1, StepJobs DEF job
  <2>. HIDE DEF new
  <2>4. Active(job) /\ job.prevRoot = NoRoot
    BY <1>0, <2>3 DEF Active, LegalHeads
  <2>5. slots' = slots /\ client' = client
    BY <1>1 DEF ReadMaxSlot, tables
  <2>6. GoesOn(j)
    BY <2>2, <2>3, <2>4, <2>5, BeforeTheComparison
  <2>. QED  BY <2>3, <2>4, <2>5, <2>6 DEF client, HeadProceeds
<1>2. CASE WriteStartUpGaps(j)
  <2>. DEFINE new == [job EXCEPT !.pc = "fetch"]
  <2>1. Step(j, "startgaps", new) /\ slots' = slots /\ client' = client
    BY <1>2 DEF WriteStartUpGaps
  <2>2. new \in Job /\ new.pc = "fetch" /\ SameHead(new, job) /\ new.pend = job.pend
    BY <1>0 DEF Job, PCs, SameHead
  <2>. HIDE DEF new
  <2>3. job.pc = "startgaps" /\ jobs'[j] = new /\ \A i \in Jobs : i # j => jobs'[i] = jobs[i]
    BY <1>0, <2>1, StepJobs
  <2>4. Active(job) /\ job.prevRoot = NoRoot
    BY <1>0, <2>3 DEF Active, LegalHeads
  <2>5. GoesOn(j)
    BY <2>1, <2>2, <2>3, <2>4, BeforeTheComparison
  <2>. QED  BY <2>1, <2>3, <2>4, <2>5 DEF client, HeadProceeds
<1>3. CASE Fetch(j)
  <2>. DEFINE new == [job EXCEPT !.pc = "insert"]
              stored == CheckDb /\ slots[OwnKey(job)] # NoRow
  <2>1. Step(j, "fetch", IF stored THEN Idle ELSE new)
        /\ slots' = slots /\ client' = client
    BY <1>3 DEF Fetch, tables, OwnKey
  <2>2. new \in Job /\ new.pc = "insert" /\ SameHead(new, job) /\ new.pend = job.pend
    BY <1>0 DEF Job, PCs, SameHead
  <2>. HIDE DEF new, stored
  <2>3. /\ job.pc = "fetch" /\ jobs'[j] = (IF stored THEN Idle ELSE new)
        /\ \A i \in Jobs : i # j => jobs'[i] = jobs[i]
    BY <1>0, <2>1, StepJobs
  <2>4. Active(job)
    BY <2>3 DEF Active
  <2>5. CASE stored
    <3>1. Ends(j)
      BY <2>1, <2>3, <2>5 DEF Ends, stored
    <3>. QED  BY <2>1, <2>3, <2>4, <3>1 DEF client, HeadProceeds
  <2>6. CASE ~stored
    <3>1. GoesOn(j)
      BY <2>1, <2>2, <2>3, <2>4, <2>6, BeforeTheComparison
    <3>. QED  BY <2>1, <2>3, <2>4, <3>1 DEF client, HeadProceeds
  <2>. QED  BY <2>5, <2>6
<1>4. CASE InsertSlot(j)
  <2>. DEFINE status == IF job.root = NoRoot THEN "skipped" ELSE "proposed"
              ins    == IF slots[OwnKey(job)] = NoRow
                        THEN [job EXCEPT !.pend[OwnKey(job)] = status] ELSE job
              new    == CheckPreviousSlot(ins)
  <2>1. Step(j, "insert", new) /\ slots' = slots /\ client' = client
    BY <1>4 DEF InsertSlot, tables, OwnKey
  <2>. HIDE DEF new
  <2>2. /\ job.pc = "insert" /\ jobs'[j] = new
        /\ \A i \in Jobs : i # j => jobs'[i] = jobs[i]
    BY <1>0, <2>1, StepJobs
  <2>3. Active(job) /\ OwnKey(job) \in Keys
    BY <1>0, <2>2, OwnKeyIsAKey DEF Active
  <2>4. /\ ins \in LegalHeads /\ Active(ins) /\ SameHead(ins, job) /\ ins.pc = "insert"
        /\ \A k \in Keys : ins.pend[k] # NoRow => slots[k] # NoRow \/ k = OwnKey(job)
        /\ slots[OwnKey(job)] # NoRow \/ ins.pend[OwnKey(job)] # NoRow
    <3>1. CASE slots[OwnKey(job)] # NoRow
      BY <1>0, <2>2, <2>3, <3>1 DEF SameHead
    <3>2. CASE slots[OwnKey(job)] = NoRow
      <4>1. ins = [job EXCEPT !.pend[OwnKey(job)] = status]
        BY <3>2
      <4>2. /\ ins.pend = [job.pend EXCEPT ![OwnKey(job)] = status]
            /\ status \in Statuses /\ status # NoRow
            /\ job.pend \in [Keys -> Statuses \cup {NoRow}]
        BY <1>0, <4>1 DEF Job, Statuses, NoRow
      <4>3. ins.pend \in [Keys -> Statuses \cup {NoRow}]
            /\ ins.pend[OwnKey(job)] = status
            /\ \A k \in Keys : k # OwnKey(job) => ins.pend[k] = job.pend[k]
        BY <2>3, <4>2
      <4>4. /\ ins \in Job /\ ins.pc = job.pc /\ SameHead(ins, job)
        BY <1>0, <4>1, <4>2, <4>3 DEF Job, SameHead
      <4>5. ins \in LegalHeads /\ Active(ins)
        BY <1>0, <2>3, <4>4 DEF LegalHeads, SameHead, Active
      <4>. QED  BY <1>0, <2>2, <4>2, <4>3, <4>4, <4>5
    <3>. QED  BY <3>1, <3>2
  <2>. HIDE DEF ins
  <2>5. /\ new.pc \in {"fork", "commit"} /\ new.pend = ins.pend /\ SameHead(new, ins)
        /\ \A n \in Slots : Between(ins, n) =>
               InGap(n) \/ \E row \in new.gaps : n \in SlotsOf(row)
    BY <1>0, <2>4, ComparisonIsWhole DEF new
  <2>6. new \in Job
    BY <2>4, CheckPreviousSlotType DEF new, LegalHeads
  <2>7. new \in LegalHeads /\ Active(new)
    BY <1>0, <2>3, <2>4, <2>5, <2>6 DEF LegalHeads, SameHead, Active
  <2>8. GoesOn(j)
    BY <2>1, <2>2, <2>4, <2>5, <2>7 DEF GoesOn, SameHead, Between
  <2>. QED  BY <2>1, <2>2, <2>3, <2>8 DEF client, HeadProceeds
<1>5. CASE UpdateForked(j)
  <2>. DEFINE pend == [k \in Keys |-> IF k \in ForkTargets(j) THEN "forked" ELSE job.pend[k]]
              new  == [job EXCEPT !.pc = "propose", !.pend = pend]
  <2>1. Step(j, "fork", new) /\ slots' = slots /\ client' = client
    BY <1>5 DEF UpdateForked, tables
  <2>2. /\ new \in Job /\ new.pc = "propose" /\ SameHead(new, job)
        /\ new.pend = pend /\ new.gaps = job.gaps
    BY <1>0 DEF Job, PCs, SameHead, Statuses
  <2>. HIDE DEF new
  <2>3. /\ job.pc = "fork" /\ jobs'[j] = new
        /\ \A i \in Jobs : i # j => jobs'[i] = jobs[i]
    BY <1>0, <2>1, StepJobs
  <2>4. Active(job) /\ Written(job) /\ OwnKey(job) \in Keys
    BY <1>0, <2>3, OwnKeyIsAKey DEF Active, Written
  <2>5. \A k \in Keys : (new.pend[k] # NoRow => job.pend[k] # NoRow \/ slots[k] # NoRow)
                        /\ (job.pend[k] # NoRow => new.pend[k] # NoRow)
    BY <2>2 DEF ForkTargets, Visible, NoRow
  <2>6. new \in LegalHeads /\ Active(new)
    BY <1>0, <2>2, <2>4 DEF LegalHeads, SameHead, Active
  <2>7. GoesOn(j)
    BY <1>0, <2>1, <2>2, <2>3, <2>4, <2>5, <2>6 DEF GoesOn
  <2>. QED  BY <2>1, <2>3, <2>4, <2>7 DEF client, HeadProceeds
<1>6. CASE UpdateProposed(j)
  <2>. DEFINE n0   == job.reorgSlot
              pend == [k \in Keys |-> IF k \in ProposeTargets(j) THEN "proposed" ELSE job.pend[k]]
              gaps == job.gaps \cup IF ProposeTargets(j) = {} THEN Missing({ <<n0, n0>> }) ELSE {}
              new  == [job EXCEPT !.pc = "commit", !.pend = pend, !.gaps = gaps]
  <2>1. Step(j, "propose", new) /\ slots' = slots /\ client' = client
    BY <1>6 DEF UpdateProposed, tables
  <2>2. /\ new.pc = "commit" /\ SameHead(new, job) /\ new.pend = pend /\ job.gaps \subseteq new.gaps
    BY <1>0 DEF Job, SameHead
  <2>3. new \in Job
    <3>1. pend \in [Keys -> Statuses \cup {NoRow}] /\ gaps \in SUBSET (Slots \X Slots)
      BY <1>0 DEF Job, Statuses, Missing
    <3>. QED  BY <1>0, <3>1 DEF Job, PCs
  <2>. HIDE DEF new
  <2>4. /\ job.pc = "propose" /\ jobs'[j] = new
        /\ \A i \in Jobs : i # j => jobs'[i] = jobs[i]
    BY <1>0, <2>1, StepJobs
  <2>5. Active(job) /\ Written(job) /\ OwnKey(job) \in Keys
    BY <1>0, <2>4, OwnKeyIsAKey DEF Active, Written
  <2>6. \A k \in Keys : (new.pend[k] # NoRow => job.pend[k] # NoRow \/ slots[k] # NoRow)
                        /\ (job.pend[k] # NoRow => new.pend[k] # NoRow)
    BY <2>2 DEF ProposeTargets, Visible, NoRow
  <2>7. new \in LegalHeads /\ Active(new)
    BY <1>0, <2>2, <2>3, <2>5 DEF LegalHeads, SameHead, Active
  <2>8. GoesOn(j)
    BY <1>0, <2>1, <2>2, <2>4, <2>5, <2>6, <2>7 DEF GoesOn
  <2>. QED  BY <2>1, <2>4, <2>5, <2>8 DEF client, HeadProceeds
<1>7. CASE Commit(j)
  <2>1. /\ Step(j, "commit", Idle) /\ client' = client
        /\ slots' = [k \in Keys |-> IF job.pend[k] = NoRow THEN slots[k] ELSE job.pend[k]]
        /\ knownGaps' = knownGaps \cup job.gaps
    BY <1>7 DEF Commit
  <2>2. /\ job.pc = "commit" /\ jobs'[j] = Idle
        /\ \A i \in Jobs : i # j => jobs'[i] = jobs[i]
    BY <1>0, <2>1, StepJobs
  <2>3. Active(job) /\ Written(job) /\ OwnKey(job) \in Keys
    BY <1>0, <2>2, OwnKeyIsAKey DEF Active, Written
  <2>4. \A n \in Slots : Between(job, n) => InGap(n)'
    BY <1>0, <2>1, <2>3 DEF InGap
  <2>5. Ends(j)
    BY <1>0, <2>1, <2>2, <2>3, <2>4 DEF Ends
  <2>. QED  BY <2>1, <2>2, <2>3, <2>5 DEF client, HeadProceeds
<1>8. CASE RecordFailure(j)
  BY <1>0, <1>8 DEF RecordFailure, Step, LegalHeads
<1>. QED  BY <1>1, <1>2, <1>3, <1>4, <1>5, <1>6, <1>7, <1>8 DEF Proceed

\* A step of the goroutine of a reorg event adds no row.
ReorgProceeds ==
    /\ \A i \in HeadJobs : jobs'[i] = jobs[i]
    /\ prevSlot' = prevSlot /\ prevRoot' = prevRoot /\ startSlot' = startSlot
    /\ \A k \in Keys : slots'[k] # NoRow => slots[k] # NoRow
    /\ \A k \in Keys : jobs'[ReorgJob].pend[k] # NoRow => slots[k] # NoRow
    /\ jobs'[ReorgJob].pc \in {"idle", "fork", "propose", "commit"}

LEMMA ReorgRows ==
    ASSUME JobsInv
    PROVE  /\ ReorgJob \in Jobs /\ jobs[ReorgJob] \in Job
           /\ \A k \in Keys : jobs[ReorgJob].pend[k] # NoRow => slots[k] # NoRow
BY JobsAssumption DEF JobsInv, TypeOK, OnlyOwnRows, Jobs

LEMMA ReorgComes ==
    ASSUME JobsInv, NEW b \in Blocks, NEW n \in ReorgSlots(b), HandleReorg(n, b)
    PROVE  ReorgProceeds
<1>. DEFINE new == [Idle EXCEPT !.pc = "fork", !.reorgSlot = n, !.reorgRoot = b]
<1>1. Step(ReorgJob, "idle", new) /\ slots' = slots /\ client' = client
  BY DEF HandleReorg, tables
<1>2. new.pc = "fork" /\ new.pend = Untouched
  BY DEF Idle
<1>. HIDE DEF new
<1>3. jobs'[ReorgJob] = new /\ \A i \in Jobs : i # ReorgJob => jobs'[i] = jobs[i]
  BY <1>1, ReorgRows, StepJobs DEF JobsInv
<1>. QED  BY <1>1, <1>2, <1>3, HeadIsNotReorg DEF ReorgProceeds, client, Untouched

LEMMA ReorgStep ==
    ASSUME JobsInv, Proceed(ReorgJob), ~DeadlockVictim(ReorgJob)
    PROVE  ReorgProceeds
<1>. DEFINE j == ReorgJob
            job == jobs[j]
<1>0. /\ j \in Jobs /\ job \in Job /\ TypeOK
      /\ \A k \in Keys : job.pend[k] # NoRow => slots[k] # NoRow
      /\ job.pc \in {"idle", "fork", "propose", "commit"}
  BY ReorgRows DEF JobsInv, ReorgIsLegal
<1>1. CASE UpdateForked(j)
  <2>. DEFINE pend == [k \in Keys |-> IF k \in ForkTargets(j) THEN "forked" ELSE job.pend[k]]
              new  == [job EXCEPT !.pc = "propose", !.pend = pend]
  <2>1. Step(j, "fork", new) /\ slots' = slots /\ client' = client
    BY <1>1 DEF UpdateForked, tables
  <2>2. new.pc = "propose" /\ new.pend = pend
    BY <1>0 DEF Job
  <2>. HIDE DEF new
  <2>3. jobs'[j] = new /\ \A i \in Jobs : i # j => jobs'[i] = jobs[i]
    BY <1>0, <2>1, StepJobs
  <2>4. \A k \in Keys : new.pend[k] # NoRow => slots[k] # NoRow
    BY <1>0, <2>2 DEF ForkTargets, Visible, NoRow
  <2>. QED  BY <2>1, <2>2, <2>3, <2>4, HeadIsNotReorg DEF ReorgProceeds, client
<1>2. CASE UpdateProposed(j)
  <2>. DEFINE n0   == job.reorgSlot
              pend == [k \in Keys |-> IF k \in ProposeTargets(j) THEN "proposed" ELSE job.pend[k]]
              gaps == job.gaps \cup IF ProposeTargets(j) = {} THEN Missing({ <<n0, n0>> }) ELSE {}
              new  == [job EXCEPT !.pc = "commit", !.pend = pend, !.gaps = gaps]
  <2>1. Step(j, "propose", new) /\ slots' = slots /\ client' = client
    BY <1>2 DEF UpdateProposed, tables
  <2>2. new.pc = "commit" /\ new.pend = pend
    BY <1>0 DEF Job
  <2>. HIDE DEF new
  <2>3. jobs'[j] = new /\ \A i \in Jobs : i # j => jobs'[i] = jobs[i]
    BY <1>0, <2>1, StepJobs
  <2>4. \A k \in Keys : new.pend[k] # NoRow => slots[k] # NoRow
    BY <1>0, <2>2 DEF ProposeTargets, Visible, NoRow
  <2>. QED  BY <2>1, <2>2, <2>3, <2>4, HeadIsNotReorg DEF ReorgProceeds, client
<1>3. CASE Commit(j)
  <2>1. /\ Step(j, "commit", Idle) /\ client' = client
        /\ slots' = [k \in Keys |-> IF job.pend[k] = NoRow THEN slots[k] ELSE job.pend[k]]
    BY <1>3 DEF Commit
  <2>2. jobs'[j] = Idle /\ \A i \in Jobs : i # j => jobs'[i] = jobs[i]
    BY <1>0, <2>1, StepJobs
  <2>. QED  BY <1>0, <2>1, <2>2, HeadIsNotReorg DEF ReorgProceeds, client, Idle, Untouched
<1>4. CASE ReadMaxSlot(j) \/ WriteStartUpGaps(j) \/ Fetch(j) \/ InsertSlot(j) \/ RecordFailure(j)
  BY <1>0, <1>4 DEF ReadMaxSlot, WriteStartUpGaps, Fetch, InsertSlot, RecordFailure, Step
<1>. QED  BY <1>1, <1>2, <1>3, <1>4 DEF Proceed

LEMMA ReorgFailure ==
    ASSUME JobsInv, Fail(ReorgJob)
    PROVE  Die
BY DEF Fail, FetchSkipped, FetchFails, InsertFails, CommitFails, Step, JobsInv, ReorgIsLegal

\* Nothing that these arguments are about changes.
NothingMoves ==
    /\ jobs' = jobs /\ slots' = slots
    /\ prevSlot' = prevSlot /\ prevRoot' = prevRoot /\ startSlot' = startSlot

\* The steps of a head side on which nothing fails.
LEMMA HeadSideSteps ==
    ASSUME JobsInv, SlotsAreSmall, [Next]_vars, ~HeadFails
    PROVE  \/ \E j \in HeadJobs, b \in Blocks : HandleHead(j, b)
           \/ \E j \in HeadJobs : Proceed(j) /\ ~DeadlockVictim(j) /\ HeadProceeds(j)
           \/ ReorgProceeds
           \/ Die
           \/ NothingMoves
<1>1. ASSUME NEW b \in Blocks, NEW n \in ReorgSlots(b), HandleReorg(n, b) PROVE ReorgProceeds
  BY <1>1, ReorgComes
<1>2. ASSUME NEW j \in HeadJobs, Proceed(j)
      PROVE  Die \/ (Proceed(j) /\ ~DeadlockVictim(j) /\ HeadProceeds(j))
  BY <1>2, HeadGoesOnOrEnds DEF DeadlockVictim
<1>3. ASSUME Proceed(ReorgJob) PROVE Die \/ ReorgProceeds
  BY <1>3, ReorgStep DEF DeadlockVictim
<1>4. ASSUME NEW j \in Jobs, Fail(j) PROVE Die
  BY <1>4, ReorgFailure DEF HeadFails, Jobs
<1>5. CASE HandleBadHead \/ Restart \/ UNCHANGED vars
  BY <1>5 DEF HandleBadHead, Restart, vars, client, tables, NothingMoves
<1>6. CASE Crash
  BY <1>6 DEF Crash
<1>. QED  BY <1>1, <1>2, <1>3, <1>4, <1>5, <1>6 DEF Next, Jobs

\* A step that changes nothing is none of the steps that are ruled out.
LEMMA UnchangedIsSteady ==
    ASSUME TypeOK, UNCHANGED vars
    PROVE  ~HeadFails /\ ~GenesisComes /\ ~StartsBehind /\ ~ComesAgain /\ ~HeadsOverlap
<1>1. spent' = spent /\ spent \in [Bounds -> Nat]
  BY DEF vars, TypeOK
<1>2. ASSUME NEW bound \in Bounds, NEW max PROVE ~Spend(bound, max)
  BY <1>1 DEF Spend
<1>3. ASSUME NEW j \in HeadJobs, NEW b \in Blocks PROVE ~HandleHead(j, b)
  BY <1>2 DEF HandleHead, Bounds
<1>4. ASSUME NEW j \in HeadJobs PROVE ~Fail(j)
  BY <1>2 DEF Fail, FetchSkipped, FetchFails, InsertFails, CommitFails, Bounds
<1>. QED  BY <1>3, <1>4 DEF HeadFails, GenesisComes, StartsBehind, ComesAgain, HeadsOverlap

\* handleHead starts a goroutine that knows its block and the previous one.
LEMMA HeadComes ==
    ASSUME JobsInv, NEW j \in HeadJobs, NEW b \in Blocks, HandleHead(j, b), SlotOf[b] # 0
    PROVE  /\ ~Active(jobs[j])
           /\ \A i \in Jobs : i # j => jobs'[i] = jobs[i]
           /\ jobs'[j] \in LegalHeads /\ jobs'[j].slot = SlotOf[b] /\ jobs'[j].root = b
           /\ jobs'[j].prevSlot = prevSlot /\ jobs'[j].prevRoot = prevRoot
           /\ jobs'[j].pc = (IF prevRoot = NoRoot THEN "startup" ELSE "fetch")
           /\ \A k \in Keys : jobs'[j].pend[k] = NoRow
           /\ slots' = slots /\ prevSlot' = SlotOf[b] /\ prevRoot' = b
           /\ startSlot' = IF prevRoot = NoRoot THEN SlotOf[b] ELSE startSlot
<1>. DEFINE new == [Idle EXCEPT !.pc = IF FirstHead(prevSlot, prevRoot) THEN "startup" ELSE "fetch",
                                !.slot = SlotOf[b], !.root = b,
                                !.prevSlot = prevSlot, !.prevRoot = prevRoot]
<1>0. TypeOK /\ j \in Jobs /\ PreviousIsLegal /\ SlotOf[b] \in Slots /\ b # NoRoot
  BY HeadIsNotReorg, SlotNumbers, BlocksAssumption DEF JobsInv
<1>1. FirstHead(prevSlot, prevRoot) <=> prevRoot = NoRoot
  BY <1>0 DEF FirstHead, PreviousIsLegal
<1>2. Step(j, "idle", new)
  BY DEF HandleHead
<1>3. new \in Job
  BY <1>0, IdleIsAJob DEF Job, PCs, TypeOK, HeadRoots
<1>4. /\ new.slot = SlotOf[b] /\ new.root = b /\ new.prevSlot = prevSlot /\ new.prevRoot = prevRoot
      /\ new.pc = (IF prevRoot = NoRoot THEN "startup" ELSE "fetch")
      /\ new.pend = Untouched
  BY <1>1 DEF Idle
<1>. HIDE DEF new
<1>5. jobs[j].pc = "idle" /\ jobs'[j] = new /\ \A i \in Jobs : i # j => jobs'[i] = jobs[i]
  BY <1>0, <1>2, StepJobs
<1>6. new \in LegalHeads
  BY <1>0, <1>3, <1>4 DEF LegalHeads, PreviousIsLegal, Active, TypeOK, HeadRoots
<1>. QED  BY <1>1, <1>4, <1>5, <1>6 DEF HandleHead, Active, Untouched

LEMMA JobsInvInit ==
    ASSUME Init
    PROVE  JobsInv
<1>1. \A j \in Jobs : jobs[j] = Idle
  BY DEF Init
<1>2. \A j \in HeadJobs : jobs[j] = Idle
  BY <1>1, HeadIsNotReorg
<1>3. jobs[ReorgJob] = Idle
  BY <1>1 DEF Jobs
<1>4. OnlyOwnRows
  BY <1>1 DEF OnlyOwnRows, Idle, Untouched
<1>5. HeadsAreLegal /\ HeadsAreWhole
  BY <1>2, IdleHeadIsLegal DEF HeadsAreLegal, HeadsAreWhole, Written, Idle
<1>6. ReorgIsLegal
  BY <1>3 DEF ReorgIsLegal, Idle
<1>7. PreviousIsLegal
  <2>1. prevSlot = 0 /\ prevRoot = NoRoot
    BY DEF Init
  <2>2. ~Active(Idle)
    BY DEF Active, Idle
  <2>. QED  BY <1>2, <2>1, <2>2 DEF PreviousIsLegal
<1>. QED  BY <1>4, <1>5, <1>6, <1>7, InitType DEF JobsInv

\* What a goroutine has done stays done whatever the others do.
LEMMA RowsAndGapsStay ==
    ASSUME TypeOK, [Next]_vars
    PROVE  /\ \A k \in Keys : slots[k] # NoRow => slots'[k] # NoRow
           /\ \A n \in Slots : InGap(n) => InGap(n)'
           /\ \A n \in Slots : Tracked(n) => Tracked(n)'
<1>1. \A k \in Keys : slots[k] # NoRow => slots'[k] # NoRow
  BY RowsStay
<1>2. \A n \in Slots : InGap(n) => InGap(n)'
  BY KnownGapsGrow DEF InGap
<1>. QED  BY <1>1, <1>2 DEF Tracked

LEMMA JobsInvStep ==
    ASSUME JobsInv, SlotsAreSmall, [Next]_vars, ~HeadFails, ~GenesisComes
    PROVE  JobsInv'
<1>0. /\ TypeOK /\ TypeOK'
      /\ \A k \in Keys : slots[k] # NoRow => slots'[k] # NoRow
      /\ \A n \in Slots : InGap(n) => InGap(n)'
  BY StepTypeOK, RowsAndGapsStay DEF JobsInv
<1>1. ASSUME NEW j \in HeadJobs, NEW b \in Blocks, HandleHead(j, b) PROVE JobsInv'
  <2>0. SlotOf[b] # 0 /\ b # NoRoot
    BY <1>1, BlocksAssumption DEF GenesisComes
  <2>1. /\ \A i \in Jobs : i # j => jobs'[i] = jobs[i]
        /\ jobs'[j] \in LegalHeads /\ jobs'[j].pc \in {"startup", "fetch"}
        /\ \A k \in Keys : jobs'[j].pend[k] = NoRow
        /\ slots' = slots /\ prevSlot' = SlotOf[b] /\ prevRoot' = b
    BY <1>1, <2>0, HeadComes
  <2>2. HeadsAreLegal'
    BY <2>1, HeadIsNotReorg DEF HeadsAreLegal, JobsInv
  <2>3. ReorgIsLegal'
    BY <2>1, HeadIsNotReorg DEF ReorgIsLegal, JobsInv, Jobs
  <2>4. PreviousIsLegal'
    BY <2>0, <2>1 DEF PreviousIsLegal
  <2>5. OnlyOwnRows'
    BY <2>1 DEF OnlyOwnRows, JobsInv
  <2>6. HeadsAreWhole'
    BY <1>0, <2>1, HeadIsNotReorg DEF HeadsAreWhole, JobsInv, Written
  <2>. QED  BY <1>0, <2>2, <2>3, <2>4, <2>5, <2>6 DEF JobsInv
<1>2. ASSUME NEW j \in HeadJobs, HeadProceeds(j) PROVE JobsInv'
  <2>. USE <1>2 DEF HeadProceeds
  <2>0. /\ jobs[j] \in LegalHeads /\ OwnKey(jobs[j]) \in Keys
        /\ \A i \in Jobs : i # j => jobs'[i] = jobs[i]
    BY OwnKeyIsAKey DEF JobsInv, HeadsAreLegal
  <2>1. jobs'[j] \in LegalHeads
    BY IdleHeadIsLegal DEF GoesOn, Ends
  <2>2. HeadsAreLegal'
    BY <2>0, <2>1, HeadIsNotReorg DEF HeadsAreLegal, JobsInv
  <2>3. ReorgIsLegal'
    BY <2>0, HeadIsNotReorg DEF ReorgIsLegal, JobsInv, Jobs
  <2>4. PreviousIsLegal'
    BY <2>0, HeadIsNotReorg DEF PreviousIsLegal, JobsInv
  <2>5. OnlyOwnRows'
    <3>1. \A k \in Keys : jobs'[j].pend[k] # NoRow => slots'[k] # NoRow \/ k = OwnKey(jobs'[j])
      BY DEF GoesOn, Ends, SameHead, OwnKey, Idle, Untouched
    <3>. QED  BY <1>0, <2>0, <3>1 DEF OnlyOwnRows, JobsInv
  <2>6. HeadsAreWhole'
    <3>1. ASSUME Written(jobs'[j])
          PROVE  /\ slots'[OwnKey(jobs'[j])] # NoRow \/ jobs'[j].pend[OwnKey(jobs'[j])] # NoRow
                 /\ \A n \in Slots : Between(jobs'[j], n) =>
                        InGap(n)' \/ \E row \in jobs'[j].gaps : n \in SlotsOf(row)
      BY <1>0, <3>1 DEF GoesOn, Ends, SameHead, OwnKey, Between, Written, Idle
    <3>2. \A i \in HeadJobs : i # j => jobs'[i] = jobs[i] /\ (Active(jobs[i]) => OwnKey(jobs[i]) \in Keys)
      BY <2>0, HeadIsNotReorg, OwnKeyIsAKey DEF JobsInv, HeadsAreLegal
    <3>3. \A i \in HeadJobs : Written(jobs[i]) => Active(jobs[i])
      BY DEF Written, Active
    <3>. QED  BY <1>0, <3>1, <3>2, <3>3 DEF HeadsAreWhole, JobsInv
  <2>. QED  BY <1>0, <2>2, <2>3, <2>4, <2>5, <2>6 DEF JobsInv
<1>3. CASE ReorgProceeds
  <2>. USE <1>3 DEF ReorgProceeds
  <2>1. HeadsAreLegal' /\ ReorgIsLegal' /\ PreviousIsLegal'
    BY DEF HeadsAreLegal, ReorgIsLegal, PreviousIsLegal, JobsInv
  <2>2. OnlyOwnRows'
    BY <1>0 DEF OnlyOwnRows, JobsInv, Jobs
  <2>3. HeadsAreWhole'
    <3>1. \A i \in HeadJobs : Written(jobs[i]) => OwnKey(jobs[i]) \in Keys
      BY OwnKeyIsAKey DEF JobsInv, HeadsAreLegal, Written, Active
    <3>. QED  BY <1>0, <3>1 DEF HeadsAreWhole, JobsInv
  <2>. QED  BY <1>0, <2>1, <2>2, <2>3 DEF JobsInv
<1>4. CASE Die
  <2>1. (\A i \in Jobs : jobs'[i] = Idle) /\ prevSlot' = 0 /\ prevRoot' = NoRoot
    BY <1>4 DEF Die
  <2>2. HeadsAreLegal' /\ HeadsAreWhole'
    BY <2>1, HeadIsNotReorg, IdleHeadIsLegal DEF HeadsAreLegal, HeadsAreWhole, Written, Idle
  <2>3. ReorgIsLegal' /\ PreviousIsLegal'
    BY <2>1, HeadIsNotReorg DEF ReorgIsLegal, PreviousIsLegal, Active, Idle, Jobs
  <2>4. OnlyOwnRows'
    BY <2>1 DEF OnlyOwnRows, Idle, Untouched
  <2>. QED  BY <1>0, <2>2, <2>3, <2>4 DEF JobsInv
<1>5. CASE NothingMoves
  BY <1>0, <1>5 DEF NothingMoves, JobsInv, HeadsAreLegal, ReorgIsLegal, PreviousIsLegal,
     OnlyOwnRows, HeadsAreWhole
<1>. QED  BY <1>1, <1>2, <1>3, <1>4, <1>5, HeadSideSteps

-----------------------------------------------------------------------------
(* Since the start *)

LEMMA SinceStartInit == ASSUME Init PROVE SinceStartInv
<1>1. JobsInv
  BY JobsInvInit
<1>2. \A j \in HeadJobs : ~Active(jobs[j])
  BY <1>1 DEF Init, JobsInv, PreviousIsLegal
<1>3. startSlot = 0
  BY DEF Init
<1>4. HeadsAreNew
  BY <1>2 DEF HeadsAreNew, Active
<1>. QED  BY <1>1, <1>3, <1>4 DEF SinceStartInv, ReachedIsPromised

LEMMA HeadsStayNew ==
    ASSUME SinceStartInv, SlotsAreSmall, [Next]_vars, ~HeadFails, ~GenesisComes, ~ComesAgain
    PROVE  HeadsAreNew'
<1>. SUFFICES ASSUME CheckDb PROVE HeadsAreNew'
  BY DEF HeadsAreNew
<1>0. /\ JobsInv /\ JobsInv' /\ TypeOK
      /\ \A i, j \in HeadJobs :
             i # j /\ Active(jobs[i]) /\ Active(jobs[j]) => jobs[i].root # jobs[j].root
      /\ \A j \in HeadJobs :
             jobs[j].pc = "fetch" /\ jobs[j].prevRoot # NoRoot => slots[OwnKey(jobs[j])] = NoRow
  BY JobsInvStep DEF SinceStartInv, HeadsAreNew, JobsInv
<1>1. ASSUME NEW j \in HeadJobs, NEW b \in Blocks, HandleHead(j, b) PROVE HeadsAreNew'
  <2>0. SlotOf[b] # 0
    BY <1>1 DEF GenesisComes
  <2>1. /\ \A i \in HeadJobs : i # j => jobs'[i] = jobs[i]
        /\ jobs'[j].slot = SlotOf[b] /\ jobs'[j].root = b /\ jobs'[j].prevRoot = prevRoot
        /\ slots' = slots
    BY <1>0, <1>1, <2>0, HeadComes, HeadIsNotReorg
  <2>2. CASE prevRoot = NoRoot
    <3>1. \A i \in HeadJobs : ~Active(jobs[i])
      BY <1>0, <2>2 DEF JobsInv, PreviousIsLegal
    <3>. QED  BY <2>1, <2>2, <3>1 DEF HeadsAreNew, Active
  <2>3. CASE prevRoot # NoRoot
    <3>1. /\ slots[<<SlotOf[b], b>>] = NoRow
          /\ \A i \in HeadJobs : Active(jobs[i]) => jobs[i].root # b
      BY <1>1, <2>3 DEF ComesAgain
    <3>2. \A i, k \in HeadJobs :
             i # k /\ Active(jobs'[i]) /\ Active(jobs'[k]) => jobs'[i].root # jobs'[k].root
      BY <1>0, <2>1, <3>1
    <3>3. \A i \in HeadJobs :
             jobs'[i].pc = "fetch" /\ jobs'[i].prevRoot # NoRoot => slots'[OwnKey(jobs'[i])] = NoRow
      BY <1>0, <2>1, <3>1 DEF OwnKey
    <3>. QED  BY <3>2, <3>3 DEF HeadsAreNew
  <2>. QED  BY <2>2, <2>3
<1>2. ASSUME NEW j \in HeadJobs, HeadProceeds(j) PROVE HeadsAreNew'
  <2>0. \A i \in HeadJobs : i # j => jobs'[i] = jobs[i]
    BY <1>2, HeadIsNotReorg DEF HeadProceeds
  <2>1. Active(jobs'[j]) => jobs'[j].root = jobs[j].root
    BY <1>2, IdleHeadIsLegal DEF HeadProceeds, GoesOn, Ends, SameHead
  <2>2. \A i, k \in HeadJobs :
           i # k /\ Active(jobs'[i]) /\ Active(jobs'[k]) => jobs'[i].root # jobs'[k].root
    BY <1>0, <1>2, <2>0, <2>1 DEF HeadProceeds
  <2>3. jobs'[j].pc = "fetch" => jobs'[j].prevRoot = NoRoot
    BY <1>2 DEF HeadProceeds, GoesOn, Ends, SameHead, Idle
  <2>4. ASSUME NEW i \in HeadJobs, i # j, jobs[i].pc = "fetch", jobs[i].prevRoot # NoRoot
        PROVE  slots'[OwnKey(jobs[i])] = NoRow
    <3>1. Active(jobs[i]) /\ Active(jobs[j])
      BY <1>2, <2>4 DEF HeadProceeds, Active
    <3>2. jobs[i].root # jobs[j].root
      BY <1>0, <2>4, <3>1
    <3>3. OwnKey(jobs[i]) \in Keys /\ OwnKey(jobs[i]) # OwnKey(jobs[j])
      BY <1>0, <3>1, <3>2, OwnKeyIsAKey DEF OwnKey, JobsInv, HeadsAreLegal
    <3>. QED  BY <1>0, <1>2, <2>4, <3>3 DEF HeadProceeds, GoesOn, Ends
  <2>. QED  BY <2>0, <2>2, <2>3, <2>4 DEF HeadsAreNew
<1>3. CASE ReorgProceeds
  <2>1. \A i \in HeadJobs : jobs[i].pc = "fetch" => OwnKey(jobs[i]) \in Keys
    BY <1>0, OwnKeyIsAKey DEF JobsInv, HeadsAreLegal, Active
  <2>. QED  BY <1>0, <1>3, <2>1 DEF ReorgProceeds, HeadsAreNew
<1>4. CASE Die
  <2>1. \A i \in HeadJobs : jobs'[i] = Idle
    BY <1>4, HeadIsNotReorg DEF Die
  <2>. QED  BY <2>1 DEF HeadsAreNew, Active, Idle
<1>5. CASE NothingMoves
  BY <1>0, <1>5 DEF NothingMoves, HeadsAreNew
<1>. QED  BY <1>0, <1>1, <1>2, <1>3, <1>4, <1>5, HeadSideSteps

LEMMA StoredIsTracked ==
    ASSUME NEW k \in Keys, slots[k] # NoRow
    PROVE  Tracked(k[1])
BY DEF Tracked

LEMMA ReachedStaysPromised ==
    ASSUME SinceStartInv, SlotsAreSmall, [Next]_vars,
           ~HeadFails, ~GenesisComes, ~StartsBehind
    PROVE  ReachedIsPromised'
<1>0. /\ JobsInv /\ TypeOK /\ HeadsAreNew /\ ReachedIsPromised
      /\ \A k \in Keys : slots[k] # NoRow => slots'[k] # NoRow
      /\ \A n \in Slots : Tracked(n) => Tracked(n)'
  BY RowsAndGapsStay DEF SinceStartInv, JobsInv
<1>1. ASSUME NEW j \in HeadJobs, NEW b \in Blocks, HandleHead(j, b)
      PROVE  ReachedIsPromised'
  <2>0. SlotOf[b] # 0 /\ SlotOf[b] \in Nat /\ prevSlot \in Nat
    BY <1>0, <1>1, SlotNumbers DEF GenesisComes, TypeOK
  <2>1. /\ ~Active(jobs[j])
        /\ \A i \in HeadJobs : i # j => jobs'[i] = jobs[i]
        /\ jobs'[j].slot = SlotOf[b]
        /\ jobs'[j].prevSlot = prevSlot /\ jobs'[j].prevRoot = prevRoot
        /\ Active(jobs'[j])
        /\ slots' = slots /\ prevSlot' = SlotOf[b]
        /\ startSlot' = IF prevRoot = NoRoot THEN SlotOf[b] ELSE startSlot
    BY <1>0, <1>1, <2>0, HeadComes, HeadIsNotReorg DEF Active
  <2>. SUFFICES ASSUME startSlot' # 0, NEW n \in Slots, startSlot' <= n, Reached(n)'
                PROVE  Promised(n)'
    BY DEF ReachedIsPromised
  <2>2. n \in Nat
    BY SlotNumbers
  <2>3. n = SlotOf[b] \/ Between(jobs'[j], n) => Promised(n)'
    BY <2>1 DEF Promised, WillTrack
  <2>4. CASE prevRoot = NoRoot
    <3>1. \A i \in HeadJobs : i # j => ~Active(jobs'[i])
      BY <1>0, <2>1, <2>4 DEF JobsInv, PreviousIsLegal
    <3>2. \A k \in Keys : slots'[k] # NoRow => ~(SlotOf[b] < k[1])
      BY <1>1, <2>1, <2>4 DEF StartsBehind
    <3>3. \A k \in Keys : k[1] \in Nat
      BY KeySlots
    <3>4. n <= SlotOf[b]
      BY <2>0, <2>1, <2>2, <3>1, <3>2, <3>3 DEF Reached
    <3>. QED  BY <2>0, <2>1, <2>2, <2>3, <2>4, <3>4
  <2>5. CASE prevRoot # NoRoot
    <3>1. CASE Reached(n)
      <4>1. Promised(n)
        BY <1>0, <2>1, <2>5, <3>1 DEF ReachedIsPromised
      <4>. QED  BY <1>0, <2>1, <4>1 DEF Promised, WillTrack
    <3>2. CASE ~Reached(n)
      <4>1. prevSlot < n
        BY <2>0, <2>2, <3>2 DEF Reached
      <4>2. n <= SlotOf[b]
        BY <2>1, <3>2 DEF Reached
      <4>3. n = SlotOf[b] \/ n < SlotOf[b]
        BY <2>0, <2>2, <4>2
      <4>. QED  BY <2>1, <2>3, <2>5, <4>1, <4>3 DEF Between
    <3>. QED  BY <3>1, <3>2
  <2>. QED  BY <2>4, <2>5
<1>2. ASSUME NEW j \in HeadJobs, HeadProceeds(j) PROVE ReachedIsPromised'
  <2>0. /\ Active(jobs[j]) /\ jobs[j] \in LegalHeads /\ OwnKey(jobs[j]) \in Keys
        /\ \A i \in HeadJobs : i # j => jobs'[i] = jobs[i]
        /\ prevSlot' = prevSlot /\ startSlot' = startSlot
    BY <1>0, <1>2, OwnKeyIsAKey, HeadIsNotReorg DEF HeadProceeds, JobsInv, HeadsAreLegal
  <2>. SUFFICES ASSUME startSlot' # 0, NEW n \in Slots, startSlot' <= n, Reached(n)'
                PROVE  Promised(n)'
    BY DEF ReachedIsPromised
  <2>1. Reached(n)
    <3>1. ASSUME NEW k \in Keys, slots'[k] # NoRow, n <= k[1] PROVE Reached(n)
      <4>1. slots[k] # NoRow \/ k = OwnKey(jobs[j])
        BY <1>2, <3>1 DEF HeadProceeds, GoesOn, Ends
      <4>. QED  BY <2>0, <3>1, <4>1 DEF Reached, OwnKey
    <3>2. Active(jobs'[j]) => jobs'[j].slot = jobs[j].slot
      BY <1>2, IdleHeadIsLegal DEF HeadProceeds, GoesOn, Ends, SameHead
    <3>. QED  BY <2>0, <3>1, <3>2 DEF Reached
  <2>2. Promised(n)
    BY <1>0, <2>0, <2>1 DEF ReachedIsPromised
  <2>3. CASE Tracked(n)
    BY <1>0, <2>3 DEF Promised
  <2>4. ASSUME NEW i \in HeadJobs, WillTrack(jobs[i], n) PROVE Promised(n)'
    <3>1. CASE i # j
      BY <2>0, <2>4, <3>1 DEF Promised
    <3>2. CASE i = j /\ GoesOn(j)
      BY <2>4, <3>2 DEF GoesOn, SameHead, WillTrack, Between, Promised
    <3>3. CASE i = j /\ Ends(j)
      <4>1. CASE n = jobs[j].slot
        <5>1. OwnKey(jobs[j])[1] = n /\ slots'[OwnKey(jobs[j])] # NoRow
          BY <3>3, <4>1 DEF Ends, OwnKey
        <5>. QED  BY <2>0, <5>1 DEF Promised, Tracked
      <4>2. CASE Between(jobs[j], n)
        <5>1. InGap(n)'
          BY <1>0, <2>0, <3>3, <4>2 DEF Ends, HeadsAreNew, Between
        <5>. QED  BY <5>1 DEF Promised, Tracked
      <4>. QED  BY <2>4, <3>3, <4>1, <4>2 DEF WillTrack
    <3>. QED  BY <1>2, <3>1, <3>2, <3>3 DEF HeadProceeds
  <2>. QED  BY <2>2, <2>3, <2>4 DEF Promised
<1>3. CASE ReorgProceeds \/ NothingMoves
  <2>1. /\ \A i \in HeadJobs : jobs'[i] = jobs[i]
        /\ prevSlot' = prevSlot /\ startSlot' = startSlot
        /\ \A k \in Keys : slots'[k] # NoRow => slots[k] # NoRow
    BY <1>3 DEF ReorgProceeds, NothingMoves
  <2>. SUFFICES ASSUME startSlot' # 0, NEW n \in Slots, startSlot' <= n, Reached(n)'
                PROVE  Promised(n)'
    BY DEF ReachedIsPromised
  <2>2. Reached(n)
    BY <2>1 DEF Reached
  <2>. QED  BY <1>0, <2>1, <2>2 DEF ReachedIsPromised, Promised
<1>4. CASE Die
  BY <1>4 DEF Die, ReachedIsPromised
<1>. QED  BY <1>0, <1>1, <1>2, <1>3, <1>4, HeadSideSteps

\* Goroutines of successive heads finish in any order, reorg events come in
\* between and the process may die and start again: once none is at work, no
\* slot from the first head of this start on is undetected (handleHead,
\* checkPreviousSlot), if no head fails, a start is not behind what is stored
\* and, with CheckDb, no head is announced twice.
THEOREM NoGapIsLost ==
    ASSUME SlotsAreSmall
    PROVE  Spec /\ [][~HeadFails /\ ~GenesisComes /\ ~StartsBehind /\ ~ComesAgain]_vars
               => []NoGapSinceStart
<1>. DEFINE Steady == ~HeadFails /\ ~GenesisComes /\ ~StartsBehind /\ ~ComesAgain
<1>1. SinceStartInv /\ [Next]_vars /\ [Steady]_vars => SinceStartInv'
  <2>1. ASSUME SinceStartInv, Next, Steady PROVE SinceStartInv'
    BY <2>1, JobsInvStep, HeadsStayNew, ReachedStaysPromised DEF SinceStartInv
  <2>2. ASSUME SinceStartInv, UNCHANGED vars PROVE SinceStartInv'
    <3>1. ~HeadFails /\ ~GenesisComes /\ ~StartsBehind /\ ~ComesAgain
      BY <2>2, UnchangedIsSteady DEF SinceStartInv, JobsInv
    <3>. QED  BY <2>2, <3>1, JobsInvStep, HeadsStayNew, ReachedStaysPromised DEF SinceStartInv
  <2>. QED  BY <2>1, <2>2
<1>2. SinceStartInv => NoGapSinceStart
  <2>. SUFFICES ASSUME SinceStartInv, Quiet, startSlot # 0,
                       NEW k \in Keys, slots[k] # NoRow, NEW n \in startSlot .. k[1]
                PROVE  Tracked(n)
    BY DEF NoGapSinceStart
  <2>1. startSlot \in Nat /\ k[1] \in Slots
    BY SlotNumbers DEF SinceStartInv, JobsInv, TypeOK, Keys
  <2>2. n \in Slots /\ startSlot <= n /\ n <= k[1]
    BY <2>1, WidthAssumption DEF Slots
  <2>3. Promised(n)
    BY <2>2 DEF SinceStartInv, ReachedIsPromised, Reached
  <2>4. \A j \in HeadJobs : ~WillTrack(jobs[j], n)
    BY HeadIsNotReorg DEF Quiet, WillTrack, Active
  <2>. QED  BY <2>3, <2>4 DEF Promised
<1>3. Init => SinceStartInv
  BY SinceStartInit
<1>. QED  BY <1>1, <1>2, <1>3, PTL DEF Spec

-----------------------------------------------------------------------------
(* Over restarts *)

LEMMA UpToAStoredSlot ==
    ASSUME NoUndetectedGap, NEW k \in Keys, slots[k] # NoRow,
           NEW n \in Slots, n <= k[1], Relevant(n)
    PROVE  Tracked(n)
<1>1. n \in 0 .. k[1]
  BY KeySlots, SlotNumbers
<1>. QED  BY <1>1 DEF NoUndetectedGap, Relevant

LEMMA SlotsBelowAKey == \A k \in Keys : \A n \in 0 .. k[1] : n \in Slots /\ n <= k[1]
<1>1. ASSUME NEW k \in Keys, NEW n \in 0 .. k[1] PROVE n \in Slots /\ n <= k[1]
  <2>1. k[1] \in Slots /\ k[1] \in Nat
    BY KeySlots
  <2>. QED  BY <2>1, WidthAssumption DEF Slots
<1>. QED  BY <1>1

\* writeStartUpGaps: the query finds the highest slot ...
LEMMA StartUpQuery ==
    ASSUME JobsInv, SlotsAreSmall, NEW j \in HeadJobs, Proceed(j), ~DeadlockVictim(j),
           jobs[j].pc = "startup"
    PROVE  /\ jobs'[j].maxSlot \in Slots /\ IsHighestSlot(jobs'[j].maxSlot)
           /\ jobs'[j].pc = (IF jobs'[j].maxSlot < jobs[j].slot - 1 THEN "startgaps" ELSE "fetch")
<1>0. /\ jobs[j] \in LegalHeads /\ jobs[j] \in Job /\ j \in Jobs /\ TypeOK
      /\ jobs[j].root \in Blocks /\ jobs[j].slot = SlotOf[jobs[j].root] /\ jobs[j].slot # 0
  BY HeadIsNotReorg DEF JobsInv, HeadsAreLegal, LegalHeads, Active
<1>1. ReadMaxSlot(j)
  BY DEF Proceed, WriteStartUpGaps, Fetch, InsertSlot, UpdateForked, UpdateProposed, Commit,
         RecordFailure, Step
<1>2. Minus(jobs[j].slot, 1) = jobs[j].slot - 1
  <2>1. 0 \in Slots /\ 0 < jobs[j].slot
    BY <1>0, SlotNumbers, WidthAssumption DEF Slots
  <2>. QED  BY <1>0, <2>1, RowsOfAGap
<1>3. PICK m \in Slots :
          /\ IsHighestSlot(m)
          /\ Step(j, "startup",
                  [jobs[j] EXCEPT !.maxSlot = m,
                       !.pc = IF m < Minus(jobs[j].slot, 1) THEN "startgaps" ELSE "fetch"])
  BY <1>1 DEF ReadMaxSlot
<1>. DEFINE new == [jobs[j] EXCEPT !.maxSlot = m,
                        !.pc = IF m < Minus(jobs[j].slot, 1) THEN "startgaps" ELSE "fetch"]
<1>4. new.maxSlot = m
      /\ new.pc = (IF m < Minus(jobs[j].slot, 1) THEN "startgaps" ELSE "fetch")
  BY <1>0 DEF Job
<1>. HIDE DEF new
<1>5. Step(j, "startup", new)
  BY <1>3 DEF new
<1>6. jobs'[j] = new
  BY <1>0, <1>5, StepJobs
<1>. QED  BY <1>2, <1>3, <1>4, <1>6

\* ... and the slots from there to the head are written.
LEMMA StartUpGapsEnd ==
    ASSUME JobsInv, NEW j \in HeadJobs, Proceed(j), ~DeadlockVictim(j), jobs[j].pc = "startgaps"
    PROVE  WriteStartUpGaps(j) /\ jobs'[j].pc = "fetch"
<1>1. WriteStartUpGaps(j)
  BY DEF Proceed, ReadMaxSlot, Fetch, InsertSlot, UpdateForked, UpdateProposed, Commit,
         RecordFailure, Step
<1>. DEFINE new == [jobs[j] EXCEPT !.pc = "fetch"]
<1>2. new.pc = "fetch"
  BY DEF JobsInv, HeadsAreLegal, LegalHeads, Job
<1>. HIDE DEF new
<1>3. Step(j, "startgaps", new)
  BY <1>1 DEF WriteStartUpGaps, new
<1>4. jobs'[j] = new
  BY <1>3, HeadIsNotReorg, StepJobs DEF JobsInv
<1>. QED  BY <1>1, <1>2, <1>4

LEMMA StartUpGapsAreWritten ==
    ASSUME JobsInv, SlotsAreSmall, NEW j \in HeadJobs, Proceed(j), ~DeadlockVictim(j),
           jobs[j].pc = "startgaps", jobs[j].maxSlot + 1 < jobs[j].slot
    PROVE  \A n \in Slots :
               n < jobs[j].slot /\ (jobs[j].maxSlot = 0 \/ jobs[j].maxSlot < n) => InGap(n)'
<1>. DEFINE m == jobs[j].maxSlot
            s == IF m = 0 THEN 0 ELSE m + 1
<1>0. /\ jobs[j].root \in Blocks /\ jobs[j].slot = SlotOf[jobs[j].root]
      /\ m \in Slots /\ m \in Nat /\ jobs[j].slot \in Slots /\ jobs[j].slot \in Nat
  BY SlotNumbers DEF JobsInv, HeadsAreLegal, LegalHeads, Active, Job
<1>1. s \in Slots /\ s < SlotOf[jobs[j].root] /\ m < SlotOf[jobs[j].root]
  BY <1>0, WidthAssumption DEF Slots
<1>2. s = IF m = 0 THEN m ELSE Plus(m, 1)
  BY <1>0, <1>1, RowsOfAGap
<1>. HIDE DEF s
<1>3. WriteStartUpGaps(j)
  BY StartUpGapsEnd
<1>4. knownGaps' = knownGaps \cup KnownGapRows(TableIncrement, s, SlotOf[jobs[j].root] - 1)
  BY <1>0, <1>1, <1>2, <1>3, RowsOfAGap DEF WriteStartUpGaps
<1>5. ASSUME NEW n \in Slots, n < jobs[j].slot, m = 0 \/ m < n PROVE s <= n /\ n < SlotOf[jobs[j].root]
  BY <1>0, <1>5, SlotNumbers DEF s
<1>6. \A n \in Slots : s <= n /\ n < SlotOf[jobs[j].root] =>
          \E row \in KnownGapRows(TableIncrement, s, SlotOf[jobs[j].root] - 1) : n \in SlotsOf(row)
  BY <1>0, <1>1, RowsOfAGap
<1>. QED  BY <1>4, <1>5, <1>6 DEF InGap

LEMMA SequentialInit == ASSUME Init, GaplessStart PROVE SequentialInv
<1>1. JobsInv
  BY JobsInvInit
<1>2. /\ prevRoot = NoRoot
      /\ \A k \in Keys : slots[k] # NoRow <=> k[2] \in StoredBlocks
  BY DEF Init, NoRow
<1>3. \A j \in HeadJobs : ~Active(jobs[j])
  BY <1>1, <1>2 DEF JobsInv, PreviousIsLegal
<1>4. StoredStays
  <2>1. \A b \in StoredBlocks : b \in Blocks /\ <<SlotOf[b], b>> \in Keys
    BY BlocksAssumption DEF Keys
  <2>. QED  BY <1>2, <2>1 DEF StoredStays, StoredKeys
<1>5. NoUndetectedGap
  <2>1. ASSUME NEW k \in Keys, slots[k] # NoRow, NEW n \in Slots, n <= k[1], Relevant(n)
        PROVE  Tracked(n)
    <3>1. k[2] \in StoredBlocks /\ k[1] = SlotOf[k[2]]
      BY <1>2, <2>1, BlocksAssumption DEF Keys
    <3>2. PICK b \in StoredBlocks : SlotOf[b] <= n
      BY <2>1, <3>1 DEF Relevant
    <3>3. n \in SlotOf[b] .. SlotOf[k[2]]
      <4>1. n \in Nat /\ SlotOf[b] \in Nat /\ SlotOf[k[2]] \in Nat /\ n <= SlotOf[k[2]]
        BY <2>1, <3>1, <3>2, SlotNumbers, BlocksAssumption
      <4>. QED  BY <3>2, <4>1
    <3>4. PICK d \in StoredBlocks : SlotOf[d] = n
      BY <3>1, <3>3 DEF GaplessStart
    <3>. QED  BY <1>4, <3>4, StoredIsTracked DEF StoredStays, StoredKeys
  <2>. QED  BY <2>1, SlotsBelowAKey DEF NoUndetectedGap, Relevant
<1>. QED  BY <1>1, <1>2, <1>3, <1>4, <1>5 DEF SequentialInv, OneHeadAtATime, PreviousIsStored,
          HeadsAreReady, ReadyHeads, Active, JobsInv, HeadsAreLegal

\* What is tracked and stored stays so, and so does what a goroutine that has
\* not moved needs of it.
LEMMA ReadyHeadsStay ==
    ASSUME TypeOK, [Next]_vars
    PROVE  ReadyHeads \subseteq ReadyHeads'
<1>0. /\ \A k \in Keys : slots[k] # NoRow => slots'[k] # NoRow
      /\ \A n \in Slots : Tracked(n) => Tracked(n)'
  BY RowsAndGapsStay
<1>. QED  BY <1>0 DEF ReadyHeads, StoredKeys, Active, Relevant

LEMMA StoredKeysStay ==
    ASSUME TypeOK, [Next]_vars
    PROVE  /\ StoredKeys \subseteq StoredKeys'
           /\ StoredStays => StoredStays'
BY RowsAndGapsStay DEF StoredKeys, StoredStays

\* A step that adds no row leaves no new gap.
LEMMA NoNewRows ==
    ASSUME TypeOK, [Next]_vars, NoUndetectedGap,
           \A k \in Keys : slots'[k] # NoRow => slots[k] # NoRow
    PROVE  NoUndetectedGap'
<1>1. \A n \in Slots : Tracked(n) => Tracked(n)'
  BY RowsAndGapsStay
<1>. QED  BY <1>1, SlotsBelowAKey DEF NoUndetectedGap

\* The goroutine of the first head, once the start-up gaps are dealt with.
LEMMA StartUpIsComplete ==
    ASSUME SequentialInv, SlotsAreSmall, GaplessStart, [Next]_vars, NEW j \in HeadJobs,
           Proceed(j), ~DeadlockVictim(j), jobs[j].pc \in {"startup", "startgaps"},
           jobs'[j].pc = "fetch"
    PROVE  \A n \in Slots : Relevant(n) /\ n < jobs[j].slot => Tracked(n)'
<1>0. /\ JobsInv /\ TypeOK /\ NoUndetectedGap /\ StoredStays /\ jobs[j] \in ReadyHeads
      /\ jobs[j].slot \in Nat /\ jobs[j].slot # 0
      /\ jobs[j].root \in Blocks /\ jobs[j].slot = SlotOf[jobs[j].root]
      /\ \A n \in Slots : Tracked(n) => Tracked(n)'
  BY RowsAndGapsStay, SlotNumbers
     DEF SequentialInv, HeadsAreReady, JobsInv, HeadsAreLegal, LegalHeads, Active
<1>. SUFFICES ASSUME NEW n \in Slots, Relevant(n), n < jobs[j].slot PROVE Tracked(n)'
  OBVIOUS
<1>1. n \in Nat
  BY SlotNumbers
<1>2. CASE jobs[j].pc = "startup"
  <2>. DEFINE m == jobs'[j].maxSlot
  <2>1. m \in Slots /\ IsHighestSlot(m) /\ ~(m < jobs[j].slot - 1)
    BY <1>0, <1>2, StartUpQuery
  <2>. HIDE DEF m
  <2>2. m \in Nat /\ n <= m
    BY <1>0, <1>1, <2>1, SlotNumbers
  <2>3. CASE m = 0
    <3>1. n = 0 /\ jobs[j].slot = 1
      BY <1>0, <1>1, <2>1, <2>2, <2>3
    <3>2. PICK b \in StoredBlocks : SlotOf[b] <= 0
      BY <1>0, <3>1 DEF GaplessStart, Relevant
    <3>3. SlotOf[b] = 0
      <4>1. SlotOf[b] \in Nat
        BY SlotNumbers, BlocksAssumption
      <4>. QED  BY <3>2, <4>1
    <3>4. <<SlotOf[b], b>> \in Keys /\ slots[<<SlotOf[b], b>>] # NoRow
      BY <1>0 DEF StoredStays, StoredKeys
    <3>. QED  BY <1>0, <3>1, <3>3, <3>4, StoredIsTracked
  <2>4. CASE m # 0
    <3>1. PICK k \in Keys : slots[k] # NoRow /\ k[1] = m
      BY <2>1, <2>4 DEF IsHighestSlot
    <3>. QED  BY <1>0, <2>2, <3>1, UpToAStoredSlot
  <2>. QED  BY <2>3, <2>4
<1>3. CASE jobs[j].pc = "startgaps"
  <2>. DEFINE m == jobs[j].maxSlot
  <2>1. m \in Nat /\ m + 1 < jobs[j].slot
        /\ (m = 0 \/ \E k \in Keys : slots[k] # NoRow /\ k[1] = m)
    BY <1>0, <1>3, SlotNumbers DEF ReadyHeads, StoredKeys, JobsInv, HeadsAreLegal, LegalHeads, Job
  <2>2. CASE m = 0 \/ m < n
    <3>1. InGap(n)'
      BY <1>0, <1>3, <2>1, <2>2, StartUpGapsAreWritten
    <3>. QED  BY <3>1 DEF Tracked
  <2>3. CASE m # 0 /\ n <= m
    BY <1>0, <2>1, <2>3, UpToAStoredSlot
  <2>. QED  BY <1>1, <2>1, <2>2, <2>3
<1>. QED  BY <1>2, <1>3

\* The last step of a goroutine: below its slot nothing is missing.
LEMMA LastStepIsComplete ==
    ASSUME SequentialInv, SlotsAreSmall, [Next]_vars, NEW j \in HeadJobs, Proceed(j),
           ~DeadlockVictim(j), HeadProceeds(j), Ends(j)
    PROVE  NoUndetectedGap'
<1>0. /\ JobsInv /\ TypeOK /\ NoUndetectedGap /\ jobs[j] \in ReadyHeads /\ Active(jobs[j])
      /\ jobs[j] \in LegalHeads /\ OwnKey(jobs[j]) \in Keys /\ OwnKey(jobs[j])[1] = jobs[j].slot
      /\ jobs[j].slot \in Nat /\ jobs[j].prevSlot \in Nat
      /\ \A n \in Slots : Tracked(n) => Tracked(n)'
  BY RowsAndGapsStay, SlotNumbers, OwnKeyIsAKey
     DEF SequentialInv, HeadsAreReady, JobsInv, HeadsAreLegal, LegalHeads, Job, HeadProceeds, OwnKey
<1>1. jobs[j].pc \notin {"startup", "startgaps"}
  <2>1. jobs'[j].pc = "idle"
    BY DEF Ends, Idle
  <2>2. jobs[j].pc # "startup"
    BY <1>0, <2>1, StartUpQuery
  <2>3. jobs[j].pc # "startgaps"
    BY <1>0, <2>1, StartUpGapsEnd
  <2>. QED  BY <2>2, <2>3
<1>2. ASSUME NEW n \in Slots, Relevant(n), n <= jobs[j].slot PROVE Tracked(n)'
  <2>1. n \in Nat
    BY SlotNumbers
  <2>2. CASE n = jobs[j].slot
    BY <1>0, <2>2 DEF Ends, Tracked
  <2>3. CASE n < jobs[j].slot /\ jobs[j].prevRoot = NoRoot
    BY <1>0, <1>1, <1>2, <2>3 DEF ReadyHeads, Active
  <2>4. CASE n < jobs[j].slot /\ jobs[j].prevRoot # NoRoot
    <3>1. CASE n <= jobs[j].prevSlot
      <4>. DEFINE k == <<jobs[j].prevSlot, jobs[j].prevRoot>>
      <4>1. k \in Keys /\ slots[k] # NoRow /\ k[1] = jobs[j].prevSlot
        BY <1>0, <2>4 DEF ReadyHeads, StoredKeys
      <4>. QED  BY <1>0, <1>2, <3>1, <4>1, UpToAStoredSlot
    <3>2. CASE jobs[j].prevSlot < n
      <4>1. CASE InGap(n)'
        BY <4>1 DEF Tracked
      <4>2. CASE slots' = slots
        <5>1. slots[OwnKey(jobs[j])] # NoRow
          BY <4>2 DEF Ends
        <5>. QED  BY <1>0, <1>2, <5>1, UpToAStoredSlot
      <4>. QED  BY <2>4, <3>2, <4>1, <4>2 DEF Ends, Between
    <3>. QED  BY <1>0, <2>1, <3>1, <3>2
  <2>. QED  BY <1>0, <1>2, <2>1, <2>2, <2>3, <2>4
<1>3. ASSUME NEW k \in Keys, slots'[k] # NoRow, NEW n \in Slots, n <= k[1], Relevant(n)
      PROVE  Tracked(n)'
  <2>1. CASE slots[k] # NoRow
    BY <1>0, <1>3, <2>1, UpToAStoredSlot
  <2>2. CASE k = OwnKey(jobs[j])
    BY <1>0, <1>2, <1>3, <2>2
  <2>. QED  BY <1>3, <2>1, <2>2 DEF Ends
<1>. QED  BY <1>3, SlotsBelowAKey DEF NoUndetectedGap, Relevant

LEMMA SequentialStep ==
    ASSUME SequentialInv, SlotsAreSmall, GaplessStart, [Next]_vars,
           ~HeadFails, ~GenesisComes, ~HeadsOverlap
    PROVE  SequentialInv'
<1>0. /\ JobsInv /\ JobsInv' /\ TypeOK /\ OneHeadAtATime /\ StoredStays' /\ PreviousIsStored
      /\ NoUndetectedGap /\ \A i \in HeadJobs : jobs[i] \in LegalHeads /\ jobs[i] \in ReadyHeads
      /\ StoredKeys \subseteq StoredKeys' /\ ReadyHeads \subseteq ReadyHeads'
  BY JobsInvStep, StoredKeysStay, ReadyHeadsStay DEF SequentialInv, HeadsAreReady, JobsInv, HeadsAreLegal
<1>1. ASSUME NEW j \in HeadJobs, NEW b \in Blocks, HandleHead(j, b) PROVE SequentialInv'
  <2>0. SlotOf[b] # 0 /\ \A i \in HeadJobs : ~Active(jobs[i])
    BY <1>1 DEF GenesisComes, HeadsOverlap
  <2>1. /\ \A i \in HeadJobs : i # j => jobs'[i] = jobs[i]
        /\ jobs'[j] \in LegalHeads /\ jobs'[j].slot = SlotOf[b] /\ jobs'[j].root = b
        /\ jobs'[j].prevSlot = prevSlot /\ jobs'[j].prevRoot = prevRoot
        /\ jobs'[j].pc = (IF prevRoot = NoRoot THEN "startup" ELSE "fetch")
        /\ slots' = slots /\ prevSlot' = SlotOf[b] /\ prevRoot' = b
    BY <1>0, <1>1, <2>0, HeadComes, HeadIsNotReorg
  <2>2. OneHeadAtATime'
    BY <2>0, <2>1 DEF OneHeadAtATime
  <2>3. PreviousIsStored'
    BY <2>1 DEF PreviousIsStored, Active, OwnKey
  <2>4. jobs'[j] \in ReadyHeads'
    BY <1>0, <2>0, <2>1 DEF ReadyHeads, PreviousIsStored, StoredKeys
  <2>5. HeadsAreReady'
    BY <1>0, <2>1, <2>4 DEF HeadsAreReady
  <2>6. NoUndetectedGap'
    BY <1>0, <2>1, NoNewRows
  <2>. QED  BY <1>0, <2>2, <2>3, <2>5, <2>6 DEF SequentialInv
<1>2. ASSUME NEW j \in HeadJobs, Proceed(j), ~DeadlockVictim(j), HeadProceeds(j)
      PROVE  SequentialInv'
  <2>1. /\ Active(jobs[j]) /\ OwnKey(jobs[j]) \in Keys
        /\ \A i \in HeadJobs : i # j => jobs'[i] = jobs[i] /\ ~Active(jobs[i])
        /\ prevSlot' = prevSlot /\ prevRoot' = prevRoot
    BY <1>0, <1>2, HeadIsNotReorg, OwnKeyIsAKey DEF HeadProceeds, OneHeadAtATime
  <2>2. OneHeadAtATime'
    BY <2>1 DEF OneHeadAtATime
  <2>3. PreviousIsStored'
    <3>1. CASE prevRoot # NoRoot /\ <<prevSlot, prevRoot>> \notin StoredKeys
      <4>1. OwnKey(jobs[j]) = <<prevSlot, prevRoot>>
        BY <1>0, <2>1, <3>1 DEF PreviousIsStored
      <4>2. CASE GoesOn(j)
        BY <2>1, <4>1, <4>2 DEF GoesOn, SameHead, OwnKey, PreviousIsStored
      <4>3. CASE Ends(j)
        BY <2>1, <4>1, <4>3 DEF Ends, StoredKeys, PreviousIsStored
      <4>. QED  BY <1>2, <4>2, <4>3 DEF HeadProceeds
    <3>2. CASE <<prevSlot, prevRoot>> \in StoredKeys
      BY <1>0, <2>1, <3>2 DEF StoredKeys, PreviousIsStored
    <3>3. CASE prevRoot = NoRoot
      BY <2>1, <3>3 DEF PreviousIsStored
    <3>. QED  BY <3>1, <3>2, <3>3
  <2>4. jobs'[j] \in ReadyHeads'
    <3>1. CASE Ends(j)
      BY <3>1, IdleHeadIsLegal DEF Ends, ReadyHeads, Idle
    <3>2. CASE GoesOn(j)
      <4>0. /\ jobs'[j] \in LegalHeads /\ SameHead(jobs'[j], jobs[j])
            /\ jobs'[j].pc \notin {"idle", "startup"}
            /\ jobs'[j].pc = "startgaps" => jobs[j].pc = "startup"
        BY <3>2 DEF GoesOn, Active
      <4>1. jobs'[j].prevRoot # NoRoot => <<jobs'[j].prevSlot, jobs'[j].prevRoot>> \in StoredKeys'
        BY <1>0, <2>1, <4>0 DEF ReadyHeads, SameHead, StoredKeys
      <4>2. ASSUME jobs'[j].prevRoot = NoRoot, jobs'[j].pc # "startgaps",
                   NEW n \in Slots, Relevant(n), n < jobs'[j].slot
            PROVE  Tracked(n)'
        <5>1. CASE jobs[j].pc \in {"startup", "startgaps"}
          <6>1. jobs'[j].pc = "fetch"
            BY <1>0, <1>2, <4>2, <5>1, StartUpQuery, StartUpGapsEnd
          <6>. QED  BY <1>2, <4>0, <4>2, <5>1, <6>1, StartUpIsComplete DEF SameHead
        <5>2. CASE jobs[j].pc \notin {"startup", "startgaps"}
          <6>1. Tracked(n)
            BY <1>0, <2>1, <4>0, <4>2, <5>2 DEF ReadyHeads, SameHead, Active
          <6>. QED  BY <1>0, <6>1, RowsAndGapsStay
        <5>. QED  BY <5>1, <5>2
      <4>3. ASSUME jobs'[j].pc = "startgaps"
            PROVE  /\ jobs'[j].maxSlot + 1 < jobs'[j].slot
                   /\ jobs'[j].maxSlot = 0
                      \/ \E k \in StoredKeys' : k[1] = jobs'[j].maxSlot
        <5>. DEFINE m == jobs'[j].maxSlot
        <5>1. m \in Slots /\ IsHighestSlot(m) /\ m < jobs[j].slot - 1
          BY <1>0, <1>2, <4>0, <4>3, StartUpQuery
        <5>2. m \in Nat /\ jobs[j].slot \in Nat
          BY <1>0, <5>1, SlotNumbers DEF LegalHeads, Job
        <5>. HIDE DEF m
        <5>3. m = 0 \/ \E k \in StoredKeys : k[1] = m
          BY <5>1 DEF IsHighestSlot, StoredKeys
        <5>4. m = 0 \/ \E k \in StoredKeys' : k[1] = m
          BY <1>0, <5>3
        <5>5. m + 1 < jobs'[j].slot
          BY <4>0, <5>1, <5>2 DEF SameHead
        <5>. QED  BY <5>4, <5>5 DEF m
      <4>. QED  BY <4>0, <4>1, <4>2, <4>3 DEF ReadyHeads, Relevant
    <3>. QED  BY <1>2, <3>1, <3>2 DEF HeadProceeds
  <2>5. HeadsAreReady'
    BY <1>0, <2>1, <2>4 DEF HeadsAreReady
  <2>6. NoUndetectedGap'
    <3>1. CASE Ends(j)
      BY <1>2, <3>1, LastStepIsComplete
    <3>2. CASE GoesOn(j)
      BY <1>0, <3>2, NoNewRows DEF GoesOn
    <3>. QED  BY <1>2, <3>1, <3>2 DEF HeadProceeds
  <2>. QED  BY <1>0, <2>2, <2>3, <2>5, <2>6 DEF SequentialInv
<1>3. CASE ReorgProceeds \/ NothingMoves
  <2>1. /\ \A i \in HeadJobs : jobs'[i] = jobs[i]
        /\ prevSlot' = prevSlot /\ prevRoot' = prevRoot
        /\ \A k \in Keys : slots'[k] # NoRow => slots[k] # NoRow
    BY <1>3 DEF ReorgProceeds, NothingMoves
  <2>2. OneHeadAtATime' /\ PreviousIsStored'
    BY <1>0, <2>1 DEF OneHeadAtATime, PreviousIsStored, StoredKeys
  <2>3. HeadsAreReady'
    BY <1>0, <2>1 DEF HeadsAreReady
  <2>4. NoUndetectedGap'
    BY <1>0, <2>1, NoNewRows
  <2>. QED  BY <1>0, <2>2, <2>3, <2>4 DEF SequentialInv
<1>4. CASE Die
  <2>1. (\A i \in HeadJobs : jobs'[i] = Idle) /\ prevRoot' = NoRoot /\ slots' = slots
    BY <1>4, HeadIsNotReorg DEF Die, tables
  <2>2. OneHeadAtATime' /\ PreviousIsStored'
    BY <2>1, IdleHeadIsLegal DEF OneHeadAtATime, PreviousIsStored
  <2>3. HeadsAreReady'
    BY <2>1, IdleHeadIsLegal DEF HeadsAreReady, ReadyHeads, Idle
  <2>4. NoUndetectedGap'
    BY <1>0, <2>1, NoNewRows
  <2>. QED  BY <1>0, <2>2, <2>3, <2>4 DEF SequentialInv
<1>. QED  BY <1>0, <1>1, <1>2, <1>3, <1>4, HeadSideSteps

\* Over any number of starts, while heads are announced, reorged and written:
\* every slot between the oldest one stored at the first start and the newest
\* one is in the database or in known_gaps (writeStartUpGaps,
\* checkPreviousSlot), if no head fails and none comes while another is at
\* work.
THEOREM GapsAreDetected ==
    ASSUME SlotsAreSmall, GaplessStart
    PROVE  Spec /\ [][~HeadFails /\ ~GenesisComes /\ ~HeadsOverlap]_vars => []NoUndetectedGap
<1>. DEFINE Steady == ~HeadFails /\ ~GenesisComes /\ ~HeadsOverlap
<1>1. SequentialInv /\ [Next]_vars /\ [Steady]_vars => SequentialInv'
  <2>1. ASSUME SequentialInv, Next, Steady PROVE SequentialInv'
    BY <2>1, SequentialStep
  <2>2. ASSUME SequentialInv, UNCHANGED vars PROVE SequentialInv'
    <3>1. Steady
      BY <2>2, UnchangedIsSteady DEF SequentialInv, JobsInv
    <3>. QED  BY <2>2, <3>1, SequentialStep
  <2>. QED  BY <2>1, <2>2
<1>2. SequentialInv => NoUndetectedGap
  BY DEF SequentialInv
<1>3. Init => SequentialInv
  BY SequentialInit
<1>. QED  BY <1>1, <1>2, <1>3, PTL DEF Spec
=============================================================================
