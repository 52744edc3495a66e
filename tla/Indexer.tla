-------------------------------- MODULE Indexer --------------------------------
(***************************************************************************)
(* The application that follows the head and fills its own gaps            *)
(* (cmd/head.go with kg.processKnownGaps): head tracking and the           *)
(* known-gaps process on one database.                                     *)
(*                                                                         *)
(* HeadTracking writes rows to known_gaps and never deletes one; the       *)
(* known-gaps process checks them out, stores their slots beside the head  *)
(* goroutines, deletes the rows and writes new ones.  Each believes what   *)
(* it reads of the other's tables.  Both components keep their own view of *)
(* the database, and each step of one is carried over to the view of the   *)
(* other: knownGaps is the set of the rows that `table` has, and the kinds *)
(* of rows that BatchProcess calls `stored` are read off `slots`.          *)
(*                                                                         *)
(* The two live in one operating system process: a crash or a log.Fatal of *)
(* either loses the memory of both.  Head events that do not parse, and     *)
(* chain_reorg events, whose update is the one that checkPreviousSlot      *)
(* makes, are left to HeadTracking.                                        *)
(***************************************************************************)
EXTENDS HeadTracking

CONSTANTS
    GapProc,       \* the known-gaps process
    GapWorkers,    \* its workers
    NodeId,        \* the application and its uniqueNodeIdentifier
    MinimumSlot,   \* kg.minimumSlot
    ErrLimit       \* errors after which the getter gives up

ASSUME GapsAssumption ==
    /\ NodeId \notin {"absent", "free"}
    /\ MinimumSlot \in Nat
    /\ ErrLimit \in Nat \ {0}

VARIABLES
    table, ctx, getter, dist, worker, handler, pollers   \* see BatchProcess

gapVars == <<table, ctx, getter, dist, worker, handler, pollers>>

\* What isSlotProcessed and ON CONFLICT find of a slot, whatever the status.
StoredKinds ==
    LET kinds(n) == { IF k[2] = NoRoot THEN "skipped" ELSE "full" :
                          k \in { kk \in Keys : kk[1] = n /\ slots[kk] # NoRow } }
    IN  [n \in Slots |-> kinds(n)]

G == INSTANCE BatchProcess WITH
         Procs <- {GapProc}, Workers <- GapWorkers,
         NodeOf <- [p \in {GapProc} |-> NodeId], IdOf <- [p \in {GapProc} |-> NodeId],
         TableOf <- [p \in {GapProc} |-> "known_gaps"],
         ProcOf <- [w \in GapWorkers |-> GapProc],
         SlotSet <- Slots, InitialRows <- [t \in {"historic_process", "known_gaps"} |-> {}],
         MaxStops <- 0, stored <- StoredKinds

-----------------------------------------------------------------------------

IndexerInit ==
    /\ Init
    /\ table = [t \in G!Tables |-> [r \in G!Rows |-> G!Absent]]
    /\ ctx = [p \in {GapProc} |-> "down"]
    /\ getter = [p \in {GapProc} |-> G!NewGetter]
    /\ dist = [p \in {GapProc} |-> G!NewDist]
    /\ worker = [w \in GapWorkers |-> G!NewWorker]
    /\ handler = [p \in {GapProc} |-> G!NewHandler]
    /\ pollers = [p \in {GapProc} |-> {}]

\* The rows that the head side wrote are there to be checked out.
TableWith(rows) ==
    [table EXCEPT ![G!KnownGaps] =
        [r \in G!Rows |-> IF r \in rows /\ @[r] = G!Absent THEN G!Free ELSE @[r]]]

Dies == process = "up" /\ process' = "down"

\* A step of head tracking.
HeadStep(A) ==
    /\ A
    /\ table' = TableWith(knownGaps')
    /\ IF Dies THEN G!Lose(NodeId)
               ELSE UNCHANGED <<ctx, getter, dist, worker, handler, pollers>>

\* The application is killed, or any log.Fatal or panic ends it: one of the
\* faults of a run.
Kill == Die /\ Spend("faults", MaxFaults)

\* A step of the known-gaps process that leaves eth_beacon.slots alone.
GapStep(A) ==
    /\ process = "up"
    /\ UNCHANGED <<process, client, jobs, slots>>
    /\ A
    /\ knownGaps' = { r \in G!Rows : table'[G!KnownGaps][r] # G!Absent }

\* A worker stores a block of its slot, whichever the beacon node returns, or
\* that the slot was skipped.  It waits for a transaction that has the row,
\* and leaves a row that is there as it is.
StoreGapSlot(w) ==
    /\ process = "up"
    /\ \E k \in Keys :
           /\ k[1] = worker[w].slot
           /\ \A j \in Jobs : k \notin Locked(j)
           /\ slots' = IF slots[k] # NoRow THEN slots
                       ELSE [slots EXCEPT ![k] = IF k[2] = NoRoot THEN "skipped" ELSE "proposed"]
    /\ UNCHANGED <<process, client, jobs, knownGaps>>
    /\ G!StoreSlot(w)

GapWorker(w) == G!SlotFails(w) \/ G!ReportError(w)

IndexerNext ==
    \/ \E j \in HeadJobs, b \in Blocks : HeadStep(HandleHead(j, b))
    \/ \E j \in Jobs : HeadStep(Proceed(j)) \/ HeadStep(Fail(j))
    \/ HeadStep(Kill)
    \/ HeadStep(Restart)
    \/ GapStep(G!Start(GapProc)) \/ GapStep(G!StartUnreleased(GapProc))
    \/ GapStep(G!Getter(GapProc))
    \/ GapStep(G!Distributor(GapProc))
    \/ GapStep(G!Handler(GapProc))
    \/ GapStep(G!Remover(GapProc))
    \/ \E w \in GapWorkers : GapStep(GapWorker(w)) \/ StoreGapSlot(w)

indexerVars == <<vars, gapVars>>

IndexerSpec == IndexerInit /\ [][IndexerNext]_indexerVars

\* As in the components: every goroutine that can take a step takes one, the
\* beacon node answers, and the database serves every statement.
IndexerFairSpec ==
    /\ IndexerSpec
    /\ \A j \in Jobs : WF_indexerVars(HeadStep(Proceed(j)))
    /\ WF_indexerVars(GapStep(G!Start(GapProc) \/ G!StartUnreleased(GapProc)))
    /\ WF_indexerVars(GapStep(G!Getter(GapProc)))
    /\ WF_indexerVars(GapStep(G!Distributor(GapProc)))
    /\ WF_indexerVars(GapStep(G!Handler(GapProc)))
    /\ \A w \in GapWorkers :
           WF_indexerVars(StoreGapSlot(w)) /\ WF_indexerVars(GapStep(G!ReportError(w)))

-----------------------------------------------------------------------------

\* Both components see the same rows of known_gaps, and stay within their
\* types whatever the other does to the database.
IndexerTypeOK ==
    /\ TypeOK
    /\ table \in G!TableType
    /\ knownGaps = { r \in G!Rows : table[G!KnownGaps][r] # G!Absent }
    /\ ctx \in [{GapProc} -> {"down", "run"}]
    /\ getter \in [{GapProc} -> G!GetterState]
    /\ dist \in [{GapProc} -> G!DistState]
    /\ worker \in [GapWorkers -> G!WorkerState]
    /\ handler \in [{GapProc} -> G!HandlerState]
    /\ pollers \in [{GapProc} -> SUBSET G!Rows]

\* The slot is stored, in known_gaps, or in the hands of a worker or of the
\* error handler.
Followed(n) == Tracked(n) \/ G!InHand(n)

\* A slot that is followed never falls between the two components, whatever
\* either writes or deletes and whichever request fails; only the death of the
\* process loses what a worker had in hand.
NoSlotIsDropped ==
    [][~Dies => \A n \in Slots : Followed(n) => Followed(n)']_indexerVars

\* The known gaps that the head side writes are filled while it goes on: a
\* slot in known_gaps ends up stored, or its failure has a row of its own,
\* unless the process dies.
GapsAreFilled ==
    \A n \in Slots :
        InGap(n) ~> (StoredKinds[n] # {} \/ <<n, n>> \in knownGaps \/ process = "down")

\* capturehead_test.go, "Should add the previous block to the knownGaps
\* table": a slot whose blocks are all marked forked is in known_gaps, or the
\* known-gaps process is about to store its block.
ForkedSlotIsFollowedUp ==
    \A n \in Slots :
        LET rows == { k \in Keys : k[1] = n /\ slots[k] # NoRow }
        IN  rows # {} /\ (\A k \in rows : slots[k] = "forked") => InGap(n) \/ G!InHand(n)

=============================================================================
