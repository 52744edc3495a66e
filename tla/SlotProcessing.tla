---------------------------- MODULE SlotProcessing ----------------------------
(***************************************************************************)
(* processFullSlot (pkg/beaconclient/processslot.go) with the queries and  *)
(* the database writes it makes, for calls that run at once: those of      *)
(* processHeadSlot, which know the roots from the head event, and those of *)
(* handleHistoricSlot, which know the slot only.                           *)
(*                                                                         *)
(* Block and state are fetched by two goroutines that test the context     *)
(* before they ask.  A historic call asks for both by slot: what it gets   *)
(* is what the beacon node holds canonical when it answers.  A state is    *)
(* named by its block, so the final block root and the final state root    *)
(* of provideFinalHash are one root here; the state at a slot n without a  *)
(* block is <<n, NoRoot>>.                                                 *)
(*                                                                         *)
(* All tables are written in one transaction, every INSERT with ON         *)
(* CONFLICT DO NOTHING and in one order of keys: it is one step here.  The *)
(* comparison with the previous head, made in it for a head, is modelled   *)
(* in HeadTracking.                                                        *)
(***************************************************************************)
EXTENDS Naturals, FiniteSets

CONSTANTS
    Blocks, SlotOf,   \* the blocks and their slots
    NoRoot,           \* the empty root "", or nothing at all
    SlotSet,          \* the slots
    FirstCanonical,   \* the canonical block of each slot at first, or NoRoot
    ReorgSlots,       \* the slots whose canonical block may change
    HistoricSlots,    \* the slots that historic calls are made for
    Calls,            \* the calls that can run at once
    Configs,          \* the values of the switches considered
    MaxCalls, MaxReorgs, MaxSkips, MaxFaults, MaxRestarts   \* bounds

ASSUME ChainAssumption ==
    /\ SlotOf \in [Blocks -> SlotSet]
    /\ NoRoot \notin Blocks
    /\ FirstCanonical \in [SlotSet -> Blocks \cup {NoRoot}]
    /\ \A n \in SlotSet : FirstCanonical[n] # NoRoot => SlotOf[FirstCanonical[n]] = n
    /\ ReorgSlots \subseteq SlotSet
    /\ HistoricSlots \subseteq SlotSet

ASSUME ConfigsAssumption ==
    /\ Configs \subseteq [block : BOOLEAN, state : BOOLEAN, checkDb : BOOLEAN]
    /\ {MaxCalls, MaxReorgs, MaxSkips, MaxFaults, MaxRestarts} \subseteq Nat

Roots == Blocks \cup {NoRoot}

\* The primary keys (slot, root) of slots, signed_block and state, and the
\* states that there are: of each block and at each slot without one.
Keys == { <<SlotOf[b], b>> : b \in Blocks } \cup { <<n, NoRoot>> : n \in SlotSet }

NoRow == "none"
Bounds == {"calls", "reorgs", "skips", "faults", "restarts"}

VARIABLES
    config,       \* PerformBeaconBlockProcessing, ...StateProcessing, CheckDb
    canonical,    \* the beacon node's block of each slot
    calls,        \* the local state of each call
    outcome,      \* how its last call ended
    cancelled,    \* ctx.Done()
    slots,        \* eth_beacon.slots: the status of each key
    signedBlocks, \* eth_beacon.signed_block: the keys
    states,       \* eth_beacon.state: the keys
    blobs,        \* public.blocks: the state held under the key of each root, or {}
    spent         \* how much of each bound is used up

tables == <<slots, signedBlocks, states, blobs>>
vars == <<config, canonical, calls, outcome, cancelled, tables, spent>>

\* A goroutine of the error group that is not needed has finished.
Fetcher(on) == IF on THEN "test" ELSE "done"

NoCall == [pc |-> "idle", slot |-> 0, root |-> NoRoot, blockPc |-> "done", statePc |-> "done",
           block |-> NoRoot, state |-> {}, skipped |-> FALSE, blockRequired |-> FALSE]

Spend(bound, max) ==
    /\ spent[bound] < max
    /\ spent' = [spent EXCEPT ![bound] = @ + 1]

CallStep(c, from, call) ==
    /\ calls[c].pc = from
    /\ calls' = [calls EXCEPT ![c] = call]

Return(c, from, how) ==
    /\ CallStep(c, from, NoCall)
    /\ outcome' = [outcome EXCEPT ![c] = how]

-----------------------------------------------------------------------------

Init ==
    /\ config \in Configs
    /\ canonical = FirstCanonical
    /\ calls = [c \in Calls |-> NoCall]
    /\ outcome = [c \in Calls |-> "none"]
    /\ cancelled = FALSE
    /\ slots = [k \in Keys |-> NoRow]
    /\ signedBlocks = {}
    /\ states = {}
    /\ blobs = [r \in Roots |-> {}]
    /\ spent = [bound \in Bounds |-> 0]

\* The first test of the context has let the call pass.
Begin(c, n, root) ==
    /\ Spend("calls", MaxCalls)
    /\ CallStep(c, "idle",
           [NoCall EXCEPT !.pc = "fetch", !.slot = n, !.root = root,
                          !.blockPc = Fetcher(config.block),
                          !.statePc = Fetcher(config.state)])
    /\ outcome' = [outcome EXCEPT ![c] = "none"]
    /\ UNCHANGED <<config, canonical, cancelled, tables>>

BeginHead(c, b) == Begin(c, SlotOf[b], b)
BeginHistoric(c, n) == ~cancelled /\ Begin(c, n, NoRoot)

\* Only the context of the batch processes is ever cancelled; a head call has
\* context.Background().
Done(c) == cancelled /\ calls[c].root = NoRoot

\* Each fetching goroutine tests the context and then asks or is done.
TestBlockContext(c) ==
    /\ calls[c].blockPc = "test"
    /\ CallStep(c, "fetch", [calls[c] EXCEPT !.blockPc = IF Done(c) THEN "done" ELSE "asked"])
    /\ UNCHANGED <<config, canonical, outcome, cancelled, tables, spent>>

TestStateContext(c) ==
    /\ calls[c].statePc = "test"
    /\ CallStep(c, "fetch", [calls[c] EXCEPT !.statePc = IF Done(c) THEN "done" ELSE "asked"])
    /\ UNCHANGED <<config, canonical, outcome, cancelled, tables, spent>>

\* getSignedBeaconBlock: by root, or the canonical block of the slot.
GetSignedBeaconBlock(c) ==
    LET call == calls[c]
        b    == IF call.root # NoRoot THEN call.root ELSE canonical[call.slot]
    IN  /\ call.blockPc = "asked"
        /\ CallStep(c, "fetch",
               [call EXCEPT !.blockPc = "done", !.block = b, !.skipped = (b = NoRoot)])
        /\ UNCHANGED <<config, canonical, outcome, cancelled, tables, spent>>

\* The beacon node does not have the block (404): that too is taken for a
\* skipped slot.
BlockNotFound(c) ==
    /\ calls[c].blockPc = "asked"
    /\ Spend("skips", MaxSkips)
    /\ CallStep(c, "fetch", [calls[c] EXCEPT !.blockPc = "done", !.skipped = TRUE])
    /\ UNCHANGED <<config, canonical, outcome, cancelled, tables>>

\* A slip: a head's state is asked for by slot like a historic one.
GetBeaconStateBySlot(c) ==
    LET call == calls[c]
        s    == <<call.slot, canonical[call.slot]>>
    IN  /\ call.statePc = "asked"
        /\ CallStep(c, "fetch", [call EXCEPT !.statePc = "done", !.state = {s}])
        /\ UNCHANGED <<config, canonical, outcome, cancelled, tables, spent>>

\* getBeaconState: by root, or the state at the slot, which exists for a slot
\* without a block as well.
GetBeaconState(c) ==
    LET call == calls[c]
        s    == <<call.slot, IF call.root # NoRoot THEN call.root ELSE canonical[call.slot]>>
    IN  /\ call.statePc = "asked"
        /\ CallStep(c, "fetch", [call EXCEPT !.statePc = "done", !.state = {s}])
        /\ UNCHANGED <<config, canonical, outcome, cancelled, tables, spent>>

\* The query fails, or no fork's type decodes what it returned.
BlockFails(c) ==
    /\ calls[c].blockPc = "asked"
    /\ Spend("faults", MaxFaults)
    /\ CallStep(c, "fetch", [calls[c] EXCEPT !.blockPc = "failed"])
    /\ UNCHANGED <<config, canonical, outcome, cancelled, tables>>

StateFails(c) ==
    /\ calls[c].statePc = "asked"
    /\ Spend("faults", MaxFaults)
    /\ CallStep(c, "fetch", [calls[c] EXCEPT !.statePc = "failed"])
    /\ UNCHANGED <<config, canonical, outcome, cancelled, tables>>

\* g.Wait()
Fetched(c) ==
    /\ calls[c].pc = "fetch"
    /\ {calls[c].blockPc, calls[c].statePc} \subseteq {"done", "failed"}
Failed(c) == "failed" \in {calls[c].blockPc, calls[c].statePc}

WaitFails(c) ==
    /\ Fetched(c) /\ Failed(c)
    /\ Return(c, "fetch", "failed")
    /\ UNCHANGED <<config, canonical, cancelled, tables, spent>>

Wait(c) ==
    /\ Fetched(c) /\ ~Failed(c)
    /\ CallStep(c, "fetch",
           [calls[c] EXCEPT !.pc = IF config.checkDb THEN "checkBlock" ELSE "write"])
    /\ UNCHANGED <<config, canonical, outcome, cancelled, tables, spent>>

\* provideFinalHash
FinalRoot(call) ==
    CASE call.skipped        -> NoRoot
      [] call.root # NoRoot  -> call.root
      [] OTHER               -> call.block

FinalKey(c) == <<calls[c].slot, FinalRoot(calls[c])>>

\* CheckDb, first query.
CheckBlock(c) ==
    /\ CallStep(c, "checkBlock",
           [calls[c] EXCEPT !.pc = "checkState",
                            !.blockRequired = config.block /\ FinalKey(c) \notin signedBlocks])
    /\ UNCHANGED <<config, canonical, outcome, cancelled, tables, spent>>

\* CheckDb, second query: a slot that needs neither is left at that.
StateRequired(c) == config.state /\ FinalKey(c) \notin states

\* A slip: a slot is left alone as soon as it needs one of the two no more.
CheckStateEither(c) ==
    /\ \/ /\ calls[c].blockRequired /\ StateRequired(c)
          /\ CallStep(c, "checkState", [calls[c] EXCEPT !.pc = "write"])
          /\ UNCHANGED outcome
       \/ /\ ~calls[c].blockRequired \/ ~StateRequired(c)
          /\ Return(c, "checkState", "ok")
    /\ UNCHANGED <<config, canonical, cancelled, tables, spent>>

CheckState(c) ==
    /\ \/ /\ calls[c].blockRequired \/ StateRequired(c)
          /\ CallStep(c, "checkState", [calls[c] EXCEPT !.pc = "write"])
          /\ UNCHANGED outcome
       \/ /\ ~calls[c].blockRequired /\ ~StateRequired(c)
          /\ Return(c, "checkState", "ok")
    /\ UNCHANGED <<config, canonical, cancelled, tables, spent>>

\* A slip: a status that was never set is written as it is.
StatusOfRaw(call) == IF call.skipped THEN "skipped" ELSE ""

StatusOf(call) == IF call.skipped THEN "skipped" ELSE "proposed"

\* createWriteObjects, transactFullSlot and the commit.  Of a skipped slot
\* only the row of slots is written, of an object not fetched nothing.
Write(c) ==
    LET call  == calls[c]
        key   == FinalKey(c)
        root  == key[2]
        block == ~call.skipped /\ call.block # NoRoot
        state == ~call.skipped /\ call.state # {}
    IN  /\ Return(c, "write", "ok")
        /\ slots' = [slots EXCEPT ![key] = IF @ = NoRow THEN StatusOf(call) ELSE @]
        /\ signedBlocks' = signedBlocks \cup IF block THEN {key} ELSE {}
        /\ states' = states \cup IF state THEN {key} ELSE {}
        /\ blobs' = [blobs EXCEPT ![root] = IF state /\ @ = {} THEN call.state ELSE @]
        /\ UNCHANGED <<config, canonical, cancelled, spent>>

\* A query of CheckDb, a statement or the commit fails: the transaction is
\* rolled back.
DatabaseFails(c) ==
    /\ Spend("faults", MaxFaults)
    /\ \E from \in {"checkBlock", "checkState", "write"} : Return(c, from, "failed")
    /\ UNCHANGED <<config, canonical, cancelled, tables>>

-----------------------------------------------------------------------------

\* The beacon node changes its mind about a slot.
Reorg(n, b) ==
    /\ n \in ReorgSlots /\ SlotOf[b] = n /\ canonical[n] # b
    /\ Spend("reorgs", MaxReorgs)
    /\ canonical' = [canonical EXCEPT ![n] = b]
    /\ UNCHANGED <<config, calls, outcome, cancelled, tables>>

\* StopHistoric, StopKnownGapsProcessing
Cancel ==
    /\ ~cancelled
    /\ cancelled' = TRUE
    /\ UNCHANGED <<config, canonical, calls, outcome, tables, spent>>

\* The application exits or dies, and is started again.
Restart ==
    /\ Spend("restarts", MaxRestarts)
    /\ calls' = [c \in Calls |-> NoCall]
    /\ outcome' = [c \in Calls |-> "none"]
    /\ cancelled' = FALSE
    /\ UNCHANGED <<config, canonical, tables>>

Proceed(c) ==
    \/ TestBlockContext(c) \/ TestStateContext(c)
    \/ GetSignedBeaconBlock(c) \/ BlockNotFound(c) \/ BlockFails(c)
    \/ GetBeaconState(c) \/ StateFails(c)
    \/ Wait(c) \/ WaitFails(c)
    \/ CheckBlock(c) \/ CheckState(c) \/ Write(c) \/ DatabaseFails(c)

Next ==
    \/ \E c \in Calls, b \in Blocks : BeginHead(c, b)
    \/ \E c \in Calls, n \in HistoricSlots : BeginHistoric(c, n)
    \/ \E c \in Calls : Proceed(c)
    \/ \E n \in SlotSet, b \in Blocks : Reorg(n, b)
    \/ Cancel
    \/ Restart

Spec == Init /\ [][Next]_vars

-----------------------------------------------------------------------------

FetchPCs == {"test", "asked", "done", "failed"}

TypeOK ==
    /\ config \in Configs
    /\ canonical \in [SlotSet -> Roots]
    /\ calls \in [Calls -> [pc : {"idle", "fetch", "checkBlock", "checkState", "write"},
                            slot : SlotSet \cup {0}, root : Roots,
                            blockPc : FetchPCs, statePc : FetchPCs,
                            block : Roots, state : SUBSET Keys,
                            skipped : BOOLEAN, blockRequired : BOOLEAN]]
    /\ outcome \in [Calls -> {"none", "ok", "failed"}]
    /\ cancelled \in BOOLEAN
    /\ slots \in [Keys -> {NoRow, "proposed", "skipped"}]
    /\ signedBlocks \subseteq Keys
    /\ states \subseteq Keys
    /\ blobs \in [Roots -> SUBSET Keys]
    /\ spent \in [Bounds -> Nat]

\* The row has everything that the switches ask for, and the key of its state
\* leads to a state of that slot.
Complete(k) ==
    /\ slots[k] = "proposed"
    /\ config.block => k \in signedBlocks
    /\ config.state => k \in states /\ \E s \in blobs[k[2]] : s[1] = k[1]

\* A historic call that is asked for the state alone has nothing to take the
\* roots from.
StateOnlyHistoric ==
    /\ config.state /\ ~config.block
    /\ \E c \in Calls, n \in HistoricSlots : BeginHistoric(c, n)

KindsOf(n) ==
    LET rows == { k \in Keys : k[1] = n /\ slots[k] # NoRow }
    IN  { CASE Complete(k)          -> "full"
            [] slots[k] = "skipped" -> "skipped"
            [] OTHER                -> "hollow" : k \in rows }

\* processFullSlot is what its callers take it for: however the fetches, the
\* queries of CheckDb, the writes of other calls, the end of the context and
\* a restart fall between each other, no error means that the slot is stored
\* whole, its state to be found under its key, or as skipped, and an error
\* that nothing was written.
Store == INSTANCE SlotStore WITH
             stored  <- [n \in SlotSet |-> KindsOf(n)],
             busy    <- [c \in Calls |-> IF calls[c].pc = "idle" THEN {} ELSE {calls[c].slot}]

KeepsPromise == Store!Spec

\* public.blocks has under the key of every row of eth_beacon.state the very
\* state of its slot and root (prepareBeaconStateModel, upsertPublicBlocks).
\* A head's state is asked for by its root, and a historic one belongs to the
\* block as long as the chain does not change at that slot between the two
\* queries.  With blocks on, a row without a root is what a cancelled call
\* left, and its state may be that of another slot.
StatesAreTheirOwn ==
    \A k \in states :
        \/ k \in blobs[k[2]]
        \/ /\ k[2] = NoRoot
           /\ config.block \/ \E s \in blobs[NoRoot] : s[1] = k[1]

=============================================================================
