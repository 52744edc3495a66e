------------------------ MODULE SlotProcessing_proofs ------------------------
(***************************************************************************)
(* What holds of processFullSlot for any blocks, slots and reorganisations *)
(* of the chain, any number of calls at once, and any faults and restarts: *)
(* the types, that it keeps the promise of SlotStore, and that the state   *)
(* stored under a root is the state of that root.                          *)
(***************************************************************************)
EXTENDS SlotProcessing, TLAPS

CallState ==
    [pc : {"idle", "fetch", "checkBlock", "checkState", "write"},
     slot : SlotSet \cup {0}, root : Roots,
     blockPc : FetchPCs, statePc : FetchPCs,
     block : Roots, state : SUBSET Keys,
     skipped : BOOLEAN, blockRequired : BOOLEAN]

KeyOf(call) == <<call.slot, FinalRoot(call)>>

\* Block, state and root of a call are those of its slot; both fetches are
\* over before the database is asked; a state is asked for only if it is
\* wanted; what was asked for and not fetched, though the slot was not skipped,
\* is missing because the context was cancelled; and a block that is not
\* required was found.
LegalCalls == { call \in CallState :
    /\ call.pc # "idle" => call.slot \in SlotSet
    /\ call.root # NoRoot => SlotOf[call.root] = call.slot
    /\ call.block # NoRoot => SlotOf[call.block] = call.slot
    /\ \A s \in call.state : s[1] = call.slot
    /\ call.pc \in {"checkBlock", "checkState", "write"} =>
           call.blockPc = "done" /\ call.statePc = "done"
    /\ call.pc \in {"checkBlock", "checkState"} => config.checkDb
    /\ call.statePc \in {"test", "asked"} \/ call.state # {} => config.state
    /\ call.pc # "idle" /\ call.blockPc = "done" /\ config.block /\ ~call.skipped
           /\ call.block = NoRoot => cancelled
    /\ call.pc # "idle" /\ call.statePc = "done" /\ config.state
           /\ call.state = {} => cancelled
    /\ call.pc = "checkState" /\ config.block /\ ~call.blockRequired =>
           KeyOf(call) \in signedBlocks }

\* The canonical block of a slot is a block of that slot.
CanonicalInv == \A n \in SlotSet : canonical[n] # NoRoot => SlotOf[canonical[n]] = n

\* A block or a state is not there without its row of slots, and a block not
\* without a root; under the key of a block's root there are only states of
\* that block's slot.
RowsInv ==
    /\ \A k \in signedBlocks \cup states : slots[k] # NoRow
    /\ \A k \in signedBlocks : k[2] # NoRoot
    /\ \A b \in Blocks : \A s \in blobs[b] : s[1] = SlotOf[b]

CallsInv == calls \in [Calls -> LegalCalls]

Inv == TypeOK /\ CallsInv /\ CanonicalInv /\ RowsInv

\* With both switches off and CheckDb on a call finds nothing to do and leaves
\* no trace of the slot: the one combination that is left aside.
SomethingIsAsked == \A cfg \in Configs : cfg.block \/ cfg.state \/ ~cfg.checkDb

LEMMA TypeOfCalls == TypeOK <=> /\ config \in Configs
                                /\ canonical \in [SlotSet -> Roots]
                                /\ calls \in [Calls -> CallState]
                                /\ outcome \in [Calls -> {"none", "ok", "failed"}]
                                /\ cancelled \in BOOLEAN
                                /\ slots \in [Keys -> {NoRow, "proposed", "skipped"}]
                                /\ signedBlocks \subseteq Keys
                                /\ states \subseteq Keys
                                /\ blobs \in [Roots -> SUBSET Keys]
                                /\ spent \in [Bounds -> Nat]
BY DEF TypeOK, CallState

LEMMA RootsOfSlots ==
    /\ \A b \in Roots : b # NoRoot => b \in Blocks /\ SlotOf[b] \in SlotSet
    /\ \A b \in Blocks : b \in Roots /\ b # NoRoot
    /\ NoRoot \in Roots
BY ChainAssumption DEF Roots

LEMMA ConfigType == config \in Configs => config.block \in BOOLEAN /\ config.state \in BOOLEAN
                                          /\ config.checkDb \in BOOLEAN
BY ConfigsAssumption

LEMMA NoCallLegal == NoCall \in CallState /\ NoCall \in LegalCalls /\ NoCall \in LegalCalls'
<1>1. NoCall \in CallState
  BY RootsOfSlots DEF NoCall, CallState, FetchPCs
<1>2. NoCall \in LegalCalls /\ NoCall \in LegalCalls'
  BY <1>1 DEF NoCall, LegalCalls
<1>. QED  BY <1>1, <1>2

\* The key that a call writes under is a key, and one of its slot.
LEMMA KeyType ==
    ASSUME NEW call \in LegalCalls, call.pc # "idle"
    PROVE  /\ KeyOf(call) \in Keys
           /\ KeyOf(call)[1] = call.slot
           /\ KeyOf(call)[2] \in Roots
           /\ KeyOf(call)[2] # NoRoot =>
                  KeyOf(call)[2] \in Blocks /\ SlotOf[KeyOf(call)[2]] = call.slot
<1>1. FinalRoot(call) \in Roots
  BY RootsOfSlots DEF FinalRoot, LegalCalls, CallState
<1>2. call.slot \in SlotSet
  BY DEF LegalCalls
<1>3. FinalRoot(call) # NoRoot => FinalRoot(call) \in Blocks /\ SlotOf[FinalRoot(call)] = call.slot
  BY <1>1, RootsOfSlots DEF FinalRoot, LegalCalls, CallState
<1>. QED  BY <1>1, <1>2, <1>3 DEF KeyOf, Keys

LEMMA SpendType ==
    ASSUME TypeOK, NEW bound \in Bounds, NEW max, Spend(bound, max)
    PROVE  spent' \in [Bounds -> Nat]
BY DEF TypeOK, Spend

LEMMA InitInv == Init => Inv
<1>. SUFFICES ASSUME Init PROVE Inv
  OBVIOUS
<1>1. TypeOK
  <2>1. calls \in [Calls -> CallState]
    BY NoCallLegal DEF Init
  <2>2. canonical \in [SlotSet -> Roots]
    BY ChainAssumption DEF Init, Roots
  <2>3. blobs \in [Roots -> SUBSET Keys] /\ spent \in [Bounds -> Nat]
    BY RootsOfSlots DEF Init
  <2>. QED  BY <2>1, <2>2, <2>3, TypeOfCalls DEF Init
<1>2. CallsInv
  BY NoCallLegal DEF Init, CallsInv
<1>3. CanonicalInv /\ RowsInv
  BY ChainAssumption, RootsOfSlots DEF Init, CanonicalInv, RowsInv
<1>. QED  BY <1>1, <1>2, <1>3 DEF Inv

-----------------------------------------------------------------------------
(***************************************************************************)
(* What a step of a call does to the call itself.                          *)
(***************************************************************************)

\* A step of a call leaves the others legal: the tables only grow, and
\* nobody takes back a cancellation but a restart.
LEMMA CallStepInv ==
    ASSUME Inv, NEW c \in Calls, NEW from, NEW call, CallStep(c, from, call),
           call \in LegalCalls', UNCHANGED <<config, cancelled>>,
           signedBlocks \subseteq signedBlocks'
    PROVE  calls' \in [Calls -> CallState] /\ CallsInv'
<1>1. calls \in [Calls -> LegalCalls] /\ calls' = [calls EXCEPT ![c] = call]
  BY DEF Inv, CallsInv, CallStep
<1>2. LegalCalls \subseteq LegalCalls' /\ LegalCalls' \subseteq CallState
  BY DEF LegalCalls
<1>. QED  BY <1>1, <1>2 DEF CallsInv

\* A step that writes no table.
LEMMA QuietStepInv ==
    ASSUME Inv, NEW c \in Calls, NEW from, NEW call, CallStep(c, from, call),
           call \in LegalCalls', UNCHANGED <<config, canonical, cancelled, tables>>,
           outcome' \in [Calls -> {"none", "ok", "failed"}], spent' \in [Bounds -> Nat]
    PROVE  Inv'
<1>1. calls' \in [Calls -> CallState] /\ CallsInv'
  BY CallStepInv DEF tables
<1>2. CanonicalInv' /\ RowsInv'
  BY DEF Inv, CanonicalInv, RowsInv, tables
<1>3. TypeOK'
  BY <1>1, TypeOfCalls DEF Inv, TypeOK, CallState, tables
<1>. QED  BY <1>1, <1>2, <1>3 DEF Inv

LEMMA BeginInv ==
    ASSUME Inv, NEW c \in Calls, NEW n \in SlotSet, NEW root \in Roots,
           root # NoRoot => SlotOf[root] = n, Begin(c, n, root)
    PROVE  Inv'
<1>. DEFINE new == [NoCall EXCEPT !.pc = "fetch", !.slot = n, !.root = root,
                                  !.blockPc = Fetcher(config.block),
                                  !.statePc = Fetcher(config.state)]
<1>1. new \in LegalCalls'
  BY ConfigType, RootsOfSlots
  DEF Begin, Fetcher, NoCall, LegalCalls, CallState, FetchPCs, Inv, TypeOK
<1>2. CallStep(c, "idle", new) /\ UNCHANGED <<config, canonical, cancelled, tables>>
  BY DEF Begin
<1>3. outcome' \in [Calls -> {"none", "ok", "failed"}] /\ spent' \in [Bounds -> Nat]
  BY SpendType DEF Begin, Bounds, Inv, TypeOK
<1>. HIDE DEF new
<1>. QED  BY <1>1, <1>2, <1>3, QuietStepInv

\* The steps of the two goroutines that fetch.
Fetch(c) ==
    \/ TestBlockContext(c) \/ TestStateContext(c)
    \/ GetSignedBeaconBlock(c) \/ BlockNotFound(c) \/ BlockFails(c)
    \/ GetBeaconState(c) \/ StateFails(c)

\* They leave the call where it is.
LEMMA FetchStep ==
    ASSUME Inv, NEW c \in Calls, Fetch(c)
    PROVE  \E call \in LegalCalls' :
               /\ CallStep(c, "fetch", call)
               /\ call.pc = "fetch" /\ call.slot = calls[c].slot
<1>. USE DEF CallStep
<1>0. /\ calls[c] \in LegalCalls /\ calls[c] \in CallState
      /\ calls[c].slot \in SlotSet \/ calls[c].pc = "idle"
      /\ canonical \in [SlotSet -> Roots]
  BY DEF Inv, CallsInv, LegalCalls, TypeOK
<1>1. CASE TestBlockContext(c)
  <2>1. [calls[c] EXCEPT !.blockPc = IF Done(c) THEN "done" ELSE "asked"] \in LegalCalls'
    BY <1>0, <1>1 DEF TestBlockContext, LegalCalls, CallState, FetchPCs, KeyOf, FinalRoot, Done
  <2>. QED  BY <1>0, <1>1, <2>1 DEF TestBlockContext, CallState
<1>2. CASE TestStateContext(c)
  <2>1. [calls[c] EXCEPT !.statePc = IF Done(c) THEN "done" ELSE "asked"] \in LegalCalls'
    BY <1>0, <1>2 DEF TestStateContext, LegalCalls, CallState, FetchPCs, KeyOf, FinalRoot, Done
  <2>. QED  BY <1>0, <1>2, <2>1 DEF TestStateContext, CallState
<1>3. CASE GetSignedBeaconBlock(c)
  <2>. DEFINE b == IF calls[c].root # NoRoot THEN calls[c].root ELSE canonical[calls[c].slot]
              new == [calls[c] EXCEPT !.blockPc = "done", !.block = b, !.skipped = (b = NoRoot)]
  <2>1. b \in Roots /\ (b # NoRoot => SlotOf[b] = calls[c].slot)
    BY <1>0, <1>3 DEF GetSignedBeaconBlock, LegalCalls, CallState, Inv, CanonicalInv
  <2>2. calls[c].pc = "fetch" /\ CallStep(c, "fetch", new)
    BY <1>3 DEF GetSignedBeaconBlock
  <2>. HIDE DEF b
  <2>3. new \in CallState /\ new.pc = "fetch" /\ new.slot = calls[c].slot
    BY <1>0, <2>1, <2>2 DEF CallState, FetchPCs
  <2>4. UNCHANGED <<config, cancelled, signedBlocks>>
    BY <1>3 DEF GetSignedBeaconBlock, tables
  <2>5. new \in LegalCalls'
    BY <1>0, <2>1, <2>2, <2>3, <2>4 DEF LegalCalls, CallState
  <2>. HIDE DEF new
  <2>. QED  BY <2>2, <2>3, <2>5
<1>4. CASE BlockNotFound(c)
  <2>1. [calls[c] EXCEPT !.blockPc = "done", !.skipped = TRUE] \in LegalCalls'
    BY <1>0, <1>4 DEF BlockNotFound, LegalCalls, CallState, FetchPCs, KeyOf, FinalRoot
  <2>. QED  BY <1>0, <1>4, <2>1 DEF BlockNotFound, CallState
<1>5. CASE BlockFails(c)
  <2>1. [calls[c] EXCEPT !.blockPc = "failed"] \in LegalCalls'
    BY <1>0, <1>5 DEF BlockFails, LegalCalls, CallState, FetchPCs, KeyOf, FinalRoot
  <2>. QED  BY <1>0, <1>5, <2>1 DEF BlockFails, CallState
<1>6. CASE GetBeaconState(c)
  <2>. DEFINE b == IF calls[c].root # NoRoot THEN calls[c].root ELSE canonical[calls[c].slot]
              s == <<calls[c].slot, b>>
              new == [calls[c] EXCEPT !.statePc = "done", !.state = {s}]
  <2>1. s \in Keys /\ s[1] = calls[c].slot
    <3>1. b \in Roots /\ (b # NoRoot => SlotOf[b] = calls[c].slot) /\ calls[c].slot \in SlotSet
      BY <1>0, <1>6 DEF GetBeaconState, LegalCalls, CallState, Inv, CanonicalInv
    <3>. HIDE DEF b
    <3>. QED  BY <3>1, RootsOfSlots DEF Keys
  <2>2. calls[c].pc = "fetch" /\ CallStep(c, "fetch", new)
    BY <1>6 DEF GetBeaconState
  <2>. HIDE DEF s
  <2>3. new \in CallState /\ new.pc = "fetch" /\ new.slot = calls[c].slot
    BY <1>0, <2>1, <2>2 DEF CallState, FetchPCs
  <2>4. UNCHANGED <<config, cancelled, signedBlocks>>
    BY <1>6 DEF GetBeaconState, tables
  <2>5. /\ calls[c].statePc = "asked" /\ new.statePc = "done" /\ new.state = {s}
        /\ new.root = calls[c].root /\ new.block = calls[c].block
        /\ new.blockPc = calls[c].blockPc /\ new.skipped = calls[c].skipped
    BY <1>0, <1>6 DEF GetBeaconState, CallState
  <2>6. config.state
    BY <1>0, <2>5 DEF LegalCalls
  <2>. HIDE DEF new
  <2>7. new \in LegalCalls'
    BY <1>0, <2>1, <2>2, <2>3, <2>4, <2>5, <2>6 DEF LegalCalls
  <2>. QED  BY <2>2, <2>3, <2>7
<1>7. CASE StateFails(c)
  <2>1. [calls[c] EXCEPT !.statePc = "failed"] \in LegalCalls'
    BY <1>0, <1>7 DEF StateFails, LegalCalls, CallState, FetchPCs, KeyOf, FinalRoot
  <2>. QED  BY <1>0, <1>7, <2>1 DEF StateFails, CallState
<1>. QED  BY <1>1, <1>2, <1>3, <1>4, <1>5, <1>6, <1>7 DEF Fetch

LEMMA FetchFrame ==
    ASSUME Inv, NEW c \in Calls, Fetch(c)
    PROVE  UNCHANGED <<config, canonical, outcome, cancelled, tables>>
           /\ spent' \in [Bounds -> Nat]
<1>1. UNCHANGED <<config, canonical, outcome, cancelled, tables>>
  BY DEF Fetch, TestBlockContext, TestStateContext, GetSignedBeaconBlock, BlockNotFound,
     BlockFails, GetBeaconState, StateFails
<1>2. spent' \in [Bounds -> Nat]
  BY SpendType DEF Fetch, TestBlockContext, TestStateContext, GetSignedBeaconBlock,
     BlockNotFound, BlockFails, GetBeaconState, StateFails, Inv, TypeOK, Bounds
<1>. QED  BY <1>1, <1>2

LEMMA FetchInv == ASSUME Inv, NEW c \in Calls, Fetch(c) PROVE Inv'
<1>1. outcome' \in [Calls -> {"none", "ok", "failed"}]
  BY FetchFrame DEF Inv, TypeOK
<1>. QED  BY <1>1, FetchStep, FetchFrame, QuietStepInv

LEMMA ReturnInv ==
    ASSUME Inv, NEW c \in Calls, NEW from, NEW how \in {"ok", "failed"}, Return(c, from, how),
           UNCHANGED <<config, canonical, cancelled, tables>>, spent' \in [Bounds -> Nat]
    PROVE  Inv'
<1>1. CallStep(c, from, NoCall) /\ outcome' \in [Calls -> {"none", "ok", "failed"}]
  BY DEF Return, Inv, TypeOK
<1>. QED  BY <1>1, NoCallLegal, QuietStepInv

LEMMA WaitInv == ASSUME Inv, NEW c \in Calls, Wait(c) PROVE Inv'
<1>. DEFINE new == [calls[c] EXCEPT !.pc = IF config.checkDb THEN "checkBlock" ELSE "write"]
<1>1. calls[c] \in LegalCalls /\ calls[c] \in CallState
  BY DEF Inv, CallsInv, LegalCalls
<1>2. calls[c].pc = "fetch" /\ calls[c].blockPc = "done" /\ calls[c].statePc = "done"
  BY <1>1 DEF Wait, Fetched, Failed, CallState, FetchPCs
<1>3. new \in LegalCalls'
  BY <1>1, <1>2 DEF Wait, LegalCalls, CallState, KeyOf, FinalRoot, tables
<1>4. CallStep(c, "fetch", new) /\ UNCHANGED <<config, canonical, cancelled, tables>>
      /\ outcome' \in [Calls -> {"none", "ok", "failed"}] /\ spent' \in [Bounds -> Nat]
  BY DEF Wait, Inv, TypeOK
<1>. HIDE DEF new
<1>. QED  BY <1>3, <1>4, QuietStepInv

LEMMA CheckBlockInv == ASSUME Inv, NEW c \in Calls, CheckBlock(c) PROVE Inv'
<1>. DEFINE new == [calls[c] EXCEPT !.pc = "checkState",
                        !.blockRequired = config.block /\ FinalKey(c) \notin signedBlocks]
<1>1. calls[c] \in LegalCalls /\ calls[c] \in CallState /\ config.block \in BOOLEAN
  BY ConfigType DEF Inv, CallsInv, LegalCalls, TypeOK
<1>2. FinalKey(c) = KeyOf(calls[c])
  BY DEF FinalKey, KeyOf
<1>3. CallStep(c, "checkBlock", new) /\ UNCHANGED <<config, canonical, cancelled, tables>>
      /\ outcome' \in [Calls -> {"none", "ok", "failed"}] /\ spent' \in [Bounds -> Nat]
  BY DEF CheckBlock, Inv, TypeOK
<1>4. new \in LegalCalls'
  <2>1. new \in CallState /\ calls[c].pc = "checkBlock" /\ new.pc = "checkState"
        /\ new.blockRequired = (config.block /\ KeyOf(calls[c]) \notin signedBlocks)
    BY <1>1, <1>2, <1>3 DEF CallStep, CallState
  <2>2. /\ new.slot = calls[c].slot /\ new.root = calls[c].root
        /\ new.block = calls[c].block /\ new.state = calls[c].state
        /\ new.skipped = calls[c].skipped
        /\ new.blockPc = calls[c].blockPc /\ new.statePc = calls[c].statePc
    BY <1>1 DEF CallState
  <2>. HIDE DEF new
  <2>3. KeyOf(new) = KeyOf(calls[c])
    BY <2>2 DEF KeyOf, FinalRoot
  <2>. QED  BY <1>1, <1>3, <2>1, <2>2, <2>3 DEF LegalCalls, tables
<1>. HIDE DEF new
<1>. QED  BY <1>3, <1>4, QuietStepInv

LEMMA CheckStateInv == ASSUME Inv, NEW c \in Calls, CheckState(c) PROVE Inv'
<1>. DEFINE new == [calls[c] EXCEPT !.pc = "write"]
<1>1. calls[c] \in LegalCalls /\ calls[c] \in CallState
  BY DEF Inv, CallsInv, LegalCalls
<1>2. /\ UNCHANGED <<config, canonical, cancelled, tables>> /\ spent' \in [Bounds -> Nat]
      /\ \/ CallStep(c, "checkState", new) /\ UNCHANGED outcome
         \/ Return(c, "checkState", "ok")
  BY DEF CheckState, Inv, TypeOK
<1>3. calls[c].pc = "checkState" => new \in LegalCalls'
  BY <1>1, <1>2 DEF LegalCalls, CallState, KeyOf, FinalRoot, tables
<1>4. CASE CallStep(c, "checkState", new) /\ UNCHANGED outcome
  <2>1. calls[c].pc = "checkState" /\ outcome' \in [Calls -> {"none", "ok", "failed"}]
    BY <1>4 DEF CallStep, Inv, TypeOK
  <2>. HIDE DEF new
  <2>. QED  BY <1>2, <1>3, <1>4, <2>1, QuietStepInv
<1>. QED  BY <1>2, <1>4, ReturnInv

\* What Write does to the tables, with the key and the status named.
LEMMA WriteStep ==
    ASSUME Inv, NEW c \in Calls, Write(c)
    PROVE  /\ calls[c].pc = "write" /\ calls[c] \in LegalCalls /\ calls[c] \in CallState
           /\ FinalKey(c) = KeyOf(calls[c]) /\ FinalKey(c) \in Keys
           /\ FinalKey(c)[1] = calls[c].slot /\ FinalKey(c)[2] = FinalRoot(calls[c])
           /\ StatusOf(calls[c]) \in {"proposed", "skipped"}
           /\ slots' = [slots EXCEPT ![FinalKey(c)] =
                            IF @ = NoRow THEN StatusOf(calls[c]) ELSE @]
           /\ signedBlocks \subseteq signedBlocks' /\ states \subseteq states'
           /\ signedBlocks' \subseteq signedBlocks \cup {FinalKey(c)}
           /\ states' \subseteq states \cup {FinalKey(c)}
           /\ ~calls[c].skipped /\ calls[c].block # NoRoot => FinalKey(c) \in signedBlocks'
           /\ ~calls[c].skipped /\ calls[c].state # {} => FinalKey(c) \in states'
           /\ Return(c, "write", "ok")
           /\ UNCHANGED <<config, canonical, cancelled, spent>>
<1>1. calls[c].pc = "write" /\ calls[c] \in LegalCalls /\ calls[c] \in CallState
  BY DEF Write, Return, CallStep, Inv, CallsInv, LegalCalls
<1>2. FinalKey(c) = KeyOf(calls[c]) /\ FinalKey(c)[2] = FinalRoot(calls[c])
  BY DEF FinalKey, KeyOf
<1>3. FinalKey(c) \in Keys /\ FinalKey(c)[1] = calls[c].slot
  BY <1>1, <1>2, KeyType
<1>. QED  BY <1>1, <1>2, <1>3 DEF Write, StatusOf

LEMMA WriteInv == ASSUME Inv, NEW c \in Calls, Write(c) PROVE Inv'
<1>. DEFINE k == FinalKey(c)
<1>1. k \in Keys /\ StatusOf(calls[c]) \in {"proposed", "skipped"}
  BY WriteStep
<1>2. slots' \in [Keys -> {NoRow, "proposed", "skipped"}] /\ slots'[k] # NoRow
      /\ \A j \in Keys : slots[j] # NoRow => slots'[j] # NoRow
  BY <1>1, WriteStep DEF Inv, TypeOK, NoRow
<1>3. signedBlocks' \subseteq Keys /\ states' \subseteq Keys
  BY <1>1, WriteStep DEF Inv, TypeOK
<1>4. blobs' \in [Roots -> SUBSET Keys]
  BY WriteStep DEF Write, Inv, TypeOK, CallState
<1>5. outcome' \in [Calls -> {"none", "ok", "failed"}] /\ spent' \in [Bounds -> Nat]
  BY WriteStep DEF Return, Inv, TypeOK
<1>6. calls' \in [Calls -> CallState] /\ CallsInv'
  BY WriteStep, NoCallLegal, CallStepInv DEF Return
<1>7. RowsInv'
  <2>1. \A j \in signedBlocks' \cup states' : slots'[j] # NoRow
    BY <1>2, WriteStep DEF Inv, RowsInv, TypeOK
  <2>2. k \notin signedBlocks => (k \in signedBlocks' => k[2] # NoRoot)
    BY WriteStep DEF Write, FinalRoot
  <2>3. \A j \in signedBlocks' : j[2] # NoRoot
    BY <2>2, WriteStep DEF Inv, RowsInv
  <2>4. ASSUME NEW b \in Blocks, NEW s \in blobs'[b] PROVE s[1] = SlotOf[b]
    <3>1. b \in Roots /\ b # NoRoot /\ blobs \in [Roots -> SUBSET Keys]
      BY RootsOfSlots DEF Inv, TypeOK
    <3>2. s \in blobs[b] \/ (b = k[2] /\ s \in calls[c].state)
      BY <2>4, <3>1 DEF Write
    <3>3. b = k[2] => SlotOf[b] = calls[c].slot
      BY <3>1, WriteStep, KeyType
    <3>. QED  BY <3>2, <3>3, WriteStep DEF Inv, RowsInv, LegalCalls
  <2>. QED  BY <2>1, <2>3, <2>4 DEF RowsInv
<1>8. CanonicalInv'
  BY WriteStep DEF Inv, CanonicalInv
<1>9. TypeOK'
  BY <1>2, <1>3, <1>4, <1>5, <1>6, WriteStep DEF TypeOK, CallState, Inv
<1>. QED  BY <1>6, <1>7, <1>8, <1>9 DEF Inv

LEMMA ProceedInv == ASSUME Inv, NEW c \in Calls, Proceed(c) PROVE Inv'
<1>1. CASE WaitFails(c)
  <2>1. spent' \in [Bounds -> Nat]
    BY <1>1 DEF WaitFails, Inv, TypeOK
  <2>. QED  BY <1>1, <2>1, ReturnInv DEF WaitFails
<1>2. CASE DatabaseFails(c)
  <2>1. spent' \in [Bounds -> Nat]
    BY <1>2, SpendType DEF DatabaseFails, Inv, Bounds
  <2>. QED  BY <1>2, <2>1, ReturnInv DEF DatabaseFails
<1>. QED  BY <1>1, <1>2, FetchInv, WaitInv, CheckBlockInv, CheckStateInv, WriteInv
          DEF Proceed, Fetch

LEMMA StepInv == Inv /\ [Next]_vars => Inv'
<1>. SUFFICES ASSUME Inv, [Next]_vars PROVE Inv'
  OBVIOUS
<1>1. ASSUME NEW c \in Calls, NEW b \in Blocks, BeginHead(c, b) PROVE Inv'
  BY <1>1, RootsOfSlots, BeginInv DEF BeginHead
<1>2. ASSUME NEW c \in Calls, NEW n \in HistoricSlots, BeginHistoric(c, n) PROVE Inv'
  BY <1>2, ChainAssumption, RootsOfSlots, BeginInv DEF BeginHistoric
<1>3. ASSUME NEW c \in Calls, Proceed(c) PROVE Inv'
  BY <1>3, ProceedInv
<1>4. ASSUME NEW n \in SlotSet, NEW b \in Blocks, Reorg(n, b) PROVE Inv'
  <2>1. canonical' \in [SlotSet -> Roots] /\ CanonicalInv'
    BY <1>4, RootsOfSlots DEF Reorg, Inv, TypeOK, CanonicalInv
  <2>2. LegalCalls' = LegalCalls /\ RowsInv'
    BY <1>4 DEF Reorg, tables, LegalCalls, Inv, RowsInv
  <2>3. spent' \in [Bounds -> Nat]
    BY <1>4, SpendType DEF Reorg, Inv, Bounds
  <2>. QED  BY <1>4, <2>1, <2>2, <2>3 DEF Reorg, tables, Inv, TypeOK, CallsInv
<1>5. CASE Cancel
  <2>1. LegalCalls \subseteq LegalCalls'
    BY <1>5 DEF Cancel, tables, LegalCalls
  <2>2. CallsInv' /\ RowsInv' /\ CanonicalInv'
    BY <1>5, <2>1 DEF Cancel, tables, Inv, CallsInv, RowsInv, CanonicalInv
  <2>. QED  BY <1>5, <2>2 DEF Cancel, tables, Inv, TypeOK
<1>6. CASE Restart
  <2>1. calls' \in [Calls -> CallState] /\ CallsInv'
    BY <1>6, NoCallLegal DEF Restart, CallsInv
  <2>2. RowsInv' /\ CanonicalInv'
    BY <1>6 DEF Restart, tables, Inv, RowsInv, CanonicalInv
  <2>3. spent' \in [Bounds -> Nat]
    BY <1>6, SpendType DEF Restart, Inv, Bounds
  <2>. QED  BY <1>6, <2>1, <2>2, <2>3 DEF Restart, tables, Inv, TypeOK, CallState
<1>7. CASE UNCHANGED vars
  BY <1>7 DEF vars, tables, Inv, TypeOK, CallsInv, LegalCalls, RowsInv, CanonicalInv
<1>. QED  BY <1>1, <1>2, <1>3, <1>4, <1>5, <1>6, <1>7 DEF Next

\* The types of the calls and of the tables: whatever a call writes, it writes
\* under a key of its slot.
THEOREM TypeCorrect == Spec => []TypeOK
<1>1. Inv => TypeOK
  BY DEF Inv
<1>. QED  BY <1>1, InitInv, StepInv, PTL DEF Spec

-----------------------------------------------------------------------------
(***************************************************************************)
(* The roots.  With states on and blocks off a call has its root from the  *)
(* head event, as long as no historic call is made then.                   *)
(***************************************************************************)

RootedCalls == { call \in CallState :
    call.pc # "idle" => call.root # NoRoot /\ ~call.skipped /\ call.blockPc = "done" }

RootedInv == config.state /\ ~config.block => calls \in [Calls -> RootedCalls]

LEMMA NoCallRooted == NoCall \in RootedCalls
BY NoCallLegal DEF RootedCalls, NoCall

LEMMA InitRooted == Init => RootedInv
BY NoCallRooted DEF Init, RootedInv

LEMMA QuietRooted ==
    ASSUME RootedInv, NEW c \in Calls, NEW from, NEW call, CallStep(c, from, call),
           config' = config, config.state /\ ~config.block => call \in RootedCalls
    PROVE  RootedInv'
BY DEF RootedInv, CallStep, RootedCalls

LEMMA FetchRooted == ASSUME Inv, RootedInv, NEW c \in Calls, Fetch(c) PROVE RootedInv'
<1>. SUFFICES ASSUME config.state, ~config.block PROVE RootedInv'
  BY FetchFrame DEF RootedInv
<1>1. calls[c] \in RootedCalls /\ calls[c] \in CallState
  BY DEF RootedInv, RootedCalls
<1>2. PICK call \in CallState : CallStep(c, "fetch", call) /\ call.pc = "fetch"
  BY FetchStep DEF LegalCalls
<1>3. calls[c].pc = "fetch" /\ calls[c].blockPc = "done" /\ calls'[c] = call
  BY <1>1, <1>2 DEF CallStep, RootedCalls, Inv, TypeOK
<1>4. ASSUME NEW new, CallStep(c, "fetch", new) PROVE call = new
  BY <1>3, <1>4 DEF CallStep, Inv, TypeOK
<1>5. \/ \E pc \in FetchPCs : call = [calls[c] EXCEPT !.statePc = pc]
      \/ \E s : call = [calls[c] EXCEPT !.statePc = "done", !.state = s]
  BY <1>3, <1>4 DEF Fetch, TestBlockContext, TestStateContext, GetSignedBeaconBlock,
     BlockNotFound, BlockFails, GetBeaconState, StateFails, FetchPCs
<1>6. call \in RootedCalls
  BY <1>1, <1>2, <1>3, <1>5 DEF RootedCalls, CallState
<1>. QED  BY <1>2, <1>6, FetchFrame, QuietRooted

LEMMA ProceedRooted == ASSUME Inv, RootedInv, NEW c \in Calls, Proceed(c) PROVE RootedInv'
<1>0. config.state /\ ~config.block => calls[c] \in RootedCalls
  BY DEF RootedInv
<1>1. ASSUME NEW from, NEW how, Return(c, from, how), config' = config PROVE RootedInv'
  BY <1>1, NoCallRooted, QuietRooted DEF Return
<1>2. CASE Wait(c)
  <2>1. calls[c] \in RootedCalls =>
            [calls[c] EXCEPT !.pc = IF config.checkDb THEN "checkBlock" ELSE "write"]
                \in RootedCalls
    BY <1>2 DEF Wait, CallStep, RootedCalls, CallState
  <2>. QED  BY <1>0, <1>2, <2>1, QuietRooted DEF Wait
<1>3. CASE CheckBlock(c)
  <2>. DEFINE required == config.block /\ FinalKey(c) \notin signedBlocks
  <2>0. required \in BOOLEAN
    BY ConfigType DEF Inv, TypeOK
  <2>. HIDE DEF required
  <2>1. calls[c] \in RootedCalls =>
            [calls[c] EXCEPT !.pc = "checkState", !.blockRequired = required] \in RootedCalls
    BY <1>3, <2>0 DEF CheckBlock, CallStep, RootedCalls, CallState
  <2>. QED  BY <1>0, <1>3, <2>1, QuietRooted DEF CheckBlock, required
<1>4. CASE CheckState(c)
  <2>1. calls[c].pc = "checkState" /\ calls[c] \in RootedCalls =>
            [calls[c] EXCEPT !.pc = "write"] \in RootedCalls
    BY DEF RootedCalls, CallState
  <2>2. CASE CallStep(c, "checkState", [calls[c] EXCEPT !.pc = "write"])
    <3>1. calls[c].pc = "checkState" /\ config' = config
      BY <1>4, <2>2 DEF CheckState, CallStep
    <3>. QED  BY <1>0, <2>1, <2>2, <3>1, QuietRooted
  <2>. QED  BY <1>1, <1>4, <2>2 DEF CheckState
<1>. QED  BY <1>1, <1>2, <1>3, <1>4, FetchRooted
          DEF Proceed, Fetch, WaitFails, DatabaseFails, Write

LEMMA StepRooted == Inv /\ RootedInv /\ ~StateOnlyHistoric /\ [Next]_vars => RootedInv'
<1>. SUFFICES ASSUME Inv, RootedInv, ~StateOnlyHistoric, [Next]_vars PROVE RootedInv'
  OBVIOUS
<1>0. ASSUME NEW c \in Calls, NEW n \in SlotSet, NEW root \in Roots, Begin(c, n, root),
             config.state /\ ~config.block => root # NoRoot
      PROVE  RootedInv'
  <2>. DEFINE new == [NoCall EXCEPT !.pc = "fetch", !.slot = n, !.root = root,
                                    !.blockPc = Fetcher(config.block),
                                    !.statePc = Fetcher(config.state)]
  <2>1. new \in CallState
    BY NoCallLegal DEF NoCall, CallState, Fetcher, FetchPCs
  <2>2. config.state /\ ~config.block => new \in RootedCalls
    BY <1>0, <2>1 DEF RootedCalls, NoCall, Fetcher
  <2>3. CallStep(c, "idle", new) /\ config' = config
    BY <1>0 DEF Begin
  <2>. HIDE DEF new
  <2>. QED  BY <2>2, <2>3, QuietRooted
<1>1. ASSUME NEW c \in Calls, NEW b \in Blocks, BeginHead(c, b) PROVE RootedInv'
  BY <1>0, <1>1, RootsOfSlots DEF BeginHead
<1>2. ASSUME NEW c \in Calls, NEW n \in HistoricSlots, BeginHistoric(c, n) PROVE RootedInv'
  <2>1. ~(config.state /\ ~config.block)
    BY <1>2 DEF StateOnlyHistoric
  <2>. QED  BY <1>0, <1>2, <2>1, ChainAssumption, RootsOfSlots DEF BeginHistoric
<1>3. ASSUME NEW c \in Calls, Proceed(c) PROVE RootedInv'
  BY <1>3, ProceedRooted
<1>4. CASE Restart
  BY <1>4, NoCallRooted DEF Restart, RootedInv
<1>. QED  BY <1>1, <1>2, <1>3, <1>4
          DEF Next, Reorg, Cancel, RootedInv, vars

-----------------------------------------------------------------------------
(***************************************************************************)
(* The promise.  Every step of a call is a step of SlotStore or is not     *)
(* seen there: what is stored of a slot changes in Write alone.            *)
(***************************************************************************)

storedView == [n \in SlotSet |-> KindsOf(n)]
busyView   == [c \in Calls |-> IF calls[c].pc = "idle" THEN {} ELSE {calls[c].slot}]

\* The kind of a row.
KindOf(k) ==
    CASE Complete(k)          -> "full"
      [] slots[k] = "skipped" -> "skipped"
      [] OTHER                -> "hollow"

LEMMA KindsAreRows ==
    ASSUME NEW n, NEW kind
    PROVE  kind \in KindsOf(n) <=>
               \E k \in Keys : k[1] = n /\ slots[k] # NoRow /\ kind = KindOf(k)
BY DEF KindsOf, KindOf

LEMMA StoredViewStays == ASSUME UNCHANGED <<config, tables>> PROVE storedView' = storedView
BY DEF storedView, KindsOf, Complete, tables

\* What a step of one call shows of itself.
LEMMA BusyViewStays ==
    ASSUME Inv, NEW c \in Calls, NEW from, NEW call, CallStep(c, from, call),
           from # "idle", call.pc # "idle", call.slot = calls[c].slot
    PROVE  busyView' = busyView
BY DEF busyView, CallStep, Inv, TypeOK

LEMMA BusyViewReturns ==
    ASSUME Inv, NEW c \in Calls, NEW from, CallStep(c, from, NoCall), from # "idle"
    PROVE  /\ calls[c].slot \in SlotSet
           /\ busyView[c] = {calls[c].slot}
           /\ busyView' = [busyView EXCEPT ![c] = {}]
<1>1. calls[c] \in LegalCalls /\ calls[c].pc # "idle" /\ DOMAIN calls = Calls
  BY DEF CallStep, Inv, CallsInv
<1>. QED  BY <1>1 DEF busyView, CallStep, NoCall, LegalCalls

LEMMA InitPromise == Init => Store!Init
<1>. SUFFICES ASSUME Init PROVE Store!Init
  OBVIOUS
<1>1. \A n \in SlotSet : KindsOf(n) = {}
  BY DEF Init, KindsOf
<1>. QED  BY <1>1 DEF Init, Store!Init, NoCall

LEMMA BeginPromise ==
    ASSUME Inv, NEW c \in Calls, NEW n \in SlotSet, NEW root, Begin(c, n, root)
    PROVE  Store!Begin(c, n)
<1>1. busyView[c] = {} /\ busyView' = [busyView EXCEPT ![c] = {n}]
  BY DEF Begin, CallStep, NoCall, busyView, Inv, TypeOK
<1>2. storedView' = storedView
  BY StoredViewStays DEF Begin
<1>. QED  BY <1>1, <1>2 DEF Begin, Store!Begin, busyView, storedView

\* A step on the way between the beginning and the end of a call.
LEMMA InnerStep ==
    ASSUME Inv, NEW c \in Calls, NEW from \in {"fetch", "checkBlock", "checkState"},
           NEW call, CallStep(c, from, call), call.pc # "idle", call.slot = calls[c].slot,
           UNCHANGED <<config, outcome, cancelled, tables>>
    PROVE  UNCHANGED Store!vars
<1>1. busyView' = busyView /\ storedView' = storedView
  BY BusyViewStays, StoredViewStays
<1>. QED  BY <1>1 DEF Store!vars, busyView, storedView

LEMMA FailPromise ==
    ASSUME Inv, NEW c \in Calls, NEW from, from # "idle", Return(c, from, "failed"),
           UNCHANGED <<config, cancelled, tables>>
    PROVE  Store!Fail(c, calls[c].slot) /\ calls[c].slot \in SlotSet
<1>1. /\ calls[c].slot \in SlotSet
      /\ busyView[c] = {calls[c].slot}
      /\ busyView' = [busyView EXCEPT ![c] = {}]
  BY BusyViewReturns DEF Return
<1>2. storedView' = storedView
  BY StoredViewStays
<1>. QED  BY <1>1, <1>2 DEF Return, Store!Fail, Store!Return, busyView, storedView

\* A call that finds a row of its slot, and leaves the rows as they are, has
\* stored the slot or found the one that lacks something.
LEMMA FoundPromise ==
    ASSUME Inv, NEW c \in Calls, NEW from, from # "idle", Return(c, from, "ok"),
           storedView' = storedView, cancelled' = cancelled,
           KindsOf(calls[c].slot) # {}
    PROVE  Store!Store(c, calls[c].slot) \/ Store!StoreMasked(c, calls[c].slot)
<1>. DEFINE n == calls[c].slot
<1>1. /\ n \in SlotSet
      /\ busyView[c] = {n}
      /\ busyView' = [busyView EXCEPT ![c] = {}]
  BY BusyViewReturns DEF Return
<1>2. PICK kind \in KindsOf(n) : kind \in {"full", "skipped", "hollow"}
  BY KindsAreRows DEF KindOf
<1>3. kind \in storedView[n]
  BY <1>1 DEF storedView
<1>4. Store!Return(c, "ok")
  BY <1>1 DEF Return, Store!Return, busyView
<1>5. CASE kind = "hollow"
  BY <1>1, <1>3, <1>4, <1>5 DEF Store!StoreMasked, busyView, storedView
<1>6. CASE kind \in {"full", "skipped"}
  <2>1. storedView' = [storedView EXCEPT ![n] = @ \cup {kind}]
    BY <1>1, <1>3 DEF storedView
  <2>. QED  BY <1>1, <1>4, <1>6, <2>1 DEF Store!Store, busyView, storedView
<1>. QED  BY <1>2, <1>5, <1>6

\* CheckDb lets a slot alone only if its row is there.
LEMMA CheckStatePromise ==
    ASSUME SomethingIsAsked, Inv, NEW c \in Calls, Return(c, "checkState", "ok"), CheckState(c)
    PROVE  Store!Store(c, calls[c].slot) \/ Store!StoreMasked(c, calls[c].slot)
<1>1. /\ calls[c].pc = "checkState" /\ calls[c] \in LegalCalls /\ calls[c] \in CallState
      /\ calls[c].slot \in SlotSet /\ FinalKey(c) = KeyOf(calls[c])
  BY DEF Return, CallStep, Inv, CallsInv, LegalCalls, FinalKey, KeyOf
<1>2. FinalKey(c) \in Keys /\ FinalKey(c)[1] = calls[c].slot
  BY <1>1, KeyType
<1>3. ~calls[c].blockRequired /\ ~StateRequired(c)
  <2>1. ~CallStep(c, "checkState", [calls[c] EXCEPT !.pc = "write"])
    BY <1>1 DEF CallStep, Return, NoCall, CallState, Inv, TypeOK
  <2>. QED  BY <2>1 DEF CheckState
<1>4. FinalKey(c) \in signedBlocks \cup states
  <2>1. config.checkDb
    BY <1>1 DEF LegalCalls
  <2>. QED  BY <1>1, <1>3, <2>1, ConfigType DEF SomethingIsAsked, StateRequired, LegalCalls, Inv, TypeOK
<1>5. KindOf(FinalKey(c)) \in KindsOf(calls[c].slot)
  BY <1>2, <1>4, KindsAreRows DEF Inv, RowsInv
<1>6. storedView' = storedView /\ cancelled' = cancelled
  BY StoredViewStays DEF CheckState
<1>. QED  BY <1>5, <1>6, FoundPromise

\* A call that lacks something was cancelled.
LEMMA LackingIsCancelled ==
    ASSUME Inv, RootedInv, NEW c \in Calls, Write(c), NEW k \in Keys, k = FinalKey(c),
           slots[k] = NoRow, KindOf(k)' = "hollow"
    PROVE  cancelled
<1>1. slots'[k] = StatusOf(calls[c]) /\ config' = config
  BY WriteStep DEF Inv, TypeOK
<1>2. slots'[k] = "proposed" /\ ~calls[c].skipped
  BY <1>1 DEF KindOf, StatusOf
<1>3. ~Complete(k)'
  BY DEF KindOf
<1>4. CASE config.block /\ k \notin signedBlocks'
  BY <1>2, <1>4, WriteStep DEF LegalCalls
<1>5. CASE config.state /\ k \notin states'
  BY <1>2, <1>5, WriteStep DEF LegalCalls
<1>6. CASE config.state /\ k \in states' /\ ~\E s \in blobs'[k[2]] : s[1] = k[1]
  <2>1. k \notin states
    BY DEF Inv, RowsInv
  <2>2. calls[c].state # {} /\ k[2] = FinalRoot(calls[c]) /\ k[1] = calls[c].slot
    BY <1>6, <2>1, WriteStep DEF Write
  <2>3. k[2] \in Roots /\ blobs \in [Roots -> SUBSET Keys]
    BY <2>2, WriteStep, KeyType DEF Inv, TypeOK
  <2>4. blobs'[k[2]] # {}
    BY <1>2, <2>2, <2>3 DEF Write
  <2>5. k[2] = NoRoot
    <3>1. k[2] # NoRoot => k[2] \in Blocks /\ SlotOf[k[2]] = k[1]
      BY <2>2, WriteStep, KeyType
    <3>2. Inv'
      BY WriteInv
    <3>. QED  BY <1>6, <2>4, <3>1, <3>2 DEF Inv, RowsInv
  <2>6. config.block
    BY <1>2, <1>6, <2>2, <2>5, WriteStep DEF RootedInv, RootedCalls, FinalRoot
  <2>7. calls[c].block = NoRoot
    BY <1>2, <2>2, <2>5 DEF FinalRoot
  <2>. QED  BY <1>2, <2>6, <2>7, WriteStep DEF LegalCalls
<1>. QED  BY <1>1, <1>2, <1>3, <1>4, <1>5, <1>6 DEF Complete

\* Rows share the key of a state in public.blocks only where they have no
\* root, and no such row is ever complete.
LEMMA OthersStay ==
    ASSUME Inv, RootedInv, NEW c \in Calls, Write(c), NEW j \in Keys, j # FinalKey(c)
    PROVE  slots'[j] = slots[j] /\ (Complete(j)' <=> Complete(j))
<1>. DEFINE k == FinalKey(c)
<1>1. /\ k \in Keys /\ slots'[j] = slots[j] /\ config' = config
      /\ j \in signedBlocks' <=> j \in signedBlocks
      /\ j \in states' <=> j \in states
  BY WriteStep DEF Inv, TypeOK
<1>2. CASE ~config.state
  BY <1>1, <1>2 DEF Complete
<1>3. CASE j[2] # k[2]
  <2>1. blobs'[j[2]] = blobs[j[2]]
    BY <1>3 DEF Write, Inv, TypeOK, Keys, Roots
  <2>. QED  BY <1>1, <2>1 DEF Complete
<1>4. CASE j[2] = k[2] /\ config.state
  <2>1. j[2] = NoRoot
    BY <1>1, <1>4, RootsOfSlots DEF Keys
  <2>2. CASE config.block
    BY <1>1, <2>1, <2>2 DEF Complete, Inv, RowsInv
  <2>3. CASE ~config.block
    <3>1. calls[c].root # NoRoot /\ ~calls[c].skipped
      BY <1>4, <2>3, WriteStep DEF RootedInv, RootedCalls
    <3>. QED  BY <1>4, <2>1, <3>1, WriteStep DEF FinalRoot
  <2>. QED  BY <2>2, <2>3
<1>. QED  BY <1>2, <1>3, <1>4

\* Write is a Store, a StoreMasked or, if the row it adds lacks something, a
\* GiveUp of the slot.
LEMMA WritePromise ==
    ASSUME Inv, RootedInv, NEW c \in Calls, Write(c)
    PROVE  \E n \in SlotSet : Store!Store(c, n) \/ Store!StoreMasked(c, n) \/ Store!GiveUp(c, n)
<1>1. /\ calls[c].slot \in SlotSet /\ busyView[c] = {calls[c].slot}
      /\ busyView' = [busyView EXCEPT ![c] = {}]
  BY WriteStep, BusyViewReturns DEF Return
<1>2. PICK n \in SlotSet : n = calls[c].slot
  BY <1>1
<1>3. PICK k \in Keys : k = FinalKey(c)
  BY WriteStep
<1>. DEFINE others == { KindOf(j) : j \in { i \in Keys \ {k} : i[1] = n /\ slots[i] # NoRow } }
<1>4. \A j \in Keys : j # k => slots'[j] = slots[j] /\ KindOf(j)' = KindOf(j)
  BY <1>3, OthersStay DEF KindOf
<1>5. k[1] = n /\ slots'[k] # NoRow
  BY <1>2, <1>3, WriteStep DEF Inv, TypeOK, NoRow
<1>6. \A m \in SlotSet : m # n => KindsOf(m)' = KindsOf(m)
  BY <1>4, <1>5 DEF KindsOf, KindOf
<1>7. KindsOf(n) = others \cup IF slots[k] # NoRow THEN {KindOf(k)} ELSE {}
  BY <1>5 DEF KindsOf, KindOf
<1>8. KindsOf(n)' = others \cup {KindOf(k)'}
  <2>1. others' = others
    BY <1>4
  <2>. QED  BY <1>5, <2>1 DEF KindsOf, KindOf
<1>9. storedView' = [storedView EXCEPT ![n] = others \cup {KindOf(k)'}]
  BY <1>6, <1>8 DEF storedView
<1>10. Store!Return(c, "ok") /\ cancelled' = cancelled
  BY <1>1, WriteStep DEF Return, Store!Return, busyView
<1>11. KindOf(k)' \in {"full", "skipped", "hollow"} /\ KindOf(k) \in {"full", "skipped", "hollow"}
  BY DEF KindOf
<1>. HIDE DEF others
<1>12. CASE slots[k] = NoRow
  <2>1. storedView' = [storedView EXCEPT ![n] = @ \cup {KindOf(k)'}]
    BY <1>7, <1>9, <1>12 DEF storedView
  <2>2. KindOf(k)' = "hollow" => cancelled
    BY <1>3, <1>12, LackingIsCancelled
  <2>3. CASE KindOf(k)' = "hollow"
    <3>1. Store!GiveUp(c, n)
      BY <1>1, <1>2, <1>10, <2>1, <2>2, <2>3 DEF Store!GiveUp, storedView, busyView
    <3>. QED  BY <3>1
  <2>4. CASE KindOf(k)' \in {"full", "skipped"}
    <3>1. Store!Store(c, n)
      BY <1>1, <1>2, <1>10, <2>1, <2>4 DEF Store!Store, storedView, busyView
    <3>. QED  BY <3>1
  <2>. QED  BY <1>11, <2>3, <2>4
<1>13. CASE slots[k] # NoRow /\ KindOf(k)' = KindOf(k)
  <2>1. storedView' = storedView /\ KindsOf(n) # {}
    BY <1>7, <1>9, <1>13 DEF storedView
  <2>. QED  BY <1>2, <1>10, <2>1, WriteStep, FoundPromise
<1>14. CASE slots[k] # NoRow /\ KindOf(k)' # KindOf(k)
  <2>1. slots'[k] = slots[k] /\ (Complete(k) => Complete(k)')
    <3>1. slots'[k] = slots[k] /\ config' = config
          /\ signedBlocks \subseteq signedBlocks' /\ states \subseteq states'
      BY <1>3, <1>14, WriteStep DEF Inv, TypeOK
    <3>2. blobs[k[2]] # {} => blobs'[k[2]] = blobs[k[2]]
      BY <1>3 DEF Write, Inv, TypeOK, Keys, Roots
    <3>. QED  BY <3>1, <3>2 DEF Complete
  <2>2. KindOf(k) = "hollow" /\ KindOf(k)' = "full"
    BY <1>14, <2>1 DEF KindOf
  <2>3. storedView[n] = others \cup {"hollow"}
    BY <1>7, <1>14, <2>2 DEF storedView
  <2>4. others \cup {"full"} = storedView[n] \cup {"full"}
        \/ others \cup {"full"} = (storedView[n] \ {"hollow"}) \cup {"full"}
    BY <2>3
  <2>5. storedView' = [storedView EXCEPT ![n] = @ \cup {"full"}]
        \/ storedView' = [storedView EXCEPT ![n] = (@ \ {"hollow"}) \cup {"full"}]
    BY <1>9, <2>2, <2>4
  <2>6. Store!Store(c, n)
    BY <1>1, <1>2, <1>10, <2>5 DEF Store!Store, storedView, busyView
  <2>. QED  BY <2>6
<1>. QED  BY <1>12, <1>13, <1>14

LEMMA ProceedPromise ==
    ASSUME SomethingIsAsked, Inv, RootedInv, NEW c \in Calls, Proceed(c)
    PROVE  [Store!Next]_(Store!vars)
<1>1. CASE Fetch(c)
  BY <1>1, FetchStep, FetchFrame, InnerStep
<1>2. CASE Wait(c)
  <2>. DEFINE new == [calls[c] EXCEPT !.pc = IF config.checkDb THEN "checkBlock" ELSE "write"]
  <2>1. new.pc # "idle" /\ new.slot = calls[c].slot
    BY DEF Inv, TypeOK
  <2>2. CallStep(c, "fetch", new) /\ UNCHANGED <<config, outcome, cancelled, tables>>
    BY <1>2 DEF Wait
  <2>. HIDE DEF new
  <2>. QED  BY <2>1, <2>2, InnerStep
<1>3. CASE CheckBlock(c)
  <2>. DEFINE new == [calls[c] EXCEPT !.pc = "checkState",
                          !.blockRequired = config.block /\ FinalKey(c) \notin signedBlocks]
  <2>1. new.pc # "idle" /\ new.slot = calls[c].slot
    BY DEF Inv, TypeOK
  <2>2. CallStep(c, "checkBlock", new) /\ UNCHANGED <<config, outcome, cancelled, tables>>
    BY <1>3 DEF CheckBlock
  <2>. HIDE DEF new
  <2>. QED  BY <2>1, <2>2, InnerStep
<1>4. CASE CheckState(c)
  <2>. DEFINE new == [calls[c] EXCEPT !.pc = "write"]
  <2>1. new.pc # "idle" /\ new.slot = calls[c].slot
    BY DEF Inv, TypeOK
  <2>2. \/ CallStep(c, "checkState", new) /\ UNCHANGED <<config, outcome, cancelled, tables>>
        \/ Return(c, "checkState", "ok")
    BY <1>4 DEF CheckState
  <2>. HIDE DEF new
  <2>3. calls[c].pc = "checkState" => calls[c].slot \in SlotSet
    BY DEF Inv, CallsInv, LegalCalls
  <2>4. CASE Return(c, "checkState", "ok")
    BY <1>4, <2>3, <2>4, CheckStatePromise DEF Store!Next, Return, CallStep
  <2>. QED  BY <2>1, <2>2, <2>4, InnerStep
<1>5. CASE Write(c)
  BY <1>5, WritePromise DEF Store!Next
<1>6. CASE WaitFails(c)
  BY <1>6, FailPromise DEF WaitFails, Store!Next
<1>7. CASE DatabaseFails(c)
  BY <1>7, FailPromise DEF DatabaseFails, Store!Next
<1>. QED  BY <1>1, <1>2, <1>3, <1>4, <1>5, <1>6, <1>7 DEF Proceed, Fetch

LEMMA StepPromise ==
    ASSUME SomethingIsAsked
    PROVE  Inv /\ RootedInv /\ [Next]_vars => [Store!Next]_(Store!vars)
<1>. SUFFICES ASSUME Inv, RootedInv, [Next]_vars PROVE [Store!Next]_(Store!vars)
  OBVIOUS
<1>0. /\ UNCHANGED <<config, tables>> => storedView' = storedView
      /\ UNCHANGED calls => busyView' = busyView
  BY StoredViewStays DEF busyView
<1>1. ASSUME NEW c \in Calls, NEW b \in Blocks, BeginHead(c, b) PROVE Store!Next
  BY <1>1, RootsOfSlots, BeginPromise DEF BeginHead, Store!Next
<1>2. ASSUME NEW c \in Calls, NEW n \in HistoricSlots, BeginHistoric(c, n) PROVE Store!Next
  BY <1>2, ChainAssumption, BeginPromise DEF BeginHistoric, Store!Next
<1>3. ASSUME NEW c \in Calls, Proceed(c) PROVE [Store!Next]_(Store!vars)
  BY <1>3, ProceedPromise
<1>4. ASSUME NEW n \in SlotSet, NEW b \in Blocks, Reorg(n, b) PROVE UNCHANGED Store!vars
  BY <1>0, <1>4 DEF Reorg, Store!vars, storedView, busyView
<1>5. CASE Cancel
  BY <1>0, <1>5 DEF Cancel, Store!Next, Store!Cancel, storedView, busyView
<1>6. CASE Restart
  <2>1. busyView' = [c \in Calls |-> {}]
    BY <1>6 DEF Restart, NoCall, busyView
  <2>2. storedView' = storedView
    BY <1>0, <1>6 DEF Restart
  <2>. QED  BY <1>6, <2>1, <2>2 DEF Restart, Store!Next, Store!Restart, storedView, busyView
<1>7. CASE UNCHANGED vars
  BY <1>0, <1>7 DEF vars, Store!vars, storedView, busyView
<1>. QED  BY <1>1, <1>2, <1>3, <1>4, <1>5, <1>6, <1>7 DEF Next

\* processFullSlot implements SlotStore: for any blocks and slots and any
\* number of calls at once, with reorganisations, cancellations, failing
\* queries and restarts between any two of its steps, a call that returns no
\* error has stored the slot whole or as skipped, or was cancelled or found
\* what a cancelled one left, and a call that fails has written nothing.  It
\* takes that no historic call is asked for the states alone.
THEOREM PromiseIsKept ==
    ASSUME SomethingIsAsked
    PROVE  Spec /\ [][~StateOnlyHistoric]_vars => KeepsPromise
<1>1. Init => Inv /\ RootedInv /\ Store!Init
  BY InitInv, InitRooted, InitPromise
<1>2. Inv /\ RootedInv /\ [Next]_vars /\ [~StateOnlyHistoric]_vars => (Inv /\ RootedInv)'
  <2>1. UNCHANGED vars /\ RootedInv => RootedInv'
    BY DEF vars, RootedInv
  <2>. QED  BY <2>1, StepInv, StepRooted
<1>. QED  BY <1>1, <1>2, StepPromise, PTL DEF Spec, KeepsPromise, Store!Spec

-----------------------------------------------------------------------------
(***************************************************************************)
(* The state under a root.  A head's state is asked for by its root.  A    *)
(* historic call asks for block and state by the slot: they belong         *)
(* together as long as the chain does not change there in between.         *)
(***************************************************************************)

\* No slot is processed as a historic one before its block is settled.
HistoryIsSettled == HistoricSlots \cap ReorgSlots = {}

\* The state of a settled slot, and that of a block.
StateAt(n)  == <<n, FirstCanonical[n]>>
OwnState(b) == <<SlotOf[b], b>>

OwnCalls == { call \in CallState :
    /\ call.root # NoRoot => call.state \subseteq {OwnState(call.root)}
    /\ call.root = NoRoot /\ call.pc # "idle" =>
           /\ call.slot \in HistoricSlots
           /\ call.block \in {NoRoot, FirstCanonical[call.slot]}
           /\ call.state \subseteq {StateAt(call.slot)} }

OwnInv ==
    /\ calls \in [Calls -> OwnCalls]
    /\ \A n \in HistoricSlots : canonical[n] = FirstCanonical[n]
    /\ \A b \in Blocks : blobs[b] \subseteq {OwnState(b)}
    /\ \A k \in states : k \in blobs[k[2]] \/ (k[2] = NoRoot /\ config.block)

LEMMA InitOwn == Init => OwnInv
<1>. SUFFICES ASSUME Init PROVE OwnInv
  OBVIOUS
<1>1. NoCall \in OwnCalls
  BY NoCallLegal DEF OwnCalls, NoCall
<1>. QED  BY <1>1, RootsOfSlots, ChainAssumption DEF Init, OwnInv

\* A step of a call that writes neither state nor blob.
LEMMA QuietOwn ==
    ASSUME OwnInv, NEW c \in Calls, NEW from, NEW call \in OwnCalls, CallStep(c, from, call),
           UNCHANGED <<config, canonical, tables>>
    PROVE  OwnInv'
<1>1. calls' \in [Calls -> OwnCalls]
  BY DEF OwnInv, CallStep
<1>2. OwnCalls' = OwnCalls
  OBVIOUS
<1>. QED  BY <1>1, <1>2 DEF OwnInv, tables

LEMMA BeginOwn ==
    ASSUME Inv, OwnInv, NEW c \in Calls, NEW n \in SlotSet, NEW root \in Roots,
           root = NoRoot => n \in HistoricSlots, Begin(c, n, root)
    PROVE  OwnInv'
<1>. DEFINE new == [NoCall EXCEPT !.pc = "fetch", !.slot = n, !.root = root,
                                  !.blockPc = Fetcher(config.block),
                                  !.statePc = Fetcher(config.state)]
<1>1. new \in OwnCalls
  BY RootsOfSlots DEF OwnCalls, NoCall, CallState, Fetcher, FetchPCs
<1>2. CallStep(c, "idle", new) /\ UNCHANGED <<config, canonical, tables>>
  BY DEF Begin
<1>. HIDE DEF new
<1>. QED  BY <1>1, <1>2, QuietOwn

\* A fetch brings the canonical block of a settled slot, or the state of it,
\* or what the head event named.
LEMMA FetchOwn ==
    ASSUME Inv, OwnInv, NEW c \in Calls, Fetch(c)
    PROVE  OwnInv'
<1>0. /\ calls[c] \in OwnCalls /\ calls[c] \in CallState
      /\ calls[c].pc # "idle" /\ calls[c].root = NoRoot =>
             canonical[calls[c].slot] = FirstCanonical[calls[c].slot]
  BY DEF OwnInv, OwnCalls
<1>1. PICK call \in CallState : CallStep(c, "fetch", call)
  BY FetchStep DEF LegalCalls
<1>2. calls'[c] = call /\ calls[c].pc = "fetch"
  BY <1>1 DEF CallStep, Inv, TypeOK
<1>3. ASSUME NEW new, CallStep(c, "fetch", new) PROVE call = new
  BY <1>2, <1>3 DEF CallStep, Inv, TypeOK
<1>. DEFINE Same == /\ call.pc = calls[c].pc /\ call.slot = calls[c].slot
                    /\ call.root = calls[c].root
<1>4. CASE GetSignedBeaconBlock(c)
  <2>. DEFINE b == IF calls[c].root # NoRoot THEN calls[c].root ELSE canonical[calls[c].slot]
  <2>1. call = [calls[c] EXCEPT !.blockPc = "done", !.block = b, !.skipped = (b = NoRoot)]
    BY <1>3, <1>4 DEF GetSignedBeaconBlock
  <2>2. Same /\ call.state = calls[c].state /\ call.block = b
    BY <1>0, <2>1 DEF CallState
  <2>3. call \in OwnCalls
    BY <1>0, <1>1, <1>2, <2>2 DEF OwnCalls
  <2>. QED  BY <1>1, <2>3, FetchFrame, QuietOwn
<1>5. CASE GetBeaconState(c)
  <2>. DEFINE b == IF calls[c].root # NoRoot THEN calls[c].root ELSE canonical[calls[c].slot]
              s == <<calls[c].slot, b>>
  <2>1. call = [calls[c] EXCEPT !.statePc = "done", !.state = {s}]
    BY <1>3, <1>5 DEF GetBeaconState
  <2>2. Same /\ call.state = {s} /\ call.block = calls[c].block
    BY <1>0, <2>1 DEF CallState
  <2>3. call \in OwnCalls
    BY <1>0, <1>1, <1>2, <2>2 DEF OwnCalls, OwnState, StateAt, LegalCalls, Inv, CallsInv
  <2>. QED  BY <1>1, <2>3, FetchFrame, QuietOwn
<1>6. CASE ~GetSignedBeaconBlock(c) /\ ~GetBeaconState(c)
  <2>1. \/ \E pc \in FetchPCs : call = [calls[c] EXCEPT !.blockPc = pc]
        \/ \E pc \in FetchPCs : call = [calls[c] EXCEPT !.statePc = pc]
        \/ call = [calls[c] EXCEPT !.blockPc = "done", !.skipped = TRUE]
    BY <1>3, <1>6 DEF Fetch, TestBlockContext, TestStateContext, BlockNotFound, BlockFails,
       StateFails, FetchPCs
  <2>2. Same /\ call.state = calls[c].state /\ call.block = calls[c].block
    BY <1>0, <2>1 DEF CallState
  <2>3. call \in OwnCalls
    BY <1>0, <1>1, <1>2, <2>2 DEF OwnCalls
  <2>. QED  BY <1>1, <2>3, FetchFrame, QuietOwn
<1>. QED  BY <1>4, <1>5, <1>6

\* A call that writes a state under the root of a block writes that block's.
LEMMA WriteOwn ==
    ASSUME Inv, RootedInv, OwnInv, NEW c \in Calls, Write(c)
    PROVE  OwnInv'
<1>. DEFINE k     == FinalKey(c)
            root  == FinalRoot(calls[c])
            state == ~calls[c].skipped /\ calls[c].state # {}
<1>1. /\ calls[c] \in OwnCalls /\ calls[c] \in CallState /\ calls[c].pc = "write"
      /\ k \in Keys /\ k = <<calls[c].slot, root>> /\ k[2] = root /\ root \in Roots
      /\ root # NoRoot => root \in Blocks /\ SlotOf[root] = calls[c].slot
  BY WriteStep, KeyType DEF OwnInv, KeyOf
<1>2. root # NoRoot => calls[c].state \subseteq {OwnState(root)} /\ OwnState(root) = k
  BY <1>1, RootsOfSlots DEF OwnCalls, FinalRoot, StateAt, OwnState
<1>3. /\ blobs' = [blobs EXCEPT ![root] = IF state /\ @ = {} THEN calls[c].state ELSE @]
      /\ states' = states \cup IF state THEN {k} ELSE {}
      /\ blobs \in [Roots -> SUBSET Keys] /\ config' = config
  BY <1>1 DEF Write, Inv, TypeOK
<1>. HIDE DEF k, root, state
<1>4. \A b \in Roots : blobs[b] \subseteq blobs'[b]
  BY <1>1, <1>3
<1>5. \A b \in Blocks : blobs'[b] \subseteq {OwnState(b)}
  BY <1>1, <1>2, <1>3, RootsOfSlots DEF OwnInv
<1>6. state /\ root # NoRoot => k \in blobs'[root]
  BY <1>1, <1>2, <1>3 DEF OwnInv, state
<1>7. state /\ root = NoRoot => config.block
  <2>1. state => config.state
    BY WriteStep DEF state, LegalCalls
  <2>2. root = NoRoot => calls[c].skipped \/ calls[c].root = NoRoot
    BY DEF root, FinalRoot
  <2>. QED  BY <1>1, <2>1, <2>2 DEF state, RootedInv, RootedCalls
<1>8. ASSUME NEW j \in states' PROVE j \in blobs'[j[2]] \/ (j[2] = NoRoot /\ config'.block)
  <2>1. CASE j \in states
    <3>1. j[2] \in Roots
      BY <2>1, RootsOfSlots DEF Inv, TypeOK, Keys
    <3>. QED  BY <1>3, <1>4, <2>1, <3>1 DEF OwnInv
  <2>2. CASE j \notin states
    BY <1>1, <1>3, <1>6, <1>7, <2>2
  <2>. QED  BY <2>1, <2>2
<1>9. NoCall \in OwnCalls
  BY NoCallLegal DEF OwnCalls, NoCall
<1>10. calls' \in [Calls -> OwnCalls] /\ canonical' = canonical
  BY <1>9, WriteStep DEF Return, CallStep, OwnInv
<1>. QED  BY <1>5, <1>8, <1>10 DEF OwnInv

LEMMA ProceedOwn ==
    ASSUME Inv, RootedInv, OwnInv, NEW c \in Calls, Proceed(c)
    PROVE  OwnInv'
<1>0. calls[c] \in OwnCalls /\ NoCall \in OwnCalls
  BY NoCallLegal DEF OwnInv, OwnCalls, NoCall
<1>1. ASSUME NEW from, NEW how, Return(c, from, how), UNCHANGED <<config, canonical, tables>>
      PROVE  OwnInv'
  BY <1>0, <1>1, QuietOwn DEF Return
<1>2. CASE WaitFails(c)
  BY <1>1, <1>2 DEF WaitFails
<1>3. CASE DatabaseFails(c)
  BY <1>1, <1>3 DEF DatabaseFails
<1>4. CASE Wait(c)
  <2>1. [calls[c] EXCEPT !.pc = IF config.checkDb THEN "checkBlock" ELSE "write"] \in OwnCalls
    BY <1>0, <1>4 DEF Wait, CallStep, OwnCalls, CallState
  <2>. QED  BY <1>4, <2>1, QuietOwn DEF Wait
<1>5. CASE CheckBlock(c)
  <2>. DEFINE required == config.block /\ FinalKey(c) \notin signedBlocks
  <2>0. required \in BOOLEAN
    BY ConfigType DEF Inv, TypeOK
  <2>. HIDE DEF required
  <2>1. [calls[c] EXCEPT !.pc = "checkState", !.blockRequired = required] \in OwnCalls
    BY <1>0, <1>5, <2>0 DEF CheckBlock, CallStep, OwnCalls, CallState
  <2>. QED  BY <1>5, <2>1, QuietOwn DEF CheckBlock, required
<1>6. CASE CheckState(c)
  <2>1. calls[c].pc = "checkState" => [calls[c] EXCEPT !.pc = "write"] \in OwnCalls
    BY <1>0 DEF OwnCalls, CallState
  <2>2. CASE CallStep(c, "checkState", [calls[c] EXCEPT !.pc = "write"])
    <3>1. calls[c].pc = "checkState" /\ UNCHANGED <<config, canonical, tables>>
      BY <1>6, <2>2 DEF CheckState, CallStep
    <3>. QED  BY <2>1, <2>2, <3>1, QuietOwn
  <2>. QED  BY <1>1, <1>6, <2>2 DEF CheckState
<1>. QED  BY <1>2, <1>3, <1>4, <1>5, <1>6, FetchOwn, WriteOwn DEF Proceed, Fetch

LEMMA StepOwn ==
    ASSUME HistoryIsSettled
    PROVE  Inv /\ RootedInv /\ OwnInv /\ [Next]_vars => OwnInv'
<1>. SUFFICES ASSUME Inv, RootedInv, OwnInv, [Next]_vars PROVE OwnInv'
  OBVIOUS
<1>1. ASSUME NEW c \in Calls, NEW b \in Blocks, BeginHead(c, b) PROVE OwnInv'
  BY <1>1, RootsOfSlots, BeginOwn DEF BeginHead
<1>2. ASSUME NEW c \in Calls, NEW n \in HistoricSlots, BeginHistoric(c, n) PROVE OwnInv'
  BY <1>2, ChainAssumption, RootsOfSlots, BeginOwn DEF BeginHistoric
<1>3. ASSUME NEW c \in Calls, Proceed(c) PROVE OwnInv'
  BY <1>3, ProceedOwn
<1>4. ASSUME NEW n \in SlotSet, NEW b \in Blocks, Reorg(n, b) PROVE OwnInv'
  <2>1. \A m \in HistoricSlots : canonical'[m] = canonical[m]
    BY <1>4, ChainAssumption DEF Reorg, HistoryIsSettled, Inv, TypeOK
  <2>. QED  BY <1>4, <2>1 DEF Reorg, tables, OwnInv
<1>5. CASE Cancel
  BY <1>5 DEF Cancel, tables, OwnInv
<1>6. CASE Restart
  <2>1. NoCall \in OwnCalls
    BY NoCallLegal DEF OwnCalls, NoCall
  <2>. QED  BY <1>6, <2>1 DEF Restart, tables, OwnInv
<1>7. CASE UNCHANGED vars
  BY <1>7 DEF vars, tables, OwnInv
<1>. QED  BY <1>1, <1>2, <1>3, <1>4, <1>5, <1>6, <1>7 DEF Next

\* The state held under the key of a row of eth_beacon.state is the state of
\* that row's block (prepareBeaconStateModel, upsertPublicBlocks), with any
\* number of head and historic calls at once, if a slot is processed as a
\* historic one only once the beacon node no longer changes its mind about it
\* and no historic call is asked for the states alone.
THEOREM StatesBelongToRoots ==
    ASSUME HistoryIsSettled
    PROVE  Spec /\ [][~StateOnlyHistoric]_vars => []StatesAreTheirOwn
<1>1. Init => Inv /\ RootedInv /\ OwnInv
  BY InitInv, InitRooted, InitOwn
<1>2. Inv /\ RootedInv /\ OwnInv /\ [Next]_vars /\ [~StateOnlyHistoric]_vars =>
          (Inv /\ RootedInv /\ OwnInv)'
  <2>1. UNCHANGED vars /\ RootedInv => RootedInv'
    BY DEF vars, RootedInv
  <2>. QED  BY <2>1, StepInv, StepRooted, StepOwn
<1>3. OwnInv => StatesAreTheirOwn
  BY DEF OwnInv, StatesAreTheirOwn
<1>. QED  BY <1>1, <1>2, <1>3, PTL DEF Spec

=============================================================================
