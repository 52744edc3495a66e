--------------------------- MODULE MC_SlotProcessing ---------------------------
(***************************************************************************)
(* SlotProcessing on three slots: two blocks compete for slot 1, slot 2    *)
(* has one, slot 3 none.                                                   *)
(***************************************************************************)
EXTENDS SlotProcessing, TLC

CONSTANTS a1, b1, c2          \* block roots
CONSTANTS k1, k2              \* calls

MCSlotOf == (a1 :> 1) @@ (b1 :> 1) @@ (c2 :> 2)
MCFirstCanonical == (1 :> a1) @@ (2 :> c2) @@ (3 :> NoRoot)

\* Blocks, states and CheckDb on or off; with neither blocks nor states a call
\* that checks the database finds nothing to do.
SomethingToDo ==
    { c \in [block : BOOLEAN, state : BOOLEAN, checkDb : BOOLEAN] :
          c.block \/ c.state \/ ~c.checkDb }

\* Without the calls whose states all go under the key of the empty root.
NoStateOnlyHistoric == ~StateOnlyHistoric

\* The states alone are to be captured.
OnlyStates == [block : {FALSE}, state : {TRUE}, checkDb : BOOLEAN]

=============================================================================
