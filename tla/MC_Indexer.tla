------------------------------ MODULE MC_Indexer ------------------------------
(***************************************************************************)
(* Indexer on a small block tree with a block in every slot:               *)
(*                                                                         *)
(*     slot   2    3    4    5                                             *)
(*            g -- a3                                                      *)
(*             \-- b3 - b4 - b5                                            *)
(***************************************************************************)
EXTENDS Indexer, TLC

CONSTANTS g, a3, b3, b4, b5   \* block roots
CONSTANTS h1                  \* the goroutine of the head

SlotInTree   == (g :> 2) @@ (a3 :> 3) @@ (b3 :> 3) @@ (b4 :> 4) @@ (b5 :> 5)
ParentInTree == (g :> OtherRoot) @@ (a3 :> g) @@ (b3 :> g) @@ (b4 :> b3) @@ (b5 :> b4)

MCSlotOf   == [b \in Blocks |-> SlotInTree[b]]
MCParentOf == [b \in Blocks |->
                  IF ParentInTree[b] \in Blocks THEN ParentInTree[b] ELSE OtherRoot]

=============================================================================
