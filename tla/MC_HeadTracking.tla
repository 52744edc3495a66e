--------------------------- MODULE MC_HeadTracking ---------------------------
(***************************************************************************)
(* HeadTracking on a small block tree:                                     *)
(*                                                                         *)
(*     slot   2    3    4    5    6                                        *)
(*            g -- a3 ----------- a6      (a6 follows two empty slots)     *)
(*             \-- b3 - b4                                                 *)
(***************************************************************************)
EXTENDS HeadTracking, TLC

CONSTANTS g, a3, b3, b4, a6   \* block roots
CONSTANTS h1, h2              \* goroutines

SlotInTree   == (g :> 2) @@ (a3 :> 3) @@ (b3 :> 3) @@ (b4 :> 4) @@ (a6 :> 6)
ParentInTree == (g :> OtherRoot) @@ (a3 :> g) @@ (b3 :> g) @@ (b4 :> b3) @@ (a6 :> a3)

\* The part of the tree that a run announces.
MCSlotOf   == [b \in Blocks |-> SlotInTree[b]]
MCParentOf == [b \in Blocks |->
                  IF ParentInTree[b] \in Blocks THEN ParentInTree[b] ELSE OtherRoot]

Symmetry == Permutations(HeadJobs)

=============================================================================
