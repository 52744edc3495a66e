---------------------------- MODULE MC_Lifecycle ----------------------------
(***************************************************************************)
(* Lifecycle with every command; no retry at all, two, and no limit.       *)
(***************************************************************************)
EXTENDS Lifecycle

MCRetries == {-1, 0, 2}

=============================================================================
