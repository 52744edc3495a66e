---------------------------- MODULE MC_EventIntake ----------------------------
(***************************************************************************)
(* EventIntake with both topics; the slot of reorg does not parse either.  *)
(***************************************************************************)
EXTENDS EventIntake, TLC

CONSTANTS good, badSlot, garbage, reorg   \* events

MCTopicOf == [e \in Events |-> IF e = reorg THEN "chain_reorg" ELSE "head"]
MCKindOf  == [e \in Events |-> CASE e \in {badSlot, reorg} -> "badSlot"
                                 [] e = garbage           -> "garbage"
                                 [] e = good              -> "good"]

=============================================================================
