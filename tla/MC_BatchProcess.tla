--------------------------- MODULE MC_BatchProcess ---------------------------
(***************************************************************************)
(* BatchProcess on one application, with both of its processes, and on two *)
(* applications that share the historic_process table.                     *)
(***************************************************************************)
EXTENDS BatchProcess, TLC

CONSTANTS n1, n2               \* applications and their identifiers
CONSTANTS hp1, kg1, hp2        \* processes
CONSTANTS w1, w2, w3           \* workers

MCNodeOf  == [p \in Procs |-> IF p = hp2 THEN n2 ELSE n1]
MCIdOf    == MCNodeOf
MCTableOf == [p \in Procs |-> IF p = kg1 THEN KnownGaps ELSE Historic]

\* w1 and w2 are the first application's, of both tables if it runs both.
MCProcOf  == [w \in Workers |-> CASE w = w1 -> hp1
                                  [] w = w2 -> IF kg1 \in Procs THEN kg1 ELSE hp1
                                  [] w = w3 -> hp2]

Initial(historic, gaps) == [t \in {Historic, KnownGaps} |-> IF t = Historic THEN historic ELSE gaps]

InvertedAndRange == Initial({<<5, 4>>}, {<<1, 3>>})
ShortRange       == Initial({<<1, 2>>}, {})
RangeWithMiddle  == Initial({<<1, 3>>}, {})

\* A run in which one process is stopped or dies.
OneEnd == spent["stops"] + spent["crashes"] <= 1

=============================================================================
