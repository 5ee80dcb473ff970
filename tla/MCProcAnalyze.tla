--------------------------- MODULE MCProcAnalyze ---------------------------
(* All short procedures in three slots, reduced to their calls, for TLC. *)
EXTENDS ProcAnalyze

CONSTANT MaxCalls  \* bound on the calls of a procedure

ThreeSlots == {0, 1, 2}

Callers == BoundedSeq({Call(slot) : slot \in ThreeSlots}, MaxCalls)
CallGraphs == [slot \in ThreeSlots |-> IF slot = 0 THEN Callers \cup {<<Op, Call(1)>>} ELSE Callers]
=============================================================================
