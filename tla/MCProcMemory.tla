---------------------------- MODULE MCProcMemory ----------------------------
(* Small instances of ProcMemory for TLC. The strings of an instruction differ, *)
(* and so do their lengths.                                                     *)
EXTENDS ProcMemory, TLC

CONSTANTS r1, r2, t1, s1

TwoRouters == {r1, r2}
OneThread == {t1}
OneSlot == {s1}

StringLength == [a |-> 1, bb |-> 2, ccc |-> 3, empty |-> 0]

Instruction(type, arg) == [node |-> "node", type |-> type, arg |-> arg]
Ifelse == Instruction("ifelse", [param_a |-> "a", op |-> "EQ", param_b |-> "bb"])
Set == Instruction("set", [param |-> "a", value |-> "empty"])
Unop == Instruction("unop", [param |-> "bb", op |-> "INC", result |-> "a"])
Binop == Instruction("binop", [param_a |-> "a", op |-> "ADD", param_b |-> "bb", result |-> "ccc"])
Call == Instruction("call", [procedure_slot |-> "slot"])
Noop == Instruction("noop", <<>>)

\* The last one does not fit.
SomeProcedures == {<<Binop>>, <<Set, Unop>>, <<Ifelse, Call>>, <<Noop, Binop>>, <<Binop, Ifelse>>}

Symmetry == Permutations(Routers)
=============================================================================
