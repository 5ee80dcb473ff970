---------------------------- MODULE ProcProgram ----------------------------
(***************************************************************************)
(* Procedures as the executor sees them, and what proc_analyze.c says of   *)
(* one procedure's calls. An instruction is reduced to the control it      *)
(* exercises; SET, UNOP and BINOP are all "op".                            *)
(***************************************************************************)
EXTENDS Integers, Sequences, SequencesExt

CONSTANTS
    Slots,    \* procedure slots in use
    Programs  \* for each slot, the procedures that may be stored there

Op == [type |-> "op"]        \* PROC_SET, PROC_UNOP, PROC_BINOP
Block == [type |-> "block"]  \* PROC_BLOCK
IfElse == [type |-> "ifelse"]
Noop == [type |-> "noop"]
Call(slot) == [type |-> "call", slot |-> slot]

Instructions == {Op, Block, IfElse, Noop} \cup {Call(slot) : slot \in Slots}

Is(p, i, type) == i \in 1 .. Len(p) /\ p[i].type = type

\* README.md:32, the clauses of an ifelse are its next two instructions and
\* none of them is an ifelse.
Clause(p, i) == Is(p, i - 1, "ifelse") \/ Is(p, i - 2, "ifelse")
WellFormed(p) == \A i \in 1 .. Len(p) : Is(p, i, "ifelse") => ~Clause(p, i)

\* A store in which every slot holds one of its procedures.
Stored(code) ==
    /\ code \in [Slots -> UNION {Programs[slot] : slot \in Slots}]
    /\ \A slot \in Slots : code[slot] \in Programs[slot]

ASSUME ProgramAssumption ==
    \A slot \in Slots :
        /\ Programs[slot] \subseteq Seq(Instructions)
        /\ \A p \in Programs[slot] : WellFormed(p)

\* Nothing but noops from position i on.
OnlyNoops(p, i) == \A j \in i .. Len(p) : p[j].type = "noop"

\* Faulty: the second clause of an ifelse is forgotten.
IsTailCallAtEnd(p, i) == OnlyNoops(p, i + 1)

\* analyze_tail_call: the call at i may reuse the frame of its procedure.
IsTailCall(p, i) ==
    IF Is(p, i - 1, "ifelse")
    THEN OnlyNoops(p, i + 2)
    ELSE OnlyNoops(p, i + 1)

\* Where proc_analyze may stop in p: at its end; at a call whose procedure is not
\* in the store or finds no memory for its analysis; at once, without memory for p
\* itself. That the lists cannot grow (proc_analyze.c:113 and 122) is left out.
Stops(p) == {0, Len(p) + 1} \cup {i \in 1 .. Len(p) : p[i].type = "call"}

\* What the graph then says of calls of a slot in p: the call at which the analysis
\* stopped is still listed, but only those before it have a sub-analysis.
CallListed(p, stop, slot) == \E i \in 1 .. stop : Is(p, i, "call") /\ p[i].slot = slot
CallResolved(p, stop, slot) == CallListed(p, stop - 1, slot)

\* How the analysis of each slot ended: that of a called one may have failed, which
\* is ignored (proc_analyze.c:149); that of the root has not, or nothing would run.
Analyzed(code, analysis, root) ==
    /\ analysis \in [Slots -> UNION {Stops(code[slot]) : slot \in Slots}]
    /\ \A slot \in Slots : analysis[slot] \in Stops(code[slot])
    /\ analysis[root] = Len(code[root]) + 1

\* README.md:151: calls "in the last instruction (or second-last if preceded by
\* ifelse)".
CallsLast(p) ==
    \A i \in 1 .. Len(p) : p[i].type = "call" =>
        i = Len(p) \/ (i = Len(p) - 1 /\ Is(p, i - 1, "ifelse"))
=============================================================================
