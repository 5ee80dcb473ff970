--------------------------- MODULE ProcSemantics ---------------------------
(***************************************************************************)
(* What running a procedure means, without an executor: a to-do list of    *)
(* instructions. An ifelse is replaced by one of its two clauses, a call   *)
(* by the body it names, and anything else is performed or fails. There    *)
(* are no frames and no flags, and a noop is nothing to do.                *)
(***************************************************************************)
EXTENDS ProcProgram

CONSTANTS
    Root,                     \* the procedure that is run
    MAX_PROC_RECURSION_DEPTH

VARIABLES
    code,      \* slot -> procedure
    analysis,  \* slot -> where its analysis stopped
    todo,      \* positions <<slot, index>> still to perform, in order
    last,      \* the position performed last
    status     \* "running", "done", "error" or "undefined"

vars == <<code, analysis, todo, last, status>>

Start == <<>>  \* nothing performed yet

\* A position as a list: a noop, or a clause that does not exist, is none.
Item(slot, i) ==
    IF i \in 1 .. Len(code[slot]) /\ code[slot][i].type # "noop" THEN <<<<slot, i>>>> ELSE <<>>

\* The positions of a procedure that are not clauses of an ifelse.
Body(slot) ==
    FlattenSeq([i \in 1 .. Len(code[slot]) |->
                    IF Clause(code[slot], i) THEN <<>> ELSE Item(slot, i)])

Init ==
    /\ Stored(code)
    /\ Analyzed(code, analysis, Root)
    /\ todo = Body(Root)
    /\ last = Start
    /\ status = "running"

Next1 == Head(todo)
Instruction == code[Next1[1]][Next1[2]]
Ready(types) == status = "running" /\ todo # <<>> /\ Instruction.type \in types

Perform ==
    /\ Ready({"op", "block"})
    /\ todo' = Tail(todo)
    /\ last' = Next1
    /\ UNCHANGED <<code, analysis, status>>

Branch ==
    /\ Ready({"ifelse"})
    /\ \E clause \in {1, 2} : todo' = Item(Next1[1], Next1[2] + clause) \o Tail(todo)
    /\ last' = Next1
    /\ UNCHANGED <<code, analysis, status>>

\* What the analysis of the calling procedure knows of the called one.
Lists == CallListed(code[Next1[1]], analysis[Next1[1]], Instruction.slot)
Resolves == CallResolved(code[Next1[1]], analysis[Next1[1]], Instruction.slot)

CallBody ==
    /\ Ready({"call"})
    /\ Resolves
    /\ todo' = Body(Instruction.slot) \o Tail(todo)
    /\ UNCHANGED <<code, analysis, last, status>>

Stop(result) == todo' = <<>> /\ status' = result /\ UNCHANGED <<code, analysis, last>>

\* A call that the analysis did not come to is an error, and the one at which it
\* failed has no meaning.
NotFound == Ready({"call"}) /\ ~Lists /\ Stop("error")
Meaningless == Ready({"call"}) /\ Lists /\ ~Resolves /\ Stop("undefined")

Fail == Ready({"op", "block", "ifelse"}) /\ Stop("error")

\* A call that is resolved only fails when more is left to do after it than the
\* depth allows, unless tail calls were not recognized for want of an analysis.
Overflow ==
    /\ Ready({"call"})
    /\ Resolves
    /\ \/ Len(Tail(todo)) > MAX_PROC_RECURSION_DEPTH
       \/ \E slot \in Slots : analysis[slot] <= Len(code[slot])
    /\ Stop("error")

Finish == status = "running" /\ todo = <<>> /\ Stop("done")

Next == Perform \/ Branch \/ CallBody \/ NotFound \/ Meaningless \/ Fail \/ Overflow \/ Finish

Spec == Init /\ [][Next]_vars
=============================================================================
