----------------------------- MODULE ProcEditor -----------------------------
(***************************************************************************)
(* What the slash commands promise their user: an active procedure that    *)
(* grows at its end by what a command line stands for, and from which the  *)
(* instruction at a position can be removed.                               *)
(***************************************************************************)
EXTENDS Integers, SequencesExt

CONSTANTS
    Means,             \* command line -> the instructions it may stand for
    Stored,            \* the procedures that other nodes keep
    Indexes,           \* what may be typed for a position
    MAX_INSTRUCTIONS,
    NONE               \* no active procedure

VARIABLES
    procedure,
    asked      \* the last command that was carried out

vars == <<procedure, asked>>

Init == procedure = NONE /\ asked = NONE

\* NONE: there was no memory for a new one.
New == asked' = <<"new">> /\ procedure' \in {<<>>, NONE}

Add(line) ==
    /\ procedure # NONE
    /\ Len(procedure) < MAX_INSTRUCTIONS
    /\ asked' = <<"add", line>>
    /\ \E instruction \in Means[line] : procedure' = Append(procedure, instruction)

\* Positions are counted from 0.
Pop(index) ==
    /\ procedure # NONE
    /\ index + 1 \in DOMAIN procedure
    /\ asked' = <<"pop", index>>
    /\ procedure' = RemoveAt(procedure, index + 1)

\* Not promised, but not excluded either: a number beyond all positions is taken for
\* the position of some instruction.
PopAnother(index) ==
    /\ procedure # NONE
    /\ index \notin 0 .. MAX_INSTRUCTIONS
    /\ asked' = <<"pop", index>>
    /\ \E k \in DOMAIN procedure : procedure' = RemoveAt(procedure, k)

\* The procedure that was asked for arrives, or none remains.
Pull(text) == asked' = <<"pull", text>> /\ procedure' \in {text, NONE}

Next ==
    \/ New
    \/ \E line \in DOMAIN Means : Add(line)
    \/ \E index \in Indexes : Pop(index) \/ PopAnother(index)
    \/ \E text \in Stored : Pull(text)

Spec == Init /\ [][Next]_vars
=============================================================================
