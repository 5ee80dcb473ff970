----------------------------- MODULE ProcSlash -----------------------------
(***************************************************************************)
(* slash/slash_csp_proc.c: the commands that edit the active procedure of  *)
(* the command line, and the memory of its strings. One thread runs them,  *)
(* so each is a step, except the removal of an instruction from the        *)
(* middle, a loop that leaves the procedure half moved. push, size, list,  *)
(* slots, run and del change nothing here: they read it, or send a slot.   *)
(***************************************************************************)
EXTENDS ProcHeap

CONSTANTS
    Lines,             \* what the user types: [type, words, node]
    Means,             \* the lines that parse -> the instructions they may stand for
    Stored,            \* the procedures that other nodes keep
    Indexes,           \* the numbers the user types after "pop"
    MAX_INSTRUCTIONS,
    BYTE,              \* 2^8, what a uint8_t wraps at
    MaxCommands,       \* bound on the commands
    NONE               \* the NULL pointer

ASSUME SlashAssumption ==
    /\ MAX_INSTRUCTIONS \in Nat \ {0}
    /\ BYTE = MAX_INSTRUCTIONS + 1
    /\ 0 .. MAX_INSTRUCTIONS \subseteq Indexes
    /\ Indexes \subseteq Int
    /\ MaxCommands \in Nat
    /\ \A line \in Lines : line.type \in Types
    /\ \A text \in Stored : IsProcedure(text) /\ Len(text) <= MAX_INSTRUCTIONS

VARIABLES
    current_procedure,  \* NONE, or its instructions with addresses
    shift,              \* while one is removed: the position to be overwritten, or 0
    asked,              \* the last command that was carried out
    commands,           \* commands so far
    undefined           \* did the program do what C does not define

vars == <<heap, current_procedure, shift, asked, commands, undefined>>

Init ==
    /\ heap = <<>>
    /\ current_procedure = NONE
    /\ shift = 0
    /\ asked = NONE
    /\ commands = 0
    /\ undefined = FALSE

-----------------------------------------------------------------------------
(* Command lines.                                                          *)

ComparisonOps == {"==", "!=", "<", ">", "<=", ">="}
UnaryOps == {"++", "--", "!", "-", "idt", "rmt"}
BinaryOps == {"+", "-", "*", "/", "%", "<<", ">>", "&", "|", "^"}
Operators(type) ==
    CASE type \in {"block", "ifelse"} -> ComparisonOps
      [] type = "unop"  -> UnaryOps
      [] type = "binop" -> BinaryOps

\* The words of a command, in the order in which it reads them.
BlockArguments == <<"param_a", "op", "param_b">>
IfelseArguments == <<"param_a", "op", "param_b">>
NoopArguments == <<>>
SetArguments == <<"param", "value">>
UnopArguments == <<"param", "op", "result">>
BinopArguments == <<"param_a", "op", "param_b", "result">>
CallArguments == <<"procedure_slot">>
Arguments(type) ==
    CASE type = "block" -> BlockArguments
      [] type = "ifelse" -> IfelseArguments
      [] type = "noop"  -> NoopArguments
      [] type = "set"   -> SetArguments
      [] type = "unop"  -> UnopArguments
      [] type = "binop" -> BinopArguments
      [] type = "call"  -> CallArguments

\* A word in the place of a field; the slot of a call is cast to a uint8_t.
Argument(line, k) ==
    IF Arguments(line.type)[k] = "procedure_slot" THEN line.words[k] % BYTE ELSE line.words[k]

Parses(line) ==
    LET arguments == Arguments(line.type) IN
    /\ Len(line.words) >= Len(arguments)
    /\ \A k \in DOMAIN arguments : arguments[k] = "op" => line.words[k] \in Operators(line.type)

Instruction(line) ==
    LET arguments == Arguments(line.type) IN
    [node |-> IF line.type = "noop" THEN 0 ELSE line.node,
     type |-> line.type,
     arg |-> [f \in ToSet(arguments) |-> Argument(line, CHOOSE k \in DOMAIN arguments : arguments[k] = f)]]

-----------------------------------------------------------------------------
(* Commands.                                                               *)

Active == current_procedure # NONE
Command(command) ==
    /\ shift = 0
    /\ asked' = command
    /\ commands < MaxCommands
    /\ commands' = commands + 1
Discard == IF Active THEN Free(current_procedure) ELSE UNCHANGED heap

\* Faulty: the procedure that was active is forgotten.
NewWithoutFree ==
    /\ Command(<<"new">>)
    /\ current_procedure' = <<>>
    /\ UNCHANGED <<heap, shift, undefined>>

New ==
    /\ Command(<<"new">>)
    /\ Discard
    /\ current_procedure' \in {<<>>, NONE}  \* NONE: there is no memory
    /\ UNCHANGED <<shift, undefined>>

instruction_can_be_added == Active /\ Len(current_procedure) < MAX_INSTRUCTIONS

\* Faulty: one instruction more than there is room for.
AddBeyondLast(line) ==
    /\ Command(<<"add", line>>)
    /\ Active
    /\ Len(current_procedure) <= MAX_INSTRUCTIONS
    /\ Parses(line)
    /\ LET new == Duplicate(<<Instruction(line)>>)
       IN  /\ current_procedure' = Append(current_procedure, new.procedure[1])
           /\ heap' = With(heap, new.strings)
    /\ UNCHANGED <<shift, undefined>>

Add(line) ==
    /\ Command(<<"add", line>>)
    /\ instruction_can_be_added
    /\ Parses(line)
    /\ LET new == Duplicate(<<Instruction(line)>>)
       IN  /\ current_procedure' = Append(current_procedure, new.procedure[1])
           /\ heap' = With(heap, new.strings)
    /\ UNCHANGED <<shift, undefined>>

\* The words of a line that are there, and the copies of those for some fields.
Read(line) == {k \in DOMAIN Arguments(line.type) : k <= Len(line.words)}
Kept(line, fields) ==
    [a \in {<<Unused, 1, f>> : f \in fields} |->
        line.words[CHOOSE k \in Read(line) : Arguments(line.type)[k] = a[3]]]

\* A word is missing or wrong: the strings before it are not freed. Nor are the
\* others when there is no memory for one.
AddRefused(line) ==
    /\ Command(asked)
    /\ instruction_can_be_added
    /\ \E fields \in SUBSET Strings({Arguments(line.type)[k] : k \in Read(line)}) :
        /\ Parses(line) => fields # Strings(ToSet(Arguments(line.type)))
        /\ heap' = With(heap, Kept(line, fields))
    /\ UNCHANGED <<current_procedure, shift, undefined>>

\* The previous procedure is freed before the request is made.
Pull(text) ==
    /\ Command(<<"pull", text>>)
    /\ LET new == Duplicate(text)
           kept == IF Active THEN DOMAIN heap \ Freed(current_procedure) ELSE DOMAIN heap
       IN  /\ current_procedure' = new.procedure
           /\ heap' = With(Restrict(heap, kept), new.strings)
    /\ UNCHANGED <<shift, undefined>>

\* free_proc goes over a procedure of which no field, or not every instruction,
\* was written; that is harmless if all arrived before the failure, or if the
\* memory happens to hold the count 0.
PullFails(text) ==
    /\ Command(<<"pull", text>>)
    /\ Discard
    /\ current_procedure' = NONE
    /\ undefined' \in BOOLEAN
    /\ UNCHANGED shift

\* The number is assigned to a uint8_t.
Step(index) == index % BYTE

\* Faulty: any position removes the latest instruction.
PopLatestAlways(index) ==
    /\ Command(<<"pop", index>>)
    /\ Active
    /\ Step(index) < Len(current_procedure)
    /\ current_procedure' = Front(current_procedure)
    /\ UNCHANGED <<heap, shift, undefined>>

\* Positions are counted from 0. Without a number the position is the latest one,
\* as if that had been typed. The strings of the latest one are not freed.
PopLatest(index) ==
    /\ Command(<<"pop", index>>)
    /\ Active
    /\ Step(index) = Len(current_procedure) - 1
    /\ current_procedure' = Front(current_procedure)
    /\ UNCHANGED <<heap, shift, undefined>>

\* Faulty: the position is taken as counted from 1 when freeing.
PopFromFreesPrevious(index) ==
    /\ Command(<<"pop", index>>)
    /\ Active
    /\ Step(index) < Len(current_procedure) - 1
    /\ Free(<<current_procedure[IF Step(index) = 0 THEN 1 ELSE Step(index)]>>)
    /\ shift' = Step(index) + 1
    /\ UNCHANGED <<current_procedure, undefined>>

PopFrom(index) ==
    /\ Command(<<"pop", index>>)
    /\ Active
    /\ Step(index) < Len(current_procedure) - 1
    /\ Free(<<current_procedure[Step(index) + 1]>>)
    /\ shift' = Step(index) + 1
    /\ UNCHANGED <<current_procedure, undefined>>

\* The next instruction is copied over this one, whose strings are forgotten.
PopShift ==
    /\ shift # 0
    /\ shift < Len(current_procedure)
    /\ LET new == Copied(current_procedure[shift + 1])
       IN  /\ current_procedure' = [current_procedure EXCEPT ![shift] = new.procedure[1]]
           /\ heap' = With(heap, new.strings)
    /\ shift' = shift + 1
    /\ UNCHANGED <<asked, commands, undefined>>

PopEnds ==
    /\ shift # 0
    /\ shift = Len(current_procedure)
    /\ current_procedure' = Front(current_procedure)
    /\ shift' = 0
    /\ UNCHANGED <<heap, asked, commands, undefined>>

-----------------------------------------------------------------------------

Next ==
    /\ ~undefined
    /\ \/ New
       \/ \E line \in Lines : Add(line) \/ AddRefused(line)
       \/ \E text \in Stored : Pull(text) \/ PullFails(text)
       \/ \E index \in Indexes : PopLatest(index) \/ PopFrom(index)
       \/ PopShift
       \/ PopEnds

Spec == Init /\ [][Next]_vars

-----------------------------------------------------------------------------
(* Properties.                                                             *)

\* The strings of the active procedure. While an instruction is removed those
\* of the position about to be overwritten are freed already or moved.
Places ==
    IF ~Active THEN {}
    ELSE UNION {{<<k, f>> : f \in Strings(DOMAIN current_procedure[k].arg)} :
                k \in DOMAIN current_procedure \ {shift}}
Address(place) == current_procedure[place[1]].arg[place[2]]

TypeOK ==
    /\ Active => Len(current_procedure) <= MAX_INSTRUCTIONS
    /\ Active => \A k \in DOMAIN current_procedure : current_procedure[k].type \in Types
    /\ shift \in 0 .. MAX_INSTRUCTIONS
    /\ shift # 0 => Active /\ shift <= Len(current_procedure)
    /\ commands \in 0 .. MaxCommands

\* No string of the active procedure was freed and none has two owners, whatever
\* is entered, removed, pulled and started anew, and in whatever order: a string
\* shared by two instructions would be freed twice with the procedure.
SoleOwner ==
    /\ \A p, q \in Places : Address(p) = Address(q) => p = q
    /\ \A p \in Places : Address(p) \in DOMAIN heap

\* Entering an instruction, starting anew and pulling lose no string; the code
\* does lose some when an instruction is removed (also those of the instructions
\* behind it, and line 354 means to free them) or refused.
Lost == DOMAIN heap \ {Address(p) : p \in Places}
OnlyPopsAndRefusalsLose ==
    [][shift' = shift /\ current_procedure' # current_procedure
        /\ asked'[1] # "pop"
            => Lost' \subseteq Lost]_vars

\* Does parsing a line give an instruction that the line may stand for?
MeansExactly ==
    \A line \in Lines : Parses(line) => line \in DOMAIN Means /\ Instruction(line) \in Means[line]

\* The active procedure is what the user edited: each command has its effect on
\* the instruction it names and on no other (the sequence of the tests in
\* proc_pop, the loop behind them and the parsing of each command). That is so of
\* the numbers that fit a uint8_t. Beyond them README.md:22, "the instruction at the
\* specified index", is not what the code does: they may remove some instruction.
Edited ==
    IF ~Active THEN NONE
    ELSE IF shift = 0 THEN TextOf(current_procedure)
    ELSE TextOf([k \in 1 .. Len(current_procedure) - 1 |->
                    current_procedure[IF k < shift THEN k ELSE k + 1]])
Editor == INSTANCE ProcEditor WITH procedure <- Edited
ImplementsEditor == Editor!Spec
=============================================================================
