------------------------------ MODULE ProcHeap ------------------------------
(***************************************************************************)
(* The strings of procedures in memory. A procedure is a sequence of       *)
(* instructions; in memory an instruction holds the addresses of its       *)
(* strings, in a text the strings themselves.                              *)
(***************************************************************************)
EXTENDS ProcPack

VARIABLE heap  \* address of a string -> the string

\* An instruction with its strings in the place of their addresses.
TextIn(h, instruction) ==
    [instruction EXCEPT !.arg = [f \in DOMAIN @ |-> IF f \in Strings({f}) THEN h[@[f]] ELSE @[f]]]
Text(instruction) == TextIn(heap, instruction)
TextOf(procedure) == [k \in DOMAIN procedure |-> Text(procedure[k])]

\* proc_strdup of every string of some instructions, as one step. What is freed
\* can be allocated again.
Unused == CHOOSE n \in 1 .. Cardinality(DOMAIN heap) + 1 : \A a \in DOMAIN heap : a[1] # n
Duplicate(text) ==
    [procedure |-> [k \in DOMAIN text |-> [text[k] EXCEPT !.arg =
                        [f \in DOMAIN @ |-> IF f \in Strings({f}) THEN <<Unused, k, f>> ELSE @[f]]]],
     strings |-> [a \in UNION {{<<Unused, k, f>> : f \in Strings(DOMAIN text[k].arg)} : k \in DOMAIN text} |->
                        text[a[2]].arg[a[3]]]]
With(h, strings) ==
    [a \in DOMAIN h \cup DOMAIN strings |-> IF a \in DOMAIN strings THEN strings[a] ELSE h[a]]

\* proc_copy_instruction: only the fields it copies arrive.
Copied(instruction) ==
    Duplicate(<<[Text(instruction) EXCEPT !.arg = Restrict(@, CopiedFields(instruction.type))]>>)

Freed(procedure) ==
    UNION {{procedure[k].arg[f] : f \in FreedFields(procedure[k].type)} : k \in DOMAIN procedure}
Free(procedure) == heap' = Restrict(heap, DOMAIN heap \ Freed(procedure))
=============================================================================
