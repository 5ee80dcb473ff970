---------------------------- MODULE MCProcHandlers ----------------------------
(* Two threads, parameters of two nodes and a few instructions, for TLC. *)
EXTENDS ProcHandlers, TLC

CONSTANTS t1, t2

TwoThreads == {t1, t2}

\* Types in scale: an operand is twice as wide as the widest integer.
FewBits == ("UINT8" :> 2) @@ ("INT8" :> 2) @@ ("UINT16" :> 3) @@ ("FLOAT" :> 1) @@ ("DATA" :> 1)

Writable(type) == [type |-> type, readonly |-> FALSE]
SomeParameters ==
    (<<"x", 0>> :> Writable("UINT8")) @@ (<<"x", 1>> :> Writable("UINT8"))
    @@ (<<"y", 0>> :> Writable("INT8")) @@ (<<"w", 0>> :> Writable("UINT16"))
    @@ (<<"f", 0>> :> [type |-> "FLOAT", readonly |-> TRUE])
    @@ (<<"d", 0>> :> Writable("DATA"))

InitialValue == {1}

Assign(result, value, node) == [type |-> "set", result |-> result, value |-> value, node |-> node]
UnaryOf(a, op, result, node) ==
    [type |-> "unop", a |-> a, op |-> op, result |-> result, node |-> node]
BinaryOf(a, op, b, result, node) ==
    [type |-> "binop", a |-> a, op |-> op, b |-> b, result |-> result, node |-> node]
Comparison(type, a, op, b, node) ==
    [type |-> type, a |-> a, op |-> op, b |-> b, node |-> node]

\* One thread does a bit of everything, the other one works on what they share.
SomeInstructions ==
    (t1 :> {UnaryOf("x", "++", "x", 1), UnaryOf("x", "rmt", "x", 1), UnaryOf("y", "-", "w", 0),
            UnaryOf("w", "!", "y", 0), UnaryOf("z", "idt", "x", 1),
            UnaryOf("f", "--", "x", 0), Assign("f", 1, 0),
            BinaryOf("x", "-", "x", "x", 1), BinaryOf("w", "*", "x", "x", 2)}
           \cup {BinaryOf("y", op, "y", "w", 0) : op \in {"/", "%", "<<", ">>", "|"}}
           \cup {BinaryOf("w", op, "x", "w", 0) : op \in {"+", "&", "^"}}
           \cup {Comparison("ifelse", "x", "<", "w", 0), Comparison("ifelse", "d", "==", "x", 0),
                 Comparison("ifelse", "x", "==", "d", 0),
                 Comparison("ifelse", "x", "==", "y", 0), Comparison("block", "x", "!=", "x", 1),
                 Comparison("block", "w", ">", "x", 0), Comparison("block", "y", ">=", "x", 0)})
    @@ (t2 :> {Assign("x", 2, 1), UnaryOf("x", "--", "x", 1)})
=============================================================================
