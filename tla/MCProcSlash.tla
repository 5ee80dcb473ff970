---------------------------- MODULE MCProcSlash ----------------------------
(* A small instance of ProcSlash for TLC: a command of each kind, three that are *)
(* refused, and a called slot and positions beyond the range of a byte.          *)
EXTENDS ProcSlash, TLC

StringLength == [a |-> 1, b |-> 1, c |-> 1]

Line(type, words) == [type |-> type, words |-> words, node |-> 1]
SomeLines ==
    {Line("ifelse", <<"a", "<=", "b">>), Line("noop", <<>>), Line("set", <<"a", "b">>),
     Line("binop", <<"a", "+", "b", "c">>), Line("call", <<1>>), Line("call", <<BYTE + 1>>),
     Line("unop", <<"a", "+", "b">>), Line("block", <<"a", "==">>), Line("set", <<>>)}

Typing(type, node, arg) == [type |-> type, node |-> node, arg |-> arg]
Calling(slot) == Typing("call", 1, [procedure_slot |-> slot])
\* A number that is no slot stands for none in particular.
SomeMeanings ==
    (Line("ifelse", <<"a", "<=", "b">>)
            :> {Typing("ifelse", 1, [param_a |-> "a", op |-> "<=", param_b |-> "b"])})
    @@ (Line("noop", <<>>) :> {Typing("noop", 0, <<>>)})
    @@ (Line("set", <<"a", "b">>) :> {Typing("set", 1, [param |-> "a", value |-> "b"])})
    @@ (Line("binop", <<"a", "+", "b", "c">>)
            :> {Typing("binop", 1, [param_a |-> "a", op |-> "+", param_b |-> "b", result |-> "c"])})
    @@ (Line("call", <<1>>) :> {Calling(1)})
    @@ (Line("call", <<BYTE + 1>>) :> {Calling(slot) : slot \in 0 .. BYTE - 1})

SomeIndexes == 0 .. 2 * BYTE

ASSUME MeansExactly

SomeStored ==
    {<<Typing("unop", 2, [param |-> "c", op |-> "++", result |-> "a"]),
       Typing("block", 2, [param_a |-> "b", op |-> "!=", param_b |-> "c"])>>}
=============================================================================
