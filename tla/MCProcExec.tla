----------------------------- MODULE MCProcExec -----------------------------
(* All short well-formed procedures in two slots and the copy that runs, for TLC. *)
EXTENDS ProcExec

CONSTANTS RootLength, CalleeLength  \* bounds on the lengths of the procedures

RootAndSlots == {0, 1, 2}  \* 0 is the copy

RootProcs ==
    {p \in BoundedSeq({IfElse, Noop, Call(1)}, RootLength) : p # <<>> /\ WellFormed(p)}
CalleeProcs ==
    {p \in BoundedSeq({Op, IfElse, Call(1), Call(2)}, CalleeLength) : WellFormed(p)}

\* proc_runtime_run starts no empty procedure, and get_proc finds none; a called one
\* may have been deleted since it was analysed.
ShortPrograms == (0 :> RootProcs) @@ (1 :> CalleeProcs) @@ (2 :> {<<>>, <<Call(1)>>})
=============================================================================
