---------------------------- MODULE ProcAnalyze ----------------------------
(***************************************************************************)
(* proc_analyze and free_proc_analysis: before a procedure is executed a   *)
(* graph of analyses is built by following its calls through the store,    *)
(* and after its execution the graph, which may have cycles, is freed.     *)
(* The store belongs to the routers: a slot may be emptied at any moment.  *)
(***************************************************************************)
EXTENDS ProcProgram, FiniteSets

CONSTANT Root  \* the slot that is run; its procedure is a copy off the store

ASSUME AnalyzeAssumption == Root \in Slots /\ IsFiniteSet(Slots)

VARIABLES
    code,      \* the store: slot -> procedure, <<>> in an empty slot
    copy,      \* the detached procedure
    nodes,     \* the proc_analysis_t allocated so far; the first is the root's
    analyses,  \* config: slot -> its analysis, 0 when it is not analyzed
    calls,     \* active calls of proc_analyze or free_proc_analysis
    phase,     \* what the thread does with the graph
    failed,    \* analyses whose proc_analyze returned -1
    freed,     \* analyses given back to the allocator
    stale      \* analyses whose mark was read after that

vars == <<code, copy, nodes, analyses, calls, phase, failed, freed, stale>>
heapVars == <<freed, stale>>

NewNode(slot) == [slot |-> slot, procedure_slots |-> <<>>, sub_analyses |-> <<>>, mark |-> FALSE]
\* Faulty: the first instruction is missed by one.
EnteredEarly(n) == [node |-> n, i |-> 0]

Entered(n) == [node |-> n, i |-> 1]

Analyses ==
    [slot : Slots, procedure_slots : Seq(Slots), sub_analyses : Seq(Nat), mark : BOOLEAN]

TypeOK ==
    /\ code \in [Slots -> Seq(Instructions)]
    /\ copy \in Seq(Instructions)
    /\ nodes \in Seq(Analyses)
    /\ \A n \in 1 .. Len(nodes) : \A j \in 1 .. Len(nodes[n].sub_analyses) :
            nodes[n].sub_analyses[j] \in 1 .. Len(nodes)
    /\ analyses \in [Slots -> 0 .. Len(nodes)]
    /\ calls \in Seq([node : Nat, i : Nat \ {0}])
    /\ \A k \in 1 .. Len(calls) : calls[k].node \in 1 .. Len(nodes)
    /\ phase \in {"analyze", "error", "exec", "free", "done", "undefined"}
    /\ failed \cup freed \cup stale \subseteq 1 .. Len(nodes)

Top == calls[Len(calls)]
Node == nodes[Top.node]
\* The procedure of an analysis: the copy, or a pointer into the store.
Proc(n) == IF n = 1 THEN copy ELSE code[nodes[n].slot]
NextInstruction == calls' = [calls EXCEPT ![Len(calls)].i = @ + 1]

Init ==
    /\ Stored(code)
    /\ code[Root] # <<>>
    /\ copy = code[Root]
    /\ nodes = <<NewNode(Root)>>
    /\ analyses = [slot \in Slots |-> 0]
    /\ calls = <<Entered(1)>>
    /\ phase = "analyze"
    /\ failed = {}
    /\ freed = {}
    /\ stale = {}

-----------------------------------------------------------------------------
(* proc_analyze.                                                           *)

AtInstruction(isCall) ==
    /\ phase = "analyze"
    /\ Top.i <= Len(Proc(Top.node))
    /\ (Proc(Top.node)[Top.i].type = "call") = isCall

Callee == Proc(Top.node)[Top.i].slot

AnalyzeSimple ==
    /\ AtInstruction(FALSE)
    /\ NextInstruction
    /\ UNCHANGED <<code, copy, nodes, analyses, phase, failed, heapVars>>

\* Faulty: the slot is not listed again.
AnalyzeKnownCallUnlisted ==
    /\ AtInstruction(TRUE)
    /\ code[Callee] # <<>>
    /\ analyses[Callee] # 0
    /\ nodes' = [nodes EXCEPT ![Top.node].sub_analyses = Append(@, analyses[Callee])]
    /\ NextInstruction
    /\ UNCHANGED <<code, copy, analyses, phase, failed, heapVars>>

\* The callee was analyzed before, or is being analyzed further up.
AnalyzeKnownCall ==
    /\ AtInstruction(TRUE)
    /\ code[Callee] # <<>>
    /\ analyses[Callee] # 0
    /\ nodes' = [nodes EXCEPT ![Top.node].procedure_slots = Append(@, Callee),
                              ![Top.node].sub_analyses = Append(@, analyses[Callee])]
    /\ NextInstruction
    /\ UNCHANGED <<code, copy, analyses, phase, failed, heapVars>>

\* Faulty: the callee is marked as analyzed only when its analysis is done.
AnalyzeNewCallUnmarked ==
    /\ AtInstruction(TRUE)
    /\ code[Callee] # <<>>
    /\ analyses[Callee] = 0
    /\ nodes' = Append([nodes EXCEPT ![Top.node].procedure_slots = Append(@, Callee)],
                       NewNode(Callee))
    /\ calls' = Append(calls, Entered(Len(nodes) + 1))
    /\ UNCHANGED <<code, copy, analyses, phase, failed, heapVars>>

AnalyzeNewCall ==
    /\ AtInstruction(TRUE)
    /\ code[Callee] # <<>>
    /\ analyses[Callee] = 0
    /\ nodes' = Append([nodes EXCEPT ![Top.node].procedure_slots = Append(@, Callee)],
                       NewNode(Callee))
    /\ analyses' = [analyses EXCEPT ![Callee] = Len(nodes) + 1]
    /\ calls' = Append(calls, Entered(Len(nodes) + 1))
    /\ UNCHANGED <<code, copy, phase, failed, heapVars>>

\* proc_analyze returns. Whatever a nested one returned, its caller takes the
\* analysis and goes on; the thread stops when the first one fails.
AnalyzeReturns(ok) ==
    LET callers == Front(calls) IN
    IF callers = <<>>
    THEN /\ phase' = IF ok THEN "exec" ELSE "error"
         /\ calls' = <<>>
    ELSE /\ calls' = [callers EXCEPT ![Len(callers)].i = @ + 1]
         /\ UNCHANGED phase

\* Faulty: the caller goes on without the analysis.
AdoptedNever(table) == table

Adopted(table) ==
    IF Len(calls) = 1 THEN table
    ELSE [table EXCEPT ![calls[Len(calls) - 1].node].sub_analyses = Append(@, Top.node)]

AnalyzeEnds ==
    /\ phase = "analyze"
    /\ Top.i > Len(Proc(Top.node))
    /\ AnalyzeReturns(TRUE)
    /\ nodes' = Adopted(nodes)
    /\ UNCHANGED <<code, copy, analyses, failed, heapVars>>

\* The called slot is empty, or there is no memory for its analysis: the slot
\* is listed already, the sub-analysis is not. (A realloc that fails is left
\* out: the code loses the old block.)
AnalyzeCallFails ==
    /\ AtInstruction(TRUE)
    /\ code[Callee] = <<>> \/ analyses[Callee] = 0
    /\ nodes' = Adopted([nodes EXCEPT ![Top.node].procedure_slots = Append(@, Callee)])
    /\ failed' = failed \cup {Top.node}
    /\ AnalyzeReturns(FALSE)
    /\ UNCHANGED <<code, copy, analyses, heapVars>>

\* No memory for the instruction analyses.
AnalyzeNoMemory ==
    /\ phase = "analyze"
    /\ Top.i = 1
    /\ nodes' = Adopted(nodes)
    /\ failed' = failed \cup {Top.node}
    /\ AnalyzeReturns(FALSE)
    /\ UNCHANGED <<code, copy, analyses, heapVars>>

-----------------------------------------------------------------------------
(* The execution uses the graph; then free_proc_analysis(root).            *)

\* The sub-analysis proc_runtime_call takes for a slot: that of the first entry.
Lookup(n, slot) ==
    LET entries == {j \in 1 .. Len(nodes[n].procedure_slots) : nodes[n].procedure_slots[j] = slot}
        first == CHOOSE j \in entries : \A k \in entries : j <= k
    IN  IF entries # {} /\ first <= Len(nodes[n].sub_analyses)
        THEN nodes[n].sub_analyses[first] ELSE 0

Mark(n) == nodes' = [nodes EXCEPT ![n].mark = TRUE]

ExecReturns ==
    /\ phase = "exec"
    /\ phase' = "free"
    /\ calls' = <<Entered(1)>>
    /\ Mark(1)
    /\ UNCHANGED <<code, copy, analyses, failed, heapVars>>

Visiting == phase = "free" /\ calls # <<>> /\ Top.i <= Len(Node.sub_analyses)
Visited == Node.sub_analyses[Top.i]

\* The memory of a freed analysis may still hold the mark, or anything else.
ReadMark == stale' = stale \cup ({Visited} \cap freed)

\* Faulty: the caller looks at the same sub-analysis again.
FreeSkipsAgain ==
    /\ Visiting
    /\ Visited = Top.node \/ nodes[Visited].mark
    /\ ReadMark
    /\ UNCHANGED <<code, copy, nodes, analyses, calls, phase, failed, freed>>

FreeSkips ==
    /\ Visiting
    /\ Visited = Top.node \/ nodes[Visited].mark
    /\ ReadMark
    /\ NextInstruction
    /\ UNCHANGED <<code, copy, nodes, analyses, phase, failed, freed>>

FreeDescends ==
    /\ Visiting
    /\ Visited # Top.node
    /\ ~nodes[Visited].mark
    /\ Mark(Visited)
    /\ calls' = Append([calls EXCEPT ![Len(calls)].i = @ + 1], Entered(Visited))
    /\ UNCHANGED <<code, copy, analyses, phase, failed, heapVars>>

\* It is freed a second time, which may do anything.
FreeDescendsFreed ==
    /\ Visiting
    /\ Visited \in freed
    /\ ReadMark
    /\ phase' = "undefined"
    /\ UNCHANGED <<code, copy, nodes, analyses, calls, failed, freed>>

FreeNode ==
    /\ phase = "free"
    /\ Top.i > Len(Node.sub_analyses)
    /\ freed' = freed \cup {Top.node}
    /\ calls' = Front(calls)
    /\ phase' = IF Len(calls) = 1 THEN "done" ELSE "free"
    /\ UNCHANGED <<code, copy, nodes, analyses, failed, stale>>

-----------------------------------------------------------------------------
\* A router serves a delete request. (A later push to the slot, behind the back
\* of a graph that still points to it, is not modelled.)
DeleteProc(slot) ==
    /\ phase = "analyze"
    /\ code[slot] # <<>>
    /\ code' = [code EXCEPT ![slot] = <<>>]
    /\ UNCHANGED <<copy, nodes, analyses, calls, phase, failed, heapVars>>

Step ==
    \/ AnalyzeSimple \/ AnalyzeKnownCall \/ AnalyzeNewCall
    \/ AnalyzeEnds \/ AnalyzeCallFails \/ AnalyzeNoMemory
    \/ ExecReturns \/ FreeSkips \/ FreeDescends \/ FreeDescendsFreed \/ FreeNode

Next == Step \/ \E slot \in Slots : DeleteProc(slot)

\* The thread is scheduled; the execution of a procedure is assumed to end.
Spec == Init /\ [][Next]_vars
FairSpec == Spec /\ WF_vars(Step)

-----------------------------------------------------------------------------
(* Properties.                                                             *)

\* However the procedures call each other, also in cycles, a slot is analyzed
\* once: the recursion is bounded by the number of slots.
AnalyzedOnce ==
    /\ \A m, n \in 2 .. Len(nodes) : nodes[m].slot = nodes[n].slot => m = n
    /\ phase = "analyze" => Len(calls) <= Cardinality(Slots) + 1

\* When every analysis succeeded the executor finds the analysis of each slot it
\* may call under the slot's first entry, though entries are added in two
\* places with a recursion in between.
CallsResolve ==
    phase = "exec" /\ failed = {} =>
        \A n \in 1 .. Len(nodes) : \A i \in 1 .. Len(Proc(n)) :
            Proc(n)[i].type = "call" =>
                LET sub == Lookup(n, Proc(n)[i].slot)
                IN  sub # 0 /\ nodes[sub].slot = Proc(n)[i].slot

\* Freeing the graph, with its cycles and its analyses shared by several
\* callers, gives back every analysis, also those that are incomplete.
FreedExactly == phase = "done" => freed = 1 .. Len(nodes)

\* The analysis and the freeing end for every call graph.
Terminates == <>(phase \in {"done", "error", "undefined"})

-----------------------------------------------------------------------------
(* What the documentation says and the code does not do.                   *)

\* proc_analyze.c:6, "Free all memory associated with a proc_analysis_t.": it
\* does that without reading what was freed. Violated when two calls share an
\* analysis: line 13 reads the mark of the second one.
NoFreedMarkRead == stale = {}
=============================================================================
