------------------------ MODULE ProcAnalyze_proofs ------------------------
(***************************************************************************)
(* Machine-checked proofs about ProcAnalyze: for any number of slots and   *)
(* any procedures in them, of any length, with any calls between them.     *)
(***************************************************************************)
EXTENDS ProcAnalyze, FiniteSetTheorems, WellFoundedInduction, TLAPS

Calls == [node : Nat, i : Nat \ {0}]

-----------------------------------------------------------------------------
(* What the assignments to the graph and to the stack do.                  *)

\* The tables s and t agree on slots and marks.
SameNodes(s, t) ==
    /\ t \in Seq(Analyses)
    /\ Len(t) = Len(s)
    /\ \A k \in 1 .. Len(s) : t[k].slot = s[k].slot /\ t[k].mark = s[k].mark

\* Nothing is added to the lists of sub-analyses; v is added to that of n.
SameSubs(s, t) ==
    SameNodes(s, t) /\ \A k \in 1 .. Len(s) : t[k].sub_analyses = s[k].sub_analyses
AddsSub(s, t, n, v) ==
    /\ SameNodes(s, t)
    /\ t[n].sub_analyses = Append(s[n].sub_analyses, v)
    /\ \A k \in 1 .. Len(s) : k # n => t[k].sub_analyses = s[k].sub_analyses

\* One element of a sequence is replaced.
LEMMA ReplaceElement ==
  ASSUME NEW S, NEW s \in Seq(S), NEW n \in 1 .. Len(s), NEW a \in S,
         NEW t, t = [s EXCEPT ![n] = a]
  PROVE  /\ t \in Seq(S)
         /\ Len(t) = Len(s)
         /\ \A k \in 1 .. Len(s) : t[k] = IF k = n THEN a ELSE s[k]
  OBVIOUS

\* A call but the first has one below it.
LEMMA BelowTop ==
  ASSUME NEW k \in Nat \ {0}, k # 1
  PROVE  k - 1 \in 1 .. k
  OBVIOUS

\* A call that goes on to the next instruction.
LEMMA NextCall ==
  ASSUME NEW x \in Calls, NEW f, f = [x EXCEPT !.i = @ + 1]
  PROVE  f \in Calls /\ f.node = x.node /\ f.i = x.i + 1
  BY DEF Calls

\* Listing a slot changes no list of sub-analyses.
LEMMA ListSlot ==
  ASSUME NEW s \in Seq(Analyses), NEW n \in 1 .. Len(s), NEW slot \in Slots
  PROVE  SameSubs(s, [s EXCEPT ![n].procedure_slots = Append(@, slot)])
<1> DEFINE a == [s[n] EXCEPT !.procedure_slots = Append(@, slot)]
           t == [s EXCEPT ![n] = a]
<1>1. s[n] \in Analyses
  OBVIOUS
<1>2. s[n] \in Analyses /\ Append(s[n].procedure_slots, slot) \in Seq(Slots)
  BY <1>1 DEF Analyses
<1>3. /\ a \in Analyses /\ a.slot = s[n].slot /\ a.mark = s[n].mark
      /\ a.sub_analyses = s[n].sub_analyses
  BY <1>2 DEF Analyses
<1>4. [s EXCEPT ![n].procedure_slots = Append(@, slot)] = t
  OBVIOUS
<1>5. ASSUME NEW b \in Analyses, NEW u, u = [s EXCEPT ![n] = b]
      PROVE  /\ u \in Seq(Analyses) /\ Len(u) = Len(s)
             /\ \A k \in 1 .. Len(s) : u[k] = IF k = n THEN b ELSE s[k]
  BY <1>5, ReplaceElement
<1>6. /\ t \in Seq(Analyses) /\ Len(t) = Len(s)
      /\ \A k \in 1 .. Len(s) : t[k] = IF k = n THEN a ELSE s[k]
  BY <1>3, <1>5
<1> HIDE DEF a, t
<1>7. SameSubs(s, t)
  BY <1>3, <1>6 DEF SameSubs, SameNodes
<1> QED BY <1>4, <1>7

\* Taking over a sub-analysis.
LEMMA ListSub ==
  ASSUME NEW s \in Seq(Analyses), NEW n \in 1 .. Len(s), NEW v \in Nat
  PROVE  AddsSub(s, [s EXCEPT ![n].sub_analyses = Append(@, v)], n, v)
<1> DEFINE a == [s[n] EXCEPT !.sub_analyses = Append(@, v)]
           t == [s EXCEPT ![n] = a]
<1>1. s[n] \in Analyses
  OBVIOUS
<1>2. s[n] \in Analyses /\ Append(s[n].sub_analyses, v) \in Seq(Nat)
  BY <1>1 DEF Analyses
<1>3. /\ a \in Analyses /\ a.slot = s[n].slot /\ a.mark = s[n].mark
      /\ a.sub_analyses = Append(s[n].sub_analyses, v)
  BY <1>2 DEF Analyses
<1>4. [s EXCEPT ![n].sub_analyses = Append(@, v)] = t
  OBVIOUS
<1>5. ASSUME NEW b \in Analyses, NEW u, u = [s EXCEPT ![n] = b]
      PROVE  /\ u \in Seq(Analyses) /\ Len(u) = Len(s)
             /\ \A k \in 1 .. Len(s) : u[k] = IF k = n THEN b ELSE s[k]
  BY <1>5, ReplaceElement
<1>6. /\ t \in Seq(Analyses) /\ Len(t) = Len(s)
      /\ \A k \in 1 .. Len(s) : t[k] = IF k = n THEN a ELSE s[k]
  BY <1>3, <1>5
<1> HIDE DEF a, t
<1>7. AddsSub(s, t, n, v)
  BY <1>3, <1>6 DEF AddsSub, SameNodes
<1> QED BY <1>4, <1>7

\* Marking an analysis.
LEMMA MarkEffect ==
  ASSUME nodes \in Seq(Analyses), NEW n \in 1 .. Len(nodes), Mark(n)
  PROVE  /\ nodes' \in Seq(Analyses)
         /\ Len(nodes') = Len(nodes)
         /\ \A k \in 1 .. Len(nodes) :
                /\ nodes'[k].slot = nodes[k].slot
                /\ nodes'[k].sub_analyses = nodes[k].sub_analyses
                /\ nodes'[k].mark = (k = n \/ nodes[k].mark)
<1> DEFINE a == [nodes[n] EXCEPT !.mark = TRUE]
<1>1. nodes[n] \in Analyses
  OBVIOUS
<1>2. a \in Analyses /\ a.slot = nodes[n].slot /\ a.mark = TRUE /\ a.sub_analyses = nodes[n].sub_analyses
  BY <1>1 DEF Analyses
<1>3. nodes' = [nodes EXCEPT ![n] = a]
  BY DEF Mark
<1> HIDE DEF a
<1>4. /\ nodes' \in Seq(Analyses) /\ Len(nodes') = Len(nodes)
      /\ \A k \in 1 .. Len(nodes) : nodes'[k] = IF k = n THEN a ELSE nodes[k]
  BY <1>2, <1>3, ReplaceElement
<1>5. \A k \in 1 .. Len(nodes) : nodes[k] \in Analyses
  OBVIOUS
<1>6. \A k \in 1 .. Len(nodes) : nodes[k].mark \in BOOLEAN
  BY <1>5 DEF Analyses
<1> QED BY <1>2, <1>4, <1>6

\* The call on top goes on to its next instruction.
LEMMA NextInstructionEffect ==
  ASSUME calls \in Seq(Calls), calls # <<>>, NextInstruction
  PROVE  /\ calls' \in Seq(Calls)
         /\ Len(calls') = Len(calls)
         /\ \A k \in 1 .. Len(calls) : calls'[k].node = calls[k].node
         /\ \A k \in 1 .. Len(calls) - 1 : calls'[k].i = calls[k].i
         /\ calls'[Len(calls)].i = calls[Len(calls)].i + 1
<1> DEFINE n == Len(calls)
           f == [calls[n] EXCEPT !.i = @ + 1]
<1>1. n \in 1 .. Len(calls) /\ calls[n] \in Calls
  OBVIOUS
<1>2. f \in Calls /\ f.node = calls[n].node /\ f.i = calls[n].i + 1
  BY <1>1 DEF Calls
<1>3. calls' = [calls EXCEPT ![n] = f]
  BY DEF NextInstruction
<1> HIDE DEF f
<1>4. /\ calls' \in Seq(Calls) /\ Len(calls') = Len(calls)
      /\ \A k \in 1 .. Len(calls) : calls'[k] = IF k = n THEN f ELSE calls[k]
  BY <1>1, <1>2, <1>3, ReplaceElement
<1> QED BY <1>1, <1>2, <1>4

-----------------------------------------------------------------------------
(* The steps of proc_analyze, in three kinds.                              *)

\* It goes on to the next instruction.
GoesOn ==
    /\ UNCHANGED <<code, copy, analyses, phase, failed, freed, stale>>
    /\ calls' \in Seq(Calls) /\ Len(calls') = Len(calls)
    /\ \A k \in 1 .. Len(calls) : calls'[k].node = calls[k].node
    /\ \/ SameSubs(nodes, nodes')
       \/ \E n \in 1 .. Len(nodes), v \in 1 .. Len(nodes) : AddsSub(nodes, nodes', n, v)

\* It calls itself for a slot that was not analyzed before.
Nests ==
    /\ UNCHANGED <<code, copy, phase, failed, freed, stale>>
    /\ nodes' \in Seq(Analyses) /\ Len(nodes') = Len(nodes) + 1
    /\ \A k \in 1 .. Len(nodes) :
        /\ nodes'[k].slot = nodes[k].slot /\ nodes'[k].mark = nodes[k].mark
        /\ nodes'[k].sub_analyses = nodes[k].sub_analyses
    /\ \E slot \in Slots :
        /\ analyses[slot] = 0 /\ analyses' = [analyses EXCEPT ![slot] = Len(nodes) + 1]
        /\ nodes'[Len(nodes) + 1] = NewNode(slot)
    /\ calls' \in Seq(Calls) /\ Len(calls') = Len(calls) + 1
    /\ \A k \in 1 .. Len(calls) : calls'[k].node = calls[k].node
    /\ calls'[Len(calls) + 1].node = Len(nodes) + 1

\* It returns, to itself or to the thread.
Returns ==
    /\ UNCHANGED <<code, copy, analyses, freed, stale>>
    /\ failed' \subseteq failed \cup {Top.node}
    /\ calls' \in Seq(Calls) /\ Len(calls') = Len(calls) - 1
    /\ \A k \in 1 .. Len(calls) - 1 : calls'[k].node = calls[k].node
    /\ IF Len(calls) = 1 THEN phase' \in {"exec", "error"} /\ SameSubs(nodes, nodes')
       ELSE phase' = phase /\ AddsSub(nodes, nodes', calls[Len(calls) - 1].node, Top.node)

\* While a procedure is analyzed there is a call that does it.
Working == phase \in {"analyze", "free"} => calls # <<>>

LEMMA TopType ==
  ASSUME TypeOK, calls # <<>>
  PROVE  Len(calls) \in Nat \ {0} /\ Top \in Calls /\ Top.node \in 1 .. Len(nodes)
<1>1. calls \in Seq(Calls) /\ Len(calls) \in 1 .. Len(calls)
  BY DEF TypeOK, Calls
<1> QED BY <1>1 DEF TypeOK, Top

\* The slot of a call is one in use.
LEMMA CalleeType ==
  ASSUME TypeOK, Working, AtInstruction(TRUE)
  PROVE  Callee \in Slots
<1>1. calls # <<>> /\ Top.node \in 1 .. Len(nodes) /\ Top.i \in Nat \ {0}
  BY TopType DEF Working, AtInstruction, Calls
<1>2. nodes[Top.node] \in Analyses
  BY <1>1 DEF TypeOK
<1>3. nodes[Top.node].slot \in Slots
  BY <1>2 DEF Analyses
<1>4. Proc(Top.node) \in Seq(Instructions)
  BY <1>3 DEF TypeOK, Proc
<1>5. Top.i \in 1 .. Len(Proc(Top.node)) /\ Proc(Top.node)[Top.i].type = "call"
  BY <1>1, <1>4 DEF AtInstruction
<1>6. \A x \in Instructions : x.type = "call" => x.slot \in Slots
  BY DEF Instructions, Op, Block, IfElse, Noop, Call
<1> QED BY <1>4, <1>5, <1>6 DEF Callee

\* A new call of proc_analyze.
LEMMA EnteredType ==
  ASSUME NEW n \in Nat
  PROVE  Entered(n) \in Calls /\ Entered(n).node = n /\ Entered(n).i = 1
  BY DEF Entered, Calls

\* What a return does to the calls.
LEMMA ReturnEffect ==
  ASSUME TypeOK, calls # <<>>, NEW ok, AnalyzeReturns(ok)
  PROVE  /\ calls' \in Seq(Calls) /\ Len(calls') = Len(calls) - 1
         /\ \A k \in 1 .. Len(calls) - 1 : calls'[k].node = calls[k].node
         /\ IF Len(calls) = 1 THEN phase' \in {"exec", "error"} ELSE phase' = phase
<1> DEFINE callers == Front(calls)
           n == Len(calls)
<1>1. calls \in Seq(Calls) /\ n \in Nat \ {0}
  BY DEF TypeOK, Calls
<1>2. callers = [k \in 1 .. n - 1 |-> calls[k]]
  BY <1>1 DEF Front
<1>3. callers \in Seq(Calls) /\ Len(callers) = n - 1 /\ \A k \in 1 .. n - 1 : callers[k] = calls[k]
  BY <1>1, <1>2
<1>4. CASE n = 1
  BY <1>1, <1>3, <1>4 DEF AnalyzeReturns
<1>5. CASE n # 1
  <2> DEFINE f == [callers[n - 1] EXCEPT !.i = @ + 1]
  <2> HIDE DEF callers, n
  <2>1. n - 1 \in 1 .. Len(callers) /\ callers[n - 1] \in Calls /\ callers # <<>>
    BY <1>1, <1>3, <1>5
  <2>2. f \in Calls /\ f.node = callers[n - 1].node
    BY <2>1 DEF Calls
  <2>3. calls' = [callers EXCEPT ![n - 1] = f] /\ phase' = phase
    BY <1>3, <2>1 DEF AnalyzeReturns, callers
  <2> HIDE DEF f
  <2>4. /\ calls' \in Seq(Calls) /\ Len(calls') = Len(callers)
        /\ \A k \in 1 .. Len(callers) : calls'[k] = IF k = n - 1 THEN f ELSE callers[k]
    BY <1>3, <2>1, <2>2, <2>3, ReplaceElement
  <2>5. \A k \in 1 .. n - 1 : calls'[k].node = calls[k].node
    BY <1>3, <2>2, <2>4
  <2> QED BY <1>3, <1>5, <2>3, <2>4, <2>5 DEF n
<1> QED BY <1>4, <1>5

\* The caller takes over the analysis of the call that returns.
LEMMA AdoptedEffect ==
  ASSUME TypeOK, calls # <<>>, NEW s, SameSubs(nodes, s), nodes' = Adopted(s)
  PROVE  IF Len(calls) = 1 THEN SameSubs(nodes, nodes')
         ELSE AddsSub(nodes, nodes', calls[Len(calls) - 1].node, Top.node)
<1>1. CASE Len(calls) = 1
  BY <1>1 DEF Adopted
<1>2. CASE Len(calls) # 1
  <2> DEFINE n == calls[Len(calls) - 1].node
             v == Top.node
  <2>1. Len(calls) \in Nat \ {0} /\ v \in 1 .. Len(nodes)
    BY TopType
  <2>2. Len(calls) - 1 \in 1 .. Len(calls)
    BY <1>2, <2>1, BelowTop
  <2>0. \A k \in 1 .. Len(calls) : calls[k].node \in 1 .. Len(nodes)
    BY DEF TypeOK
  <2>3. n \in 1 .. Len(nodes) /\ v \in Nat
    BY <2>0, <2>1, <2>2
  <2>4. s \in Seq(Analyses) /\ Len(s) = Len(nodes)
    BY DEF SameSubs, SameNodes
  <2>5. nodes' = [s EXCEPT ![n].sub_analyses = Append(@, v)]
    BY <1>2 DEF Adopted
  <2> HIDE DEF n, v
  <2>6. AddsSub(s, [s EXCEPT ![n].sub_analyses = Append(@, v)], n, v)
    BY <2>3, <2>4, ListSub
  <2>7. AddsSub(s, nodes', n, v)
    BY <2>5, <2>6
  <2>8. AddsSub(nodes, nodes', n, v)
    BY <2>3, <2>4, <2>7 DEF AddsSub, SameSubs, SameNodes
  <2> QED BY <1>2, <2>8 DEF n, v
<1> QED BY <1>1, <1>2

\* What each action of the analysis does.
LEMMA SimpleEffect == TypeOK /\ Working /\ AnalyzeSimple => GoesOn
<1> SUFFICES ASSUME TypeOK, Working, AnalyzeSimple PROVE GoesOn
  OBVIOUS
<1>1. calls # <<>> /\ NextInstruction /\ UNCHANGED <<code, copy, nodes, analyses, phase, failed, freed, stale>>
  BY DEF Working, AnalyzeSimple, AtInstruction, heapVars
<1>2. calls \in Seq(Calls) /\ SameSubs(nodes, nodes')
  BY <1>1 DEF TypeOK, Calls, SameSubs, SameNodes
<1> QED BY <1>1, <1>2, NextInstructionEffect DEF GoesOn

LEMMA KnownCallEffect == TypeOK /\ Working /\ AnalyzeKnownCall => GoesOn
<1> SUFFICES ASSUME TypeOK, Working, AnalyzeKnownCall PROVE GoesOn
  OBVIOUS
<1> DEFINE n == Top.node
           v == analyses[Callee]
           slot == Callee
           s == [nodes EXCEPT ![n].procedure_slots = Append(@, slot)]
<1>1. /\ calls # <<>> /\ NextInstruction /\ AtInstruction(TRUE) /\ v # 0
      /\ UNCHANGED <<code, copy, analyses, phase, failed, freed, stale>>
  BY DEF Working, AnalyzeKnownCall, AtInstruction, heapVars
<1>2. slot \in Slots /\ n \in 1 .. Len(nodes)
  BY <1>1, CalleeType, TopType
<1>3. v \in 1 .. Len(nodes) /\ v \in Nat /\ nodes \in Seq(Analyses) /\ calls \in Seq(Calls)
  BY <1>1, <1>2 DEF TypeOK, Calls
<1>4. nodes' = [s EXCEPT ![n].sub_analyses = Append(@, v)]
  BY DEF AnalyzeKnownCall
<1> HIDE DEF slot, n, v
<1>5. SameSubs(nodes, s)
  BY <1>2, <1>3, ListSlot
<1> HIDE DEF s
<1>6. AddsSub(s, [s EXCEPT ![n].sub_analyses = Append(@, v)], n, v)
  BY <1>2, <1>3, <1>5, ListSub DEF SameSubs, SameNodes
<1>7. AddsSub(s, nodes', n, v)
  BY <1>4, <1>6
<1>8. AddsSub(nodes, nodes', n, v)
  BY <1>2, <1>5, <1>7 DEF AddsSub, SameSubs, SameNodes
<1> QED BY <1>1, <1>2, <1>3, <1>8, NextInstructionEffect DEF GoesOn

LEMMA NewCallEffect == TypeOK /\ Working /\ AnalyzeNewCall => Nests
<1> SUFFICES ASSUME TypeOK, Working, AnalyzeNewCall PROVE Nests
  OBVIOUS
<1> DEFINE n == Top.node
           slot == Callee
           s == [nodes EXCEPT ![n].procedure_slots = Append(@, slot)]
           f == Entered(Len(nodes) + 1)
           a == NewNode(slot)
<1>1. /\ calls # <<>> /\ AtInstruction(TRUE) /\ analyses[slot] = 0
      /\ nodes' = Append(s, a)
      /\ analyses' = [analyses EXCEPT ![slot] = Len(nodes) + 1]
      /\ calls' = Append(calls, f)
      /\ UNCHANGED <<code, copy, phase, failed, freed, stale>>
  BY DEF Working, AnalyzeNewCall, AtInstruction, heapVars
<1>2. slot \in Slots /\ n \in 1 .. Len(nodes)
  BY <1>1, CalleeType, TopType
<1>3. nodes \in Seq(Analyses) /\ calls \in Seq(Calls)
  BY DEF TypeOK, Calls
<1>4. f \in Calls /\ f.node = Len(nodes) + 1
  BY <1>3, EnteredType
<1>5. a \in Analyses
  BY <1>2 DEF NewNode, Analyses
<1> HIDE DEF slot, n, f
<1>6. SameSubs(nodes, s)
  BY <1>2, <1>3, ListSlot
<1> HIDE DEF s, a
<1>7. /\ nodes' \in Seq(Analyses) /\ Len(nodes') = Len(nodes) + 1
      /\ \A k \in 1 .. Len(nodes) : nodes'[k] = s[k]
      /\ nodes'[Len(nodes) + 1] = a
  BY <1>1, <1>3, <1>5, <1>6 DEF SameSubs, SameNodes
<1>8. /\ calls' \in Seq(Calls) /\ Len(calls') = Len(calls) + 1
      /\ \A k \in 1 .. Len(calls) : calls'[k] = calls[k]
      /\ calls'[Len(calls) + 1] = f
  BY <1>1, <1>3, <1>4
<1>9. \A k \in 1 .. Len(nodes) :
        /\ nodes'[k].slot = nodes[k].slot /\ nodes'[k].mark = nodes[k].mark
        /\ nodes'[k].sub_analyses = nodes[k].sub_analyses
  BY <1>6, <1>7 DEF SameSubs, SameNodes
<1>10. analyses[slot] = 0 /\ analyses' = [analyses EXCEPT ![slot] = Len(nodes) + 1]
       /\ nodes'[Len(nodes) + 1] = NewNode(slot)
  BY <1>1, <1>7 DEF a
<1> QED BY <1>1, <1>2, <1>4, <1>7, <1>8, <1>9, <1>10 DEF Nests

LEMMA ReturnsEffect ==
  TypeOK /\ Working /\ (AnalyzeEnds \/ AnalyzeCallFails \/ AnalyzeNoMemory) => Returns
<1> SUFFICES ASSUME TypeOK, Working, AnalyzeEnds \/ AnalyzeCallFails \/ AnalyzeNoMemory
             PROVE  Returns
  OBVIOUS
<1>1. /\ calls # <<>> /\ UNCHANGED <<code, copy, analyses, freed, stale>>
      /\ \E ok : AnalyzeReturns(ok)
  BY DEF Working, AnalyzeEnds, AnalyzeCallFails, AnalyzeNoMemory, AtInstruction, heapVars
<1>2. Top.node \in 1 .. Len(nodes) /\ nodes \in Seq(Analyses)
  BY <1>1, TopType DEF TypeOK
<1>3. \E s : SameSubs(nodes, s) /\ nodes' = Adopted(s)
  <2>1. SameSubs(nodes, nodes)
    BY <1>2 DEF SameSubs, SameNodes
  <2>2. CASE AnalyzeCallFails
    <3> DEFINE s == [nodes EXCEPT ![Top.node].procedure_slots = Append(@, Callee)]
    <3>1. Callee \in Slots /\ nodes' = Adopted(s)
      BY <2>2, CalleeType DEF AnalyzeCallFails
    <3>2. SameSubs(nodes, s)
      BY <1>2, <3>1, ListSlot
    <3> QED BY <3>1, <3>2
  <2> QED BY <2>1, <2>2 DEF AnalyzeEnds, AnalyzeNoMemory
<1>4. IF Len(calls) = 1 THEN SameSubs(nodes, nodes')
      ELSE AddsSub(nodes, nodes', calls[Len(calls) - 1].node, Top.node)
  BY <1>1, <1>3, AdoptedEffect
<1>5. failed' \subseteq failed \cup {Top.node}
  BY DEF AnalyzeEnds, AnalyzeCallFails, AnalyzeNoMemory
<1> QED BY <1>1, <1>4, <1>5, ReturnEffect DEF Returns

\* The steps of the analysis.
Analyzing ==
    \/ AnalyzeSimple \/ AnalyzeKnownCall \/ AnalyzeNewCall
    \/ AnalyzeEnds \/ AnalyzeCallFails \/ AnalyzeNoMemory
LEMMA AnalyzingEffect ==
  TypeOK /\ Working /\ Analyzing => phase = "analyze" /\ (GoesOn \/ Nests \/ Returns)
  BY SimpleEffect, KnownCallEffect, NewCallEffect, ReturnsEffect
     DEF Analyzing, AnalyzeSimple, AnalyzeKnownCall, AnalyzeNewCall, AnalyzeEnds, AnalyzeCallFails,
         AnalyzeNoMemory, AtInstruction

-----------------------------------------------------------------------------
(* The inductive invariant.                                                *)

\* The table knows each analysis but the first; the stack is no deeper than the
\* graph is large, and a call has a later analysis than its caller.
Known == \A m \in 2 .. Len(nodes) : analyses[nodes[m].slot] = m
Depth == phase = "analyze" => Len(calls) <= Len(nodes)
Ascending == phase = "analyze" =>
    \A j, k \in 1 .. Len(calls) : j < k => calls[j].node < calls[k].node

\* Every analysis but the first is listed by an earlier one, or will be when the
\* call that makes it returns.
Listed(n) == \E m \in 1 .. n - 1 : \E j \in 1 .. Len(nodes[m].sub_analyses) : nodes[m].sub_analyses[j] = n
OnStack(n) == \E k \in 1 .. Len(calls) : calls[k].node = n
Parents == \A n \in 2 .. Len(nodes) :
    Listed(n) \/ (phase = "analyze" /\ \E k \in 2 .. Len(calls) : calls[k].node = n)

\* While the graph is freed, what is marked was freed or is being freed, and so
\* are the sub-analyses of what was freed, and those passed by a call.
Unmarked == phase \in {"analyze", "exec"} => \A n \in 1 .. Len(nodes) : ~nodes[n].mark
Marked(n) == nodes[n].mark
Marks == phase \in {"free", "done"} =>
    /\ Marked(1)
    /\ \A n \in 1 .. Len(nodes) : Marked(n) => n \in freed \/ OnStack(n)
    /\ \A k \in 1 .. Len(calls) : Marked(calls[k].node)
    /\ \A n \in freed : \A j \in 1 .. Len(nodes[n].sub_analyses) : Marked(nodes[n].sub_analyses[j])
    /\ \A k \in 1 .. Len(calls) : \A j \in 1 .. Len(nodes[calls[k].node].sub_analyses) :
            j < calls[k].i => Marked(nodes[calls[k].node].sub_analyses[j])
Unfreed == phase \in {"analyze", "exec"} => freed = {}
Ended == phase = "done" => calls = <<>>

IInv ==
    /\ TypeOK /\ nodes # <<>>
    /\ Working /\ Ended
    /\ Known /\ Depth /\ Ascending /\ Parents
    /\ Unfreed /\ Unmarked /\ Marks

\* The type invariant after a step, from what the step left in each variable.
LEMMA TypeAfter ==
  ASSUME NEW N, N = Len(nodes'), NEW C, C = Len(calls'),
         code' \in [Slots -> Seq(Instructions)], copy' \in Seq(Instructions),
         nodes' \in Seq(Analyses),
         \A k \in 1 .. N : \A j \in 1 .. Len(nodes'[k].sub_analyses) : nodes'[k].sub_analyses[j] \in 1 .. N,
         analyses' \in [Slots -> 0 .. N],
         calls' \in Seq(Calls),
         \A k \in 1 .. C : calls'[k].node \in 1 .. N,
         phase' \in {"analyze", "error", "exec", "free", "done", "undefined"},
         failed' \subseteq 1 .. N, freed' \subseteq 1 .. N, stale' \subseteq 1 .. N
  PROVE  TypeOK'
<1>1. failed' \cup freed' \cup stale' \subseteq 1 .. N
  OBVIOUS
<1> QED BY <1>1 DEF TypeOK, Calls

\* What the invariant says of slots and lists.
LEMMA NodeType ==
  ASSUME TypeOK, NEW n \in 1 .. Len(nodes)
  PROVE  /\ nodes[n].slot \in Slots
         /\ nodes[n].sub_analyses \in Seq(Nat)
         /\ nodes[n].mark \in BOOLEAN
<1>1. nodes[n] \in Analyses
  BY DEF TypeOK
<1> QED BY <1>1 DEF Analyses

\* One analysis, and nothing freed, when the thread starts.
LEMMA IInvInit == Init => IInv
<1> SUFFICES ASSUME Init PROVE IInv
  OBVIOUS
<1> DEFINE a == NewNode(Root)
           f == Entered(1)
<1>1. a \in Analyses /\ a.slot = Root /\ a.sub_analyses = <<>> /\ a.mark = FALSE
  BY AnalyzeAssumption DEF AnalyzeAssumption, NewNode, Analyses
<1>2. f \in Calls /\ f.node = 1 /\ f.i = 1
  BY EnteredType
<1>3. nodes = <<a>> /\ calls = <<f>>
  BY DEF Init
<1>4. code \in [Slots -> Seq(Instructions)] /\ copy \in Seq(Instructions)
  BY ProgramAssumption, AnalyzeAssumption DEF ProgramAssumption, AnalyzeAssumption, Init, Stored
<1> HIDE DEF a, f
<1>5. nodes \in Seq(Analyses) /\ Len(nodes) = 1 /\ nodes[1] = a
  BY <1>1, <1>3
<1>6. calls \in Seq(Calls) /\ Len(calls) = 1 /\ calls[1] = f
  BY <1>2, <1>3
<1>7. phase = "analyze" /\ failed = {} /\ freed = {} /\ stale = {} /\ analyses = [slot \in Slots |-> 0]
  BY DEF Init
<1>8. TypeOK
  <2>1. \A n \in 1 .. Len(nodes) : \A j \in 1 .. Len(nodes[n].sub_analyses) :
            nodes[n].sub_analyses[j] \in 1 .. Len(nodes)
    BY <1>1, <1>5
  <2>2. \A k \in 1 .. Len(calls) : calls[k].node \in 1 .. Len(nodes)
    BY <1>2, <1>5, <1>6
  <2>3. analyses \in [Slots -> 0 .. Len(nodes)]
    BY <1>5, <1>7
  <2>4. /\ phase \in {"analyze", "error", "exec", "free", "done", "undefined"}
        /\ failed \cup freed \cup stale \subseteq 1 .. Len(nodes)
    BY <1>7
  <2>5. nodes \in Seq(Analyses) /\ calls \in Seq(Calls)
    BY <1>5, <1>6
  <2> QED BY <1>4, <2>1, <2>2, <2>3, <2>4, <2>5 DEF TypeOK, Calls
<1>9. Known /\ Depth /\ Ascending /\ Parents
  BY <1>5, <1>6 DEF Known, Depth, Ascending, Parents
<1>10. Unfreed /\ Unmarked /\ Marks
  BY <1>1, <1>5, <1>7 DEF Unfreed, Unmarked, Marks
<1>11. nodes # <<>> /\ Working /\ Ended
  <2>1. nodes # <<>> /\ calls # <<>>
    <3>1. Len(nodes) = 1 /\ Len(calls) = 1
      BY <1>5, <1>6
    <3>2. Len(<<>>) = 0
      OBVIOUS
    <3> QED BY <3>1, <3>2
  <2>2. phase # "done"
    BY <1>7
  <2> QED BY <2>1, <2>2 DEF Working, Ended
<1> QED BY <1>8, <1>9, <1>10, <1>11 DEF IInv

\* The lists of sub-analyses only grow.
Growing ==
    \A m \in 1 .. Len(nodes) : \A j \in 1 .. Len(nodes[m].sub_analyses) :
        j \in 1 .. Len(nodes'[m].sub_analyses) /\ nodes'[m].sub_analyses[j] = nodes[m].sub_analyses[j]
LEMMA ListedStays ==
  ASSUME nodes \in Seq(Analyses), Growing, NEW n \in 2 .. Len(nodes), Listed(n)
  PROVE  Listed(n)'
<1>1. PICK m \in 1 .. n - 1 : \E j \in 1 .. Len(nodes[m].sub_analyses) : nodes[m].sub_analyses[j] = n
  BY DEF Listed
<1>2. PICK j \in 1 .. Len(nodes[m].sub_analyses) : nodes[m].sub_analyses[j] = n
  BY <1>1
<1>3. Len(nodes) \in Nat
  OBVIOUS
<1>4. m \in 1 .. Len(nodes)
  BY <1>3
<1>5. j \in 1 .. Len(nodes'[m].sub_analyses) /\ nodes'[m].sub_analyses[j] = n
  BY <1>2, <1>4 DEF Growing
<1> QED BY <1>5 DEF Listed

\* The invariant when proc_analyze goes on.
LEMMA GoesOnStep ==
  ASSUME IInv, phase = "analyze", GoesOn
  PROVE  IInv'
<1> DEFINE N == Len(nodes)
<1>1. /\ nodes' \in Seq(Analyses) /\ Len(nodes') = N /\ nodes # <<>> /\ N \in Nat
      /\ \A k \in 1 .. N : nodes'[k].slot = nodes[k].slot /\ nodes'[k].mark = nodes[k].mark
  BY DEF IInv, TypeOK, GoesOn, AddsSub, SameSubs, SameNodes
<1>2. ASSUME NEW m \in 1 .. N
      PROVE  /\ nodes'[m].sub_analyses \in Seq(Nat)
             /\ \A j \in 1 .. Len(nodes[m].sub_analyses) :
                    j \in 1 .. Len(nodes'[m].sub_analyses)
                    /\ nodes'[m].sub_analyses[j] = nodes[m].sub_analyses[j]
             /\ \A j \in 1 .. Len(nodes'[m].sub_analyses) : nodes'[m].sub_analyses[j] \in 1 .. N
  <2> DEFINE s == nodes[m].sub_analyses
  <2>1. s \in Seq(Nat) /\ \A j \in 1 .. Len(s) : s[j] \in 1 .. N
    BY NodeType DEF IInv, TypeOK
  <2>2. nodes'[m].sub_analyses = s \/ \E v \in 1 .. N : nodes'[m].sub_analyses = Append(s, v)
    BY DEF GoesOn, AddsSub, SameSubs, SameNodes
  <2> HIDE DEF s
  <2>3. CASE nodes'[m].sub_analyses = s
    BY <2>1, <2>3 DEF s
  <2>4. ASSUME NEW v \in 1 .. N, nodes'[m].sub_analyses = Append(s, v)
        PROVE  /\ nodes'[m].sub_analyses \in Seq(Nat)
               /\ \A j \in 1 .. Len(s) :
                    j \in 1 .. Len(nodes'[m].sub_analyses) /\ nodes'[m].sub_analyses[j] = s[j]
               /\ \A j \in 1 .. Len(nodes'[m].sub_analyses) : nodes'[m].sub_analyses[j] \in 1 .. N
    BY <2>1, <2>4
  <2> QED BY <2>2, <2>3, <2>4 DEF s
<1>3. /\ calls' \in Seq(Calls) /\ Len(calls') = Len(calls)
      /\ \A k \in 1 .. Len(calls) : calls'[k].node = calls[k].node
      /\ UNCHANGED <<code, copy, analyses, phase, failed, freed, stale>>
  BY DEF GoesOn
<1>4. TypeOK'
  <2>1. \A k \in 1 .. Len(calls') : calls'[k].node \in 1 .. N
    BY <1>3 DEF IInv, TypeOK
  <2>2. /\ code' \in [Slots -> Seq(Instructions)] /\ copy' \in Seq(Instructions)
        /\ analyses' \in [Slots -> 0 .. N] /\ phase' = "analyze"
        /\ failed' \subseteq 1 .. N /\ freed' \subseteq 1 .. N /\ stale' \subseteq 1 .. N
    BY <1>3 DEF IInv, TypeOK
  <2> QED BY <1>1, <1>2, <1>3, <2>1, <2>2, TypeAfter
<1>5. Known' /\ Depth' /\ Ascending'
  BY <1>1, <1>3 DEF IInv, Known, Depth, Ascending
<1>6. Parents'
  <2>1. \A n \in 2 .. N : Listed(n) => Listed(n)'
    BY <1>2, ListedStays DEF Growing, IInv, TypeOK
  <2> QED BY <1>1, <1>3, <2>1 DEF IInv, Parents
<1>7. nodes' # <<>> /\ Working'
  <2>1. calls # <<>> /\ calls \in Seq(Calls)
    BY DEF IInv, TypeOK, Calls, Working
  <2> QED BY <1>1, <1>3, <2>1 DEF Working
<1>8. Ended' /\ Unfreed' /\ Unmarked' /\ Marks'
  BY <1>1, <1>3 DEF IInv, Ended, Unfreed, Unmarked, Marks
<1> QED BY <1>4, <1>5, <1>6, <1>7, <1>8 DEF IInv

\* The sizes of the graph and of the stack.
LEMMA Sizes ==
  ASSUME IInv
  PROVE  /\ nodes \in Seq(Analyses) /\ Len(nodes) \in Nat \ {0}
         /\ calls \in Seq(Calls) /\ Len(calls) \in Nat
         /\ phase \in {"analyze", "free"} => calls # <<>> /\ Len(calls) \in Nat \ {0}
         /\ \A k \in 1 .. Len(calls) : calls[k].node \in 1 .. Len(nodes)
<1>1. nodes \in Seq(Analyses) /\ nodes # <<>> /\ calls \in Seq(Calls)
  BY DEF IInv, TypeOK, Calls
<1>2. Len(nodes) \in Nat \ {0} /\ Len(calls) \in Nat /\ (calls # <<>> => Len(calls) \in Nat \ {0})
  BY <1>1
<1> QED BY <1>1, <1>2 DEF IInv, TypeOK, Working

\* The invariant when proc_analyze calls itself.
LEMMA NestsStep ==
  ASSUME IInv, phase = "analyze", Nests
  PROVE  IInv'
<1> DEFINE N == Len(nodes)
           C == Len(calls)
<1>1. /\ nodes' \in Seq(Analyses) /\ Len(nodes') = N + 1 /\ N \in Nat \ {0}
      /\ \A k \in 1 .. N :
            /\ nodes'[k].slot = nodes[k].slot /\ nodes'[k].mark = nodes[k].mark
            /\ nodes'[k].sub_analyses = nodes[k].sub_analyses
  BY Sizes DEF Nests
<1>2. PICK slot \in Slots :
        /\ analyses[slot] = 0 /\ analyses' = [analyses EXCEPT ![slot] = N + 1]
        /\ nodes'[N + 1] = NewNode(slot)
  BY DEF Nests
<1>a. nodes'[N + 1].slot = slot /\ nodes'[N + 1].mark = FALSE /\ nodes'[N + 1].sub_analyses = <<>>
  BY <1>2 DEF NewNode
<1>3. /\ calls' \in Seq(Calls) /\ Len(calls') = C + 1 /\ C \in Nat \ {0}
      /\ \A k \in 1 .. C : calls'[k].node = calls[k].node
      /\ calls'[C + 1].node = N + 1
      /\ UNCHANGED <<code, copy, phase, failed, freed, stale>>
  BY Sizes DEF Nests
<1>4. \A k \in 1 .. C : calls[k].node \in 1 .. N
  BY Sizes
<1>5. analyses \in [Slots -> 0 .. N]
  BY DEF IInv, TypeOK
<1> HIDE DEF N, C
<1>6. TypeOK'
  <2>1. analyses' \in [Slots -> 0 .. N + 1]
    BY <1>1, <1>2, <1>5
  <2>2. \A n \in 1 .. N : \A j \in 1 .. Len(nodes'[n].sub_analyses) : nodes'[n].sub_analyses[j] \in 1 .. N + 1
    <3> SUFFICES ASSUME NEW n \in 1 .. N, NEW j \in 1 .. Len(nodes[n].sub_analyses)
                 PROVE  nodes[n].sub_analyses[j] \in 1 .. N + 1
      BY <1>1
    <3>1. nodes[n].sub_analyses[j] \in 1 .. N
      BY DEF IInv, TypeOK, N
    <3> QED BY <1>1, <3>1
  <2>3. \A n \in 1 .. N + 1 : \A j \in 1 .. Len(nodes'[n].sub_analyses) : nodes'[n].sub_analyses[j] \in 1 .. N + 1
    BY <1>1, <1>a, <2>2
  <2>4. \A k \in 1 .. C + 1 : calls'[k].node \in 1 .. N + 1
    BY <1>1, <1>3, <1>4
  <2>5. failed' \cup freed' \cup stale' \subseteq 1 .. N + 1
    BY <1>1, <1>3 DEF IInv, TypeOK, N
  <2> QED BY <1>1, <1>3, <2>1, <2>3, <2>4, <2>5 DEF IInv, TypeOK, Calls
<1>7. Known'
  <2>1. \A m \in 2 .. N : nodes[m].slot \in Slots /\ analyses[nodes[m].slot] = m /\ m # 0
    BY <1>1, NodeType DEF IInv, Known, N
  <2>2. \A m \in 2 .. N : analyses'[nodes'[m].slot] = m
    BY <1>1, <1>2, <1>5, <2>1
  <2>3. analyses'[nodes'[N + 1].slot] = N + 1
    BY <1>1, <1>2, <1>a, <1>5
  <2> QED BY <1>1, <2>2, <2>3 DEF Known
<1>8. Depth'
  BY <1>1, <1>3 DEF IInv, Depth, N, C
<1>9. Ascending'
  <2> SUFFICES ASSUME NEW j \in 1 .. C + 1, NEW k \in 1 .. C + 1, j < k
               PROVE  calls'[j].node < calls'[k].node
    BY <1>3 DEF Ascending
  <2>1. j \in 1 .. C
    BY <1>3
  <2>2. CASE k = C + 1
    BY <1>1, <1>3, <1>4, <2>1, <2>2
  <2>3. CASE k # C + 1
    <3>1. k \in 1 .. C
      BY <1>3, <2>3
    <3> QED BY <1>3, <2>1, <3>1 DEF IInv, Ascending, C
  <2> QED BY <2>2, <2>3
<1>10. Parents'
  <2>1. Growing
    BY <1>1 DEF Growing, N
  <2>2. \A n \in 2 .. N : Listed(n) => Listed(n)'
    BY <2>1, ListedStays DEF IInv, TypeOK, N
  <2>3. \A n \in 2 .. N : Listed(n) \/ \E k \in 2 .. C : calls[k].node = n
    BY DEF IInv, Parents, N, C
  <2>4. C + 1 \in 2 .. C + 1
    BY <1>3
  <2>5. \A n \in 2 .. N : Listed(n)' \/ \E k \in 2 .. C + 1 : calls'[k].node = n
    BY <1>3, <2>2, <2>3
  <2>6. \A n \in 2 .. N + 1 : Listed(n)' \/ \E k \in 2 .. C + 1 : calls'[k].node = n
    BY <1>1, <1>3, <2>4, <2>5
  <2> QED BY <1>1, <1>3, <2>6 DEF Parents
<1>11. nodes' # <<>> /\ Working' /\ Ended' /\ Unfreed' /\ Marks'
  BY <1>1, <1>3 DEF IInv, Working, Ended, Unfreed, Marks
<1>12. Unmarked'
  BY <1>1, <1>a, <1>3 DEF IInv, Unmarked, N
<1> QED BY <1>6, <1>7, <1>8, <1>9, <1>10, <1>11, <1>12 DEF IInv

\* The invariant when proc_analyze returns.
LEMMA ReturnsStep ==
  ASSUME IInv, phase = "analyze", Returns
  PROVE  IInv'
<1> DEFINE N == Len(nodes)
           C == Len(calls)
<1>1. calls # <<>> /\ calls \in Seq(Calls) /\ C \in Nat \ {0} /\ Top.node \in 1 .. N /\ Top = calls[C]
  <2>1. calls # <<>>
    BY DEF IInv, Working
  <2> QED BY <2>1, Sizes, TopType DEF IInv, Top
<1>2. /\ calls' \in Seq(Calls) /\ Len(calls') = C - 1
      /\ \A k \in 1 .. C - 1 : calls'[k].node = calls[k].node
      /\ UNCHANGED <<code, copy, analyses, freed, stale>> /\ failed' \subseteq failed \cup {Top.node}
  BY DEF Returns
<1>3. CASE C = 1
  <2>1. phase' \in {"exec", "error"} /\ SameSubs(nodes, nodes')
    BY <1>3 DEF Returns
  <2>2. /\ nodes' \in Seq(Analyses) /\ Len(nodes') = N /\ N \in Nat \ {0}
        /\ \A k \in 1 .. N :
            /\ nodes'[k].slot = nodes[k].slot /\ nodes'[k].mark = nodes[k].mark
            /\ nodes'[k].sub_analyses = nodes[k].sub_analyses
    BY <2>1 DEF IInv, TypeOK, SameSubs, SameNodes
  <2>3. TypeOK'
    <3>1. \A k \in 1 .. N : \A j \in 1 .. Len(nodes'[k].sub_analyses) : nodes'[k].sub_analyses[j] \in 1 .. N
      BY <2>2 DEF IInv, TypeOK
    <3>2. \A k \in 1 .. Len(calls') : calls'[k].node \in 1 .. N
      BY <1>2, <1>3
    <3>3. failed' \subseteq 1 .. N /\ freed' \subseteq 1 .. N /\ stale' \subseteq 1 .. N
      BY <1>1, <1>2 DEF IInv, TypeOK
    <3>4. code' \in [Slots -> Seq(Instructions)] /\ copy' \in Seq(Instructions) /\ analyses' \in [Slots -> 0 .. N]
      BY <1>2 DEF IInv, TypeOK
    <3>5. nodes' \in Seq(Analyses) /\ Len(nodes') = N /\ calls' \in Seq(Calls)
      BY <1>2, <2>2
    <3>6. phase' \in {"analyze", "error", "exec", "free", "done", "undefined"}
      BY <2>1
    <3> HIDE DEF N
    <3> QED BY <3>1, <3>2, <3>3, <3>4, <3>5, <3>6, TypeAfter
  <2>4. Known' /\ Depth' /\ Ascending'
    <3>1. Known'
      BY <1>2, <2>2 DEF IInv, Known
    <3>2. phase' # "analyze"
      BY <2>1
    <3> QED BY <3>1, <3>2 DEF Depth, Ascending
  <2>5. Parents'
    <3>1. Growing
      BY <2>2 DEF Growing
    <3>2. \A n \in 2 .. N : Listed(n)'
      <4>1. \A n \in 2 .. N : Listed(n)
        BY <1>3 DEF IInv, Parents
      <4> QED BY <3>1, <4>1, Sizes, ListedStays
    <3> QED BY <2>2, <3>2 DEF Parents
  <2>6. nodes' # <<>> /\ Working' /\ Ended' /\ Unfreed' /\ Unmarked' /\ Marks'
    BY <1>2, <2>1, <2>2 DEF IInv, Working, Ended, Unfreed, Unmarked, Marks
  <2> QED BY <2>3, <2>4, <2>5, <2>6 DEF IInv
<1>4. CASE C # 1
  <2>a. \A k \in Nat \ {0} : k # 1 => k - 1 \in 1 .. k /\ k \in 1 .. k /\ k - 1 < k
    OBVIOUS
  <2>2. C - 1 \in 1 .. C /\ C \in 1 .. C /\ C - 1 < C
    BY <1>1, <1>4, <2>a
  <2>b. calls[C - 1].node \in 1 .. N /\ Top.node \in 1 .. N /\ calls[C - 1].node < Top.node
    BY <1>1, <2>2 DEF IInv, TypeOK, Ascending
  <2>c. PICK p \in 1 .. N, n \in 1 .. N : p = calls[C - 1].node /\ n = Top.node
    BY <2>b
  <2>1. phase' = phase /\ AddsSub(nodes, nodes', p, n)
    BY <1>4, <2>c DEF Returns
  <2>3. p \in 1 .. N /\ n \in 1 .. N /\ p < n
    BY <2>b, <2>c
  <2>4. /\ nodes' \in Seq(Analyses) /\ Len(nodes') = N /\ N \in Nat \ {0}
        /\ \A k \in 1 .. N :
            /\ nodes'[k].slot = nodes[k].slot /\ nodes'[k].mark = nodes[k].mark
            /\ k # p => nodes'[k].sub_analyses = nodes[k].sub_analyses
        /\ nodes'[p].sub_analyses = Append(nodes[p].sub_analyses, n)
    BY <2>1 DEF IInv, TypeOK, AddsSub, SameNodes
  <2>5. nodes[p].sub_analyses \in Seq(Nat) /\ n \in Nat
    BY <2>3, NodeType DEF IInv
  <2>6. /\ \A j \in 1 .. Len(nodes[p].sub_analyses) :
                j \in 1 .. Len(nodes'[p].sub_analyses) /\ nodes'[p].sub_analyses[j] = nodes[p].sub_analyses[j]
        /\ Len(nodes'[p].sub_analyses) = Len(nodes[p].sub_analyses) + 1
        /\ Len(nodes'[p].sub_analyses) \in 1 .. Len(nodes'[p].sub_analyses)
        /\ nodes'[p].sub_analyses[Len(nodes'[p].sub_analyses)] = n
    BY <2>4, <2>5
  <2>7. TypeOK'
    <3>1. \A j \in 1 .. Len(nodes[p].sub_analyses) : nodes[p].sub_analyses[j] \in 1 .. N
      BY <2>3 DEF IInv, TypeOK
    <3>2. \A j \in 1 .. Len(nodes'[p].sub_analyses) : nodes'[p].sub_analyses[j] \in 1 .. N
      BY <2>3, <2>4, <2>5, <3>1
    <3>3. \A k \in 1 .. N : \A j \in 1 .. Len(nodes'[k].sub_analyses) : nodes'[k].sub_analyses[j] \in 1 .. N
      BY <2>4, <3>2 DEF IInv, TypeOK
    <3>4. \A k \in 1 .. C - 1 : calls'[k].node \in 1 .. N
      <4>1. \A k \in 1 .. C - 1 : k \in 1 .. C
        BY <2>2
      <4> QED BY <1>2, <4>1, Sizes
    <3>5. failed' \subseteq 1 .. N
      BY <1>1, <1>2 DEF IInv, TypeOK
    <3>6. freed' \subseteq 1 .. N /\ stale' \subseteq 1 .. N /\ phase' = "analyze"
      BY <1>2, <2>1 DEF IInv, TypeOK
    <3>7. code' \in [Slots -> Seq(Instructions)] /\ copy' \in Seq(Instructions) /\ analyses' \in [Slots -> 0 .. N]
      BY <1>2 DEF IInv, TypeOK
    <3>8. /\ nodes' \in Seq(Analyses) /\ Len(nodes') = N
          /\ calls' \in Seq(Calls) /\ Len(calls') = C - 1
      BY <1>2, <2>4
    <3> QED BY <3>3, <3>4, <3>5, <3>6, <3>7, <3>8, TypeAfter
  <2>8. Known' /\ Depth' /\ Ascending'
    <3>1. Known'
      BY <1>2, <2>4 DEF IInv, Known
    <3>2. /\ Len(calls) <= N
          /\ \A j, k \in 1 .. C : j < k => calls[j].node < calls[k].node
      BY DEF IInv, Depth, Ascending
    <3>3. Depth'
      BY <1>1, <1>2, <2>4, <3>2, Sizes DEF Depth
    <3>4. \A j, k \in 1 .. C - 1 : j \in 1 .. C /\ k \in 1 .. C
      BY <1>1
    <3>5. \A j, k \in 1 .. C - 1 : j < k => calls'[j].node < calls'[k].node
      BY <1>2, <3>2, <3>4
    <3>6. Ascending'
      BY <1>2, <3>5 DEF Ascending
    <3> QED BY <3>1, <3>3, <3>6
  <2>9. Parents'
    <3>1. Growing
      BY <2>4, <2>6 DEF Growing
    <3>2. \A m \in 2 .. N : Listed(m) => Listed(m)'
      BY <3>1, ListedStays DEF IInv, TypeOK
    <3>3. Listed(n)'
      <4>1. p \in 1 .. n - 1
        BY <2>3, <2>4
      <4>2. \E j \in 1 .. Len(nodes'[p].sub_analyses) : nodes'[p].sub_analyses[j] = n
        BY <2>6
      <4> QED BY <4>1, <4>2 DEF Listed
    <3>4. ASSUME NEW m \in 2 .. N, NEW k \in 2 .. C, calls[k].node = m
          PROVE  Listed(m)' \/ \E l \in 2 .. C - 1 : calls'[l].node = m
      <4>1. CASE k = C
        <5>1. m = n
          BY <1>1, <2>c, <3>4, <4>1
        <5> QED BY <3>3, <5>1
      <4>2. CASE k # C
        <5>1. k \in 2 .. C - 1 /\ k \in 1 .. C - 1
          BY <1>1, <4>2
        <5> QED BY <1>2, <3>4, <5>1
      <4> QED BY <4>1, <4>2
    <3>5. \A m \in 2 .. N : Listed(m) \/ \E k \in 2 .. C : calls[k].node = m
      BY DEF IInv, Parents
    <3>6. \A m \in 2 .. N : Listed(m)' \/ \E k \in 2 .. C - 1 : calls'[k].node = m
      BY <3>2, <3>4, <3>5
    <3> QED BY <1>2, <2>1, <2>4, <3>6 DEF Parents
  <2>10. nodes' # <<>> /\ Working'
    <3>1. Len(calls') # 0 /\ Len(nodes') # 0
      BY <1>1, <1>2, <1>4, <2>4
    <3> QED BY <3>1 DEF Working
  <2>11. Ended' /\ Unfreed' /\ Unmarked' /\ Marks'
    BY <1>2, <2>1, <2>4 DEF IInv, Ended, Unfreed, Unmarked, Marks
  <2> QED BY <2>7, <2>8, <2>9, <2>10, <2>11 DEF IInv
<1> QED BY <1>3, <1>4

\* The invariant when the execution ends and the freeing begins with the root.
LEMMA ExecReturnsStep ==
  ASSUME IInv, ExecReturns
  PROVE  IInv'
<1> DEFINE N == Len(nodes)
           f == Entered(1)
<1>1. /\ phase = "exec" /\ phase' = "free" /\ calls' = <<f>> /\ Mark(1)
      /\ UNCHANGED <<code, copy, analyses, failed, freed, stale>>
  BY DEF ExecReturns, heapVars
<1>2. f \in Calls /\ f.node = 1 /\ f.i = 1
  BY EnteredType
<1> HIDE DEF f
<1>3. calls' \in Seq(Calls) /\ Len(calls') = 1 /\ calls'[1] = f
  BY <1>1, <1>2
<1>4. nodes \in Seq(Analyses) /\ N \in Nat \ {0} /\ 1 \in 1 .. N
  BY Sizes
<1>5. /\ nodes' \in Seq(Analyses) /\ Len(nodes') = N
      /\ \A k \in 1 .. N :
            /\ nodes'[k].slot = nodes[k].slot
            /\ nodes'[k].sub_analyses = nodes[k].sub_analyses
            /\ nodes'[k].mark = (k = 1 \/ nodes[k].mark)
  BY <1>1, <1>4, MarkEffect
<1>6. TypeOK'
  <2>1. \A k \in 1 .. N : \A j \in 1 .. Len(nodes'[k].sub_analyses) : nodes'[k].sub_analyses[j] \in 1 .. N
    BY <1>5 DEF IInv, TypeOK
  <2>2. \A k \in 1 .. Len(calls') : calls'[k].node \in 1 .. N
    BY <1>2, <1>3, <1>4
  <2>3. /\ code' \in [Slots -> Seq(Instructions)] /\ copy' \in Seq(Instructions)
        /\ analyses' \in [Slots -> 0 .. N] /\ phase' = "free"
        /\ failed' \subseteq 1 .. N /\ freed' \subseteq 1 .. N /\ stale' \subseteq 1 .. N
    BY <1>1 DEF IInv, TypeOK
  <2> QED BY <1>3, <1>5, <2>1, <2>2, <2>3, TypeAfter
<1>7. Known' /\ Depth' /\ Ascending'
  BY <1>1, <1>5 DEF IInv, Known, Depth, Ascending
<1>8. Parents'
  <2>1. Growing
    BY <1>5 DEF Growing
  <2>2. \A n \in 2 .. N : Listed(n)
    BY <1>1 DEF IInv, Parents
  <2>3. \A n \in 2 .. N : Listed(n)'
    BY <1>4, <2>1, <2>2, ListedStays
  <2> QED BY <1>5, <2>3 DEF Parents
<1>9. nodes' # <<>> /\ Working' /\ Ended' /\ Unfreed' /\ Unmarked'
  BY <1>1, <1>3, <1>4, <1>5 DEF Working, Ended, Unfreed, Unmarked
<1>10. Marks'
  <2>1. \A n \in 1 .. N : nodes'[n].mark = (n = 1)
    BY <1>1, <1>5 DEF IInv, Unmarked
  <2>2. freed' = {}
    BY <1>1 DEF IInv, Unfreed
  <2>3. OnStack(1)'
    BY <1>2, <1>3 DEF OnStack
  <2>4. \A k \in 1 .. Len(calls') : calls'[k].node = 1 /\ calls'[k].i = 1
    BY <1>2, <1>3
  <2>5. nodes'[1].mark /\ nodes'[1].sub_analyses \in Seq(Nat)
    BY <1>4, <1>5, <2>1, NodeType DEF IInv
  <2>6. \A j \in 1 .. Len(nodes'[1].sub_analyses) : ~(j < 1)
    BY <2>5
  <2> QED BY <1>5, <2>1, <2>2, <2>3, <2>4, <2>5, <2>6 DEF Marks, Marked
<1> QED BY <1>6, <1>7, <1>8, <1>9, <1>10 DEF IInv

\* What holds of the call on top while the graph is freed.
LEMMA FreeingTop ==
  ASSUME IInv, phase = "free"
  PROVE  /\ calls \in Seq(Calls) /\ calls # <<>> /\ Len(calls) \in Nat \ {0}
         /\ Top = calls[Len(calls)] /\ Top.node \in 1 .. Len(nodes) /\ Top.i \in Nat \ {0}
         /\ Node.sub_analyses \in Seq(Nat)
         /\ \A j \in 1 .. Len(Node.sub_analyses) : Node.sub_analyses[j] \in 1 .. Len(nodes)
<1>1. /\ calls \in Seq(Calls) /\ calls # <<>> /\ Len(calls) \in Nat \ {0}
      /\ Top = calls[Len(calls)] /\ Top.node \in 1 .. Len(nodes)
  BY Sizes, TopType DEF IInv, Top
<1>2. Top \in Calls
  BY <1>1, TopType DEF IInv
<1>3. /\ nodes[Top.node].sub_analyses \in Seq(Nat)
      /\ \A j \in 1 .. Len(nodes[Top.node].sub_analyses) : nodes[Top.node].sub_analyses[j] \in 1 .. Len(nodes)
  BY <1>1, NodeType DEF IInv, TypeOK
<1> QED BY <1>1, <1>2, <1>3 DEF Node, Calls

\* The invariant when a sub-analysis is passed over.
LEMMA FreeSkipsStep ==
  ASSUME IInv, FreeSkips
  PROVE  IInv'
<1> DEFINE C == Len(calls)
<1>1. /\ phase = "free" /\ NextInstruction /\ Top.i <= Len(Node.sub_analyses)
      /\ Visited = Top.node \/ nodes[Visited].mark
      /\ stale' = stale \cup ({Visited} \cap freed)
      /\ UNCHANGED <<code, copy, nodes, analyses, phase, failed, freed>>
  BY DEF FreeSkips, Visiting, ReadMark
<1>2. /\ calls \in Seq(Calls) /\ calls # <<>> /\ C \in Nat \ {0}
      /\ Top = calls[C] /\ Top.node \in 1 .. Len(nodes) /\ Top.i \in Nat \ {0}
  BY <1>1, FreeingTop
<1>3. /\ calls' \in Seq(Calls) /\ Len(calls') = C
      /\ \A k \in 1 .. C : calls'[k].node = calls[k].node
      /\ \A k \in 1 .. C - 1 : calls'[k].i = calls[k].i
      /\ calls'[C].i = calls[C].i + 1
  BY <1>1, <1>2, NextInstructionEffect
<1> HIDE DEF C
<1>4. TypeOK'
  BY <1>1, <1>3 DEF IInv, TypeOK, Calls, C
<1>5. Known' /\ Depth' /\ Ascending'
  BY <1>1, <1>3 DEF IInv, Known, Depth, Ascending, C
<1>6. Parents'
  <2>1. \A n \in 2 .. Len(nodes) : Listed(n)
    BY <1>1 DEF IInv, Parents
  <2>2. \A n \in 2 .. Len(nodes) : Listed(n)'
    BY <1>1, <2>1 DEF Listed
  <2> QED BY <1>1, <2>2 DEF Parents
<1>7. nodes' # <<>> /\ Working' /\ Ended' /\ Unfreed' /\ Unmarked'
  <2>1. calls' # <<>>
    BY <1>2, <1>3
  <2> QED BY <1>1, <2>1 DEF IInv, Working, Ended, Unfreed, Unmarked
<1>8. Marks'
  <2>1. \A n : Marked(n)' = Marked(n)
    BY <1>1 DEF Marked
  <2>2. \A n \in 1 .. Len(nodes) : OnStack(n) => OnStack(n)'
    BY <1>3 DEF OnStack, C
  <2>3. C \in 1 .. C /\ Marked(Top.node)
    BY <1>1, <1>2 DEF IInv, Marks, C
  <2>4. Marked(Visited)
    BY <1>1, <2>3 DEF Marked
  <2>5. ASSUME NEW k \in 1 .. C, NEW j \in 1 .. Len(nodes[calls[k].node].sub_analyses), j < calls'[k].i
        PROVE  Marked(nodes[calls[k].node].sub_analyses[j])
    <3>1. CASE j < calls[k].i
      BY <1>1, <3>1 DEF IInv, Marks, C
    <3>2. CASE ~(j < calls[k].i)
      <4>1. k = C
        BY <1>2, <1>3, <2>5, <3>2
      <4>2. Len(nodes[calls[k].node].sub_analyses) \in Nat /\ j \in Nat
        BY <1>1, <1>2, <4>1, FreeingTop DEF Node
      <4>3. j = Top.i
        BY <1>2, <1>3, <2>5, <3>2, <4>1, <4>2
      <4> QED BY <1>2, <2>4, <4>1, <4>3 DEF Visited, Node
    <3> QED BY <3>1, <3>2
  <2>6. /\ Marked(1)'
        /\ \A n \in 1 .. Len(nodes') : Marked(n)' => n \in freed' \/ OnStack(n)'
        /\ \A n \in freed' : \A j \in 1 .. Len(nodes'[n].sub_analyses) : nodes'[nodes'[n].sub_analyses[j]].mark
    BY <1>1, <2>1, <2>2 DEF IInv, Marks, Marked
  <2>7. \A k \in 1 .. Len(calls') : nodes'[calls'[k].node].mark
    BY <1>1, <1>3 DEF IInv, Marks, Marked, C
  <2>8. \A k \in 1 .. Len(calls') : \A j \in 1 .. Len(nodes'[calls'[k].node].sub_analyses) :
            j < calls'[k].i => nodes'[nodes'[calls'[k].node].sub_analyses[j]].mark
    BY <1>1, <1>3, <2>5 DEF Marked
  <2> QED BY <2>6, <2>7, <2>8 DEF Marks, Marked
<1> QED BY <1>4, <1>5, <1>6, <1>7, <1>8 DEF IInv

\* The invariant when a sub-analysis is marked and entered.
LEMMA FreeDescendsStep ==
  ASSUME IInv, FreeDescends
  PROVE  IInv'
<1> DEFINE C == Len(calls)
           N == Len(nodes)
           f == [calls[C] EXCEPT !.i = @ + 1]
           callers == [calls EXCEPT ![C] = f]
<1>1. /\ phase = "free" /\ Top.i <= Len(Node.sub_analyses) /\ Mark(Visited)
      /\ calls' = Append(callers, Entered(Visited))
      /\ UNCHANGED <<code, copy, analyses, phase, failed, freed, stale>>
  BY DEF FreeDescends, Visiting, heapVars
<1>2. /\ calls \in Seq(Calls) /\ calls # <<>> /\ C \in Nat \ {0} /\ C \in 1 .. C /\ calls[C] \in Calls
      /\ Top = calls[C] /\ Top.node \in 1 .. N /\ Top.i \in Nat \ {0}
      /\ nodes \in Seq(Analyses) /\ N \in Nat \ {0}
  BY <1>1, FreeingTop, Sizes
<1>3. PICK v \in 1 .. N : v = Visited /\ v = nodes[Top.node].sub_analyses[Top.i]
  <2>1. Top.i \in 1 .. Len(Node.sub_analyses)
    BY <1>1, <1>2, FreeingTop
  <2> QED BY <1>1, <2>1, FreeingTop DEF Visited, Node
<1>4. f \in Calls /\ f.node = calls[C].node /\ f.i = calls[C].i + 1
  BY <1>2, NextCall
<1>5. Entered(v) \in Calls /\ Entered(v).node = v /\ Entered(v).i = 1
  BY <1>3, EnteredType
<1> HIDE DEF f
<1>6. /\ callers \in Seq(Calls) /\ Len(callers) = C
      /\ \A k \in 1 .. C : callers[k] = IF k = C THEN f ELSE calls[k]
  BY <1>2, <1>4, ReplaceElement
<1>a. calls' = Append(callers, Entered(v)) /\ Mark(v)
  BY <1>1, <1>3
<1> HIDE DEF callers, C, N
<1>7. /\ calls' \in Seq(Calls) /\ Len(calls') = C + 1
      /\ \A k \in 1 .. C : calls'[k] = IF k = C THEN f ELSE calls[k]
      /\ calls'[C + 1] = Entered(v)
  BY <1>a, <1>2, <1>5, <1>6
<1>8. /\ nodes' \in Seq(Analyses) /\ Len(nodes') = N
      /\ \A k \in 1 .. N :
            /\ nodes'[k].slot = nodes[k].slot
            /\ nodes'[k].sub_analyses = nodes[k].sub_analyses
            /\ nodes'[k].mark = (k = v \/ nodes[k].mark)
  BY <1>a, <1>2, MarkEffect DEF N
<1>9. \A k \in 1 .. C : calls'[k].node = calls[k].node /\ calls[k].node \in 1 .. N
  BY <1>4, <1>7, Sizes DEF C, N
<1>10. TypeOK'
  <2>1. \A k \in 1 .. N : \A j \in 1 .. Len(nodes'[k].sub_analyses) : nodes'[k].sub_analyses[j] \in 1 .. N
    BY <1>8 DEF IInv, TypeOK, N
  <2>2. \A k \in 1 .. C + 1 : calls'[k].node \in 1 .. N
    <3>1. calls'[C + 1].node \in 1 .. N
      BY <1>5, <1>7
    <3>2. \A k \in 1 .. C + 1 : k = C + 1 \/ k \in 1 .. C
      BY <1>2
    <3> QED BY <1>9, <3>1, <3>2
  <2>3. /\ analyses \in [Slots -> 0 .. N] /\ failed \cup freed \cup stale \subseteq 1 .. N
        /\ code \in [Slots -> Seq(Instructions)] /\ copy \in Seq(Instructions)
    BY DEF IInv, TypeOK, N
  <2>4. /\ code' \in [Slots -> Seq(Instructions)] /\ copy' \in Seq(Instructions)
        /\ analyses' \in [Slots -> 0 .. N] /\ phase' = "free"
        /\ failed' \subseteq 1 .. N /\ freed' \subseteq 1 .. N /\ stale' \subseteq 1 .. N
    BY <1>1, <2>3
  <2> QED BY <1>7, <1>8, <2>1, <2>2, <2>4, TypeAfter
<1>11. Known' /\ Depth' /\ Ascending'
  BY <1>1, <1>8 DEF IInv, Known, Depth, Ascending, N
<1>12. Parents'
  <2>1. Growing
    BY <1>8 DEF Growing, N
  <2>2. \A n \in 2 .. N : Listed(n)
    BY <1>1 DEF IInv, Parents, N
  <2>3. \A n \in 2 .. N : Listed(n)'
    BY <1>2, <2>1, <2>2, ListedStays DEF N
  <2> QED BY <1>8, <2>3 DEF Parents
<1>13. nodes' # <<>> /\ Working' /\ Ended' /\ Unfreed' /\ Unmarked'
  <2>1. Len(calls') # 0 /\ Len(nodes') # 0
    BY <1>2, <1>7, <1>8
  <2> QED BY <1>1, <2>1 DEF Working, Ended, Unfreed, Unmarked
<1>14. Marks'
  <2>1. \A n \in 1 .. N : nodes'[n].mark <=> n = v \/ nodes[n].mark
    BY <1>8
  <2>2. 1 \in 1 .. N /\ C + 1 \in 1 .. C + 1 /\ \A k \in 1 .. C : k \in 1 .. C + 1
    BY <1>2
  <2>3. nodes'[1].mark
    BY <1>1, <2>1, <2>2 DEF IInv, Marks, Marked
  <2>4. \A n \in 1 .. N : nodes'[n].mark => n \in freed' \/ \E k \in 1 .. C + 1 : calls'[k].node = n
    <3>1. \A n \in 1 .. N : nodes[n].mark => n \in freed \/ \E k \in 1 .. C : calls[k].node = n
      BY <1>1 DEF IInv, Marks, Marked, OnStack, N, C
    <3> QED BY <1>1, <1>5, <1>7, <1>9, <2>1, <2>2, <3>1
  <2>5. \A k \in 1 .. C + 1 : nodes'[calls'[k].node].mark
    <3>1. \A k \in 1 .. C : nodes[calls[k].node].mark
      BY <1>1 DEF IInv, Marks, Marked, C
    <3>2. \A k \in 1 .. C : nodes'[calls'[k].node].mark
      BY <1>9, <2>1, <3>1
    <3>3. nodes'[calls'[C + 1].node].mark
      BY <1>5, <1>7, <2>1
    <3> QED BY <1>2, <3>2, <3>3
  <2>6. \A n \in freed' : \A j \in 1 .. Len(nodes'[n].sub_analyses) : nodes'[nodes'[n].sub_analyses[j]].mark
    <3> SUFFICES ASSUME NEW n \in freed, NEW j \in 1 .. Len(nodes'[n].sub_analyses)
                 PROVE  nodes'[nodes'[n].sub_analyses[j]].mark
      BY <1>1
    <3>1. n \in 1 .. N
      BY DEF IInv, TypeOK, N
    <3>2. nodes[n].sub_analyses[j] \in 1 .. N /\ nodes[nodes[n].sub_analyses[j]].mark
      BY <1>1, <1>8, <3>1 DEF IInv, TypeOK, Marks, Marked, N
    <3> QED BY <1>8, <2>1, <3>1, <3>2
  <2>7. ASSUME NEW k \in 1 .. C + 1, NEW j \in 1 .. Len(nodes'[calls'[k].node].sub_analyses), j < calls'[k].i
        PROVE  nodes'[nodes'[calls'[k].node].sub_analyses[j]].mark
    <3> DEFINE n == calls[k].node
    <3>1. CASE k = C + 1
      <4>1. nodes'[v].sub_analyses \in Seq(Nat)
        BY <1>3, <1>8, NodeType DEF IInv, N
      <4>2. Len(nodes'[v].sub_analyses) \in Nat /\ calls'[k].node = v /\ calls'[k].i = 1
        BY <1>5, <1>7, <3>1, <4>1
      <4> QED BY <2>7, <4>2
    <3>2. CASE k # C + 1
      <4>1. k \in 1 .. C
        BY <1>2, <3>2
      <4>2. n \in 1 .. N /\ calls'[k].node = n
        BY <1>9, <4>1
      <4>3. /\ nodes[n].sub_analyses \in Seq(Nat) /\ j \in 1 .. Len(nodes[n].sub_analyses)
            /\ nodes'[n].sub_analyses = nodes[n].sub_analyses
        BY <1>8, <2>7, <4>2, NodeType DEF IInv, N
      <4>4. nodes[n].sub_analyses[j] \in 1 .. N
        BY <4>2, <4>3 DEF IInv, TypeOK, N
      <4>5. CASE j < calls[k].i
        <5>1. nodes[nodes[n].sub_analyses[j]].mark
          BY <1>1, <4>1, <4>3, <4>5 DEF IInv, Marks, Marked, C
        <5> QED BY <2>1, <4>2, <4>3, <4>4, <5>1
      <4>6. CASE ~(j < calls[k].i)
        <5>1. j \in Nat
          BY <4>3
        <5>2. k = C
          BY <1>7, <2>7, <4>1, <4>6
        <5>3. j = Top.i /\ n = Top.node
          BY <1>2, <1>4, <1>7, <2>7, <4>1, <4>6, <5>1, <5>2
        <5> QED BY <1>3, <2>1, <4>2, <4>3, <5>3
      <4> QED BY <4>5, <4>6
    <3> QED BY <3>1, <3>2
  <2>8. Len(nodes') = N /\ Len(calls') = C + 1
    BY <1>7, <1>8
  <2>9. \A n \in 1 .. Len(nodes') : nodes'[n].mark => n \in freed' \/ \E k \in 1 .. Len(calls') : calls'[k].node = n
    BY <2>4, <2>8
  <2>10. \A k \in 1 .. Len(calls') : nodes'[calls'[k].node].mark
    BY <2>5, <2>8
  <2>11. \A k \in 1 .. Len(calls') : \A j \in 1 .. Len(nodes'[calls'[k].node].sub_analyses) :
            j < calls'[k].i => nodes'[nodes'[calls'[k].node].sub_analyses[j]].mark
    BY <2>7, <2>8
  <2> QED BY <2>3, <2>6, <2>9, <2>10, <2>11 DEF Marks, Marked, OnStack
<1> QED BY <1>10, <1>11, <1>12, <1>13, <1>14 DEF IInv

\* The invariant when an analysis is freed.
LEMMA FreeNodeStep ==
  ASSUME IInv, FreeNode
  PROVE  IInv'
<1> DEFINE C == Len(calls)
           N == Len(nodes)
<1>1. /\ phase = "free" /\ Top.i > Len(Node.sub_analyses)
      /\ freed' = freed \cup {Top.node}
      /\ calls' = Front(calls)
      /\ phase' = IF C = 1 THEN "done" ELSE "free"
      /\ UNCHANGED <<code, copy, nodes, analyses, failed, stale>>
  BY DEF FreeNode
<1>2. /\ calls \in Seq(Calls) /\ C \in Nat \ {0} /\ Top = calls[C] /\ Top.node \in 1 .. N /\ Top.i \in Nat \ {0}
      /\ nodes # <<>>
  BY <1>1, FreeingTop DEF IInv
<1>3. calls' = [k \in 1 .. C - 1 |-> calls[k]]
  BY <1>1, <1>2 DEF Front
<1>4. /\ calls' \in Seq(Calls) /\ Len(calls') = C - 1
      /\ \A k \in 1 .. C - 1 : calls'[k] = calls[k] /\ k \in 1 .. C
      /\ \A k \in 1 .. C : k = C \/ k \in 1 .. C - 1
  BY <1>2, <1>3
<1> HIDE DEF C, N
<1>5. \A k \in 1 .. C : calls[k].node \in 1 .. N
  BY Sizes DEF C, N
<1>6. TypeOK'
  <2>1. \A k \in 1 .. C - 1 : calls'[k].node \in 1 .. N
    BY <1>4, <1>5
  <2>2. freed' \subseteq 1 .. N
    BY <1>1, <1>2 DEF IInv, TypeOK, N
  <2>3. /\ code' \in [Slots -> Seq(Instructions)] /\ copy' \in Seq(Instructions)
        /\ analyses' \in [Slots -> 0 .. N] /\ phase' \in {"free", "done"}
        /\ failed' \subseteq 1 .. N /\ stale' \subseteq 1 .. N
    BY <1>1 DEF IInv, TypeOK, N
  <2>4. /\ nodes' \in Seq(Analyses) /\ N = Len(nodes')
        /\ \A k \in 1 .. N : \A j \in 1 .. Len(nodes'[k].sub_analyses) : nodes'[k].sub_analyses[j] \in 1 .. N
    BY <1>1 DEF IInv, TypeOK, N
  <2> QED BY <1>4, <2>1, <2>2, <2>3, <2>4, TypeAfter
<1>7. Known' /\ Depth' /\ Ascending'
  BY <1>1 DEF IInv, Known, Depth, Ascending
<1>8. Parents'
  <2>1. \A n \in 2 .. Len(nodes) : Listed(n)
    BY <1>1 DEF IInv, Parents
  <2>2. \A n \in 2 .. Len(nodes) : Listed(n)'
    BY <1>1, <2>1 DEF Listed
  <2> QED BY <1>1, <2>2 DEF Parents
<1>9. nodes' # <<>> /\ Working' /\ Ended' /\ Unfreed' /\ Unmarked'
  <2>1. IF C = 1 THEN calls' = <<>> ELSE calls' # <<>>
    <3>1. \A s \in Seq(Calls) : Len(s) = 0 <=> s = <<>>
      OBVIOUS
    <3>2. Len(calls') = 0 <=> C = 1
      BY <1>2, <1>4
    <3> QED BY <1>4, <3>1, <3>2
  <2> QED BY <1>1, <1>2, <2>1 DEF Working, Ended, Unfreed, Unmarked
<1>10. Marks'
  <2>1. \A n \in 1 .. N : nodes[n].mark => n \in freed' \/ \E k \in 1 .. C - 1 : calls'[k].node = n
    <3>1. \A n \in 1 .. N : nodes[n].mark => n \in freed \/ \E k \in 1 .. C : calls[k].node = n
      BY <1>1 DEF IInv, Marks, Marked, OnStack, N, C
    <3> QED BY <1>1, <1>2, <1>4, <3>1
  <2>2. \A k \in 1 .. C - 1 : nodes[calls'[k].node].mark
    BY <1>1, <1>4 DEF IInv, Marks, Marked, C
  <2>3. \A n \in freed' : \A j \in 1 .. Len(nodes[n].sub_analyses) : nodes[nodes[n].sub_analyses[j]].mark
    <3>1. ASSUME NEW j \in 1 .. Len(nodes[Top.node].sub_analyses)
          PROVE  nodes[nodes[Top.node].sub_analyses[j]].mark
      <4>1. Len(nodes[Top.node].sub_analyses) \in Nat
        BY <1>1, FreeingTop DEF Node
      <4>2. j < Top.i
        BY <1>1, <1>2, <4>1 DEF Node
      <4>3. C \in 1 .. C
        BY <1>2
      <4> QED BY <1>1, <1>2, <4>2, <4>3 DEF IInv, Marks, Marked, C
    <3> QED BY <1>1, <3>1 DEF IInv, Marks, Marked
  <2>4. \A k \in 1 .. C - 1 : \A j \in 1 .. Len(nodes[calls'[k].node].sub_analyses) :
            j < calls'[k].i => nodes[nodes[calls'[k].node].sub_analyses[j]].mark
    BY <1>1, <1>4 DEF IInv, Marks, Marked, C
  <2>5. nodes[1].mark
    BY <1>1 DEF IInv, Marks, Marked
  <2> QED BY <1>1, <1>4, <2>1, <2>2, <2>3, <2>4, <2>5 DEF Marks, Marked, OnStack, N
<1> QED BY <1>6, <1>7, <1>8, <1>9, <1>10 DEF IInv

\* The invariant when a slot is emptied, and when an analysis is freed twice.
LEMMA OtherSteps ==
  ASSUME IInv, FreeDescendsFreed \/ \E slot \in Slots : DeleteProc(slot)
  PROVE  IInv'
<1>1. /\ UNCHANGED <<copy, nodes, analyses, calls, failed, freed>>
      /\ code' \in [Slots -> Seq(Instructions)]
      /\ stale' \subseteq stale \cup freed
  <2>1. CASE FreeDescendsFreed
    BY <2>1 DEF FreeDescendsFreed, ReadMark, IInv, TypeOK
  <2>2. ASSUME NEW slot \in Slots, DeleteProc(slot)
        PROVE  UNCHANGED <<copy, nodes, analyses, calls, failed, freed, stale>>
               /\ code' \in [Slots -> Seq(Instructions)]
    BY <2>2 DEF DeleteProc, heapVars, IInv, TypeOK
  <2> QED BY <2>1, <2>2
<1>2. (phase' = "undefined" /\ phase = "free") \/ phase' = phase
  BY DEF FreeDescendsFreed, Visiting, DeleteProc
<1>3. TypeOK'
  BY <1>1, <1>2 DEF IInv, TypeOK
<1>4. \A n \in 2 .. Len(nodes) : Listed(n)' <=> Listed(n)
  BY <1>1 DEF Listed
<1>5. nodes' # <<>> /\ Working' /\ Ended' /\ Known' /\ Depth' /\ Ascending' /\ Unfreed' /\ Unmarked'
  BY <1>1, <1>2 DEF IInv, Working, Ended, Known, Depth, Ascending, Unfreed, Unmarked
<1>6. Parents'
  BY <1>1, <1>2, <1>4 DEF IInv, Parents
<1>7. Marks'
  BY <1>1, <1>2 DEF IInv, Marks, Marked, OnStack
<1> QED BY <1>3, <1>5, <1>6, <1>7 DEF IInv

LEMMA IInvStep == IInv /\ [Next]_vars => IInv'
<1> SUFFICES ASSUME IInv, [Next]_vars PROVE IInv'
  OBVIOUS
<1>1. CASE Analyzing
  BY <1>1, AnalyzingEffect, GoesOnStep, NestsStep, ReturnsStep DEF IInv
<1>2. CASE ExecReturns
  BY <1>2, ExecReturnsStep
<1>3. CASE FreeSkips
  BY <1>3, FreeSkipsStep
<1>4. CASE FreeDescends
  BY <1>4, FreeDescendsStep
<1>5. CASE FreeNode
  BY <1>5, FreeNodeStep
<1>6. CASE FreeDescendsFreed \/ \E slot \in Slots : DeleteProc(slot)
  BY <1>6, OtherSteps
<1>7. CASE UNCHANGED vars
  <2> USE <1>7 DEF vars, heapVars, IInv
  <2>1. TypeOK' /\ nodes' # <<>> /\ Working' /\ Ended'
    BY DEF TypeOK, Working, Ended
  <2>2. Known' /\ Depth' /\ Ascending' /\ Parents'
    BY DEF Known, Depth, Ascending, Parents, Listed
  <2>3. Unfreed' /\ Unmarked' /\ Marks'
    BY DEF Unfreed, Unmarked, Marks, Marked, OnStack
  <2> QED BY <2>1, <2>2, <2>3
<1> QED BY <1>1, <1>2, <1>3, <1>4, <1>5, <1>6, <1>7 DEF Next, Step, Analyzing

\* The invariant holds for ever.
THEOREM IInvHolds == Spec => []IInv
  BY IInvInit, IInvStep, PTL DEF Spec

\* Analyses, calls and the graph stay well typed: a sub-analysis is one that exists.
THEOREM TypeCorrect == Spec => []TypeOK
<1>1. IInv => TypeOK
  BY DEF IInv
<1> QED BY <1>1, IInvHolds, PTL

\* A slot is analyzed once, whatever the call graph is and whatever is deleted
\* meanwhile, so that proc_analyze is nested no deeper than there are slots.
THEOREM SlotsAnalyzedOnce == Spec => []AnalyzedOnce
<1>1. IInv => AnalyzedOnce
  <2> SUFFICES ASSUME IInv PROVE AnalyzedOnce
    OBVIOUS
  <2> DEFINE N == Len(nodes)
             f == [m \in 2 .. N |-> nodes[m].slot]
  <2>1. N \in Nat \ {0} /\ \A m \in 2 .. N : nodes[m].slot \in Slots
    BY Sizes, NodeType DEF IInv
  <2>2. \A m, n \in 2 .. N : nodes[m].slot = nodes[n].slot => m = n
    BY DEF IInv, Known
  <2>3. f \in Injection(2 .. N, Slots)
    BY <2>1, <2>2 DEF Injection, IsInjective
  <2> HIDE DEF f
  <2>4. Cardinality(2 .. N) <= Cardinality(Slots)
    BY <2>3, AnalyzeAssumption, FS_Injection DEF AnalyzeAssumption
  <2>5. Cardinality(2 .. N) = N - 1
    BY <2>1, FS_Interval
  <2>6. Cardinality(Slots) \in Nat
    BY AnalyzeAssumption, FS_CardinalityType DEF AnalyzeAssumption
  <2>7. phase = "analyze" => Len(calls) <= Cardinality(Slots) + 1
    BY <2>1, <2>4, <2>5, <2>6, Sizes DEF IInv, Depth
  <2> QED BY <2>2, <2>7 DEF AnalyzedOnce
<1> QED BY <1>1, IInvHolds, PTL

\* When the graph was freed without touching freed memory, all of it was: every
\* analysis is reachable from the first one, also when calls form cycles and when
\* analyses failed.
THEOREM GraphFreed == Spec => []FreedExactly
<1>1. IInv => FreedExactly
  <2> SUFFICES ASSUME IInv, phase = "done" PROVE freed = 1 .. Len(nodes)
    BY DEF FreedExactly
  <2> DEFINE T == (1 .. Len(nodes)) \ freed
  <2>1. Len(nodes) \in Nat \ {0} /\ freed \subseteq 1 .. Len(nodes)
    BY Sizes DEF IInv, TypeOK
  <2>2. \A n \in 1 .. Len(nodes) : nodes[n].mark => n \in freed
    BY DEF IInv, Ended, Marks, Marked, OnStack
  <2>3. SUFFICES ASSUME T # {} PROVE FALSE
    BY <2>1
  <2>4. PICK x \in T : \A y \in T : ~ (<<y, x>> \in OpToRel(<, Nat))
    <3>1. T \subseteq Nat
      BY <2>1
    <3> QED BY <2>3, <3>1, WFMin, NatLessThanWellFounded
  <2>5. x # 1
    BY <2>2 DEF IInv, Marks, Marked
  <2>6. x \in 2 .. Len(nodes)
    BY <2>1, <2>5
  <2>7. PICK m \in 1 .. x - 1 : \E j \in 1 .. Len(nodes[m].sub_analyses) : nodes[m].sub_analyses[j] = x
    BY <2>6 DEF IInv, Parents, Listed
  <2>8. m \in 1 .. Len(nodes) /\ m < x /\ m \in Nat /\ x \in Nat
    BY <2>1, <2>6
  <2>9. m \in freed
    BY <2>4, <2>8 DEF OpToRel
  <2>10. nodes[x].mark
    BY <2>7, <2>9 DEF IInv, Marks, Marked
  <2> QED BY <2>2, <2>6, <2>10
<1> QED BY <1>1, IInvHolds, PTL

-----------------------------------------------------------------------------
(***************************************************************************)
(* The graph has an analysis for every call, for any number of slots and   *)
(* any procedures in them: the lists of slots and of sub-analyses match,   *)
(* although one is extended before a recursion and the other after it.     *)
(***************************************************************************)
\* Nothing failed, and the graph is being built or complete.
Sound == failed = {} /\ phase \in {"analyze", "exec"}

\* The analysis n waits for that of a procedure it calls.
Waits(n) == \E k \in 1 .. Len(calls) - 1 : calls[k].node = n

\* The calls on the stack have not listed the slot of instruction i of n.
Ahead(n, i) == \E k \in 1 .. Len(calls) :
    calls[k].node = n /\ (calls[k].i < i \/ (k = Len(calls) /\ calls[k].i = i))

\* The table leads to an analysis of the slot.
KnownBack == \A slot \in Slots : analyses[slot] # 0 => nodes[analyses[slot]].slot = slot

\* Each sub-analysis is that of the slot at the same place; only the slot that is
\* waited for has none yet, and it is the last one.
Matching == \A n \in 1 .. Len(nodes) : \A j \in 1 .. Len(nodes[n].sub_analyses) :
    /\ j \in 1 .. Len(nodes[n].procedure_slots)
    /\ nodes[nodes[n].sub_analyses[j]].slot = nodes[n].procedure_slots[j]
Balanced == \A n \in 1 .. Len(nodes) :
    /\ Waits(n) => Len(nodes[n].procedure_slots) = Len(nodes[n].sub_analyses) + 1
    /\ ~Waits(n) => Len(nodes[n].procedure_slots) = Len(nodes[n].sub_analyses)
Awaited == \A k \in 1 .. Len(calls) - 1 :
    nodes[calls[k + 1].node].slot =
        nodes[calls[k].node].procedure_slots[Len(nodes[calls[k].node].procedure_slots)]

\* A call is listed, or still to be analyzed.
ListsSlot(n, slot) ==
    \E j \in 1 .. Len(nodes[n].procedure_slots) : nodes[n].procedure_slots[j] = slot
Covered == \A n \in 1 .. Len(nodes) : \A i \in 1 .. Len(Proc(n)) :
    Proc(n)[i].type = "call" => ListsSlot(n, Proc(n)[i].slot) \/ Ahead(n, i)

Idle == phase = "exec" => calls = <<>>
Listing == Matching /\ Balanced /\ Awaited /\ Covered

\* The inductive invariant, together with IInv.
CallsInv == KnownBack /\ Idle /\ (Sound => Listing)

-----------------------------------------------------------------------------
(* The stack.                                                              *)

\* The stack while a procedure is analyzed: no analysis is on it twice.
LEMMA Stack ==
  ASSUME IInv, phase = "analyze"
  PROVE  /\ calls \in Seq(Calls) /\ Len(calls) \in Nat \ {0} /\ Top = calls[Len(calls)]
         /\ Len(nodes) \in Nat \ {0}
         /\ \A k \in 1 .. Len(calls) :
                calls[k].node \in 1 .. Len(nodes) /\ calls[k].i \in Nat \ {0}
         /\ \A j, k \in 1 .. Len(calls) : calls[j].node = calls[k].node => j = k
<1>1. /\ calls \in Seq(Calls) /\ Len(calls) \in Nat \ {0} /\ Len(nodes) \in Nat \ {0}
      /\ \A k \in 1 .. Len(calls) : calls[k].node \in 1 .. Len(nodes)
  BY Sizes DEF IInv, Working
<1>2. \A k \in 1 .. Len(calls) : calls[k].i \in Nat \ {0}
  <2>1. \A k \in 1 .. Len(calls) : calls[k] \in Calls
    BY <1>1
  <2> QED BY <2>1 DEF Calls
<1>3. \A j, k \in 1 .. Len(calls) : calls[j].node = calls[k].node => j = k
  <2> SUFFICES ASSUME NEW j \in 1 .. Len(calls), NEW k \in 1 .. Len(calls),
                      calls[j].node = calls[k].node, j # k
               PROVE  FALSE
    OBVIOUS
  <2>1. j < k \/ k < j
    BY <1>1
  <2>2. calls[j].node < calls[k].node \/ calls[k].node < calls[j].node
    BY <2>1 DEF IInv, Ascending
  <2> QED BY <1>1, <2>2
<1> QED BY <1>1, <1>2, <1>3 DEF Top

LEMMA TopWaitsNot ==
  ASSUME IInv, phase = "analyze"
  PROVE  ~Waits(Top.node)
<1> SUFFICES ASSUME NEW k \in 1 .. Len(calls) - 1, calls[k].node = Top.node PROVE FALSE
  BY DEF Waits
<1>1. Len(calls) \in Nat \ {0} /\ Top = calls[Len(calls)]
  BY Stack
<1>2. k \in 1 .. Len(calls) /\ Len(calls) \in 1 .. Len(calls) /\ k # Len(calls)
  BY <1>1
<1> QED BY <1>1, <1>2, Stack

\* Going on to the next instruction.
LEMMA NextStack ==
  ASSUME IInv, phase = "analyze", NextInstruction
  PROVE  /\ Len(calls') = Len(calls)
         /\ \A k \in 1 .. Len(calls) : calls'[k].node = calls[k].node
         /\ \A n : Waits(n)' <=> Waits(n)
         /\ \A n, i \in Nat : Ahead(n, i) => Ahead(n, i)' \/ (n = Top.node /\ i = Top.i)
<1>1. /\ Len(calls') = Len(calls)
      /\ \A k \in 1 .. Len(calls) : calls'[k].node = calls[k].node
      /\ \A k \in 1 .. Len(calls) - 1 : calls'[k].i = calls[k].i
      /\ calls'[Len(calls)].i = calls[Len(calls)].i + 1
  BY Stack, NextInstructionEffect
<1>2. \A n : Waits(n)' <=> Waits(n)
  <2>1. \A k \in 1 .. Len(calls) - 1 : k \in 1 .. Len(calls)
    BY Stack
  <2> QED BY <1>1, <2>1 DEF Waits
<1>3. ASSUME NEW n \in Nat, NEW i \in Nat, Ahead(n, i), ~(n = Top.node /\ i = Top.i)
      PROVE  Ahead(n, i)'
  <2>1. PICK k \in 1 .. Len(calls) :
            calls[k].node = n /\ (calls[k].i < i \/ (k = Len(calls) /\ calls[k].i = i))
    BY <1>3 DEF Ahead
  <2>2. CASE k = Len(calls)
    <3>1. calls[k].node = n /\ calls[k].i < i
      BY <1>3, <2>1, <2>2, Stack
    <3>2. calls[k].i + 1 < i \/ calls[k].i + 1 = i
      BY <3>1, Stack
    <3> QED BY <1>1, <2>2, <3>1, <3>2 DEF Ahead
  <2>3. CASE k # Len(calls)
    <3>1. k \in 1 .. Len(calls) - 1
      BY <2>3, Stack
    <3> QED BY <1>1, <2>1, <2>3, <3>1 DEF Ahead
  <2> QED BY <2>2, <2>3
<1> QED BY <1>1, <1>2, <1>3

\* A nested call.
LEMMA PushStack ==
  ASSUME IInv, phase = "analyze", NEW v, v = Len(nodes) + 1, calls' = Append(calls, Entered(v))
  PROVE  /\ Len(calls') = Len(calls) + 1
         /\ \A k \in 1 .. Len(calls) : calls'[k] = calls[k]
         /\ calls'[Len(calls) + 1].node = v
         /\ \A n \in 1 .. Len(nodes) : Waits(n)' <=> (Waits(n) \/ n = Top.node)
         /\ ~Waits(v)'
         /\ \A n, i \in Nat : Ahead(n, i) => Ahead(n, i)' \/ (n = Top.node /\ i = Top.i)
         /\ \A i \in Nat \ {0} : Ahead(v, i)'
<1> DEFINE f == Entered(v)
           C == Len(calls)
<1>1. f \in Calls /\ f.node = v /\ f.i = 1
  <2>1. v \in Nat
    BY Stack
  <2> QED BY <2>1, EnteredType
<1>2. C \in Nat \ {0} /\ calls \in Seq(Calls)
  BY Stack
<1> HIDE DEF f
<1>3. Len(calls') = C + 1 /\ \A k \in 1 .. C : calls'[k] = calls[k]
  BY <1>1, <1>2 DEF f
<1>4. calls'[C + 1] = f
  BY <1>1, <1>2 DEF f
<1>5. ASSUME NEW n \in 1 .. Len(nodes)
      PROVE  Waits(n)' <=> (Waits(n) \/ n = Top.node)
  <2>1. Waits(n)' <=> \E k \in 1 .. C : calls[k].node = n
    BY <1>2, <1>3 DEF Waits
  <2>2. (\E k \in 1 .. C : calls[k].node = n) <=> (Waits(n) \/ n = Top.node)
    BY <1>2, Stack DEF Waits
  <2> QED BY <2>1, <2>2
<1>6. ~Waits(v)'
  <2>1. \A k \in 1 .. C : calls'[k].node # v
    BY <1>3, Stack
  <2>2. Waits(v)' => \E k \in 1 .. C : calls'[k].node = v
    BY <1>2, <1>3 DEF Waits
  <2> QED BY <2>1, <2>2
<1>7. ASSUME NEW n \in Nat, NEW i \in Nat, Ahead(n, i), ~(n = Top.node /\ i = Top.i)
      PROVE  Ahead(n, i)'
  <2>1. PICK k \in 1 .. C : calls[k].node = n /\ calls[k].i < i
    BY <1>7, Stack DEF Ahead
  <2>2. k \in 1 .. Len(calls') /\ calls'[k] = calls[k]
    BY <1>2, <1>3
  <2> QED BY <2>1, <2>2 DEF Ahead
<1>8. \A i \in Nat \ {0} : Ahead(v, i)'
  <2>1. C + 1 \in 1 .. Len(calls')
    BY <1>2, <1>3
  <2> QED BY <1>1, <1>3, <1>4, <2>1 DEF Ahead
<1> QED BY <1>1, <1>3, <1>4, <1>5, <1>6, <1>7, <1>8

\* A return to a caller.
LEMMA PopStack ==
  ASSUME IInv, phase = "analyze", Len(calls) # 1, AnalyzeReturns(TRUE),
         NEW n, n = calls[Len(calls) - 1].node
  PROVE  /\ Len(calls') = Len(calls) - 1
         /\ \A k \in 1 .. Len(calls) - 1 : calls'[k].node = calls[k].node
         /\ Waits(n) /\ ~Waits(n)'
         /\ \A m : m # n => (Waits(m)' <=> Waits(m))
         /\ \A m, i \in Nat : Ahead(m, i) => Ahead(m, i)' \/ (m = Top.node /\ Top.i <= i)
<1> DEFINE C == Len(calls)
           callers == Front(calls)
           f == [callers[C - 1] EXCEPT !.i = @ + 1]
<1>1. C \in Nat \ {0} /\ C - 1 \in 1 .. C /\ calls \in Seq(Calls)
  <2> QED BY Stack, BelowTop
<1>2. callers \in Seq(Calls) /\ Len(callers) = C - 1 /\ \A k \in 1 .. C - 1 : callers[k] = calls[k]
  <2>1. callers = [k \in 1 .. C - 1 |-> calls[k]]
    BY <1>1 DEF Front
  <2> QED BY <1>1, <2>1
<1> HIDE DEF callers
<1>3. callers[C - 1] \in Calls /\ callers[C - 1] = calls[C - 1] /\ C - 1 \in 1 .. Len(callers)
  BY <1>1, <1>2
<1>4. f \in Calls /\ f.node = n /\ f.i = calls[C - 1].i + 1
  BY <1>3 DEF Calls
<1>5. calls' = [callers EXCEPT ![C - 1] = f]
  BY <1>2, <1>3 DEF AnalyzeReturns, callers
<1> HIDE DEF f
<1>6. Len(calls') = C - 1 /\ \A k \in 1 .. C - 1 : calls'[k] = IF k = C - 1 THEN f ELSE calls[k]
  <2>1. /\ Len(calls') = Len(callers)
        /\ \A k \in 1 .. Len(callers) : calls'[k] = IF k = C - 1 THEN f ELSE callers[k]
    BY <1>2, <1>3, <1>4, <1>5, ReplaceElement
  <2> QED BY <1>2, <2>1
<1>7. \A k \in 1 .. C - 1 : calls'[k].node = calls[k].node /\ k \in 1 .. C
  BY <1>1, <1>4, <1>6
<1>8. Waits(n)
  BY <1>1 DEF Waits
<1>9. ~Waits(n)'
  <2> SUFFICES ASSUME NEW k \in 1 .. C - 2, calls'[k].node = n PROVE FALSE
    BY <1>1, <1>6 DEF Waits
  <2>1. k \in 1 .. C /\ k # C - 1 /\ calls[k].node = n
    BY <1>1, <1>7
  <2> QED BY <1>1, <2>1, Stack
<1>10. ASSUME NEW m, m # n
       PROVE  Waits(m)' <=> Waits(m)
  <2>1. Waits(m)' <=> \E k \in 1 .. C - 2 : calls[k].node = m
    <3>1. Waits(m)' <=> \E k \in 1 .. (C - 1) - 1 : calls'[k].node = m
      BY <1>6 DEF Waits
    <3>2. (C - 1) - 1 = C - 2 /\ \A k \in 1 .. C - 2 : k \in 1 .. C - 1
      BY <1>1
    <3>3. \A k \in 1 .. C - 2 : calls'[k].node = calls[k].node
      BY <1>7, <3>2
    <3> QED BY <3>1, <3>2, <3>3
  <2>2. Waits(m) => \E k \in 1 .. C - 2 : calls[k].node = m
    BY <1>1, <1>10 DEF Waits
  <2>3. (\E k \in 1 .. C - 2 : calls[k].node = m) => Waits(m)
    BY <1>1 DEF Waits
  <2> QED BY <2>1, <2>2, <2>3
<1>11. ASSUME NEW m \in Nat, NEW i \in Nat, Ahead(m, i), ~(m = Top.node /\ Top.i <= i)
       PROVE  Ahead(m, i)'
  <2>1. PICK k \in 1 .. C :
            calls[k].node = m /\ (calls[k].i < i \/ (k = C /\ calls[k].i = i))
    BY <1>11 DEF Ahead
  <2>2. k # C
    BY <1>11, <2>1, Stack
  <2>3. k \in 1 .. C - 1 /\ calls[k].i < i /\ calls[k].i \in Nat
    BY <1>1, <2>1, <2>2, Stack
  <2>4. CASE k = C - 1
    <3>1. calls'[k].node = m /\ calls'[k].i = calls[k].i + 1
      BY <1>4, <1>6, <1>7, <2>1, <2>3, <2>4
    <3>2. calls'[k].i < i \/ calls'[k].i = i
      BY <2>3, <3>1
    <3> QED BY <1>6, <2>3, <2>4, <3>1, <3>2 DEF Ahead
  <2>5. CASE k # C - 1
    BY <1>6, <2>1, <2>3, <2>5 DEF Ahead
  <2> QED BY <2>4, <2>5
<1> QED BY <1>6, <1>7, <1>8, <1>9, <1>10, <1>11

-----------------------------------------------------------------------------
(* The graph.                                                              *)

\* The analysis n of s gets the lists slots and subs, and nothing else changes.
Puts(s, t, n, slots, subs) ==
    /\ t \in Seq(Analyses) /\ Len(t) = Len(s)
    /\ \A k \in 1 .. Len(s) : t[k].slot = s[k].slot /\ (k # n => t[k] = s[k])
    /\ t[n].procedure_slots = slots /\ t[n].sub_analyses = subs

LEMMA PutsEffect ==
  ASSUME NEW s \in Seq(Analyses), NEW n \in 1 .. Len(s), NEW slots \in Seq(Slots), NEW subs \in Seq(Nat),
         NEW t, t = [s EXCEPT ![n] = [s[n] EXCEPT !.procedure_slots = slots, !.sub_analyses = subs]]
  PROVE  Puts(s, t, n, slots, subs)
<1> DEFINE a == [s[n] EXCEPT !.procedure_slots = slots, !.sub_analyses = subs]
<1>1. s[n] \in Analyses
  OBVIOUS
<1>2. a \in Analyses /\ a.slot = s[n].slot /\ a.procedure_slots = slots /\ a.sub_analyses = subs
  BY <1>1 DEF Analyses
<1> HIDE DEF a
<1>3. t \in Seq(Analyses) /\ Len(t) = Len(s) /\ \A k \in 1 .. Len(s) : t[k] = IF k = n THEN a ELSE s[k]
  BY <1>2, ReplaceElement DEF a
<1> QED BY <1>2, <1>3 DEF Puts

\* The lists of an analysis.
LEMMA ListTypes ==
  ASSUME TypeOK, NEW n \in 1 .. Len(nodes)
  PROVE  nodes[n].procedure_slots \in Seq(Slots) /\ nodes[n].sub_analyses \in Seq(Nat)
<1>1. nodes[n] \in Analyses
  BY DEF TypeOK
<1> QED BY <1>1 DEF Analyses

\* A call of a slot that is known is listed in both.
LEMMA KnownCallPuts ==
  ASSUME IInv, AnalyzeKnownCall
  PROVE  /\ Callee \in Slots /\ analyses[Callee] \in 1 .. Len(nodes)
         /\ Puts(nodes, nodes', Top.node, Append(nodes[Top.node].procedure_slots, Callee),
                 Append(nodes[Top.node].sub_analyses, analyses[Callee]))
<1> DEFINE n == Top.node
           c == Callee
           v == analyses[c]
           slots == Append(nodes[n].procedure_slots, c)
           subs == Append(nodes[n].sub_analyses, v)
<1>1. AtInstruction(TRUE) /\ v # 0
  BY DEF AnalyzeKnownCall
<1>2. c \in Slots
  BY <1>1, CalleeType DEF IInv
<1>3. v \in 1 .. Len(nodes)
  BY <1>1, <1>2 DEF IInv, TypeOK
<1>4. n \in 1 .. Len(nodes) /\ nodes \in Seq(Analyses)
  BY <1>1, TopType DEF IInv, Working, AtInstruction, TypeOK
<1>5. nodes' = [nodes EXCEPT ![n].procedure_slots = Append(@, c), ![n].sub_analyses = Append(@, v)]
  BY DEF AnalyzeKnownCall
<1>6. nodes' = [nodes EXCEPT ![n] = [nodes[n] EXCEPT !.procedure_slots = slots, !.sub_analyses = subs]]
  BY <1>4, <1>5
<1>7. slots \in Seq(Slots) /\ subs \in Seq(Nat)
  BY <1>2, <1>3, <1>4, ListTypes DEF IInv
<1> HIDE DEF n, slots, subs
<1>8. Puts(nodes, nodes', n, slots, subs)
  BY <1>4, <1>6, <1>7, PutsEffect
<1> QED BY <1>2, <1>3, <1>8 DEF n, slots, subs

\* A new call is listed in the first one, and gets an analysis.
LEMMA NewCallPuts ==
  ASSUME IInv, AnalyzeNewCall
  PROVE  /\ Callee \in Slots
         /\ \E t : /\ Puts(nodes, t, Top.node, Append(nodes[Top.node].procedure_slots, Callee),
                           nodes[Top.node].sub_analyses)
                   /\ nodes' = Append(t, NewNode(Callee))
<1> DEFINE n == Top.node
           c == Callee
           t == [nodes EXCEPT ![n].procedure_slots = Append(@, c)]
           slots == Append(nodes[n].procedure_slots, c)
           subs == nodes[n].sub_analyses
<1>1. AtInstruction(TRUE) /\ nodes' = Append(t, NewNode(c))
  BY DEF AnalyzeNewCall
<1>2. c \in Slots
  BY <1>1, CalleeType DEF IInv
<1>3. n \in 1 .. Len(nodes) /\ nodes \in Seq(Analyses)
  BY <1>1, TopType DEF IInv, Working, AtInstruction, TypeOK
<1>4. nodes[n] \in Analyses
  BY <1>3
<1>5. t = [nodes EXCEPT ![n] = [nodes[n] EXCEPT !.procedure_slots = slots, !.sub_analyses = subs]]
  BY <1>3, <1>4 DEF Analyses
<1>6. slots \in Seq(Slots) /\ subs \in Seq(Nat)
  BY <1>2, <1>3, ListTypes DEF IInv
<1> HIDE DEF n, slots, subs, t
<1>7. Puts(nodes, t, n, slots, subs)
  BY <1>3, <1>5, <1>6, PutsEffect
<1> QED BY <1>1, <1>2, <1>7 DEF n, slots, subs

\* An analysis that ends is adopted by its caller.
LEMMA EndsPuts ==
  ASSUME IInv, AnalyzeEnds, Len(calls) # 1, NEW n, n = calls[Len(calls) - 1].node
  PROVE  Puts(nodes, nodes', n, nodes[n].procedure_slots, Append(nodes[n].sub_analyses, Top.node))
<1> DEFINE v == Top.node
           slots == nodes[n].procedure_slots
           subs == Append(nodes[n].sub_analyses, v)
<1>1. phase = "analyze" /\ nodes' = [nodes EXCEPT ![n].sub_analyses = Append(@, v)]
  BY DEF AnalyzeEnds, Adopted
<1>2. n \in 1 .. Len(nodes) /\ v \in 1 .. Len(nodes) /\ nodes \in Seq(Analyses)
  <2>1. Len(calls) \in Nat \ {0} /\ Top = calls[Len(calls)]
    BY <1>1, Stack
  <2>2. Len(calls) - 1 \in 1 .. Len(calls)
    BY <2>1, BelowTop
  <2>3. Len(calls) \in 1 .. Len(calls)
    BY <2>1
  <2> QED BY <1>1, <2>1, <2>2, <2>3, Stack DEF IInv, TypeOK
<1>3. nodes[n] \in Analyses
  BY <1>2
<1>4. nodes' = [nodes EXCEPT ![n] = [nodes[n] EXCEPT !.procedure_slots = slots, !.sub_analyses = subs]]
  BY <1>1, <1>2, <1>3 DEF Analyses
<1>5. slots \in Seq(Slots) /\ subs \in Seq(Nat)
  BY <1>2, ListTypes DEF IInv
<1> HIDE DEF slots, subs
<1>6. Puts(nodes, nodes', n, slots, subs)
  BY <1>2, <1>4, <1>5, PutsEffect
<1> QED BY <1>6 DEF slots, subs

-----------------------------------------------------------------------------
(* The steps.                                                              *)

LEMMA ProcType ==
  ASSUME TypeOK, NEW n \in 1 .. Len(nodes)
  PROVE  Proc(n) \in Seq(Instructions)
  BY NodeType DEF TypeOK, Proc

LEMMA Positions ==
  ASSUME TypeOK, NEW n \in 1 .. Len(nodes), NEW i \in 1 .. Len(Proc(n))
  PROVE  n \in Nat /\ i \in Nat
<1>1. Len(nodes) \in Nat
  BY DEF TypeOK
<1>2. Len(Proc(n)) \in Nat
  BY ProcType
<1> QED BY <1>1, <1>2

LEMMA ProcStays ==
  ASSUME UNCHANGED <<code, copy>>, NEW n, nodes'[n].slot = nodes[n].slot
  PROVE  Proc(n)' = Proc(n)
  BY DEF Proc

LEMMA Appended ==
  ASSUME NEW S, NEW s \in Seq(S), NEW x \in S
  PROVE  /\ Len(Append(s, x)) = Len(s) + 1
         /\ \A j \in 1 .. Len(s) : j \in 1 .. Len(Append(s, x)) /\ Append(s, x)[j] = s[j]
         /\ Len(s) + 1 \in 1 .. Len(Append(s, x)) /\ Append(s, x)[Len(s) + 1] = x
         /\ \A j \in 1 .. Len(Append(s, x)) : j = Len(s) + 1 \/ j \in 1 .. Len(s)
  OBVIOUS

\* What is listed stays, and the new slot is listed.
LEMMA ListGrows ==
  ASSUME NEW m, NEW n, NEW c \in Slots, nodes[m].procedure_slots \in Seq(Slots),
         nodes'[m].procedure_slots = Append(nodes[m].procedure_slots, c),
         n # m => nodes'[n].procedure_slots = nodes[n].procedure_slots
  PROVE  /\ \A x : ListsSlot(n, x) => ListsSlot(n, x)'
         /\ ListsSlot(m, c)'
<1>1. ListsSlot(m, c)'
  BY Appended DEF ListsSlot
<1>2. ASSUME NEW x, ListsSlot(n, x) PROVE ListsSlot(n, x)'
  <2>1. PICK j \in 1 .. Len(nodes[n].procedure_slots) : nodes[n].procedure_slots[j] = x
    BY <1>2 DEF ListsSlot
  <2>2. CASE n = m
    <3>1. j \in 1 .. Len(nodes'[m].procedure_slots) /\ nodes'[m].procedure_slots[j] = x
      BY <2>1, <2>2, Appended
    <3> QED BY <2>2, <3>1 DEF ListsSlot
  <2>3. CASE n # m
    BY <2>1, <2>3 DEF ListsSlot
  <2> QED BY <2>2, <2>3
<1> QED BY <1>1, <1>2

\* An instruction that is no call lists nothing.
LEMMA SimpleListing ==
  ASSUME IInv, Listing, AnalyzeSimple
  PROVE  Listing'
<1>1. /\ phase = "analyze" /\ NextInstruction /\ UNCHANGED <<code, copy, nodes>>
      /\ Proc(Top.node)[Top.i].type # "call"
  BY DEF AnalyzeSimple, AtInstruction
<1>2. /\ Len(calls') = Len(calls)
      /\ \A k \in 1 .. Len(calls) : calls'[k].node = calls[k].node
      /\ \A n : Waits(n)' <=> Waits(n)
      /\ \A n, i \in Nat : Ahead(n, i) => Ahead(n, i)' \/ (n = Top.node /\ i = Top.i)
  BY <1>1, NextStack
<1>3. Matching' /\ Balanced'
  BY <1>1, <1>2 DEF Listing, Matching, Balanced
<1>4. Awaited'
  <2>1. \A k \in 1 .. Len(calls) - 1 : k \in 1 .. Len(calls) /\ k + 1 \in 1 .. Len(calls)
    BY <1>1, Stack
  <2> QED BY <1>1, <1>2, <2>1 DEF Listing, Awaited
<1>5. Covered'
  <2> SUFFICES ASSUME NEW n \in 1 .. Len(nodes), NEW i \in 1 .. Len(Proc(n)), Proc(n)[i].type = "call"
               PROVE  ListsSlot(n, Proc(n)[i].slot)' \/ Ahead(n, i)'
    BY <1>1, ProcStays DEF Covered
  <2>1. n \in Nat /\ i \in Nat
    BY Positions DEF IInv
  <2>2. ListsSlot(n, Proc(n)[i].slot) \/ Ahead(n, i)
    BY DEF Listing, Covered
  <2>3. Proc(n)' = Proc(n)
    BY <1>1, ProcStays
  <2> QED BY <1>1, <1>2, <2>1, <2>2, <2>3 DEF ListsSlot
<1> QED BY <1>3, <1>4, <1>5 DEF Listing

\* A call of a known slot lists it twice.
LEMMA KnownCallListing ==
  ASSUME IInv, KnownBack, Listing, AnalyzeKnownCall
  PROVE  Listing'
<1> DEFINE N == Len(nodes)
           C == Len(calls)
<1>0. PICK m, c, v : m = Top.node /\ c = Callee /\ v = analyses[c]
  OBVIOUS
<1>1. /\ phase = "analyze" /\ NextInstruction /\ UNCHANGED <<code, copy, analyses>>
      /\ v # 0 /\ c = Proc(m)[Top.i].slot
  BY <1>0 DEF AnalyzeKnownCall, AtInstruction, Callee
<1>2. /\ Len(calls') = C
      /\ \A k \in 1 .. C : calls'[k].node = calls[k].node
      /\ \A n : Waits(n)' <=> Waits(n)
      /\ \A n, i \in Nat : Ahead(n, i) => Ahead(n, i)' \/ (n = m /\ i = Top.i)
  BY <1>0, <1>1, NextStack
<1>3. c \in Slots /\ v \in 1 .. N /\ nodes[v].slot = c
  BY <1>0, <1>1, KnownCallPuts DEF KnownBack
<1>4. /\ Len(nodes') = N
      /\ \A k \in 1 .. N : nodes'[k].slot = nodes[k].slot /\ (k # m => nodes'[k] = nodes[k])
      /\ nodes'[m].procedure_slots = Append(nodes[m].procedure_slots, c)
      /\ nodes'[m].sub_analyses = Append(nodes[m].sub_analyses, v)
  BY <1>0, KnownCallPuts DEF Puts
<1>5. /\ C \in Nat \ {0} /\ N \in Nat \ {0} /\ m \in 1 .. N /\ m = calls[C].node
      /\ \A k \in 1 .. C - 1 :
            k \in 1 .. C /\ k + 1 \in 1 .. C /\ calls[k].node # m /\ calls[k].node \in 1 .. N
            /\ calls[k + 1].node \in 1 .. N
  <2>1. C \in Nat \ {0} /\ \A k \in 1 .. C - 1 : k \in 1 .. C /\ k + 1 \in 1 .. C /\ k # C /\ C \in 1 .. C
    BY <1>1, Stack
  <2>2. C \in 1 .. C
    BY <2>1
  <2> QED BY <1>0, <1>1, <2>1, <2>2, Stack
<1>6. /\ nodes[m].procedure_slots \in Seq(Slots) /\ nodes[m].sub_analyses \in Seq(Nat)
      /\ Len(nodes[m].procedure_slots) = Len(nodes[m].sub_analyses)
      /\ ~Waits(m)
  <2>1. ~Waits(m)
    BY <1>0, <1>1, TopWaitsNot
  <2> QED BY <1>5, <2>1, ListTypes DEF IInv, Listing, Balanced
<1>7. \A n \in 1 .. N : \A j \in 1 .. Len(nodes[n].sub_analyses) : nodes[n].sub_analyses[j] \in 1 .. N
  BY DEF IInv, TypeOK
<1> HIDE DEF N, C
<1>8. Matching'
  <2>1. ASSUME NEW j \in 1 .. Len(nodes'[m].sub_analyses)
        PROVE  /\ j \in 1 .. Len(nodes'[m].procedure_slots)
               /\ nodes'[nodes'[m].sub_analyses[j]].slot = nodes'[m].procedure_slots[j]
    <3> DEFINE s == nodes[m].procedure_slots
               a == nodes[m].sub_analyses
    <3>0. nodes'[m].procedure_slots = Append(s, c) /\ nodes'[m].sub_analyses = Append(a, v)
      BY <1>4
    <3>1. s \in Seq(Slots) /\ a \in Seq(Nat) /\ Len(s) = Len(a) /\ j \in 1 .. Len(Append(a, v))
      BY <1>4, <1>6
    <3>2. \A l \in 1 .. Len(a) : nodes[a[l]].slot = s[l] /\ a[l] \in 1 .. N
      BY <1>5, <1>7 DEF Listing, Matching, N
    <3> HIDE DEF s, a
    <3>3. CASE j = Len(a) + 1
      <4>1. Append(a, v)[j] = v /\ Append(s, c)[j] = c /\ j \in 1 .. Len(Append(s, c))
        BY <1>3, <3>1, <3>3
      <4> QED BY <1>3, <1>4, <3>0, <4>1
    <3>4. CASE j \in 1 .. Len(a)
      <4>1. Append(a, v)[j] = a[j] /\ Append(s, c)[j] = s[j] /\ j \in 1 .. Len(Append(s, c))
        BY <3>1, <3>4
      <4>2. nodes'[a[j]].slot = s[j]
        BY <1>4, <3>2, <3>4
      <4> QED BY <3>0, <4>1, <4>2
    <3>5. j = Len(a) + 1 \/ j \in 1 .. Len(a)
      <4>1. Len(Append(a, v)) = Len(a) + 1 /\ Len(a) \in Nat
        BY <1>3, <3>1
      <4> QED BY <3>1, <4>1
    <3> QED BY <3>3, <3>4, <3>5
  <2>2. ASSUME NEW n \in 1 .. N, n # m, NEW j \in 1 .. Len(nodes'[n].sub_analyses)
        PROVE  /\ j \in 1 .. Len(nodes'[n].procedure_slots)
               /\ nodes'[nodes'[n].sub_analyses[j]].slot = nodes'[n].procedure_slots[j]
    <3>1. nodes'[n] = nodes[n]
      BY <1>4, <2>2
    <3>2. nodes[n].sub_analyses[j] \in 1 .. N
      BY <1>7, <3>1
    <3>3. /\ j \in 1 .. Len(nodes[n].procedure_slots)
          /\ nodes[nodes[n].sub_analyses[j]].slot = nodes[n].procedure_slots[j]
      BY <3>1 DEF Listing, Matching, N
    <3>4. nodes'[nodes[n].sub_analyses[j]].slot = nodes[n].procedure_slots[j]
      BY <1>4, <3>2, <3>3
    <3> QED BY <3>1, <3>3, <3>4
  <2> QED BY <1>4, <2>1, <2>2 DEF Matching
<1>9. Balanced'
  <2>1. Len(nodes'[m].procedure_slots) = Len(nodes'[m].sub_analyses)
    BY <1>3, <1>4, <1>6
  <2>2. ASSUME NEW n \in 1 .. N, n # m
        PROVE  /\ Waits(n) => Len(nodes'[n].procedure_slots) = Len(nodes'[n].sub_analyses) + 1
               /\ ~Waits(n) => Len(nodes'[n].procedure_slots) = Len(nodes'[n].sub_analyses)
    BY <1>4, <2>2 DEF Listing, Balanced, N
  <2> QED BY <1>2, <1>4, <1>6, <2>1, <2>2 DEF Balanced
<1>10. Awaited'
  <2> SUFFICES ASSUME NEW k \in 1 .. C - 1
               PROVE  nodes'[calls'[k + 1].node].slot =
                        nodes'[calls'[k].node].procedure_slots[Len(nodes'[calls'[k].node].procedure_slots)]
    BY <1>2 DEF Awaited
  <2>1. calls'[k].node = calls[k].node /\ calls'[k + 1].node = calls[k + 1].node
    BY <1>2, <1>5
  <2>2. /\ nodes'[calls[k].node] = nodes[calls[k].node]
        /\ nodes'[calls[k + 1].node].slot = nodes[calls[k + 1].node].slot
    BY <1>4, <1>5
  <2> QED BY <2>1, <2>2 DEF Listing, Awaited, C
<1>11. Covered'
  <2> SUFFICES ASSUME NEW n \in 1 .. N, NEW i \in 1 .. Len(Proc(n)), Proc(n)[i].type = "call"
               PROVE  ListsSlot(n, Proc(n)[i].slot)' \/ Ahead(n, i)'
    BY <1>1, <1>4, ProcStays DEF Covered
  <2>1. n \in Nat /\ i \in Nat
    BY Positions DEF IInv, N
  <2>2. ListsSlot(n, Proc(n)[i].slot) \/ Ahead(n, i)
    BY DEF Listing, Covered, N
  <2>3. Proc(n)' = Proc(n)
    BY <1>1, <1>4, ProcStays
  <2>4. /\ \A x : ListsSlot(n, x) => ListsSlot(n, x)'
        /\ ListsSlot(m, c)'
    <3>1. n # m => nodes'[n].procedure_slots = nodes[n].procedure_slots
      BY <1>4
    <3> QED BY <1>3, <1>4, <1>6, <3>1, ListGrows
  <2>6. ListsSlot(n, Proc(n)[i].slot)' <=> \E j \in 1 .. Len(nodes'[n].procedure_slots) :
                nodes'[n].procedure_slots[j] = Proc(n)[i].slot
    BY <2>3 DEF ListsSlot
  <2>7. ListsSlot(n, Proc(n)[i].slot) => ListsSlot(n, Proc(n)[i].slot)'
    <3>1. PICK x : x = Proc(n)[i].slot
      OBVIOUS
    <3> QED BY <2>3, <2>4, <3>1 DEF ListsSlot
  <2>8. n = m /\ i = Top.i => ListsSlot(n, Proc(n)[i].slot)'
    BY <1>1, <2>4, <2>6 DEF ListsSlot
  <2> QED BY <1>2, <2>1, <2>2, <2>7, <2>8
<1> QED BY <1>8, <1>9, <1>10, <1>11 DEF Listing

\* A call of a new slot lists the slot, and its caller waits for the analysis.
LEMMA NewCallListing ==
  ASSUME IInv, Listing, AnalyzeNewCall
  PROVE  Listing'
<1> DEFINE N == Len(nodes)
           C == Len(calls)
<1>0. PICK m, c, v : m = Top.node /\ c = Callee /\ v = N + 1
  OBVIOUS
<1>1. /\ phase = "analyze" /\ calls' = Append(calls, Entered(v)) /\ UNCHANGED <<code, copy>>
      /\ c = Proc(m)[Top.i].slot
  BY <1>0 DEF AnalyzeNewCall, AtInstruction, Callee
<1>2. /\ Len(calls') = C + 1
      /\ \A k \in 1 .. C : calls'[k] = calls[k]
      /\ calls'[C + 1].node = v
      /\ \A n \in 1 .. N : Waits(n)' <=> (Waits(n) \/ n = m)
      /\ ~Waits(v)'
      /\ \A n, i \in Nat : Ahead(n, i) => Ahead(n, i)' \/ (n = m /\ i = Top.i)
      /\ \A i \in Nat \ {0} : Ahead(v, i)'
  BY <1>0, <1>1, PushStack
<1>3. PICK t : /\ Puts(nodes, t, m, Append(nodes[m].procedure_slots, c), nodes[m].sub_analyses)
               /\ nodes' = Append(t, NewNode(c))
  BY <1>0, NewCallPuts
<1>4. c \in Slots /\ N \in Nat \ {0}
  BY <1>0, <1>1, NewCallPuts, Stack
<1>5. /\ C \in Nat \ {0} /\ m \in 1 .. N /\ m = calls[C].node
      /\ \A k \in 1 .. C - 1 :
            k \in 1 .. C /\ k + 1 \in 1 .. C /\ calls[k].node # m /\ calls[k].node \in 1 .. N
            /\ calls[k + 1].node \in 1 .. N
  <2>1. C \in Nat \ {0} /\ \A k \in 1 .. C - 1 : k \in 1 .. C /\ k + 1 \in 1 .. C /\ k # C /\ C \in 1 .. C
    BY <1>1, Stack
  <2>2. C \in 1 .. C
    BY <2>1
  <2> QED BY <1>0, <1>1, <2>1, <2>2, Stack
<1>6. /\ nodes[m].procedure_slots \in Seq(Slots) /\ nodes[m].sub_analyses \in Seq(Nat)
      /\ Len(nodes[m].procedure_slots) = Len(nodes[m].sub_analyses)
      /\ ~Waits(m)
  <2>1. ~Waits(m)
    BY <1>0, <1>1, TopWaitsNot
  <2> QED BY <1>5, <2>1, ListTypes DEF IInv, Listing, Balanced
<1>7. \A n \in 1 .. N : \A j \in 1 .. Len(nodes[n].sub_analyses) : nodes[n].sub_analyses[j] \in 1 .. N
  BY DEF IInv, TypeOK
<1>8. /\ Len(nodes') = v /\ v = N + 1
      /\ \A k \in 1 .. N : nodes'[k].slot = nodes[k].slot /\ (k # m => nodes'[k] = nodes[k])
      /\ nodes'[m].procedure_slots = Append(nodes[m].procedure_slots, c)
      /\ nodes'[m].sub_analyses = nodes[m].sub_analyses
      /\ nodes'[v].slot = c /\ nodes'[v].procedure_slots = <<>> /\ nodes'[v].sub_analyses = <<>>
  <2>1. /\ t \in Seq(Analyses) /\ Len(t) = N
        /\ \A k \in 1 .. N : t[k].slot = nodes[k].slot /\ (k # m => t[k] = nodes[k])
        /\ t[m].procedure_slots = Append(nodes[m].procedure_slots, c)
        /\ t[m].sub_analyses = nodes[m].sub_analyses
    BY <1>3 DEF Puts
  <2>a. NewNode(c).slot = c /\ NewNode(c).procedure_slots = <<>> /\ NewNode(c).sub_analyses = <<>>
    BY DEF NewNode
  <2>2. PICK a : a = NewNode(c) /\ a.slot = c /\ a.procedure_slots = <<>> /\ a.sub_analyses = <<>>
    BY <2>a
  <2> HIDE DEF N
  <2>3. Len(nodes') = N + 1 /\ (\A k \in 1 .. N : nodes'[k] = t[k]) /\ nodes'[N + 1] = a
    BY <1>3, <1>4, <2>1, <2>2
  <2> QED BY <1>0, <1>5, <2>1, <2>2, <2>3
<1>9. \A n \in 1 .. v : n = v \/ n \in 1 .. N
  BY <1>0, <1>4
<1> HIDE DEF N, C
<1>10. Matching'
  <2>1. ASSUME NEW j \in 1 .. Len(nodes'[m].sub_analyses)
        PROVE  /\ j \in 1 .. Len(nodes'[m].procedure_slots)
               /\ nodes'[nodes'[m].sub_analyses[j]].slot = nodes'[m].procedure_slots[j]
    <3>1. /\ j \in 1 .. Len(nodes[m].procedure_slots) /\ nodes[m].sub_analyses[j] \in 1 .. N
          /\ nodes[nodes[m].sub_analyses[j]].slot = nodes[m].procedure_slots[j]
      BY <1>5, <1>7, <1>8 DEF Listing, Matching, N
    <3>2. /\ j \in 1 .. Len(Append(nodes[m].procedure_slots, c))
          /\ Append(nodes[m].procedure_slots, c)[j] = nodes[m].procedure_slots[j]
      BY <1>4, <1>6, <3>1
    <3> QED BY <1>8, <3>1, <3>2
  <2>2. ASSUME NEW n \in 1 .. N, n # m, NEW j \in 1 .. Len(nodes'[n].sub_analyses)
        PROVE  /\ j \in 1 .. Len(nodes'[n].procedure_slots)
               /\ nodes'[nodes'[n].sub_analyses[j]].slot = nodes'[n].procedure_slots[j]
    <3>1. nodes'[n] = nodes[n]
      BY <1>8, <2>2
    <3>2. nodes[n].sub_analyses[j] \in 1 .. N
      BY <1>7, <3>1
    <3>3. /\ j \in 1 .. Len(nodes[n].procedure_slots)
          /\ nodes[nodes[n].sub_analyses[j]].slot = nodes[n].procedure_slots[j]
      BY <3>1 DEF Listing, Matching, N
    <3>4. nodes'[nodes[n].sub_analyses[j]].slot = nodes[n].procedure_slots[j]
      BY <1>8, <3>2, <3>3
    <3> QED BY <3>1, <3>3, <3>4
  <2>3. \A j \in 1 .. Len(nodes'[v].sub_analyses) : FALSE
    BY <1>8
  <2> QED BY <1>8, <1>9, <2>1, <2>2, <2>3 DEF Matching
<1>11. Balanced'
  <2>1. Len(nodes'[m].procedure_slots) = Len(nodes'[m].sub_analyses) + 1
    BY <1>4, <1>6, <1>8
  <2>2. ASSUME NEW n \in 1 .. N, n # m
        PROVE  /\ Waits(n) => Len(nodes'[n].procedure_slots) = Len(nodes'[n].sub_analyses) + 1
               /\ ~Waits(n) => Len(nodes'[n].procedure_slots) = Len(nodes'[n].sub_analyses)
    BY <1>8, <2>2 DEF Listing, Balanced, N
  <2>3. Len(nodes'[v].procedure_slots) = Len(nodes'[v].sub_analyses)
    BY <1>8
  <2> QED BY <1>2, <1>5, <1>8, <1>9, <2>1, <2>2, <2>3 DEF Balanced
<1>12. Awaited'
  <2> SUFFICES ASSUME NEW k \in 1 .. C
               PROVE  nodes'[calls'[k + 1].node].slot =
                        nodes'[calls'[k].node].procedure_slots[Len(nodes'[calls'[k].node].procedure_slots)]
    <3>1. \A k \in 1 .. (C + 1) - 1 : k \in 1 .. C
      BY <1>5
    <3> QED BY <1>2, <3>1 DEF Awaited
  <2>1. CASE k = C
    <3>1. calls'[k].node = m /\ calls'[k + 1].node = v
      BY <1>2, <1>5, <2>1
    <3>2. Append(nodes[m].procedure_slots, c)[Len(Append(nodes[m].procedure_slots, c))] = c
      BY <1>4, <1>6
    <3> QED BY <1>8, <3>1, <3>2
  <2>2. CASE k # C
    <3>0. k \in 1 .. C - 1
      BY <1>5, <2>2
    <3>1. calls'[k].node = calls[k].node /\ calls'[k + 1].node = calls[k + 1].node
      BY <1>2, <1>5, <3>0
    <3>2. /\ nodes'[calls[k].node] = nodes[calls[k].node]
          /\ nodes'[calls[k + 1].node].slot = nodes[calls[k + 1].node].slot
      BY <1>5, <1>8, <3>0
    <3> QED BY <3>0, <3>1, <3>2 DEF Listing, Awaited, C
  <2> QED BY <2>1, <2>2
<1>13. Covered'
  <2>0. ASSUME NEW n \in 1 .. v, NEW i \in 1 .. Len(Proc(n)'), Proc(n)'[i].type = "call", n # v
        PROVE  ListsSlot(n, Proc(n)[i].slot)' \/ Ahead(n, i)'
    <3>0. n \in 1 .. N
      BY <1>9, <2>0
    <3>1. Proc(n)' = Proc(n)
      BY <1>1, <1>8, <3>0, ProcStays
    <3>2. n \in Nat /\ i \in Nat
      BY <2>0, <3>0, <3>1, Positions DEF IInv, N
    <3>3. PICK x : x = Proc(n)[i].slot
      OBVIOUS
    <3>4. ListsSlot(n, x) \/ Ahead(n, i)
      BY <2>0, <3>0, <3>1, <3>3 DEF Listing, Covered, N
    <3>5. /\ ListsSlot(n, x) => ListsSlot(n, x)'
          /\ ListsSlot(m, c)'
      <4>1. n # m => nodes'[n].procedure_slots = nodes[n].procedure_slots
        BY <1>8, <3>0
      <4> QED BY <1>4, <1>6, <1>8, <4>1, ListGrows
    <3>6. n = m /\ i = Top.i => x = c
      BY <1>1, <3>3
    <3>7. ListsSlot(n, x)' \/ Ahead(n, i)'
      <4>1. Ahead(n, i) => Ahead(n, i)' \/ (n = m /\ i = Top.i)
        BY <1>2, <3>2
      <4> QED BY <3>4, <3>5, <3>6, <4>1
    <3> QED BY <3>1, <3>3, <3>7 DEF ListsSlot
  <2>1. \A i \in 1 .. Len(Proc(v)') : Ahead(v, i)'
    <3>1. Proc(v)' = code[c]
      <4>1. v # 1
        BY <1>0, <1>4
      <4> QED BY <1>1, <1>8, <4>1 DEF Proc
    <3>2. Len(Proc(v)') \in Nat
      BY <1>4, <3>1 DEF IInv, TypeOK
    <3> QED BY <1>2, <3>2
  <2> QED BY <1>8, <2>0, <2>1 DEF Covered
<1> QED BY <1>10, <1>11, <1>12, <1>13 DEF Listing

\* An analysis that ends gives its caller the sub-analysis it waits for.
LEMMA EndsListing ==
  ASSUME IInv, Listing, AnalyzeEnds, Len(calls) # 1
  PROVE  Listing'
<1> DEFINE N == Len(nodes)
           C == Len(calls)
<1>0. PICK n, v : n = calls[C - 1].node /\ v = Top.node
  OBVIOUS
<1>1. /\ phase = "analyze" /\ AnalyzeReturns(TRUE) /\ UNCHANGED <<code, copy>>
      /\ Top.i > Len(Proc(v))
  BY <1>0 DEF AnalyzeEnds
<1>2. /\ Len(calls') = C - 1
      /\ \A k \in 1 .. C - 1 : calls'[k].node = calls[k].node
      /\ Waits(n) /\ ~Waits(n)'
      /\ \A m : m # n => (Waits(m)' <=> Waits(m))
      /\ \A m, i \in Nat : Ahead(m, i) => Ahead(m, i)' \/ (m = v /\ Top.i <= i)
  BY <1>0, <1>1, PopStack
<1>3. /\ C \in Nat \ {0} /\ C - 1 \in 1 .. C /\ C \in 1 .. C /\ calls[C].node = v
      /\ N \in Nat \ {0}
  <2>1. C \in Nat \ {0} /\ calls[C].node = v /\ N \in Nat \ {0}
    BY <1>0, <1>1, Stack
  <2>2. C - 1 \in 1 .. C
    BY <2>1, BelowTop
  <2>3. C \in 1 .. C
    BY <2>1
  <2> QED BY <2>1, <2>2, <2>3
<1>4. n \in 1 .. N /\ v \in 1 .. N
  BY <1>0, <1>1, <1>3, Stack
<1>5. \A k \in 1 .. C - 2 :
        /\ k \in 1 .. C - 1 /\ k + 1 \in 1 .. C - 1 /\ calls[k].node # n
        /\ calls[k].node \in 1 .. N /\ calls[k + 1].node \in 1 .. N
  <2>1. \A k \in 1 .. C - 2 :
            k \in 1 .. C - 1 /\ k + 1 \in 1 .. C - 1 /\ k \in 1 .. C /\ k + 1 \in 1 .. C /\ k # C - 1
    BY <1>3
  <2> QED BY <1>0, <1>1, <1>3, <2>1, Stack
<1>6. /\ nodes[n].procedure_slots \in Seq(Slots) /\ nodes[n].sub_analyses \in Seq(Nat)
      /\ Len(nodes[n].procedure_slots) = Len(nodes[n].sub_analyses) + 1
      /\ nodes[v].slot = nodes[n].procedure_slots[Len(nodes[n].procedure_slots)]
  <2>1. C - 1 \in 1 .. C - 1 /\ (C - 1) + 1 = C
    BY <1>3
  <2>2. nodes[v].slot = nodes[n].procedure_slots[Len(nodes[n].procedure_slots)]
    BY <1>0, <1>3, <2>1 DEF Listing, Awaited
  <2> QED BY <1>2, <1>4, <2>2, ListTypes DEF IInv, Listing, Balanced
<1>7. \A m \in 1 .. N : \A j \in 1 .. Len(nodes[m].sub_analyses) : nodes[m].sub_analyses[j] \in 1 .. N
  BY DEF IInv, TypeOK
<1>8. /\ Len(nodes') = N
      /\ \A k \in 1 .. N : nodes'[k].slot = nodes[k].slot /\ (k # n => nodes'[k] = nodes[k])
      /\ nodes'[n].procedure_slots = nodes[n].procedure_slots
      /\ nodes'[n].sub_analyses = Append(nodes[n].sub_analyses, v)
  BY <1>0, EndsPuts DEF Puts
<1>9. \A k \in 1 .. N : nodes'[k].procedure_slots = nodes[k].procedure_slots
  BY <1>8
<1> HIDE DEF N, C
<1>10. Matching'
  <2>1. ASSUME NEW j \in 1 .. Len(nodes'[n].sub_analyses)
        PROVE  /\ j \in 1 .. Len(nodes'[n].procedure_slots)
               /\ nodes'[nodes'[n].sub_analyses[j]].slot = nodes'[n].procedure_slots[j]
    <3> DEFINE s == nodes[n].procedure_slots
               a == nodes[n].sub_analyses
    <3>0. nodes'[n].procedure_slots = s /\ nodes'[n].sub_analyses = Append(a, v)
      BY <1>8
    <3>1. s \in Seq(Slots) /\ a \in Seq(Nat) /\ Len(s) = Len(a) + 1 /\ nodes[v].slot = s[Len(s)]
      BY <1>6
    <3>2. \A l \in 1 .. Len(a) : nodes[a[l]].slot = s[l] /\ a[l] \in 1 .. N
      BY <1>4, <1>7 DEF Listing, Matching, N
    <3> HIDE DEF s, a
    <3>3. CASE j = Len(a) + 1
      <4>1. Append(a, v)[j] = v /\ j \in 1 .. Len(s) /\ j = Len(s)
        BY <1>4, <3>1, <3>3
      <4> QED BY <1>4, <1>8, <3>0, <3>1, <4>1
    <3>4. CASE j \in 1 .. Len(a)
      <4>1. Append(a, v)[j] = a[j] /\ j \in 1 .. Len(s)
        BY <3>1, <3>4
      <4>2. nodes'[a[j]].slot = s[j]
        BY <1>8, <3>2, <3>4
      <4> QED BY <3>0, <4>1, <4>2
    <3>5. j = Len(a) + 1 \/ j \in 1 .. Len(a)
      <4>1. Len(Append(a, v)) = Len(a) + 1 /\ Len(a) \in Nat
        BY <1>4, <3>1
      <4> QED BY <3>0, <4>1
    <3> QED BY <3>3, <3>4, <3>5
  <2>2. ASSUME NEW m \in 1 .. N, m # n, NEW j \in 1 .. Len(nodes'[m].sub_analyses)
        PROVE  /\ j \in 1 .. Len(nodes'[m].procedure_slots)
               /\ nodes'[nodes'[m].sub_analyses[j]].slot = nodes'[m].procedure_slots[j]
    <3>1. nodes'[m] = nodes[m]
      BY <1>8, <2>2
    <3>2. nodes[m].sub_analyses[j] \in 1 .. N
      BY <1>7, <3>1
    <3>3. /\ j \in 1 .. Len(nodes[m].procedure_slots)
          /\ nodes[nodes[m].sub_analyses[j]].slot = nodes[m].procedure_slots[j]
      BY <3>1 DEF Listing, Matching, N
    <3>4. nodes'[nodes[m].sub_analyses[j]].slot = nodes[m].procedure_slots[j]
      BY <1>8, <3>2, <3>3
    <3> QED BY <3>1, <3>3, <3>4
  <2> QED BY <1>8, <2>1, <2>2 DEF Matching
<1>11. Balanced'
  <2>1. Len(nodes'[n].procedure_slots) = Len(nodes'[n].sub_analyses)
    BY <1>4, <1>6, <1>8
  <2>2. ASSUME NEW m \in 1 .. N, m # n
        PROVE  /\ Waits(m) => Len(nodes'[m].procedure_slots) = Len(nodes'[m].sub_analyses) + 1
               /\ ~Waits(m) => Len(nodes'[m].procedure_slots) = Len(nodes'[m].sub_analyses)
    BY <1>8, <2>2 DEF Listing, Balanced, N
  <2> QED BY <1>2, <1>8, <2>1, <2>2 DEF Balanced
<1>12. Awaited'
  <2> SUFFICES ASSUME NEW k \in 1 .. C - 2
               PROVE  nodes'[calls'[k + 1].node].slot =
                        nodes'[calls'[k].node].procedure_slots[Len(nodes'[calls'[k].node].procedure_slots)]
    <3>1. \A k \in 1 .. (C - 1) - 1 : k \in 1 .. C - 2
      BY <1>3
    <3> QED BY <1>2, <3>1 DEF Awaited
  <2>1. calls'[k].node = calls[k].node /\ calls'[k + 1].node = calls[k + 1].node
    BY <1>2, <1>5
  <2>2. /\ nodes'[calls[k].node] = nodes[calls[k].node]
        /\ nodes'[calls[k + 1].node].slot = nodes[calls[k + 1].node].slot
    BY <1>5, <1>8
  <2> QED BY <1>5, <2>1, <2>2 DEF Listing, Awaited, C
<1>13. Covered'
  <2> SUFFICES ASSUME NEW m \in 1 .. N, NEW i \in 1 .. Len(Proc(m)), Proc(m)[i].type = "call"
               PROVE  ListsSlot(m, Proc(m)[i].slot)' \/ Ahead(m, i)'
    BY <1>1, <1>8, ProcStays DEF Covered
  <2>1. m \in Nat /\ i \in Nat /\ Proc(m) \in Seq(Instructions) /\ i <= Len(Proc(m)) /\ Len(Proc(m)) \in Nat
    BY <1>3, ProcType DEF IInv, N
  <2>2. ListsSlot(m, Proc(m)[i].slot) \/ Ahead(m, i)
    BY DEF Listing, Covered, N
  <2>3. Proc(m)' = Proc(m)
    BY <1>1, <1>8, ProcStays
  <2>4. ListsSlot(m, Proc(m)[i].slot) => ListsSlot(m, Proc(m)[i].slot)'
    BY <1>9, <2>3 DEF ListsSlot
  <2>5. ~(m = v /\ Top.i <= i)
    <3>1. Top.i \in Nat
      BY <1>1, <1>3, Stack DEF C
    <3> QED BY <1>1, <2>1, <3>1
  <2> QED BY <1>2, <2>1, <2>2, <2>4, <2>5
<1> QED BY <1>10, <1>11, <1>12, <1>13 DEF Listing

\* When the first analysis ends nothing waits.
LEMMA LastListing ==
  ASSUME IInv, Listing, AnalyzeEnds, Len(calls) = 1
  PROVE  Listing'
<1>1. /\ phase = "analyze" /\ AnalyzeReturns(TRUE) /\ UNCHANGED <<code, copy, nodes>>
      /\ Top.i > Len(Proc(Top.node))
  BY DEF AnalyzeEnds, Adopted
<1>2. calls' = <<>>
  <2>1. Front(calls) = <<>>
    BY <1>1, Stack DEF Front
  <2> QED BY <1>1, <2>1 DEF AnalyzeReturns
<1>3. Len(calls') = 0 /\ \A n : ~Waits(n) /\ ~Waits(n)'
  BY <1>2 DEF Waits
<1>4. Matching' /\ Balanced' /\ Awaited'
  BY <1>1, <1>3 DEF Listing, Matching, Balanced, Awaited
<1>5. Covered'
  <2> SUFFICES ASSUME NEW m \in 1 .. Len(nodes), NEW i \in 1 .. Len(Proc(m)), Proc(m)[i].type = "call"
               PROVE  ListsSlot(m, Proc(m)[i].slot)'
    BY <1>1, ProcStays DEF Covered
  <2>1. i <= Len(Proc(m)) /\ i \in Nat /\ Len(Proc(m)) \in Nat /\ Top.i \in Nat
    BY <1>1, ProcType, Stack DEF IInv
  <2>2. ~Ahead(m, i)
    <3> SUFFICES ASSUME Ahead(m, i) PROVE FALSE
      OBVIOUS
    <3>1. Top.node = m /\ Top.i <= i
      BY <1>1, <2>1, Stack DEF Ahead
    <3> QED BY <1>1, <2>1, <3>1
  <2>3. ListsSlot(m, Proc(m)[i].slot)
    BY <2>2 DEF Listing, Covered
  <2>4. Proc(m)' = Proc(m)
    BY <1>1, ProcStays
  <2> QED BY <1>1, <2>3, <2>4 DEF ListsSlot
<1> QED BY <1>4, <1>5 DEF Listing

\* A slot that is deleted has no more calls.
LEMMA DeleteListing ==
  ASSUME IInv, Listing, NEW slot \in Slots, DeleteProc(slot)
  PROVE  Listing'
<1>1. UNCHANGED <<copy, nodes, calls>> /\ code' = [code EXCEPT ![slot] = <<>>]
  BY DEF DeleteProc
<1>2. \A n : Waits(n)' <=> Waits(n)
  BY <1>1 DEF Waits
<1>3. Matching' /\ Balanced' /\ Awaited'
  BY <1>1, <1>2 DEF Listing, Matching, Balanced, Awaited
<1>4. Covered'
  <2> SUFFICES ASSUME NEW n \in 1 .. Len(nodes), NEW i \in 1 .. Len(Proc(n)'), Proc(n)'[i].type = "call"
               PROVE  ListsSlot(n, Proc(n)[i].slot)' \/ Ahead(n, i)'
    BY <1>1 DEF Covered
  <2>1. Proc(n)' = Proc(n) \/ Proc(n)' = <<>>
    <3>1. code \in [Slots -> Seq(Instructions)] /\ nodes[n].slot \in Slots
      BY NodeType DEF IInv, TypeOK
    <3>2. code'[nodes[n].slot] = code[nodes[n].slot] \/ code'[nodes[n].slot] = <<>>
      BY <1>1, <3>1
    <3> QED BY <1>1, <3>2 DEF Proc
  <2>2. Proc(n)' # <<>>
    OBVIOUS
  <2>3. Proc(n)' = Proc(n)
    BY <2>1, <2>2
  <2>4. ListsSlot(n, Proc(n)[i].slot) \/ Ahead(n, i)
    BY <2>3 DEF Listing, Covered
  <2> QED BY <1>1, <2>3, <2>4 DEF ListsSlot, Ahead
<1> QED BY <1>3, <1>4 DEF Listing

-----------------------------------------------------------------------------
(* The invariant, and what follows from it.                                *)

\* The table and the slots of analyses only grow.
LEMMA KnownBackStep ==
  ASSUME IInv, KnownBack, [Next]_vars
  PROVE  KnownBack'
<1> DEFINE N == Len(nodes)
<1>1. analyses \in [Slots -> 0 .. N] /\ N \in Nat \ {0}
  BY Sizes DEF IInv, TypeOK
<1>2. SUFFICES ASSUME ~ (analyses' = analyses /\ \A k \in 1 .. N : nodes'[k].slot = nodes[k].slot)
               PROVE  KnownBack'
  <2> SUFFICES ASSUME analyses' = analyses, \A k \in 1 .. N : nodes'[k].slot = nodes[k].slot,
                      NEW slot \in Slots, analyses[slot] # 0
               PROVE  nodes'[analyses[slot]].slot = slot
    BY DEF KnownBack
  <2>1. analyses[slot] \in 1 .. N
    BY <1>1
  <2> QED BY <2>1 DEF KnownBack
<1>3. phase = "analyze" /\ Nests
  <2>1. CASE Analyzing
    <3>1. phase = "analyze" /\ (GoesOn \/ Nests \/ Returns)
      BY <2>1, AnalyzingEffect DEF IInv
    <3>2. ~GoesOn
      BY <1>2 DEF GoesOn, AddsSub, SameSubs, SameNodes
    <3>3. ~Returns
      BY <1>2 DEF Returns, AddsSub, SameSubs, SameNodes
    <3> QED BY <3>1, <3>2, <3>3
  <2>2. ASSUME NEW n \in 1 .. N, Mark(n), analyses' = analyses PROVE FALSE
    BY <1>2, <2>2, MarkEffect DEF IInv, TypeOK
  <2>3. CASE ExecReturns
    BY <1>1, <2>2, <2>3 DEF ExecReturns
  <2>4. CASE FreeDescends
    <3>1. phase = "free" /\ calls # <<>> /\ Top.i <= Len(Node.sub_analyses)
      BY <2>4 DEF FreeDescends, Visiting
    <3>2. Visited \in 1 .. N
      <4>1. Top.i \in 1 .. Len(Node.sub_analyses)
        BY <3>1, FreeingTop
      <4> QED BY <3>1, <4>1, FreeingTop DEF Visited, Node
    <3> QED BY <2>2, <2>4, <3>2 DEF FreeDescends
  <2>5. CASE FreeSkips \/ FreeDescendsFreed \/ FreeNode \/ (\E slot \in Slots : DeleteProc(slot)) \/ UNCHANGED vars
    BY <1>2, <2>5 DEF FreeSkips, FreeDescendsFreed, FreeNode, DeleteProc, vars
  <2> QED BY <2>1, <2>3, <2>4, <2>5 DEF Next, Step, Analyzing
<1>4. PICK slot \in Slots :
        /\ analyses[slot] = 0 /\ analyses' = [analyses EXCEPT ![slot] = N + 1]
        /\ nodes'[N + 1] = NewNode(slot)
  BY <1>3 DEF Nests
<1>5. nodes'[N + 1].slot = slot
  BY <1>4 DEF NewNode
<1>6. \A k \in 1 .. N : nodes'[k].slot = nodes[k].slot
  BY <1>3 DEF Nests
<1> HIDE DEF N
<1>7. ASSUME NEW other \in Slots, analyses'[other] # 0
      PROVE  nodes'[analyses'[other]].slot = other
  <2>1. CASE other = slot
    BY <1>1, <1>4, <1>5, <2>1
  <2>2. CASE other # slot
    <3>1. analyses'[other] = analyses[other] /\ analyses[other] \in 1 .. N
      BY <1>1, <1>4, <1>7, <2>2
    <3> QED BY <1>6, <1>7, <3>1 DEF KnownBack
  <2> QED BY <2>1, <2>2
<1> QED BY <1>7 DEF KnownBack

LEMMA CallsInvInit == Init => CallsInv
<1> SUFFICES ASSUME Init PROVE CallsInv
  OBVIOUS
<1>1. phase = "analyze" /\ nodes = <<NewNode(Root)>> /\ calls = <<Entered(1)>>
      /\ analyses = [slot \in Slots |-> 0]
  BY DEF Init
<1>2. KnownBack /\ Idle
  BY <1>1 DEF KnownBack, Idle
<1>3. /\ Len(nodes) = 1 /\ nodes[1].procedure_slots = <<>> /\ nodes[1].sub_analyses = <<>>
      /\ Len(calls) = 1 /\ calls[1].node = 1 /\ calls[1].i = 1
  BY <1>1 DEF NewNode, Entered
<1>4. \A n : ~Waits(n)
  BY <1>3 DEF Waits
<1>5. Matching /\ Balanced /\ Awaited
  BY <1>3, <1>4 DEF Matching, Balanced, Awaited
<1>6. Covered
  <2> SUFFICES ASSUME NEW n \in 1 .. Len(nodes), NEW i \in 1 .. Len(Proc(n)) PROVE Ahead(n, i)
    BY DEF Covered
  <2>1. Proc(n) \in Seq(Instructions)
    BY IInvInit, ProcType DEF IInv
  <2>2. n = 1 /\ i \in Nat \ {0}
    BY <1>3, <2>1
  <2> QED BY <1>3, <2>2 DEF Ahead
<1> QED BY <1>2, <1>5, <1>6 DEF CallsInv, Listing

\* Steps that fail, or free the graph, leave nothing to show.
LEMMA ListingStep ==
  ASSUME IInv, CallsInv, [Next]_vars, Sound'
  PROVE  Listing'
<1>1. CASE UNCHANGED vars
  BY <1>1 DEF vars, heapVars, CallsInv, Sound, Listing, Matching, Balanced, Waits, Awaited, Covered, ListsSlot,
     Ahead, Proc
<1>2. CASE AnalyzeCallFails \/ AnalyzeNoMemory
  BY <1>2 DEF AnalyzeCallFails, AnalyzeNoMemory, Sound
<1>3. CASE ExecReturns \/ FreeSkips \/ FreeDescends \/ FreeDescendsFreed \/ FreeNode
  BY <1>3 DEF ExecReturns, FreeSkips, FreeDescends, FreeDescendsFreed, FreeNode, Visiting, Sound
<1>4. CASE AnalyzeSimple \/ AnalyzeKnownCall \/ AnalyzeNewCall \/ AnalyzeEnds \/ \E slot \in Slots : DeleteProc(slot)
  <2>1. Sound
    BY <1>4 DEF AnalyzeSimple, AnalyzeKnownCall, AnalyzeNewCall, AnalyzeEnds, DeleteProc, AtInstruction, Sound
  <2>2. KnownBack /\ Listing
    BY <2>1 DEF CallsInv
  <2> QED BY <1>4, <2>2, SimpleListing, KnownCallListing, NewCallListing, EndsListing, LastListing,
             DeleteListing
<1> QED BY <1>1, <1>2, <1>3, <1>4 DEF Next, Step

LEMMA IdleStep ==
  ASSUME IInv, Idle, [Next]_vars
  PROVE  Idle'
<1>1. CASE Analyzing
  <2>1. phase = "analyze" /\ (GoesOn \/ Nests \/ Returns)
    BY <1>1, AnalyzingEffect DEF IInv
  <2>2. CASE Returns /\ Len(calls) = 1
    <3>1. calls' \in Seq(Calls) /\ Len(calls') = 0
      BY <2>2 DEF Returns
    <3> QED BY <3>1 DEF Idle
  <2>3. CASE ~(Returns /\ Len(calls) = 1)
    <3>1. phase' = "analyze"
      BY <2>1, <2>3 DEF GoesOn, Nests, Returns
    <3> QED BY <3>1 DEF Idle
  <2> QED BY <2>2, <2>3
<1>2. CASE ExecReturns \/ FreeSkips \/ FreeDescends \/ FreeDescendsFreed \/ FreeNode
  BY <1>2 DEF ExecReturns, FreeSkips, FreeDescends, FreeDescendsFreed, FreeNode, Visiting, Idle
<1>3. CASE (\E slot \in Slots : DeleteProc(slot)) \/ UNCHANGED vars
  BY <1>3 DEF DeleteProc, vars, Idle
<1> QED BY <1>1, <1>2, <1>3 DEF Next, Step, Analyzing

LEMMA CallsInvHolds == Spec => []CallsInv
<1>1. IInv /\ CallsInv /\ [Next]_vars => CallsInv'
  BY KnownBackStep, IdleStep, ListingStep DEF CallsInv
<1> QED BY <1>1, CallsInvInit, IInvHolds, PTL DEF Spec

\* A set of numbers has a least one.
LEMMA Least ==
  ASSUME NEW S \in SUBSET Nat, S # {}
  PROVE  \E x \in S : \A y \in S : x <= y
<1>1. PICK x \in S : \A y \in S : ~ (<<y, x>> \in OpToRel(<, Nat))
  BY WFMin, NatLessThanWellFounded
<1>2. ASSUME NEW y \in S PROVE x <= y
  <2>1. x \in Nat /\ y \in Nat
    OBVIOUS
  <2>2. ~ (y < x)
    BY <1>1, <2>1 DEF OpToRel
  <2> QED BY <2>1, <2>2
<1> QED BY <1>2

\* In a graph without failures the executor finds, under the first entry for the
\* slot of any call, the analysis of the procedure in that slot.
THEOREM CallsAreResolved == Spec => []CallsResolve
<1>1. IInv /\ CallsInv => CallsResolve
  <2> SUFFICES ASSUME IInv, CallsInv, phase = "exec", failed = {},
                      NEW n \in 1 .. Len(nodes), NEW i \in 1 .. Len(Proc(n)), Proc(n)[i].type = "call"
               PROVE  Lookup(n, Proc(n)[i].slot) # 0 /\ nodes[Lookup(n, Proc(n)[i].slot)].slot = Proc(n)[i].slot
    BY DEF CallsResolve
  <2>1. PICK slot : slot = Proc(n)[i].slot
    OBVIOUS
  <2> DEFINE s == nodes[n].procedure_slots
             a == nodes[n].sub_analyses
             entries == {j \in 1 .. Len(s) : s[j] = slot}
             first == CHOOSE j \in entries : \A k \in entries : j <= k
  <2>2. Listing /\ calls = <<>>
    BY DEF CallsInv, Sound, Idle
  <2>3. ~Waits(n) /\ ~Ahead(n, i)
    BY <2>2 DEF Waits, Ahead
  <2>4. Len(s) = Len(a) /\ s \in Seq(Slots) /\ a \in Seq(Nat)
    BY <2>2, <2>3, ListTypes DEF Listing, Balanced, IInv
  <2>5. entries # {}
    BY <2>1, <2>2, <2>3 DEF Listing, Covered, ListsSlot
  <2>6. entries \in SUBSET Nat
    BY <2>4
  <2>7. first \in entries
    <3> HIDE DEF entries
    <3>1. \E x \in entries : \A y \in entries : x <= y
      BY <2>5, <2>6, Least
    <3> QED BY <3>1
  <2>8. first \in 1 .. Len(a) /\ s[first] = slot
    BY <2>4, <2>7
  <2>9. Lookup(n, slot) = a[first]
    <3>1. first <= Len(a)
      BY <2>4, <2>8
    <3> QED BY <2>5, <3>1 DEF Lookup
  <2> HIDE DEF first
  <2>10. nodes[a[first]].slot = s[first] /\ a[first] \in 1 .. Len(nodes)
    BY <2>2, <2>8 DEF Listing, Matching, IInv, TypeOK
  <2> QED BY <2>1, <2>8, <2>9, <2>10
<1> QED BY <1>1, IInvHolds, CallsInvHolds, PTL
=============================================================================
