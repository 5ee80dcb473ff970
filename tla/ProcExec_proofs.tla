-------------------------- MODULE ProcExec_proofs --------------------------
(***************************************************************************)
(* Machine-checked proofs about ProcExec, for any procedures of any        *)
(* length, any calls between them and any limit on the recursion.          *)
(***************************************************************************)
EXTENDS ProcExec, TLAPS

\* A call instruction names a slot in use.
LEMMA CallSlot ==
  ASSUME NEW instruction \in Instructions, instruction.type = "call"
  PROVE  instruction.slot \in Slots
  BY DEF Instructions, Op, Block, IfElse, Noop, Call

\* The stored procedures are sequences of instructions.
LEMMA StoredType ==
  ASSUME Stored(code)
  PROVE  code \in [Slots -> Seq(Instructions)]
  BY ProgramAssumption DEF ProgramAssumption, Stored

\* Where an analysis stopped is a position, or behind the last one.
LEMMA AnalyzedType ==
  ASSUME Stored(code), Analyzed(code, analysis, Root)
  PROVE  analysis \in [Slots -> Nat]
<1>1. \A slot \in Slots : code[slot] \in Seq(Instructions)
  BY StoredType
<1>2. \A slot \in Slots : Stops(code[slot]) \subseteq Nat
  BY <1>1 DEF Stops
<1> QED BY <1>2 DEF Analyzed

\* The innermost frame and its procedure have the types of their kinds.
LEMMA TopType ==
  ASSUME TypeOK, stack # <<>>
  PROVE  /\ Len(stack) \in Nat \ {0}
         /\ Top \in Frames
         /\ Proc \in Seq(Instructions)
         /\ Front(stack) \in Seq(Frames)
         /\ Len(Front(stack)) = Len(stack) - 1
         /\ \A k \in 1 .. Len(stack) - 1 : Front(stack)[k] = stack[k]
<1> DEFINE n == Len(stack)
<1>1. stack \in Seq(Frames) /\ n \in Nat \ {0} /\ n - 1 \in Nat
  BY DEF TypeOK
<1>2. Top \in Frames
  BY <1>1 DEF Top
<1>3. Proc \in Seq(Instructions)
  BY <1>2 DEF Proc, TypeOK, Frames
<1>4. Front(stack) = [k \in 1 .. n - 1 |-> stack[k]]
  BY <1>1 DEF Front
<1> QED BY <1>1, <1>2, <1>3, <1>4

\* Moving a caller or changing a flag keeps a frame a frame, and its depth.
LEMMA AdvanceCaller ==
  ASSUME NEW f \in Frames
  PROVE  /\ [f EXCEPT !.i = @ + 1] \in Frames
         /\ [f EXCEPT !.i = @ + 1].depth = f.depth
  BY DEF Frames

LEMMA FlagFrame ==
  ASSUME NEW f \in Frames, NEW flag \in Flags
  PROVE  /\ [f EXCEPT !.flag = flag] \in Frames
         /\ [f EXCEPT !.flag = flag].depth = f.depth
  BY DEF Frames

\* Assigning to the innermost frame leaves its callers alone.
LEMMA SetTopEffect ==
  ASSUME TypeOK, stack # <<>>, NEW f \in Frames, SetTop(f)
  PROVE  /\ stack' \in Seq(Frames)
         /\ Len(stack') = Len(stack)
         /\ stack'[Len(stack)] = f
         /\ \A k \in 1 .. Len(stack) - 1 : stack'[k] = stack[k]
<1>1. stack \in Seq(Frames) /\ Len(stack) \in 1 .. Len(stack)
  BY TopType DEF TypeOK
<1>2. stack' = [stack EXCEPT ![Len(stack)] = f]
  BY DEF SetTop
<1> QED BY <1>1, <1>2

\* The frame of a nested call is put above the caller, whose flag may change.
LEMMA NestedCallEffect ==
  ASSUME TypeOK, NestedCall
  PROVE  /\ stack' \in Seq(Frames)
         /\ Len(stack') = Len(stack) + 1
         /\ stack'[Len(stack) + 1].depth = Depth
         /\ \A k \in 1 .. Len(stack) : stack'[k].depth = stack[k].depth
<1> DEFINE n == Len(stack)
           callers == [stack EXCEPT ![n].flag = Fetching]
           f == NewFrame(Called, Depth)
<1>1. stack # <<>> /\ stack' = Append(callers, f)
  BY DEF NestedCall, Push, Fetched, Running, Alive
<1>2. Fetching \in Flags
  BY <1>1, TopType DEF Fetching, Frames, Flags
<1>3. /\ callers \in Seq(Frames)
      /\ Len(callers) = n
      /\ \A k \in 1 .. n : callers[k].depth = stack[k].depth
  <2>1. stack \in Seq(Frames) /\ n \in 1 .. n
    BY <1>1, TopType DEF TypeOK
  <2>2. [stack[n] EXCEPT !.flag = Fetching] \in Frames
    BY <1>2, <2>1, FlagFrame, TopType, <1>1
  <2>3. callers = [stack EXCEPT ![n] = [stack[n] EXCEPT !.flag = Fetching]]
    OBVIOUS
  <2> QED BY <2>1, <2>2, <2>3 DEF Frames
<1>4. f \in Frames /\ f.depth = Depth
  <2>1. Proc[Top.i] \in Instructions /\ Proc[Top.i].type = "call"
    BY <1>1, TopType DEF NestedCall, Fetched, Frames
  <2>2. Depth \in Nat
    BY DEF Depth, TypeOK
  <2> QED BY <2>1, <2>2, CallSlot DEF Called, NewFrame, Frames, Flags
<1> HIDE DEF callers, f
<1> QED BY <1>1, <1>3, <1>4

\* The innermost frame goes, and its caller moves behind the call.
LEMMA ReturnEffect ==
  ASSUME TypeOK, Return
  PROVE  /\ stack' \in Seq(Frames)
         /\ Len(stack') = Len(stack) - 1
         /\ \A k \in 1 .. Len(stack) - 1 : stack'[k].depth = stack[k].depth
<1> DEFINE callers == Front(stack)
<1>1. stack # <<>>
  BY DEF Return, Alive
<1>2. /\ callers \in Seq(Frames)
      /\ Len(callers) = Len(stack) - 1
      /\ \A k \in 1 .. Len(stack) - 1 : callers[k] = stack[k]
      /\ Len(stack) \in Nat \ {0}
  BY <1>1, TopType
<1> HIDE DEF callers
<1>3. CASE callers = <<>> \/ ret = "error"
  BY <1>2, <1>3 DEF Return, callers
<1>4. CASE ~(callers = <<>> \/ ret = "error")
  <2>1. stack' = [callers EXCEPT ![Len(callers)].i = @ + 1]
    BY <1>4 DEF Return, callers
  <2>2. Len(callers) \in 1 .. Len(callers)
    BY <1>2, <1>4
  <2>3. [callers[Len(callers)] EXCEPT !.i = @ + 1] \in Frames
    BY <1>2, <2>2, AdvanceCaller
  <2> QED BY <1>2, <2>1, <2>2, <2>3 DEF Frames
<1> QED BY <1>3, <1>4

-----------------------------------------------------------------------------
(* Type correctness.                                                       *)

\* The first frame is the root's.
LEMMA TypeInit == Init => TypeOK
<1> SUFFICES ASSUME Init PROVE TypeOK
  OBVIOUS
<1>1. code \in [Slots -> Seq(Instructions)]
  BY StoredType DEF Init
<1>2. NewFrame(Root, 0) \in Frames
  BY ExecAssumption DEF ExecAssumption, NewFrame, Frames, Flags
<1>3. tls \in [1 .. MaxKey -> Nat]
  BY DEF Init
<1>4. analysis \in [Slots -> Nat]
  BY AnalyzedType DEF Init
<1>5. stack \in Seq(Frames) /\ key \in 1 .. MaxKey
  BY <1>2, ExecAssumption DEF ExecAssumption, Init
<1>6. ret \in {"ok", "error"} /\ undefined \in BOOLEAN /\ last \in {<<>>}
  BY DEF Init
<1> QED BY <1>1, <1>3, <1>4, <1>5, <1>6 DEF TypeOK

\* What every action of the loop changes: the innermost frame moves on.
LEMMA AdvanceEffect ==
  ASSUME TypeOK, stack # <<>>, NEW flag \in Flags, Advance(flag)
  PROVE  /\ stack' \in Seq(Frames)
         /\ Len(stack') = Len(stack)
         /\ \A k \in 1 .. Len(stack) : stack'[k].depth = stack[k].depth
<1> DEFINE f == [slot |-> Top.slot, i |-> Top.i + 1, flag |-> flag, depth |-> Top.depth]
<1>1. f \in Frames /\ f.depth = Top.depth
  BY TopType DEF Frames
<1>2. SetTop(f)
  BY DEF Advance
<1> HIDE DEF f
<1> QED BY <1>1, <1>2, SetTopEffect, TopType DEF Top

\* A tail call gives the innermost frame another procedure and its own depth.
LEMMA TailCallEffect ==
  ASSUME TypeOK, TailCall
  PROVE  /\ stack' \in Seq(Frames)
         /\ Len(stack') = Len(stack)
         /\ \A k \in 1 .. Len(stack) : stack'[k].depth = stack[k].depth
<1> DEFINE f == NewFrame(Called, Top.depth)
<1>1. stack # <<>> /\ SetTop(f)
  BY DEF TailCall, Fetched, Running, Alive
<1>2. Proc[Top.i] \in Instructions /\ Proc[Top.i].type = "call"
  BY <1>1, TopType DEF TailCall, Fetched, Frames
<1>3. f \in Frames /\ f.depth = Top.depth
  BY <1>1, <1>2, CallSlot, TopType DEF Called, NewFrame, Frames, Flags
<1> HIDE DEF f
<1> QED BY <1>1, <1>3, SetTopEffect, TopType DEF Top

\* The steps that keep the number of frames and the thread-specific values.
SameDepth ==
    Skip \/ ExecSimple \/ ExecNoop \/ ExecIfElse \/ ExecFails \/ TailCall \/ DepthExceeded
        \/ CallNotFound \/ CallWild

LEMMA SameDepthEffect ==
  ASSUME TypeOK, SameDepth
  PROVE  /\ stack' \in Seq(Frames)
         /\ Len(stack') = Len(stack)
         /\ \A k \in 1 .. Len(stack) : stack'[k].depth = stack[k].depth
         /\ UNCHANGED <<code, analysis, key, tls>>
<1>1. CASE Skip
  BY <1>1, AdvanceEffect DEF Skip, Running, Alive, Flags
<1>2. CASE ExecSimple \/ ExecNoop
  <2>1. stack # <<>> /\ Advance(Fetching) /\ UNCHANGED <<code, analysis, key, tls>>
    BY <1>2 DEF ExecSimple, ExecNoop, Fetched, Running, Alive
  <2>2. Fetching \in Flags
    BY <2>1, TopType DEF Fetching, Frames, Flags
  <2> QED BY <2>1, <2>2, AdvanceEffect
<1>3. CASE ExecIfElse
  BY <1>3, AdvanceEffect DEF ExecIfElse, Fetched, Running, Alive, Flags
<1>4. CASE ExecFails \/ DepthExceeded \/ CallNotFound \/ CallWild
  BY <1>4 DEF ExecFails, DepthExceeded, CallNotFound, CallWild, TypeOK
<1>5. CASE TailCall
  BY <1>5, TailCallEffect DEF TailCall
<1> QED BY <1>1, <1>2, <1>3, <1>4, <1>5 DEF SameDepth

LEMMA StepCases == Next <=> SameDepth \/ NestedCall \/ Return \/ KeyReplaced
  BY DEF Next, Step, SameDepth

\* What is returned and what was performed last keep their kinds.
LEMMA ResultType ==
  ASSUME TypeOK, [Next]_vars
  PROVE  /\ ret' \in {"ok", "error"}
         /\ undefined' \in BOOLEAN
         /\ last' \in {<<>>} \cup (Slots \X (Nat \ {0}))
<1>1. ret' \in {"ok", "error"} /\ undefined' \in BOOLEAN
  BY DEF TypeOK, Next, Step, Skip, ExecSimple, ExecNoop, ExecIfElse, ExecFails, TailCall,
         NestedCall, DepthExceeded, CallNotFound, CallWild, Return,
         KeyReplaced, vars
<1>2. CASE ExecSimple \/ ExecIfElse
  <2>1. stack # <<>> /\ last' = <<Top.slot, Top.i>>
    BY <1>2 DEF ExecSimple, ExecIfElse, Fetched, Running, Alive, Performed
  <2>2. Top.slot \in Slots /\ Top.i \in Nat \ {0}
    BY <2>1, TopType DEF Frames
  <2> QED BY <1>1, <2>1, <2>2
<1>3. CASE ~(ExecSimple \/ ExecIfElse)
  <2>1. last' = last
    BY <1>3 DEF Next, Step, Skip, ExecNoop, ExecFails, TailCall,
                NestedCall, DepthExceeded, CallNotFound, CallWild, Return,
         KeyReplaced, vars
  <2> QED BY <1>1, <2>1 DEF TypeOK
<1> QED BY <1>2, <1>3

LEMMA TypeStep == TypeOK /\ [Next]_vars => TypeOK'
<1> SUFFICES ASSUME TypeOK, [Next]_vars PROVE TypeOK'
  OBVIOUS
<1>1. CASE SameDepth
  BY <1>1, SameDepthEffect, ResultType DEF TypeOK
<1>2. CASE NestedCall
  <2>1. /\ Depth + 1 \in Nat
        /\ tls' = [tls EXCEPT ![key] = Depth + 1]
        /\ UNCHANGED <<code, analysis, key>>
    BY <1>2 DEF NestedCall, SetDepth, Depth, TypeOK
  <2>2. stack' \in Seq(Frames)
    BY <1>2, NestedCallEffect
  <2> QED BY <2>1, <2>2, ResultType DEF TypeOK
<1>3. CASE Return
  <2>1. /\ Top.depth \in Nat
        /\ tls' = [tls EXCEPT ![key] = Top.depth]
        /\ UNCHANGED <<code, analysis, key>>
    BY <1>3, TopType DEF Return, Alive, SetDepth, Frames
  <2>2. stack' \in Seq(Frames)
    BY <1>3, ReturnEffect
  <2> QED BY <2>1, <2>2, ResultType DEF TypeOK
<1>4. CASE KeyReplaced
  BY <1>4, ExecAssumption DEF ExecAssumption, KeyReplaced, TypeOK
<1>5. CASE UNCHANGED vars
  BY <1>5 DEF vars, TypeOK
<1> QED BY <1>1, <1>2, <1>3, <1>4, <1>5, StepCases

\* The executor keeps its frames, its flags and its stored depths well typed,
\* whatever the procedures: no call, tail call or return leaves a frame that
\* names no slot or a position in front of the first instruction.
THEOREM TypeCorrect == Spec => []TypeOK
<1> QED BY TypeInit, TypeStep, PTL DEF Spec

-----------------------------------------------------------------------------
(* The recursion depth.                                                    *)

\* The depth each frame read is the number of its callers, and the value under
\* the key the number of frames. DepthCountsFrames alone is not inductive: a
\* return writes back what the frame read when it was entered.
DepthInv ==
    key = 1 =>
        /\ \A k \in 1 .. Len(stack) : stack[k].depth = k - 1
        /\ tls[key] = Len(stack)
        /\ Len(stack) <= MAX_PROC_RECURSION_DEPTH + 1

LEMMA DepthInit == Init => DepthInv
  BY ExecAssumption DEF ExecAssumption, Init, DepthInv, NewFrame

LEMMA DepthStep == TypeOK /\ DepthInv /\ [Next]_vars => DepthInv'
<1> SUFFICES ASSUME TypeOK, DepthInv, [Next]_vars, key' = 1
             PROVE  /\ \A k \in 1 .. Len(stack') : stack'[k].depth = k - 1
                    /\ tls'[key'] = Len(stack')
                    /\ Len(stack') <= MAX_PROC_RECURSION_DEPTH + 1
  BY DEF DepthInv
<1>1. /\ \A k \in 1 .. Len(stack) : stack[k].depth = k - 1
      /\ tls[key] = Len(stack)
      /\ Len(stack) <= MAX_PROC_RECURSION_DEPTH + 1
      /\ Len(stack) \in Nat
      /\ MAX_PROC_RECURSION_DEPTH \in Nat
      /\ key = 1 /\ key \in 1 .. MaxKey /\ tls \in [1 .. MaxKey -> Nat]
  <2>1. key = 1 /\ key \in 1 .. MaxKey
    BY DEF TypeOK, Next, Step, Skip, ExecSimple, ExecNoop, ExecIfElse, ExecFails, TailCall,
           NestedCall, DepthExceeded, CallNotFound, CallWild, Return,
         KeyReplaced, vars
  <2> QED BY <2>1, ExecAssumption DEF ExecAssumption, DepthInv, TypeOK
<1>2. CASE SameDepth
  BY <1>1, <1>2, SameDepthEffect
<1>3. CASE NestedCall
  <2>1. Len(stack) <= MAX_PROC_RECURSION_DEPTH /\ key' = key /\ tls'[key] = Len(stack) + 1
    BY <1>1, <1>3 DEF NestedCall, SetDepth, Depth
  <2>2. /\ Len(stack') = Len(stack) + 1
        /\ stack'[Len(stack) + 1].depth = Len(stack)
        /\ \A k \in 1 .. Len(stack) : stack'[k].depth = stack[k].depth
    BY <1>1, <1>3, NestedCallEffect DEF Depth
  <2> QED BY <1>1, <2>1, <2>2
<1>4. CASE Return
  <2>1. stack # <<>> /\ key' = key /\ tls'[key] = Top.depth
    BY <1>1, <1>4 DEF Return, Alive, SetDepth
  <2>2. Top.depth = Len(stack) - 1
    BY <1>1, <2>1, TopType DEF Top
  <2> QED BY <1>1, <1>4, <2>1, <2>2, ReturnEffect
<1>5. CASE KeyReplaced
  BY <1>1, <1>5 DEF KeyReplaced
<1>6. CASE UNCHANGED vars
  BY <1>1, <1>6 DEF vars
<1> QED BY <1>2, <1>3, <1>4, <1>5, <1>6, StepCases

\* While no other thread replaces the key, the value the next call reads is the
\* number of active calls, whatever mix of calls, tail calls, errors and
\* returns led there.
THEOREM DepthIsCounted == Spec => []DepthCountsFrames
<1>1. DepthInv => DepthCountsFrames
  BY DEF DepthInv, DepthCountsFrames, Depth
<1> QED BY <1>1, TypeInit, TypeStep, DepthInit, DepthStep, PTL DEF Spec

\* As long as the key is its own, a thread nests at most MAX_PROC_RECURSION_DEPTH
\* calls in the first one, for any procedures that call each other.
THEOREM DepthIsBounded == Spec => []OwnKeyBoundsDepth
<1>1. DepthInv => OwnKeyBoundsDepth
  BY DEF DepthInv, OwnKeyBoundsDepth
<1> QED BY <1>1, TypeInit, TypeStep, DepthInit, DepthStep, PTL DEF Spec

-----------------------------------------------------------------------------
(* Tail calls.                                                             *)

\* A call at the place README.md:151 names is one that analyze_tail_call finds.
LEMMA LastCallIsTailCall ==
  ASSUME NEW p \in Seq(Instructions), CallsLast(p),
         NEW i \in 1 .. Len(p), p[i].type = "call"
  PROVE  IsTailCall(p, i)
<1>1. i = Len(p) \/ (i = Len(p) - 1 /\ Is(p, i - 1, "ifelse"))
  BY DEF CallsLast
<1>2. Len(p) \in Nat
  OBVIOUS
<1> QED BY <1>1, <1>2 DEF IsTailCall, OnlyNoops

\* What no step changes: each analysis stopped at the end of its procedure, at a
\* call or in front of the first instruction.
Placed == \A slot \in Slots : analysis[slot] \in Stops(code[slot])

\* In such a procedure a call that is resolved stands where the analysis came to: in
\* front of the second-last instruction no other call lists its slot.
LEMMA ResolvedCallIsReached ==
  ASSUME NEW p \in Seq(Instructions), CallsLast(p), NEW stop \in Stops(p),
         NEW i \in 1 .. Len(p), p[i].type = "call",
         NEW slot, CallResolved(p, stop, slot)
  PROVE  i <= stop
<1>1. PICK j \in 1 .. stop - 1 : Is(p, j, "call")
  BY DEF CallResolved, CallListed
<1>2. Len(p) \in Nat /\ stop \in Nat
  BY DEF Stops
<1>3. j \in 1 .. Len(p) /\ p[j].type = "call"
  BY <1>1 DEF Is
<1>4. j = Len(p) \/ j = Len(p) - 1
  BY <1>3 DEF CallsLast
<1> QED BY <1>2, <1>3, <1>4

LEMMA CodeKept == TypeOK /\ [Next]_vars => UNCHANGED <<code, analysis>>
  BY DEF Next, Step, Skip, ExecSimple, ExecNoop, ExecIfElse, ExecFails, TailCall, NestedCall,
         DepthExceeded, CallNotFound, CallWild, Return, KeyReplaced, vars

LEMMA PlacedStep == TypeOK /\ Placed /\ [Next]_vars => Placed'
  BY CodeKept DEF Placed

LEMMA LastCallsStep ==
  TypeOK /\ Placed /\ LastCallsNeverNest /\ [Next]_vars => LastCallsNeverNest'
<1> SUFFICES ASSUME TypeOK, Placed, LastCallsNeverNest, [Next]_vars,
                    \A slot \in Slots : CallsLast(code'[slot])
             PROVE  Len(stack') <= 1
  BY DEF LastCallsNeverNest
<1>1. code' = code
  BY CodeKept
<1>2. Len(stack) <= 1 /\ Len(stack) \in Nat
  BY <1>1 DEF LastCallsNeverNest, TypeOK
<1>3. CASE SameDepth
  BY <1>2, <1>3, SameDepthEffect
<1>4. ~NestedCall
  <2> SUFFICES ASSUME NestedCall PROVE FALSE
    OBVIOUS
  <2>1. stack # <<>> /\ Top.i <= Len(Proc) /\ Proc[Top.i].type = "call"
    BY DEF NestedCall, Fetched, Running, Alive
  <2>2. Proc \in Seq(Instructions) /\ Top.i \in 1 .. Len(Proc) /\ Top.slot \in Slots
    BY <2>1, TopType DEF Frames
  <2>3. CallsLast(Proc)
    BY <1>1, <2>2 DEF Proc
  <2>4. IsTailCall(Proc, Top.i)
    BY <2>1, <2>2, <2>3, LastCallIsTailCall
  <2>5. analysis[Top.slot] \in Stops(Proc)
    BY <2>2 DEF Placed, Proc
  <2>6. CallResolved(Proc, analysis[Top.slot], Called)
    BY DEF NestedCall, Resolves
  <2>7. Top.i <= analysis[Top.slot]
    BY <2>1, <2>2, <2>3, <2>5, <2>6, ResolvedCallIsReached
  <2> QED BY <2>4, <2>7 DEF NestedCall, is_tail_call
<1>5. CASE Return
  BY <1>2, <1>5, ReturnEffect
<1>6. CASE KeyReplaced \/ UNCHANGED vars
  BY <1>2, <1>6 DEF KeyReplaced, vars
<1> QED BY <1>3, <1>4, <1>5, <1>6, StepCases

\* README.md:151 holds for all procedures: when every call is the last
\* instruction, or the second-last behind an ifelse, the executor never nests.
THEOREM LastCallsReuseFrame == Spec => []LastCallsNeverNest
<1>1. Init => LastCallsNeverNest /\ Placed
  BY DEF Init, LastCallsNeverNest, Analyzed, Placed
<1> QED BY <1>1, TypeInit, TypeStep, PlacedStep, LastCallsStep, PTL DEF Spec
=============================================================================
