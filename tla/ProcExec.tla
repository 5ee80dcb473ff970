------------------------------ MODULE ProcExec ------------------------------
(***************************************************************************)
(* proc_instructions_exec and proc_runtime_call: the execution of one      *)
(* procedure by one thread, with a frame for each active call of           *)
(* proc_instructions_exec, the if-else flag of each frame, tail calls that *)
(* reuse the frame, and the recursion depth in thread-specific storage.    *)
(*                                                                         *)
(* With MaxKey = 1 this is the FreeRTOS executor, whose storage index is   *)
(* fixed, and the POSIX executor while no other thread starts. A larger    *)
(* MaxKey is POSIX: each thread that starts calls pthread_key_create on    *)
(* the one global recursion_depth_key (proc_runtime_POSIX.c:94).           *)
(***************************************************************************)
EXTENDS ProcProgram

CONSTANTS
    Root,                      \* stands for the copy that is run; no slot to call
    MAX_PROC_RECURSION_DEPTH,
    MaxKey                     \* bound on the values recursion_depth_key takes

ASSUME ExecAssumption ==
    /\ Root \in Slots
    /\ \A slot \in Slots : \A p \in Programs[slot] : \A i \in 1 .. Len(p) :
           p[i] # Call(Root)
    /\ MAX_PROC_RECURSION_DEPTH \in Nat
    /\ MaxKey \in Nat \ {0}

VARIABLES
    code,       \* slot -> procedure
    analysis,   \* slot -> where its analysis stopped, behind its end if complete
    stack,      \* frames, the innermost last
    ret,        \* what the innermost call returns or returned: "ok" (0) or "error"
    key,        \* recursion_depth_key
    tls,        \* this thread's value under each key
    last,       \* the position performed last
    undefined   \* an analysis that was never written has been followed

vars == <<code, analysis, stack, ret, key, tls, last, undefined>>

Flags == {"TRUE", "FALSE", "NONE"}

\* depth is the local recursion_depth, i the loop variable (from 1 here).
NewFrame(slot, depth) == [slot |-> slot, i |-> 1, flag |-> "NONE", depth |-> depth]

Frames == [slot : Slots, i : Nat \ {0}, flag : Flags, depth : Nat]

TypeOK ==
    /\ code \in [Slots -> Seq(Instructions)]
    /\ analysis \in [Slots -> Nat]
    /\ stack \in Seq(Frames)
    /\ ret \in {"ok", "error"}
    /\ key \in 1 .. MaxKey
    /\ tls \in [1 .. MaxKey -> Nat]
    /\ last \in {<<>>} \cup (Slots \X (Nat \ {0}))
    /\ undefined \in BOOLEAN

Top == stack[Len(stack)]
Proc == code[Top.slot]
Alive == stack # <<>> /\ ~undefined
Running == Alive /\ ret = "ok"
SetTop(frame) == stack' = [stack EXCEPT ![Len(stack)] = frame]

\* The loop goes on to the next instruction with this flag.
Advance(flag) ==
    SetTop([slot |-> Top.slot, i |-> Top.i + 1, flag |-> flag, depth |-> Top.depth])

\* pthread_getspecific and pthread_setspecific on the current key.
Depth == tls[key]
SetDepth(depth) == tls' = [tls EXCEPT ![key] = depth]

Init ==
    /\ Stored(code)
    /\ Analyzed(code, analysis, Root)
    /\ stack = <<NewFrame(Root, 0)>>
    /\ ret = "ok"
    /\ key = 1
    /\ tls = [k \in 1 .. MaxKey |-> IF k = 1 THEN 1 ELSE 0]
    /\ last = <<>>
    /\ undefined = FALSE

-----------------------------------------------------------------------------
(* The loop of proc_instructions_exec.                                     *)

\* The flag is FALSE: the instruction is skipped.
Skip ==
    /\ Running
    /\ Top.i <= Len(Proc)
    /\ Top.flag = "FALSE"
    /\ Advance("NONE")
    /\ UNCHANGED <<code, analysis, ret, key, tls, last, undefined>>

\* The instruction at i is executed; when it is the first clause of an ifelse
\* whose condition holds, the second clause will be skipped.
Fetched(types) ==
    /\ Running
    /\ Top.i <= Len(Proc)
    /\ Top.flag # "FALSE"
    /\ Proc[Top.i].type \in types

Fetching == IF Top.flag = "TRUE" THEN "FALSE" ELSE Top.flag
Performed == last' = <<Top.slot, Top.i>>

\* The handlers of SET, UNOP and BINOP, and of BLOCK once it stops polling.
ExecSimple ==
    /\ Fetched({"op", "block"})
    /\ Performed
    /\ Advance(Fetching)
    /\ UNCHANGED <<code, analysis, ret, key, tls, undefined>>

ExecNoop ==
    /\ Fetched({"noop"})
    /\ Advance(Fetching)
    /\ UNCHANGED <<code, analysis, ret, key, tls, last, undefined>>

ExecIfElse ==
    /\ Fetched({"ifelse"})
    /\ Performed
    /\ \E condition \in {"TRUE", "FALSE"} : Advance(condition)
    /\ UNCHANGED <<code, analysis, ret, key, tls, undefined>>

\* A handler fails: a parameter is missing or read-only, types do not match,
\* a block times out.
ExecFails ==
    /\ Fetched({"op", "block", "ifelse"})
    /\ ret' = "error"
    /\ UNCHANGED <<code, analysis, stack, key, tls, last, undefined>>

\* proc_runtime_call looks for the called slot in what the analysis of the running
\* procedure lists, and asks the analysis whether the call is a tail call; behind
\* the place where it stopped, none is.
Called == Proc[Top.i].slot
Lists == CallListed(Proc, analysis[Top.slot], Called)
\* Faulty: whatever is listed is taken to have a sub-analysis.
ResolvesListed == Lists
Resolves == CallResolved(Proc, analysis[Top.slot], Called)
is_tail_call == Top.i <= analysis[Top.slot] /\ IsTailCall(Proc, Top.i)

\* The slot is not listed: "procedure not found".
CallNotFound ==
    /\ Fetched({"call"})
    /\ ~Lists
    /\ ret' = "error"
    /\ UNCHANGED <<code, analysis, stack, key, tls, last, undefined>>

\* It is listed by the call at which the analysis failed, so that its sub-analysis
\* was never written. What is read there is followed as a pointer.
CallWild ==
    /\ Fetched({"call"})
    /\ Lists /\ ~Resolves
    /\ undefined' = TRUE
    /\ UNCHANGED <<code, analysis, stack, ret, key, tls, last>>

\* Faulty: the position is one short.
TailCallOffByOne ==
    /\ Fetched({"call"})
    /\ Resolves
    /\ is_tail_call
    /\ SetTop([slot |-> Called, i |-> 0, flag |-> "NONE", depth |-> Top.depth])
    /\ UNCHANGED <<code, analysis, ret, key, tls, last, undefined>>

\* The frame is reused: analysis, proc, flag and i are replaced.
TailCall ==
    /\ Fetched({"call"})
    /\ Resolves
    /\ is_tail_call
    /\ SetTop(NewFrame(Called, Top.depth))
    /\ UNCHANGED <<code, analysis, ret, key, tls, last, undefined>>

\* The caller stays at its call, below the frame of the called procedure.
Push == stack' = Append([stack EXCEPT ![Len(stack)].flag = Fetching], NewFrame(Called, Depth))

\* Faulty: the depth is not counted.
NestedCallUncounted ==
    /\ Fetched({"call"})
    /\ Resolves
    /\ ~is_tail_call
    /\ Depth <= MAX_PROC_RECURSION_DEPTH
    /\ Push
    /\ UNCHANGED <<code, analysis, ret, key, tls, last, undefined>>

\* A nested proc_instructions_exec.
NestedCall ==
    /\ Fetched({"call"})
    /\ Resolves
    /\ ~is_tail_call
    /\ Depth <= MAX_PROC_RECURSION_DEPTH
    /\ Push
    /\ SetDepth(Depth + 1)
    /\ UNCHANGED <<code, analysis, ret, key, last, undefined>>

DepthExceeded ==
    /\ Fetched({"call"})
    /\ Resolves
    /\ ~is_tail_call
    /\ Depth > MAX_PROC_RECURSION_DEPTH
    /\ ret' = "error"
    /\ UNCHANGED <<code, analysis, stack, key, tls, last, undefined>>

\* Faulty variants. The depth is not restored, and the caller calls again.
ReturnDepthKept ==
    /\ Alive
    /\ ret = "error" \/ Top.i > Len(Proc)
    /\ LET callers == Front(stack) IN
       stack' = IF callers = <<>> \/ ret = "error" THEN callers
                ELSE [callers EXCEPT ![Len(callers)].i = @ + 1]
    /\ UNCHANGED <<code, analysis, ret, key, tls, last, undefined>>
ReturnToCall ==
    /\ Alive
    /\ ret = "error" \/ Top.i > Len(Proc)
    /\ SetDepth(Top.depth)
    /\ stack' = Front(stack)
    /\ UNCHANGED <<code, analysis, ret, key, last, undefined>>

\* The innermost call returns, at its end or with an error, and restores the
\* depth it read. A caller goes on behind its call unless it got an error.
Return ==
    /\ Alive
    /\ ret = "error" \/ Top.i > Len(Proc)
    /\ SetDepth(Top.depth)
    /\ LET callers == Front(stack) IN
       stack' = IF callers = <<>> \/ ret = "error" THEN callers
                ELSE [callers EXCEPT ![Len(callers)].i = @ + 1]
    /\ UNCHANGED <<code, analysis, ret, key, last, undefined>>

\* Another procedure thread starts and replaces the key; the value of this
\* thread under a new key is NULL.
KeyReplaced ==
    /\ Alive
    /\ key < MaxKey
    /\ key' = key + 1
    /\ UNCHANGED <<code, analysis, stack, ret, tls, last, undefined>>

Step ==
    \/ Skip \/ ExecSimple \/ ExecNoop \/ ExecIfElse \/ ExecFails
    \/ CallNotFound \/ CallWild \/ TailCall \/ NestedCall \/ DepthExceeded \/ Return

Next == Step \/ KeyReplaced

Spec == Init /\ [][Next]_vars

\* The thread is scheduled and every handler returns: a block has a timeout and
\* so has every remote access.
FairSpec == Spec /\ WF_vars(Step)

-----------------------------------------------------------------------------
(* The to-do list of ProcSemantics behind the frames.                      *)

\* What a frame at position i has left: the instruction the flag selects, then
\* every later one that is no clause.
Remaining(slot, i, flag) ==
    LET p == code[slot]
        current == IF flag = "FALSE" THEN i + 1 ELSE i
    IN  FlattenSeq([j \in 1 .. Len(p) |->
            IF j >= current /\ (j = current \/ ~Clause(p, j)) /\ p[j].type # "noop"
            THEN <<<<slot, j>>>> ELSE <<>>])

\* Callers resume behind their call.
FrameTodo(k) ==
    Remaining(stack[k].slot, IF k = Len(stack) THEN stack[k].i ELSE stack[k].i + 1,
              stack[k].flag)

Todo ==
    IF ret = "error" \/ undefined THEN <<>>
    ELSE FlattenSeq([k \in 1 .. Len(stack) |-> FrameTodo(Len(stack) + 1 - k)])

Status ==
    CASE undefined -> "undefined"
      [] ret = "error" -> "error"
      [] Running -> "running"
      [] OTHER -> "done"

Semantics == INSTANCE ProcSemantics WITH todo <- Todo, status <- Status

-----------------------------------------------------------------------------
(* Properties.                                                             *)

\* The executor, with its flags, frames and reused frames, does exactly what
\* the procedure means: the right instructions in the right order, one clause
\* of each ifelse, a depth error only where something is left to return to, and,
\* when the analysis of a called procedure failed half-way, an error or no meaning
\* for exactly those of its calls that it did not come to.
ImplementsSemantics == Semantics!Spec

\* As long as the key is not replaced the thread-specific value counts the
\* frames, on every path out of the executor, so the next call reads the right
\* depth ...
DepthCountsFrames == key = 1 => Depth = Len(stack)

\* ... and no more than MAX_PROC_RECURSION_DEPTH calls are nested in the first.
OwnKeyBoundsDepth == key = 1 => Len(stack) <= MAX_PROC_RECURSION_DEPTH + 1

\* README.md:151: procedures that only call in their last instruction (or the
\* second-last behind an ifelse) avoid nesting function calls, in whatever
\* cycles they call each other.
LastCallsNeverNest ==
    (\A slot \in Slots : CallsLast(code[slot])) => Len(stack) <= 1

\* Procedures that only call higher slots terminate, as long as they have a meaning.
Ascending ==
    \A slot \in Slots : \A i \in 1 .. Len(code[slot]) :
        code[slot][i].type = "call" => code[slot][i].slot > slot
Terminates == Ascending ~> stack = <<>> \/ undefined
=============================================================================
