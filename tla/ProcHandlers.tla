----------------------------- MODULE ProcHandlers -----------------------------
(***************************************************************************)
(* The handlers of SET, UNOP, BINOP, IFELSE and BLOCK, as the threads of   *)
(* procedures perform them on parameters of their own node and of others.  *)
(* A parameter of another node has a copy in the node's list, which all    *)
(* threads share: it is pulled before every use and overwritten whoever    *)
(* asked. Meanwhile applications change parameters on every node, requests *)
(* and answers are lost or late, and time passes.                          *)
(*                                                                         *)
(* A parameter is a pair of name and node, node 0 being this one; arrays   *)
(* count as one value.                                                     *)
(***************************************************************************)
EXTENDS ProcOperands, Sequences

CONSTANTS
    Threads,
    Parameters,       \* function from <<name, node>> to [type, readonly]
    OwnAddress,       \* the address of this node's interface
    Initial,          \* the values parameters may start with
    Instructions,     \* what each thread may be given
    NONE,
    TIMEOUT,          \* MAX_PROC_BLOCK_TIMEOUT_MS in ticks of the model
    MaxInstructions,  \* bound on the instructions per thread
    MaxChanges        \* bound on the changes made by applications

ASSUME HandlersAssumption ==
    /\ TIMEOUT \in Nat \ {0} /\ MaxInstructions \in Nat /\ MaxChanges \in Nat
    /\ NONE \notin Threads
    /\ \A p \in DOMAIN Parameters :
        Parameters[p].type \in DOMAIN Bits /\ Initial \subseteq Raw(Parameters[p].type)
    /\ \A t \in Threads : \A i \in Instructions[t] :
        /\ i.type \in {"set", "unop", "binop", "ifelse", "block"}
        /\ i.type # "set" => "a" \in DOMAIN i
        /\ i.type \notin {"set", "unop"} => "b" \in DOMAIN i
        /\ i.type = "set" => i.value \in Int
        /\ i.type = "binop" => i.op \in {"+", "-", "*", "/", "%", "<<", ">>", "&", "|", "^"}

P == DOMAIN Parameters
Type(p) == Parameters[p].type
Values(p) == Raw(Type(p))
Local(p) == p[2] = 0

VARIABLES
    memory,      \* this node's parameters and its copies of those of others
    peer,        \* the parameters of other nodes, where they live
    pc,          \* where each thread is
    instruction, \* what it performs
    frame,       \* the variables of its handler
    left,        \* the time its block has left
    outcome,     \* how its last instruction ended
    runs,        \* instructions it was given
    requests,    \* pushes under way: <<thread, run, parameter, value>>
    acked,       \* threads with an answer to their push
    changes,     \* changes made by applications
    undefined,   \* undefined behaviour has happened
    seen         \* history: what the operands of each thread were meanwhile

shared == <<memory, peer>>
progress == <<pc, frame, outcome>>
network == <<requests, acked>>
rest == <<instruction, left, runs, changes, undefined>>
vars == <<shared, progress, network, rest, seen>>

\* step counts the fetches; reply is the answer to a pull, result what valuebuf
\* holds and flag the result of a comparison.
NewFrame == [step |-> 1, reply |-> 0, a |-> 0, b |-> 0, result |-> 0, flag |-> "NONE"]

-----------------------------------------------------------------------------
(* What an instruction fetches, in order, and what it does with it.        *)

Compares(i) == i.type \in {"ifelse", "block"}

\* unop takes its operand from the node of the instruction and leaves its
\* result on this one, rmt the other way round.
OperandNode(i) == IF i.type = "unop" /\ i.op = "rmt" THEN 0 ELSE i.node
ResultNode(i) == IF i.type = "unop" /\ i.op # "rmt" THEN 0 ELSE i.node

\* Comparisons fetch both parameters once to look at their types and once more
\* to read them.
Fetches(i) ==
    CASE i.type = "set" -> << <<i.result, "result">> >>
      [] i.type = "unop" -> << <<i.a, "a">>, <<i.result, "result">> >>
      [] i.type = "binop" -> << <<i.a, "a">>, <<i.b, "b">>, <<i.result, "result">> >>
      [] Compares(i) -> << <<i.a, "look">>, <<i.b, "look">>, <<i.a, "a">>, <<i.b, "b">> >>

Use(t) == Fetches(instruction[t])[frame[t].step][2]

\* proc_fetch_param: the entry of the list for a name and a node.
Entry(name, node) == IF node = OwnAddress THEN <<name, 0>> ELSE <<name, node>>
Wanted(t) ==
    LET i == instruction[t]
    IN  Entry(Fetches(i)[frame[t].step][1], IF Use(t) = "result" THEN ResultNode(i) ELSE OperandNode(i))

OperandOf(i, which) == Entry(i[which], OperandNode(i))

-----------------------------------------------------------------------------
Numbers == Operands("INT") \cup Operands("UINT")
Buffers == UNION {Raw(type) : type \in DOMAIN Bits}

TypeOK ==
    /\ DOMAIN memory = P /\ \A p \in P : memory[p] \in Values(p)
    /\ DOMAIN peer = {p \in P : ~Local(p)} /\ \A p \in DOMAIN peer : peer[p] \in Values(p)
    /\ pc \in [Threads -> {"idle", "check", "fetch", "pulled", "read", "compute", "sleep",
                           "end", "store", "push"}]
    /\ DOMAIN instruction = Threads
    /\ \A t \in Threads : instruction[t] \in Instructions[t] \cup {NONE}
    /\ frame \in [Threads -> [step : 1 .. 5, reply : Buffers, a : Numbers, b : Numbers,
                              result : Buffers, flag : {"TRUE", "FALSE", "ERR_TYPE", "ERR", "NONE"}]]
    /\ left \in [Threads -> 0 .. TIMEOUT]
    /\ outcome \in [Threads -> {"NONE", "ok", "error", "TRUE", "FALSE"}]
    /\ runs \in [Threads -> 0 .. MaxInstructions]
    /\ \A r \in requests : r[1] \in Threads /\ r[3] \in DOMAIN peer /\ r[4] \in Values(r[3])
    /\ acked \subseteq {t \in Threads : pc[t] = "push"}
    /\ changes \in 0 .. MaxChanges
    /\ undefined \in BOOLEAN
    /\ seen \in [Threads -> [{"a", "b"} -> SUBSET Buffers]]

Init ==
    /\ memory \in [P -> Initial]
    /\ peer \in [{p \in P : ~Local(p)} -> Initial]
    /\ pc = [t \in Threads |-> "idle"]
    /\ instruction = [t \in Threads |-> NONE]
    /\ frame = [t \in Threads |-> NewFrame]
    /\ left = [t \in Threads |-> 0]
    /\ outcome = [t \in Threads |-> "NONE"]
    /\ runs = [t \in Threads |-> 0]
    /\ requests = {} /\ acked = {}
    /\ changes = 0
    /\ undefined = FALSE
    /\ seen = [t \in Threads |-> [a |-> {}, b |-> {}]]

-----------------------------------------------------------------------------
At(t, place) == ~undefined /\ pc[t] = place
Goto(t, place) == pc' = [pc EXCEPT ![t] = place]
Set(t, field, value) == frame' = [frame EXCEPT ![t][field] = value]

\* The history: what the operands of every thread at work are, where they live,
\* and what other threads put into the shared copies. It begins anew for a
\* thread that starts an instruction or a poll.
Watch(writer, beginner) ==
    seen' = [t \in Threads |-> [which \in {"a", "b"} |->
        LET i == instruction'[t]
            p == OperandOf(i, which)
        IN  IF pc'[t] = "idle" \/ which \notin DOMAIN i \/ p \notin P THEN {}
            ELSE {IF Local(p) THEN memory'[p] ELSE peer'[p]}
                 \cup (IF t = beginner THEN {} ELSE seen[t][which])
                 \cup (IF t # writer /\ memory'[p] # memory[p] THEN {memory'[p]} ELSE {})]]

\* The handler returns.
Finished(t, how) ==
    /\ Goto(t, "idle")
    /\ frame' = [frame EXCEPT ![t] = NewFrame]
    /\ outcome' = [outcome EXCEPT ![t] = how]
    /\ instruction' = [instruction EXCEPT ![t] = NONE]
    /\ left' = [left EXCEPT ![t] = 0]
    /\ Watch(t, NONE)
    /\ UNCHANGED <<runs, changes, undefined>>

Ends(t, how) == UNCHANGED <<shared, network>> /\ Finished(t, how)
Fails(t) == Ends(t, "error")

-----------------------------------------------------------------------------
(* Fetching: proc_fetch_param, and parse_param_to_operand behind it.       *)

Start(t) ==
    /\ At(t, "idle")
    /\ runs[t] < MaxInstructions
    /\ runs' = [runs EXCEPT ![t] = @ + 1]
    /\ outcome' = [outcome EXCEPT ![t] = "NONE"]
    /\ UNCHANGED <<shared, network, frame, changes, undefined>>
    /\ \E i \in Instructions[t] :
        /\ instruction' = [instruction EXCEPT ![t] = i]
        /\ Goto(t, IF i.type = "block" THEN "check" ELSE "fetch")
        /\ left' = [left EXCEPT ![t] = IF i.type = "block" THEN TIMEOUT ELSE 0]
        /\ Watch(NONE, t)

\* proc_fetch_param gives NULL. A comparison that looks at its first parameter
\* fetches the second one all the same before it gives up.
LooksOn(t) ==
    /\ frame' = [frame EXCEPT ![t] = [NewFrame EXCEPT !.step = 2, !.flag = "ERR"]]
    /\ Goto(t, "fetch")
    /\ UNCHANGED <<shared, network, rest, outcome, seen>>

Null(t) == IF Use(t) = "look" /\ frame[t].step = 1 THEN LooksOn(t) ELSE Fails(t)

\* No parameter of the name, no list from its node, or no answer to the pull.
FetchFails(t) ==
    /\ At(t, "fetch")
    /\ Wanted(t) \notin P \/ ~Local(Wanted(t))
    /\ Null(t)

\* The list is downloaded and the other node answers the pull ...
PullServed(t) ==
    /\ At(t, "fetch")
    /\ Wanted(t) \in DOMAIN peer
    /\ Set(t, "reply", peer[Wanted(t)])
    /\ Goto(t, "pulled")
    /\ UNCHANGED <<shared, network, rest, outcome, seen>>

\* ... the answer is lost, or put into the shared copy.
PullFails(t) == At(t, "pulled") /\ Null(t)

PullApplied(t) ==
    /\ At(t, "pulled")
    /\ memory' = [memory EXCEPT ![Wanted(t)] = frame[t].reply]
    /\ Set(t, "reply", 0)
    /\ Goto(t, "read")
    /\ UNCHANGED <<peer, network, rest, outcome>>
    /\ Watch(t, NONE)

\* Faulty: the copy in the list is used as it is.
AtHandCached(t) == At(t, "fetch") /\ Wanted(t) \in P

\* The parameter is in the list, and its copy is new if it is of another node.
AtHand(t) ==
    \/ At(t, "fetch") /\ Wanted(t) \in P /\ Local(Wanted(t))
    \/ At(t, "read")

\* The look at the second parameter refuses DATA; the first one is only found
\* out when it is parsed.
Look(t) ==
    /\ AtHand(t)
    /\ Use(t) = "look"
    /\ frame[t].step = 2 => Kind(Type(Wanted(t))) # "NONE" /\ frame[t].flag # "ERR"
    /\ Set(t, "step", frame[t].step + 1)
    /\ Goto(t, "fetch")
    /\ UNCHANGED <<shared, network, rest, outcome, seen>>

Parse(t) ==
    /\ AtHand(t)
    /\ Use(t) \in {"a", "b"}
    /\ Kind(Type(Wanted(t))) # "NONE"
    /\ frame' = [frame EXCEPT ![t][Use(t)] = Parsed(Type(Wanted(t)), memory[Wanted(t)]),
                              ![t].step = @ + 1]
    /\ Goto(t, IF Use(t) = "b" \/ instruction[t].type = "unop" THEN "compute" ELSE "fetch")
    /\ UNCHANGED <<shared, network, rest, outcome, seen>>

\* The second parameter was fetched in vain if the first one had failed.
ParseFails(t) ==
    /\ AtHand(t)
    /\ Use(t) = "look" => frame[t].step = 2
    /\ Use(t) # "result"
    /\ Kind(Type(Wanted(t))) = "NONE" \/ frame[t].flag = "ERR"
    /\ Fails(t)

-----------------------------------------------------------------------------
(* Operations: valuebuf is computed in the type of the first operand.      *)

OperandType(t, which) == Type(OperandOf(instruction[t], which))

Computes(t, type) == At(t, "compute") /\ instruction[t].type = type

UndefinedBehaviour ==
    /\ undefined' = TRUE
    /\ UNCHANGED <<shared, progress, network, instruction, left, runs, changes, seen>>

\* Any value of its type for a FLOAT, the integer given otherwise.
Computed(t, value) ==
    LET type == OperandType(t, "a")
        kind == Kind(type)
    IN  IF kind # "FLOAT" /\ Overflows(kind, value) THEN UndefinedBehaviour
        ELSE /\ \E buffer \in IF kind = "FLOAT" THEN Raw(type)
                              ELSE {Written(type, Wrapped(kind, value))} :
                    Set(t, "result", buffer)
             /\ Goto(t, "fetch")
             /\ UNCHANGED <<shared, network, rest, outcome, seen>>

Unop(t) ==
    /\ Computes(t, "unop")
    /\ IF UnopSupported(instruction[t].op, OperandType(t, "a"))
       THEN Computed(t, UnopValue(instruction[t].op, frame[t].a))
       ELSE Fails(t)

\* Operands of two kinds and divisions by zero are refused; whether a FLOAT is
\* zero is left open.
Binop(t) ==
    LET op == instruction[t].op
        kind == Kind(OperandType(t, "a"))
        x == frame[t].a
        y == frame[t].b
    IN  /\ Computes(t, "binop")
        /\ IF ~BinopSupported(op, OperandType(t, "a"), OperandType(t, "b")) THEN Fails(t)
           ELSE IF kind = "FLOAT" THEN Computed(t, 0) \/ (op = "/" /\ Fails(t))
           ELSE IF Divides(op) /\ y = 0 THEN Fails(t)
           ELSE IF BinopUndefined(op, kind, x, y) THEN UndefinedBehaviour
           ELSE Computed(t, BinopValue(op, kind, x, y))

-----------------------------------------------------------------------------
(* proc_set_param behind its proc_fetch_param.                             *)

\* Read-only, or the text of SET is no value of the parameter's type.
SetParamFails(t) ==
    /\ AtHand(t)
    /\ Use(t) = "result"
    /\ Parameters[Wanted(t)].readonly \/ instruction[t].type = "set"
    /\ Fails(t)

SetParam(t) ==
    /\ AtHand(t)
    /\ Use(t) = "result"
    /\ ~Parameters[Wanted(t)].readonly
    /\ Set(t, "result", Taken(Type(Wanted(t)),
           IF instruction[t].type = "set" THEN instruction[t].value ELSE frame[t].result))
    /\ Goto(t, "store")
    /\ UNCHANGED <<shared, network, rest, outcome, seen>>

\* param_set
Store(t) ==
    /\ At(t, "store")
    /\ Local(Wanted(t))
    /\ memory' = [memory EXCEPT ![Wanted(t)] = frame[t].result]
    /\ UNCHANGED <<peer, network>>
    /\ Finished(t, "ok")

\* param_push_single
Push(t) ==
    /\ At(t, "store")
    /\ ~Local(Wanted(t))
    /\ requests' = requests \cup {<<t, runs[t], Wanted(t), frame[t].result>>}
    /\ Goto(t, "push")
    /\ UNCHANGED <<shared, acked, frame, outcome, rest, seen>>

PushServed(r) ==
    /\ ~undefined
    /\ peer' = [peer EXCEPT ![r[3]] = r[4]]
    /\ requests' = requests \ {r}
    /\ acked' = IF pc[r[1]] = "push" /\ runs[r[1]] = r[2] THEN acked \cup {r[1]} ELSE acked
    /\ UNCHANGED <<memory, progress, rest>>
    /\ Watch(NONE, NONE)

LoseRequest(r) ==
    /\ ~undefined
    /\ requests' = requests \ {r}
    /\ UNCHANGED <<shared, progress, acked, rest, seen>>

PushAnswered(t) ==
    /\ At(t, "push")
    /\ t \in acked
    /\ memory' = [memory EXCEPT ![Wanted(t)] = frame[t].result]
    /\ acked' = acked \ {t}
    /\ UNCHANGED <<peer, requests>>
    /\ Finished(t, "ok")

\* Faulty: an answer that came meanwhile is left for the next push.
PushTimesOutAnswered(t) ==
    /\ At(t, "push")
    /\ UNCHANGED <<shared, requests, acked>>
    /\ Finished(t, "error")

\* The answer is lost, or the request is late or lost.
PushTimesOut(t) ==
    /\ At(t, "push")
    /\ acked' = acked \ {t}
    /\ UNCHANGED <<shared, requests>>
    /\ Finished(t, "error")

-----------------------------------------------------------------------------
(* proc_runtime_ifelse, and the loop of proc_runtime_block around it.      *)

Flags(t) ==
    Comparisons(instruction[t].op, OperandType(t, "a"), frame[t].a,
                OperandType(t, "b"), frame[t].b)

IfElse(t) ==
    /\ Computes(t, "ifelse")
    /\ \E flag \in Flags(t) : Ends(t, IF flag = "ERR_TYPE" THEN "error" ELSE flag)

\* while (now < timeout)
Poll(t) ==
    /\ At(t, "check")
    /\ left[t] > 0
    /\ frame' = [frame EXCEPT ![t] = NewFrame]
    /\ Goto(t, "fetch")
    /\ UNCHANGED <<shared, network, rest, outcome>>
    /\ Watch(NONE, t)

Expires(t) ==
    /\ At(t, "check")
    /\ left[t] = 0
    /\ Goto(t, "end")
    /\ UNCHANGED <<shared, network, rest, frame, outcome, seen>>

\* Only IF_ELSE_FLAG_ERR ends the block at once, which a comparison does not
\* give; IF_ELSE_FLAG_ERR_TYPE is taken for FALSE.
Decide(t) ==
    /\ Computes(t, "block")
    /\ \E flag \in Flags(t) :
        /\ Set(t, "flag", flag)
        /\ Goto(t, IF flag = "TRUE" THEN "end" ELSE "sleep")
    /\ UNCHANGED <<shared, network, rest, outcome, seen>>

\* Faulty: the timeout begins anew.
WakeRestarting(t) ==
    /\ At(t, "sleep")
    /\ Goto(t, "check")
    /\ left' = [left EXCEPT ![t] = TIMEOUT]
    /\ UNCHANGED <<shared, network, frame, outcome, instruction, runs, changes, undefined, seen>>

Wake(t) ==
    /\ At(t, "sleep")
    /\ Goto(t, "check")
    /\ UNCHANGED <<shared, network, rest, frame, outcome, seen>>

\* Faulty: the time is not looked at again.
EndUnchecked(t) == At(t, "end") /\ Ends(t, "ok")

\* The time is looked at once more, whatever the condition was.
End(t) == At(t, "end") /\ Ends(t, IF left[t] = 0 THEN "error" ELSE "ok")

-----------------------------------------------------------------------------
\* Time passes, for every block and wherever it is. The clock is not set back.
Tick(t) ==
    /\ ~undefined
    /\ left[t] > 0
    /\ left' = [left EXCEPT ![t] = @ - 1]
    /\ UNCHANGED <<shared, progress, network, instruction, runs, changes, undefined, seen>>

\* An application on this node or on another changes a parameter.
Change(p) ==
    /\ ~undefined
    /\ changes < MaxChanges
    /\ changes' = changes + 1
    /\ \E v \in Values(p) :
        IF Local(p) THEN memory' = [memory EXCEPT ![p] = v] /\ peer' = peer
        ELSE peer' = [peer EXCEPT ![p] = v] /\ memory' = memory
    /\ UNCHANGED <<progress, network, instruction, left, runs, undefined>>
    /\ Watch(NONE, NONE)

Step(t) ==
    \/ FetchFails(t) \/ PullServed(t) \/ PullFails(t) \/ PullApplied(t)
    \/ Look(t) \/ Parse(t) \/ ParseFails(t) \/ Unop(t) \/ Binop(t)
    \/ SetParamFails(t) \/ SetParam(t) \/ Store(t) \/ Push(t)
    \/ PushAnswered(t) \/ PushTimesOut(t)
    \/ IfElse(t) \/ Poll(t) \/ Expires(t) \/ Decide(t) \/ Wake(t) \/ End(t)

Next ==
    \/ \E t \in Threads : Start(t) \/ Step(t) \/ Tick(t)
    \/ \E r \in requests : PushServed(r) \/ LoseRequest(r)
    \/ \E p \in P : Change(p)

Spec == Init /\ [][Next]_vars

\* Threads are scheduled, remote accesses have timeouts and the clock runs.
FairSpec == Spec /\ \A t \in Threads : WF_vars(Step(t)) /\ WF_vars(Tick(t))

-----------------------------------------------------------------------------
(* Properties.                                                             *)

\* The values a thread may have used for an operand: what the parameter was at
\* home since the instruction, or the poll, began, and what answers to other
\* threads put into the copy meanwhile.
Witnessed(t, which) ==
    {Parsed(Type(OperandOf(instruction[t], which)), v) : v \in seen[t][which]}

\* What an operation means for integers, and the numbers a result can be.
Means(op, x, y, z) ==
    CASE op = "++" -> z - x = 1
      [] op = "--" -> x - z = 1
      [] op = "!" -> x + z = -1
      [] op \in {"idt", "rmt"} -> z = x
      [] op = "-" -> z + y = x
      [] op = "+" -> z - x = y
      [] op = "*" -> z = y * x
      [] op = "/" -> Magnitude(x - z * y) < Magnitude(y) /\ (x - z * y) * x >= 0
      [] op = "%" -> Magnitude(z) < Magnitude(y) /\ z * x >= 0 /\ Magnitude(x - z) % Magnitude(y) = 0
      [] op = "<<" -> y \in Positions /\ z = x * 2 ^ y
      [] op = ">>" -> y \in Positions /\ z * 2 ^ y <= x /\ x < (z + 1) * 2 ^ y
      [] op = "&" -> \A i \in Positions : Bit(z, i) <=> Bit(x, i) /\ Bit(y, i)
      [] op = "|" -> \A i \in Positions : Bit(z, i) <=> Bit(x, i) \/ Bit(y, i)
      [] op = "^" -> \A i \in Positions : Bit(z, i) <=> Bit(x, i) # Bit(y, i)
Products == -(2 ^ OperandBits) .. 2 ^ (2 * OperandBits)

\* What a successful unop or binop stores or sends are the bits, as many as both
\* the first operand and the destination have, of the result of the operation
\* for operands that were current while it ran; further bits of the destination
\* are zero (README.md:35 and 36, "stores the result"). Values that answers to
\* other threads put into the shared copy count as current. A unop other than rmt
\* stores it on this node (README.md:29); that would be so of a binop too, but line
\* 742 passes the node of the operands, and the property leaves its place open.
StoredIsResult ==
    [][\A t \in Threads :
        pc[t] = "store" /\ pc'[t] # "store" /\ instruction[t].type \in {"unop", "binop"} =>
            LET i == instruction[t]
                source == OperandType(t, "a")
                width == Bits[source]
                stored == frame[t].result
                common == 2 ^ (IF width < Bits[Type(Wanted(t))] THEN width ELSE Bits[Type(Wanted(t))])
            IN  /\ i.type = "unop" /\ i.op # "rmt" => Local(Wanted(t))
                /\ stored < 2 ^ width
                /\ Kind(source) # "FLOAT" =>
                    \E x \in IF i.type = "unop" /\ i.op = "-" THEN {0} ELSE Witnessed(t, "a"),
                       y \in IF i.type = "binop" THEN Witnessed(t, "b")
                             ELSE Witnessed(t, "a"), z \in Products :
                        Means(i.op, x, y, z) /\ (stored - z) % common = 0]_vars

\* A block only goes on when its condition was met by values that were current
\* during its last poll (README.md:31, "Blocks execution of the procedure until
\* the specified condition is met").
BlockWaits ==
    [][\A t \in Threads :
        instruction[t] # NONE /\ instruction[t].type = "block" /\ outcome'[t] = "ok" =>
            \E x \in Witnessed(t, "a"), y \in Witnessed(t, "b") :
                "TRUE" \in Comparisons(instruction[t].op, OperandType(t, "a"), x,
                                       OperandType(t, "b"), y)]_vars

\* Every instruction ends, with operands that can never be compared too.
InstructionEnds == \A t \in Threads : pc[t] # "idle" ~> pc[t] = "idle" \/ undefined
=============================================================================
