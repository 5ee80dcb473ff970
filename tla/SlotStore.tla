----------------------------- MODULE SlotStore -----------------------------
(***************************************************************************)
(* What the procedure server promises its clients: slots that hold at most *)
(* one procedure, and requests that take effect at one instant, at most    *)
(* once, some time after they are made, even when the client has given up. *)
(* A request or its answer may be forgotten, because the network loses     *)
(* packets and nobody sends them again.                                    *)
(***************************************************************************)
EXTENDS Naturals

CONSTANTS
    Clients, Slots, Procs,
    EMPTY,        \* content of an empty slot
    NOTHING,      \* an answer that carries no data
    MaxCalls      \* bound on the calls of a client

VARIABLES
    store,      \* slot -> procedure or EMPTY
    calls,      \* client -> number of calls made
    waiting,    \* client -> is its last call still open
    result,     \* client -> what the last closed call returned
    pending,    \* requests that may still take effect
    answers     \* answers that may still arrive

vars == <<store, calls, waiting, result, pending, answers>>

Ops == {"del", "pull", "push", "slots", "run"}
Failed == [status |-> "failed", data |-> NOTHING]
Id(c) == <<c, calls[c]>>

Init ==
    /\ store = [s \in Slots |-> EMPTY]
    /\ calls = [c \in Clients |-> 0]
    /\ waiting = [c \in Clients |-> FALSE]
    /\ result = [c \in Clients |-> Failed]
    /\ pending = {}
    /\ answers = {}

Open(c) ==
    /\ ~waiting[c]
    /\ calls[c] < MaxCalls
    /\ calls' = [calls EXCEPT ![c] = @ + 1]
    /\ waiting' = [waiting EXCEPT ![c] = TRUE]

Invoke(c) ==
    /\ Open(c)
    /\ \E op \in Ops, s \in Slots, p \in Procs :
            pending' = pending \cup {[id |-> <<c, calls[c] + 1>>, op |-> op, slot |-> s, proc |-> p]}
    /\ UNCHANGED <<store, result, answers>>

\* The request never leaves the client.
Refuse(c) == Open(c) /\ UNCHANGED <<store, result, pending, answers>>

Close(c, r) ==
    /\ waiting[c]
    /\ waiting' = [waiting EXCEPT ![c] = FALSE]
    /\ result' = [result EXCEPT ![c] = r]
    /\ UNCHANGED <<store, calls, pending>>

Receive(c) ==
    \E a \in answers :
        /\ a.id = Id(c)
        /\ Close(c, [status |-> a.status, data |-> a.data])
        /\ answers' = answers \ {a}

GiveUp(c) == Close(c, Failed) /\ UNCHANGED answers

\* The instant at which request q takes effect.
Answer(q, status, data) ==
    answers' = answers \cup {[id |-> q.id, status |-> status, data |-> data]}

Push(q) ==
    /\ q.op = "push"
    /\ IF store[q.slot] = EMPTY
       THEN store' = [store EXCEPT ![q.slot] = q.proc] /\ Answer(q, "ok", NOTHING)
       ELSE Answer(q, "error", NOTHING) /\ UNCHANGED store

Delete(q) ==
    /\ q.op = "del"
    /\ store' = [store EXCEPT ![q.slot] = EMPTY]
    /\ Answer(q, "ok", NOTHING)

Pull(q) ==
    /\ q.op = "pull"
    /\ IF store[q.slot] = EMPTY
       THEN Answer(q, "error", NOTHING)
       ELSE Answer(q, "ok", store[q.slot])
    /\ UNCHANGED store

List(q) ==
    /\ q.op = "slots"
    /\ Answer(q, "ok", {s \in Slots : store[s] # EMPTY})
    /\ UNCHANGED store

\* An empty slot cannot be run; any other may find no room.
Run(q) ==
    /\ q.op = "run"
    /\ \E status \in {"ok", "error"} :
            /\ status = "ok" => store[q.slot] # EMPTY
            /\ Answer(q, status, NOTHING)
    /\ UNCHANGED store

Apply(q) ==
    /\ pending' = pending \ {q}
    /\ Push(q) \/ Delete(q) \/ Pull(q) \/ List(q) \/ Run(q)
    /\ UNCHANGED <<calls, waiting, result>>

ForgetRequest(q) ==
    pending' = pending \ {q} /\ UNCHANGED <<store, calls, waiting, result, answers>>

ForgetAnswer(a) ==
    answers' = answers \ {a} /\ UNCHANGED <<store, calls, waiting, result, pending>>

Next ==
    \/ \E c \in Clients : Invoke(c) \/ Refuse(c) \/ Receive(c) \/ GiveUp(c)
    \/ \E q \in pending : Apply(q) \/ ForgetRequest(q)
    \/ \E a \in answers : ForgetAnswer(a)

Spec == Init /\ [][Next]_vars
=============================================================================
