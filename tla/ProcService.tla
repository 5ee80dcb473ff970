---------------------------- MODULE ProcService ----------------------------
(***************************************************************************)
(* Clients (proc_client.c), the CSP network, the request handlers of the   *)
(* server (proc_server.c) run by its router threads, and the procedure     *)
(* store (store/proc_store_dynamic.c and _static.c, the same operations).  *)
(***************************************************************************)
EXTENDS Naturals

CONSTANTS
    Clients,     \* threads that call the proc_*_request functions
    Routers,     \* threads that run proc_serve
    Slots,       \* slots of the store in use
    Procs,       \* non-empty procedures
    Oversized,   \* those that do not fit into a packet
    EMPTY,       \* instruction_count = 0
    MALFORMED,   \* bytes that do not unpack
    TORN,        \* what a reader sees of a slot rewritten under its hands
    NOTHING,     \* no data in a reply, no request in a router
    MaxCalls     \* bound on the calls of a client

ASSUME ServiceAssumption ==
    /\ Oversized \subseteq Procs
    /\ Procs # {}
    /\ {EMPTY, MALFORMED, TORN, NOTHING} \cap Procs = {}
    /\ MaxCalls \in Nat

VARIABLES
    store,       \* slot -> procedure or EMPTY
    calls,       \* client -> calls of proc_transaction so far
    waiting,     \* client -> is it inside csp_read
    result,      \* client -> what its last transaction returned
    requests,    \* request packets in the network
    replies,     \* reply packets in the network
    serving,     \* router -> the pull request between get_proc and pack
    found,       \* router -> what that slot held at get_proc
    disturbed    \* routers whose slot was written since

vars == <<store, calls, waiting, result, requests, replies, serving, found, disturbed>>

Ops == {"del", "pull", "push", "slots", "run"}
Ids == Clients \X (1 .. MaxCalls)
Requests == [id : Ids, op : Ops, slot : Slots, proc : Procs, content : Procs \cup {EMPTY, MALFORMED}]
ASSUME DistinctAssumption ==
    /\ NOTHING \notin Requests
    /\ TORN # NOTHING
    /\ \A used \in SUBSET Slots : used # TORN

Data == Procs \cup {EMPTY, TORN, NOTHING} \cup SUBSET Slots
Results == [status : {"ok", "error", "failed"}, data : Data]
Replies == [id : Ids, status : {"ok", "error"}, data : Data]
Failed == [status |-> "failed", data |-> NOTHING]

TypeOK ==
    /\ store \in [Slots -> Procs \cup {EMPTY}]
    /\ calls \in [Clients -> 0 .. MaxCalls]
    /\ waiting \in [Clients -> BOOLEAN]
    /\ result \in [Clients -> Results]
    /\ requests \subseteq Requests
    /\ replies \subseteq Replies
    /\ serving \in [Routers -> Requests \cup {NOTHING}]
    /\ found \in [Routers -> Procs \cup {EMPTY, NOTHING}]
    /\ disturbed \subseteq {r \in Routers : serving[r] # NOTHING}

Init ==
    /\ store = [s \in Slots |-> EMPTY]
    /\ calls = [c \in Clients |-> 0]
    /\ waiting = [c \in Clients |-> FALSE]
    /\ result = [c \in Clients |-> Failed]
    /\ requests = {}
    /\ replies = {}
    /\ serving = [r \in Routers |-> NOTHING]
    /\ found = [r \in Routers |-> NOTHING]
    /\ disturbed = {}

clientVars == <<calls, waiting, result>>
routerVars == <<serving, found, disturbed>>

-----------------------------------------------------------------------------
(* Clients. Every transaction has a connection, and so an id, of its own.  *)

Open(c) ==
    /\ ~waiting[c]
    /\ calls[c] < MaxCalls
    /\ calls' = [calls EXCEPT ![c] = @ + 1]
    /\ waiting' = [waiting EXCEPT ![c] = TRUE]

Send(c, op, slot, proc, content) ==
    requests' = requests \cup {[id |-> <<c, calls[c] + 1>>, op |-> op, slot |-> slot,
                                proc |-> proc, content |-> content]}

\* proc_push_request ignores the result of pack_proc_into_csp_packet: when the
\* procedure does not fit, the packet goes out with what its buffer held.
Push(c) ==
    /\ Open(c)
    /\ \E slot \in Slots, p \in Procs :
            \/ p \notin Oversized /\ Send(c, "push", slot, p, p)
            \/ /\ p \in Oversized
               /\ \E stale \in (Procs \ Oversized) \cup {EMPTY, MALFORMED} :
                        Send(c, "push", slot, p, stale)
    /\ UNCHANGED <<store, result, replies, routerVars>>

\* The other requests carry at most a slot.
Ask(c) ==
    /\ Open(c)
    /\ \E op \in Ops \ {"push"}, slot \in Slots :
            LET p == CHOOSE p \in Procs : TRUE IN Send(c, op, slot, p, p)
    /\ UNCHANGED <<store, result, replies, routerVars>>

Close(c, r) ==
    /\ waiting[c]
    /\ waiting' = [waiting EXCEPT ![c] = FALSE]
    /\ result' = [result EXCEPT ![c] = r]
    /\ UNCHANGED <<store, calls, requests, routerVars>>

\* The reply of this transaction arrives; the callback of a pull may find that
\* torn bytes do not unpack.
Receive(c) ==
    \E p \in replies :
        /\ p.id = <<c, calls[c]>>
        /\ \/ Close(c, [status |-> p.status, data |-> p.data])
           \/ p.data = TORN /\ Close(c, Failed)
        /\ replies' = replies \ {p}

\* csp_read times out, or there is no buffer or no connection to begin with.
GiveUp(c) == Close(c, Failed) /\ UNCHANGED replies

-----------------------------------------------------------------------------
(* The network: CSP without retransmission. Packets arrive in any order or *)
(* not at all; a reply to a closed connection is dropped.                  *)

LoseRequest ==
    /\ \E q \in requests : requests' = requests \ {q}
    /\ UNCHANGED <<store, clientVars, replies, routerVars>>

LoseReply ==
    /\ \E p \in replies : replies' = replies \ {p}
    /\ UNCHANGED <<store, clientVars, requests, routerVars>>

-----------------------------------------------------------------------------
(* The server. A router handles one request at a time; the store's mutex   *)
(* makes each store operation one step.                                    *)

\* Faulty: the request stays where another router finds it.
TakeKept(r, q, op) ==
    /\ serving[r] = NOTHING
    /\ q.op = op
    /\ UNCHANGED requests

Take(r, q, op) ==
    /\ serving[r] = NOTHING
    /\ q.op = op
    /\ requests' = requests \ {q}

Reply(q, status, data) ==
    replies' = replies \cup {[id |-> q.id, status |-> status, data |-> data]}

\* A slot is written, also under the hands of routers that pack its procedure.
Write(slot, content) ==
    /\ store' = [store EXCEPT ![slot] = content]
    /\ disturbed' = disturbed \cup {r \in Routers : serving[r] # NOTHING /\ serving[r].slot = slot}
    /\ UNCHANGED <<serving, found>>

\* The result of delete_proc is ignored.
ServeDel(r, q) ==
    /\ Take(r, q, "del")
    /\ Write(q.slot, EMPTY)
    /\ Reply(q, "ok", NOTHING)
    /\ UNCHANGED clientVars

\* Faulty variants. The slot is overwritten, the result of the unpacking is
\* ignored, and so is that of set_proc.
ServePushOverwriting(r, q) ==
    /\ Take(r, q, "push")
    /\ IF q.content # MALFORMED
       THEN Write(q.slot, q.content) /\ Reply(q, "ok", NOTHING)
       ELSE Reply(q, "error", NOTHING) /\ UNCHANGED <<store, routerVars>>
    /\ UNCHANGED clientVars
ServePushUnchecked(r, q) ==
    /\ Take(r, q, "push")
    /\ IF store[q.slot] = EMPTY
       THEN Write(q.slot, q.content) /\ Reply(q, "ok", NOTHING)
       ELSE Reply(q, "error", NOTHING) /\ UNCHANGED <<store, routerVars>>
    /\ UNCHANGED clientVars
ServePushAlwaysOk(r, q) ==
    /\ Take(r, q, "push")
    /\ IF q.content # MALFORMED /\ store[q.slot] = EMPTY
       THEN Write(q.slot, q.content) /\ Reply(q, "ok", NOTHING)
       ELSE Reply(q, "ok", NOTHING) /\ UNCHANGED <<store, routerVars>>
    /\ UNCHANGED clientVars

\* set_proc(procedure, slot, 0): the store is written when the slot is empty.
ServePush(r, q) ==
    /\ Take(r, q, "push")
    /\ IF q.content # MALFORMED /\ store[q.slot] = EMPTY
       THEN Write(q.slot, q.content) /\ Reply(q, "ok", NOTHING)
       ELSE Reply(q, "error", NOTHING) /\ UNCHANGED <<store, routerVars>>
    /\ UNCHANGED clientVars

\* proc_malloc fails: the handler returns without a reply.
ServePushNoMemory(r, q) ==
    /\ Take(r, q, "push")
    /\ UNCHANGED <<store, clientVars, replies, routerVars>>

ServePullMissing(r, q) ==
    /\ Take(r, q, "pull")
    /\ store[q.slot] = EMPTY
    /\ Reply(q, "error", NOTHING)
    /\ UNCHANGED <<store, clientVars, routerVars>>

\* get_proc returns a pointer into the store and releases the mutex ...
ServePullFound(r, q) ==
    /\ Take(r, q, "pull")
    /\ store[q.slot] # EMPTY
    /\ serving' = [serving EXCEPT ![r] = q]
    /\ found' = [found EXCEPT ![r] = store[q.slot]]
    /\ UNCHANGED <<store, clientVars, replies, disturbed>>

\* ... and the procedure behind it is packed without the mutex. When it was
\* deleted or replaced meanwhile, its strings may be freed: any mix is read, and
\* may turn out not to fit into the packet.
PackPull(r) ==
    /\ serving[r] # NOTHING
    /\ LET q == serving[r] IN
       \/ \E data \in IF r \in disturbed THEN {found[r], store[q.slot], TORN}
                      ELSE {found[r]} :
            Reply(q, "ok", data)
       \/ r \in disturbed /\ Reply(q, "error", NOTHING)
    /\ serving' = [serving EXCEPT ![r] = NOTHING]
    /\ found' = [found EXCEPT ![r] = NOTHING]
    /\ disturbed' = disturbed \ {r}
    /\ UNCHANGED <<store, clientVars, requests>>

\* get_proc_slots.
UsedSlots == {s \in Slots : store[s] # EMPTY}

ServeSlots(r, q) ==
    /\ Take(r, q, "slots")
    /\ Reply(q, "ok", UsedSlots)
    /\ UNCHANGED <<store, clientVars, routerVars>>

\* proc_runtime_run: an empty slot is refused; ProcRuntime has the rest.
ServeRun(r, q) ==
    /\ Take(r, q, "run")
    /\ \/ store[q.slot] # EMPTY /\ Reply(q, "ok", NOTHING)
       \/ Reply(q, "error", NOTHING)
    /\ UNCHANGED <<store, clientVars, routerVars>>

Serve(r, q) ==
    \/ ServeDel(r, q) \/ ServePush(r, q) \/ ServePushNoMemory(r, q)
    \/ ServePullMissing(r, q) \/ ServePullFound(r, q)
    \/ ServeSlots(r, q) \/ ServeRun(r, q)

Next ==
    \/ \E c \in Clients : Push(c) \/ Ask(c) \/ Receive(c) \/ GiveUp(c)
    \/ LoseRequest \/ LoseReply
    \/ \E r \in Routers, q \in requests : Serve(r, q)
    \/ \E r \in Routers : PackPull(r)

Spec == Init /\ [][Next]_vars

-----------------------------------------------------------------------------
(* Properties.                                                             *)

Served == {serving[r] : r \in Routers} \ {NOTHING}

\* A request as the abstract store knows it.
Meaning(q) == [id |-> q.id, op |-> q.op, slot |-> q.slot, proc |-> q.proc]

Abstract ==
    INSTANCE SlotStore WITH
        pending <- {Meaning(q) : q \in requests \cup Served},
        answers <- replies

\* With one router and procedures that fit, a request takes effect at one
\* instant and at most once, and the answer tells the truth about it, however
\* packets are lost and whenever clients give up.
ImplementsSlotStore == Abstract!Spec

\* No request is executed twice or answered while it can still be executed: at
\* any moment a call exists as one request, one request being served, or one
\* reply.
AtMostOnce ==
    LET Traces(id) == {q \in requests : q.id = id} \cup {p \in replies : p.id = id}
                      \cup {r \in Routers : serving[r] # NOTHING /\ serving[r].id = id}
    IN  \A id \in Ids : \A x, y \in Traces(id) : x = y

\* A procedure leaves its slot only through a delete request: whoever pushed it
\* finds it there until somebody asked for its deletion, though several routers
\* serve pushes to the slot.
OnlyDeleteRemoves ==
    [][\A s \in Slots : store[s] # EMPTY /\ store'[s] # store[s] =>
            /\ store'[s] = EMPTY
            /\ \E q \in requests \ requests' : q.op = "del" /\ q.slot = s]_vars

\* The answer to the push of a procedure that fits is true of the moment it was
\* served, whichever router did: "ok" when the slot was empty and took it, an
\* error when it was not and kept what it held (proc_server.c:97 to 113). What
\* does not fit is sent all the same, as the bytes the packet held before, which
\* may be stored and answered with "ok" (proc_client.c:88).
FittingPushStored ==
    [][\A q \in requests \ requests', p \in replies' \ replies :
            q.op = "push" /\ q.proc \notin Oversized /\ p.id = q.id =>
                IF p.status = "ok" THEN store[q.slot] = EMPTY /\ store'[q.slot] = q.proc
                ELSE store[q.slot] # EMPTY /\ store' = store]_vars
=============================================================================
