----------------------------- MODULE ProcMemory -----------------------------
(***************************************************************************)
(* Where the strings of procedures live on the server: a push unpacks them *)
(* from its packet, the store takes them over, a run copies them for its   *)
(* thread, and each of them is freed where a procedure ends. The handlers  *)
(* (proc_server.c, proc_runtime_run) run in several routers and work       *)
(* instruction by instruction with the functions of proc_pack.c.           *)
(***************************************************************************)
EXTENDS ProcHeap

CONSTANTS
    Routers,
    Threads,       \* bound on the procedures that run
    Slots,
    Procedures,    \* what clients push; the strings are themselves
    MaxPushes,     \* bound on the pushes
    NOTHING

ASSUME MemoryAssumption ==
    /\ MaxPushes \in Nat
    /\ Routers \cap Threads = {} /\ Routers \cap Slots = {} /\ Threads \cap Slots = {}
    /\ \A p \in Procedures : p # <<>> /\ IsText(p)
    /\ NOTHING \notin Procedures

VARIABLES
    store,      \* slot -> procedure with the addresses of its strings
    copies,     \* thread -> the procedure it runs, <<>> when there is none
    job,        \* router -> the request it handles
    disturbed,  \* routers that read a slot which was written meanwhile
    pushes,     \* pushes so far
    undefined   \* did the program do what C does not define

vars == <<heap, store, copies, job, disturbed, pushes, undefined>>

IDLE == [op |-> "idle", slot |-> NOTHING, i |-> 1, proc |-> <<>>, packet |-> <<>>, at |-> 0,
         size |-> 0, written |-> 0, sent |-> NOTHING]
GARBAGE == [node |-> NOTHING, type |-> UNKNOWN, arg |-> <<>>]

Init ==
    /\ heap = <<>>
    /\ store = [slot \in Slots |-> <<>>]
    /\ copies = [t \in Threads |-> <<>>]
    /\ job = [r \in Routers |-> IDLE]
    /\ disturbed = {}
    /\ pushes = 0
    /\ undefined = FALSE

-----------------------------------------------------------------------------
(* Requests.                                                               *)

Begin(r, request) ==
    /\ job[r] = IDLE
    /\ job' = [job EXCEPT ![r] = request]

End(r) ==
    /\ job' = [job EXCEPT ![r] = IDLE]
    /\ disturbed' = disturbed \ {r}

\* The slot is written, also under the hands of routers that read it.
Write(r, slot, procedure) ==
    /\ store' = [store EXCEPT ![slot] = procedure]
    /\ disturbed' = (disturbed \cup {q \in Routers : job[q].op \in {"run", "pull"} /\ job[q].slot = slot})
                    \ {r}

\* The client ignores that a procedure does not fit: then the router receives
\* what the buffer held, another procedure or one with a type nobody knows.
Mangled(p, k) ==
    <<Len(p)>> \o FlattenSeq([j \in 1 .. k - 1 |-> PackedInstruction(p[j])]) \o <<p[k].node, UNKNOWN>>
Received ==
    LET fitting == {p \in Procedures : Fits(p)}
    IN  {[packet |-> Packed(p), sent |-> p] : p \in fitting}
        \cup IF fitting = Procedures THEN {}
             ELSE {[packet |-> Packed(p), sent |-> NOTHING] : p \in fitting}
                  \cup UNION {{[packet |-> Mangled(p, k), sent |-> NOTHING] : k \in DOMAIN p} : p \in fitting}

\* instruction_count comes first; malloc leaves the instructions as they are.
Count(r) == job[r].packet[1]
Loop(op, slot, packet) ==
    [IDLE EXCEPT !.op = op, !.slot = slot, !.packet = packet, !.at = 2,
                 !.proc = IF op = "pull" THEN <<>> ELSE [k \in 1 .. packet[1] |-> GARBAGE]]

-----------------------------------------------------------------------------
(* Push: proc_serve_push_request, unpack_proc_from_csp_packet, set_proc.   *)

Push(r) ==
    /\ pushes < MaxPushes
    /\ pushes' = pushes + 1
    /\ \E slot \in Slots, m \in Received :
            Begin(r, [Loop("push", slot, m.packet) EXCEPT !.sent = m.sent])
    /\ UNCHANGED <<heap, store, copies, disturbed, undefined>>

Unpacking(r) == job[r].op = "push" /\ job[r].i <= Count(r)
TypeRead(r) == job[r].packet[job[r].at + 1]
InstructionRead(r) ==
    LET fields == UnpackedFields(TypeRead(r))
        Place(f) == CHOOSE k \in DOMAIN fields : fields[k] = f
    IN  [node |-> job[r].packet[job[r].at], type |-> TypeRead(r),
         arg |-> [f \in ToSet(fields) |-> job[r].packet[job[r].at + 1 + Place(f)]]]

UnpackInstruction(r) ==
    /\ Unpacking(r)
    /\ TypeRead(r) \in Types
    /\ LET new == Duplicate(<<InstructionRead(r)>>)
       IN  /\ job' = [job EXCEPT ![r].proc[job[r].i] = new.procedure[1],
                                 ![r].i = @ + 1,
                                 ![r].at = @ + 2 + Len(UnpackedFields(TypeRead(r)))]
           /\ heap' = With(heap, new.strings)
    /\ UNCHANGED <<store, copies, disturbed, pushes, undefined>>

\* free_proc goes over all instructions, also those not yet unpacked, whose
\* types and pointers are what malloc left.
UnpackFails(r) ==
    /\ Unpacking(r)
    /\ TypeRead(r) \notin Types
    /\ IF job[r].i = Count(r)
       THEN Free(job[r].proc) /\ End(r) /\ UNCHANGED undefined
       ELSE undefined' = TRUE /\ UNCHANGED <<heap, job, disturbed>>
    /\ UNCHANGED <<store, copies, pushes>>

\* The store takes the strings over, or they are freed.
SetProc(r) ==
    /\ job[r].op = "push"
    /\ job[r].i > Count(r)
    /\ job' = [job EXCEPT ![r] = IDLE]
    /\ IF store[job[r].slot] = <<>>
       THEN Write(r, job[r].slot, job[r].proc) /\ UNCHANGED heap
       ELSE Free(job[r].proc) /\ UNCHANGED <<store, disturbed>>
    /\ UNCHANGED <<copies, pushes, undefined>>

Delete(r) ==
    /\ job[r] = IDLE
    /\ \E slot \in Slots : Free(store[slot]) /\ Write(r, slot, <<>>)
    /\ UNCHANGED <<copies, job, pushes, undefined>>

-----------------------------------------------------------------------------
(* Run: proc_runtime_run, deepcopy_proc, and the end of a thread.          *)

Run(r) ==
    /\ \E slot \in Slots :
            store[slot] # <<>> /\ Begin(r, Loop("run", slot, <<Len(store[slot])>>))
    /\ UNCHANGED <<heap, store, copies, disturbed, pushes, undefined>>

\* The loops of copying and packing read the slot's own count every time.
Reading(r, op) == job[r].op = op /\ job[r].i <= Len(store[job[r].slot])
ReadAll(r, op) == job[r].op = op /\ job[r].i > Len(store[job[r].slot])
Read(r) == Text(store[job[r].slot][job[r].i])

\* Faulty: the strings are shared.
CopyInstructionShallow(r) ==
    /\ Reading(r, "run")
    /\ job[r].i <= Count(r)
    /\ job' = [job EXCEPT ![r].proc[job[r].i] = store[job[r].slot][job[r].i], ![r].i = @ + 1]
    /\ UNCHANGED <<heap, store, copies, disturbed, pushes, undefined>>

CopyInstruction(r) ==
    /\ Reading(r, "run")
    /\ job[r].i <= Count(r)
    /\ LET new == Copied(store[job[r].slot][job[r].i])
       IN  /\ job' = [job EXCEPT ![r].proc[job[r].i] = new.procedure[1], ![r].i = @ + 1]
           /\ heap' = With(heap, new.strings)
    /\ UNCHANGED <<store, copies, disturbed, pushes, undefined>>

\* The copy becomes that of a thread, or is freed when none can be created.
\* Instructions that vanished while they were copied are what malloc left.
CopyEnds(r) ==
    /\ ReadAll(r, "run")
    /\ IF GARBAGE \in ToSet(job[r].proc)
       THEN undefined' = TRUE /\ UNCHANGED <<heap, copies, job, disturbed>>
       ELSE /\ End(r)
            /\ \/ \E t \in Threads :
                    /\ copies[t] = <<>>
                    /\ copies' = [copies EXCEPT ![t] = job[r].proc]
                    /\ UNCHANGED heap
               \/ Free(job[r].proc) /\ UNCHANGED copies
            /\ UNCHANGED undefined
    /\ UNCHANGED <<store, pushes>>

ThreadEnds(t) ==
    /\ copies[t] # <<>>
    /\ Free(copies[t])
    /\ copies' = [copies EXCEPT ![t] = <<>>]
    /\ UNCHANGED <<store, job, disturbed, pushes, undefined>>

-----------------------------------------------------------------------------
(* Pull: proc_serve_pull_request, pack_proc_into_csp_packet.               *)

Pull(r) ==
    /\ \E slot \in Slots :
        LET procedure == TextOf(store[slot])
        IN  /\ procedure # <<>>
            /\ Fits(procedure)
            /\ Begin(r, [Loop("pull", slot, <<Len(procedure)>>)
                            EXCEPT !.size = calc_proc_size(procedure), !.written = 1])
    /\ UNCHANGED <<heap, store, copies, disturbed, pushes, undefined>>

PackInstruction(r) ==
    /\ Reading(r, "pull")
    /\ job' = [job EXCEPT ![r].written = @ + WrittenBytes(Read(r)), ![r].i = @ + 1]
    /\ UNCHANGED <<heap, store, copies, disturbed, pushes, undefined>>

PackEnds(r) ==
    /\ ReadAll(r, "pull")
    /\ End(r)
    /\ UNCHANGED <<heap, store, copies, pushes, undefined>>

\* A string or an instruction is read that a delete request frees meanwhile.
Torn(r) ==
    /\ r \in disturbed
    /\ job[r].i <= Count(r) \/ Reading(r, job[r].op)
    /\ undefined' = TRUE
    /\ UNCHANGED <<heap, store, copies, job, disturbed, pushes>>

-----------------------------------------------------------------------------

Next ==
    /\ ~undefined
    /\ \/ \E r \in Routers :
            \/ Push(r) \/ UnpackInstruction(r) \/ UnpackFails(r) \/ SetProc(r) \/ Delete(r)
            \/ Run(r) \/ CopyInstruction(r) \/ CopyEnds(r)
            \/ Pull(r) \/ PackInstruction(r) \/ PackEnds(r) \/ Torn(r)
       \/ \E t \in Threads : ThreadEnds(t)

Spec == Init /\ [][Next]_vars

-----------------------------------------------------------------------------
(* Properties.                                                             *)

\* Every procedure on the server, and every string of one, by its place.
Held ==
    [x \in Slots \cup Routers \cup Threads |->
        CASE x \in Slots -> store[x] [] x \in Routers -> job[x].proc [] x \in Threads -> copies[x]]
Places ==
    UNION {UNION {{<<x, k, f>> : f \in Strings(DOMAIN Held[x][k].arg)} : k \in DOMAIN Held[x]} :
           x \in DOMAIN Held}
Address(place) == Held[place[1]][place[2]].arg[place[3]]

\* Routers remember how far they are, and are disturbed only while they read.
TypeOK ==
    /\ \A x \in DOMAIN Held : \A k \in DOMAIN Held[x] : Held[x][k].type \in Types \cup {UNKNOWN}
    /\ \A a \in DOMAIN heap : heap[a] \in DOMAIN Length
    /\ \A r \in Routers :
        /\ job[r].op \in {"idle", "push", "run", "pull"}
        /\ job[r].op \in {"push", "run"} => job[r].slot \in Slots /\ job[r].i \in 1 .. Count(r) + 1
    /\ disturbed \subseteq {r \in Routers : job[r].op \in {"run", "pull"}}
    /\ pushes \in 0 .. MaxPushes

\* No string belongs to two procedures, and none that a procedure still has was
\* freed, whoever pushes, runs and deletes at the same time.
SoleOwner ==
    /\ \A p, q \in Places : Address(p) = Address(q) => p = q
    /\ \A p \in Places : Address(p) \in DOMAIN heap

\* Every string is freed when its procedure ends: a refused or failed push, a
\* deletion, a thread that ends or was never created.
NoStringLost == DOMAIN heap \subseteq {Address(p) : p \in Places}

\* A pushed procedure is unpacked as what the client packed, and a copied one is
\* the stored one, in every field (tests/test_proc_pack.c tries it with one).
ArrivesAsSent ==
    \A r \in Routers :
        LET j == job[r] IN
        /\ j.op = "push" /\ j.i > Count(r) /\ j.sent # NOTHING => TextOf(j.proc) = j.sent
        /\ ReadAll(r, "run") /\ r \notin disturbed => TextOf(j.proc) = TextOf(store[j.slot])

\* calc_proc_size, from which the length of a packet is set and the buffer's end
\* is checked, is what packing writes; and what was pushed can be pulled.
SizeIsExact ==
    /\ \A r \in Routers :
        /\ job[r].op = "pull" /\ r \notin disturbed => job[r].written <= job[r].size
        /\ ReadAll(r, "pull") /\ r \notin disturbed => job[r].written = job[r].size
    /\ \A slot \in Slots : Fits(TextOf(store[slot]))
=============================================================================
