------------------------ MODULE ProcService_proofs ------------------------
(***************************************************************************)
(* Machine-checked proofs about ProcService: for any numbers of clients,   *)
(* calls, routers, slots and procedures, oversized ones included.          *)
(***************************************************************************)
EXTENDS ProcService, TLAPS

\* A call that was made.
Issued(id) == id \in Ids /\ id[2] <= calls[id[1]]

\* Packets and pulls under way belong to calls that were made, and no two to
\* the same one.
UniqueRequests ==
    /\ \A q \in requests : Issued(q.id)
    /\ \A q1, q2 \in requests : q1.id = q2.id => q1 = q2
UniqueServing ==
    /\ \A r \in Routers : serving[r] # NOTHING => Issued(serving[r].id)
    /\ \A r \in Routers, q \in requests : serving[r] # NOTHING => serving[r].id # q.id
    /\ \A r1, r2 \in Routers :
            serving[r1] # NOTHING /\ serving[r2] # NOTHING /\ serving[r1].id = serving[r2].id => r1 = r2
UniqueReplies ==
    /\ \A p \in replies : Issued(p.id)
    /\ \A p \in replies, q \in requests : p.id # q.id
    /\ \A p \in replies, r \in Routers : serving[r] # NOTHING => p.id # serving[r].id
    /\ \A p1, p2 \in replies : p1.id = p2.id => p1 = p2
Unique == UniqueRequests /\ UniqueServing /\ UniqueReplies

\* The request to push a procedure that fits carries that procedure.
Honest == \A q \in requests : q.op = "push" /\ q.proc \notin Oversized => q.content = q.proc

\* The inductive invariant.
IInv == TypeOK /\ Unique /\ Honest

\* A call puts a request of its own into the network.
LEMMA Invocation ==
  ASSUME TypeOK, NEW c \in Clients, Push(c) \/ Ask(c)
  PROVE  /\ \E q \in Requests :
                /\ requests' = requests \cup {q}
                /\ q.id = <<c, calls[c] + 1>>
                /\ q.op = "push" /\ q.proc \notin Oversized => q.content = q.proc
         /\ calls[c] < MaxCalls
         /\ calls' = [calls EXCEPT ![c] = @ + 1]
         /\ waiting' = [waiting EXCEPT ![c] = TRUE]
         /\ UNCHANGED <<store, result, replies, serving, found, disturbed>>
<1> USE ServiceAssumption DEF ServiceAssumption
<1>1. Open(c) /\ UNCHANGED <<store, result, replies, serving, found, disturbed>>
  BY DEF Push, Ask, routerVars
<1>2. <<c, calls[c] + 1>> \in Ids
  BY <1>1 DEF Open, TypeOK, Ids
<1>3. ASSUME NEW op \in Ops, NEW slot \in Slots, NEW p \in Procs,
             NEW content \in Procs \cup {EMPTY, MALFORMED}, Send(c, op, slot, p, content),
             op = "push" /\ p \notin Oversized => content = p
      PROVE  \E q \in Requests :
                /\ requests' = requests \cup {q}
                /\ q.id = <<c, calls[c] + 1>>
                /\ q.op = "push" /\ q.proc \notin Oversized => q.content = q.proc
  <2> DEFINE q == [id |-> <<c, calls[c] + 1>>, op |-> op, slot |-> slot, proc |-> p, content |-> content]
  <2>1. q \in Requests
    BY <1>2 DEF Requests
  <2>2. requests' = requests \cup {q}
    BY <1>3 DEF Send
  <2> QED BY <1>3, <2>1, <2>2
<1>4. CASE Push(c)
  <2>1. PICK slot \in Slots, p \in Procs :
            \/ p \notin Oversized /\ Send(c, "push", slot, p, p)
            \/ /\ p \in Oversized
               /\ \E stale \in (Procs \ Oversized) \cup {EMPTY, MALFORMED} : Send(c, "push", slot, p, stale)
    BY <1>4 DEF Push
  <2>2. "push" \in Ops
    BY DEF Ops
  <2>3. CASE p \notin Oversized
    BY <1>3, <2>1, <2>2, <2>3, <1>1 DEF Open
  <2>4. CASE p \in Oversized
    <3>1. PICK stale \in (Procs \ Oversized) \cup {EMPTY, MALFORMED} : Send(c, "push", slot, p, stale)
      BY <2>1, <2>4
    <3> QED BY <1>1, <1>3, <2>2, <2>4, <3>1 DEF Open
  <2> QED BY <2>3, <2>4
<1>5. CASE Ask(c)
  <2> DEFINE p == CHOOSE p \in Procs : TRUE
  <2>1. p \in Procs
    OBVIOUS
  <2>2. PICK op \in Ops \ {"push"}, slot \in Slots : Send(c, op, slot, p, p)
    BY <1>5 DEF Ask
  <2> HIDE DEF p
  <2> QED BY <1>1, <1>3, <2>1, <2>2 DEF Open
<1> QED BY <1>4, <1>5

\* Every step keeps the types.
LEMMA TypeStep == TypeOK /\ [Next]_vars => TypeOK'
<1> SUFFICES ASSUME TypeOK, [Next]_vars PROVE TypeOK'
  OBVIOUS
<1> USE ServiceAssumption, DistinctAssumption DEF ServiceAssumption
<1>1. ASSUME NEW c \in Clients, Push(c) PROVE TypeOK'
  <2>1. PICK q \in Requests : requests' = requests \cup {q}
    BY <1>1, Invocation
  <2>2. /\ calls[c] < MaxCalls
        /\ calls' = [calls EXCEPT ![c] = calls[c] + 1]
        /\ waiting' = [waiting EXCEPT ![c] = TRUE]
        /\ UNCHANGED <<store, result, replies, serving, found, disturbed>>
    BY <1>1, Invocation
  <2> QED BY <2>1, <2>2 DEF TypeOK
<1>2. ASSUME NEW c \in Clients, Ask(c) PROVE TypeOK'
  <2>1. PICK q \in Requests : requests' = requests \cup {q}
    BY <1>2, Invocation
  <2>2. /\ calls[c] < MaxCalls
        /\ calls' = [calls EXCEPT ![c] = calls[c] + 1]
        /\ waiting' = [waiting EXCEPT ![c] = TRUE]
        /\ UNCHANGED <<store, result, replies, serving, found, disturbed>>
    BY <1>2, Invocation
  <2> QED BY <2>1, <2>2 DEF TypeOK
<1>3. ASSUME NEW c \in Clients, Receive(c) PROVE TypeOK'
  <2>1. PICK p \in replies :
            /\ \/ Close(c, [status |-> p.status, data |-> p.data])
               \/ Close(c, Failed)
            /\ replies' = replies \ {p}
    BY <1>3 DEF Receive
  <2>2. [status |-> p.status, data |-> p.data] \in Results /\ Failed \in Results
    BY DEF TypeOK, Replies, Results, Failed, Data
  <2>3. \A x \in Results : Close(c, x) => waiting' \in [Clients -> BOOLEAN] /\ result' \in [Clients -> Results]
    BY DEF Close, TypeOK
  <2>4. UNCHANGED <<store, calls, requests, routerVars>>
    BY <2>1 DEF Close
  <2> QED BY <2>1, <2>2, <2>3, <2>4 DEF routerVars, TypeOK
<1>4. ASSUME NEW c \in Clients, GiveUp(c) PROVE TypeOK'
  BY <1>4 DEF GiveUp, Close, clientVars, routerVars, TypeOK, Results, Replies,
       Requests, Failed, Data, Ops
<1>5. CASE LoseRequest
  BY <1>5 DEF LoseRequest, clientVars, routerVars, TypeOK, Results, Replies,
       Requests, Failed, Data, Ops
<1>6. CASE LoseReply
  BY <1>6 DEF LoseReply, clientVars, routerVars, TypeOK, Results, Replies,
       Requests, Failed, Data, Ops
<1>7. ASSUME NEW r \in Routers, NEW q \in requests, ServeDel(r, q) PROVE TypeOK'
  BY <1>7 DEF ServeDel, Take, Write, Reply, clientVars, routerVars, TypeOK,
       Results, Replies, Requests, Failed, Data, Ops
<1>8. ASSUME NEW r \in Routers, NEW q \in requests, ServePush(r, q) PROVE TypeOK'
  BY <1>8 DEF ServePush, Take, Write, Reply, clientVars, routerVars, TypeOK,
       Results, Replies, Requests, Failed, Data, Ops
<1>9. ASSUME NEW r \in Routers, NEW q \in requests, ServePushNoMemory(r, q) PROVE TypeOK'
  BY <1>9 DEF ServePushNoMemory, Take, clientVars, routerVars, TypeOK,
       Results, Replies, Requests, Failed, Data, Ops
<1>10. ASSUME NEW r \in Routers, NEW q \in requests, ServePullMissing(r, q) PROVE TypeOK'
  BY <1>10 DEF ServePullMissing, Take, Reply, clientVars, routerVars, TypeOK,
       Results, Replies, Requests, Failed, Data, Ops
<1>11. ASSUME NEW r \in Routers, NEW q \in requests, ServePullFound(r, q) PROVE TypeOK'
  BY <1>11 DEF ServePullFound, Take, clientVars, routerVars, TypeOK, Results,
       Replies, Requests, Failed, Data, Ops
<1>12. ASSUME NEW r \in Routers, NEW q \in requests, ServeSlots(r, q) PROVE TypeOK'
  BY <1>12 DEF ServeSlots, Take, Reply, UsedSlots, clientVars, routerVars,
       TypeOK, Results, Replies, Requests, Failed, Data, Ops
<1>13. ASSUME NEW r \in Routers, NEW q \in requests, ServeRun(r, q) PROVE TypeOK'
  BY <1>13 DEF ServeRun, Take, Reply, clientVars, routerVars, TypeOK, Results,
       Replies, Requests, Failed, Data, Ops
<1>14. ASSUME NEW r \in Routers, PackPull(r) PROVE TypeOK'
  BY <1>14 DEF PackPull, Reply, clientVars, routerVars, TypeOK, Results,
       Replies, Requests, Failed, Data, Ops
<1>15. CASE UNCHANGED vars
  BY <1>15 DEF vars, TypeOK
<1> QED BY <1>1, <1>2, <1>3, <1>4, <1>5, <1>6, <1>7, <1>8, <1>9, <1>10, <1>11,
     <1>12, <1>13, <1>14, <1>15 DEF Next, Serve

\* Every step keeps a call in one place.
LEMMA UniqueStep == TypeOK /\ Unique /\ [Next]_vars => Unique'
<1> SUFFICES ASSUME TypeOK, Unique, [Next]_vars PROVE Unique'
  OBVIOUS
<1>1. ASSUME NEW c \in Clients, Push(c) PROVE Unique'
  <2>1. PICK q \in Requests : requests' = requests \cup {q} /\ q.id = <<c, calls[c] + 1>>
    BY <1>1, Invocation
  <2>2. calls' = [calls EXCEPT ![c] = calls[c] + 1] /\ UNCHANGED <<replies, serving>>
    BY <1>1, Invocation
  <2>3. q.id[1] = c /\ q.id[2] = calls[c] + 1 /\ q.id \in Ids
    BY <2>1 DEF Requests
  <2>4. Issued(q.id)' /\ \A id : Issued(id) => Issued(id)' /\ id # q.id
    BY <2>2, <2>3 DEF Issued, TypeOK, Ids
  <2> QED BY <2>1, <2>2, <2>4 DEF Unique, UniqueRequests, UniqueServing, UniqueReplies
<1>2. ASSUME NEW c \in Clients, Ask(c) PROVE Unique'
  <2>1. PICK q \in Requests : requests' = requests \cup {q} /\ q.id = <<c, calls[c] + 1>>
    BY <1>2, Invocation
  <2>2. calls' = [calls EXCEPT ![c] = calls[c] + 1] /\ UNCHANGED <<replies, serving>>
    BY <1>2, Invocation
  <2>3. q.id[1] = c /\ q.id[2] = calls[c] + 1 /\ q.id \in Ids
    BY <2>1 DEF Requests
  <2>4. Issued(q.id)' /\ \A id : Issued(id) => Issued(id)' /\ id # q.id
    BY <2>2, <2>3 DEF Issued, TypeOK, Ids
  <2> QED BY <2>1, <2>2, <2>4 DEF Unique, UniqueRequests, UniqueServing, UniqueReplies
<1>3. ASSUME NEW c \in Clients, Receive(c) PROVE Unique'
  BY <1>3 DEF Receive, Close, clientVars, routerVars, TypeOK, UniqueRequests,
       UniqueServing, UniqueReplies, Unique, Issued
<1>4. ASSUME NEW c \in Clients, GiveUp(c) PROVE Unique'
  BY <1>4 DEF GiveUp, Close, clientVars, routerVars, TypeOK, UniqueRequests,
       UniqueServing, UniqueReplies, Unique, Issued
<1>5. CASE LoseRequest
  BY <1>5 DEF LoseRequest, clientVars, routerVars, TypeOK, UniqueRequests,
       UniqueServing, UniqueReplies, Unique, Issued
<1>6. CASE LoseReply
  BY <1>6 DEF LoseReply, clientVars, routerVars, TypeOK, UniqueRequests,
       UniqueServing, UniqueReplies, Unique, Issued
<1>7. ASSUME NEW r \in Routers, NEW q \in requests, ServeDel(r, q) PROVE Unique'
  BY <1>7 DEF ServeDel, Take, Write, Reply, clientVars, routerVars, TypeOK,
       UniqueRequests, UniqueServing, UniqueReplies, Unique, Issued
<1>8. ASSUME NEW r \in Routers, NEW q \in requests, ServePush(r, q) PROVE Unique'
  BY <1>8 DEF ServePush, Take, Write, Reply, clientVars, routerVars, TypeOK,
       UniqueRequests, UniqueServing, UniqueReplies, Unique, Issued
<1>9. ASSUME NEW r \in Routers, NEW q \in requests, ServePushNoMemory(r, q) PROVE Unique'
  BY <1>9 DEF ServePushNoMemory, Take, clientVars, routerVars, TypeOK,
       UniqueRequests, UniqueServing, UniqueReplies, Unique, Issued
<1>10. ASSUME NEW r \in Routers, NEW q \in requests, ServePullMissing(r, q) PROVE Unique'
  BY <1>10 DEF ServePullMissing, Take, Reply, clientVars, routerVars, TypeOK,
       UniqueRequests, UniqueServing, UniqueReplies, Unique, Issued
<1>11. ASSUME NEW r \in Routers, NEW q \in requests, ServePullFound(r, q) PROVE Unique'
  BY <1>11 DEF ServePullFound, Take, clientVars, routerVars, TypeOK,
       UniqueRequests, UniqueServing, UniqueReplies, Unique, Issued
<1>12. ASSUME NEW r \in Routers, NEW q \in requests, ServeSlots(r, q) PROVE Unique'
  <2> DEFINE p == [id |-> q.id, status |-> "ok", data |-> UsedSlots]
  <2>1. p.id = q.id
    OBVIOUS
  <2>2. /\ requests' = requests \ {q} /\ replies' = replies \cup {p}
        /\ UNCHANGED <<calls, serving>>
    BY <1>12 DEF ServeSlots, Take, Reply, clientVars, routerVars
  <2> HIDE DEF p
  <2> QED BY <2>1, <2>2 DEF Unique, UniqueRequests, UniqueServing, UniqueReplies, Issued
<1>13. ASSUME NEW r \in Routers, NEW q \in requests, ServeRun(r, q) PROVE Unique'
  BY <1>13 DEF ServeRun, Take, Reply, clientVars, routerVars, TypeOK,
       UniqueRequests, UniqueServing, UniqueReplies, Unique, Issued
<1>14. ASSUME NEW r \in Routers, PackPull(r) PROVE Unique'
  BY <1>14 DEF PackPull, Reply, clientVars, routerVars, TypeOK,
       UniqueRequests, UniqueServing, UniqueReplies, Unique, Issued
<1>15. CASE UNCHANGED vars
  BY <1>15 DEF vars, Unique, UniqueRequests, UniqueServing, UniqueReplies,
       Issued
<1> QED BY <1>1, <1>2, <1>3, <1>4, <1>5, <1>6, <1>7, <1>8, <1>9, <1>10, <1>11,
     <1>12, <1>13, <1>14, <1>15 DEF Next, Serve

\* What is under way is not changed.
LEMMA HonestStep == TypeOK /\ Honest /\ [Next]_vars => Honest'
<1> SUFFICES ASSUME TypeOK, Honest, [Next]_vars PROVE Honest'
  OBVIOUS
<1>1. ASSUME NEW c \in Clients, Push(c) PROVE Honest'
  BY <1>1, Invocation DEF Honest
<1>2. ASSUME NEW c \in Clients, Ask(c) PROVE Honest'
  BY <1>2, Invocation DEF Honest
<1>3. ASSUME NEW c \in Clients, Receive(c) PROVE Honest'
  BY <1>3 DEF Receive, Close, clientVars, routerVars, Honest
<1>4. ASSUME NEW c \in Clients, GiveUp(c) PROVE Honest'
  BY <1>4 DEF GiveUp, Close, clientVars, routerVars, Honest
<1>5. CASE LoseRequest
  BY <1>5 DEF LoseRequest, clientVars, routerVars, Honest
<1>6. CASE LoseReply
  BY <1>6 DEF LoseReply, clientVars, routerVars, Honest
<1>7. ASSUME NEW r \in Routers, NEW q \in requests, ServeDel(r, q) PROVE Honest'
  BY <1>7 DEF ServeDel, Take, Write, Reply, clientVars, routerVars, Honest
<1>8. ASSUME NEW r \in Routers, NEW q \in requests, ServePush(r, q) PROVE Honest'
  BY <1>8 DEF ServePush, Take, Write, Reply, clientVars, routerVars, Honest
<1>9. ASSUME NEW r \in Routers, NEW q \in requests, ServePushNoMemory(r, q) PROVE Honest'
  BY <1>9 DEF ServePushNoMemory, Take, clientVars, routerVars, Honest
<1>10. ASSUME NEW r \in Routers, NEW q \in requests, ServePullMissing(r, q) PROVE Honest'
  BY <1>10 DEF ServePullMissing, Take, Reply, clientVars, routerVars, Honest
<1>11. ASSUME NEW r \in Routers, NEW q \in requests, ServePullFound(r, q) PROVE Honest'
  BY <1>11 DEF ServePullFound, Take, clientVars, routerVars, Honest
<1>12. ASSUME NEW r \in Routers, NEW q \in requests, ServeSlots(r, q) PROVE Honest'
  BY <1>12 DEF ServeSlots, Take, Reply, UsedSlots, clientVars, routerVars,
       Honest
<1>13. ASSUME NEW r \in Routers, NEW q \in requests, ServeRun(r, q) PROVE Honest'
  BY <1>13 DEF ServeRun, Take, Reply, clientVars, routerVars, Honest
<1>14. ASSUME NEW r \in Routers, PackPull(r) PROVE Honest'
  BY <1>14 DEF PackPull, Reply, clientVars, routerVars, Honest
<1>15. CASE UNCHANGED vars
  BY <1>15 DEF vars, Honest
<1> QED BY <1>1, <1>2, <1>3, <1>4, <1>5, <1>6, <1>7, <1>8, <1>9, <1>10, <1>11,
     <1>12, <1>13, <1>14, <1>15 DEF Next, Serve

\* Nothing is under way at the start.
LEMMA IInvInit == Init => IInv
  BY ServiceAssumption DEF ServiceAssumption, Init, IInv, TypeOK, Unique, UniqueRequests,
     UniqueServing, UniqueReplies, Honest, Results, Failed, Data

\* The invariant holds for ever.
THEOREM IInvHolds == Spec => []IInv
<1>1. IInv /\ [Next]_vars => IInv'
  BY TypeStep, UniqueStep, HonestStep DEF IInv
<1> QED BY <1>1, IInvInit, PTL DEF Spec

\* Packets, slots and results stay well typed: no malformed procedure is stored.
THEOREM TypeCorrect == Spec => []TypeOK
<1>1. IInv => TypeOK
  BY DEF IInv
<1> QED BY <1>1, IInvHolds, PTL

\* A call is at one place only, as a request, a pull under way, or a reply, so
\* that no router serves it twice, whatever is lost and whoever gives up.
THEOREM ServedAtMostOnce == Spec => []AtMostOnce
<1>1. IInv => AtMostOnce
  <2> DEFINE Sent(id) == {q \in requests : q.id = id}
             Answered(id) == {p \in replies : p.id = id}
             Serving(id) == {r \in Routers : serving[r] # NOTHING /\ serving[r].id = id}
  <2> SUFFICES ASSUME Unique, NEW id \in Ids, NEW x \in Sent(id) \cup Answered(id) \cup Serving(id),
                      NEW y \in Sent(id) \cup Answered(id) \cup Serving(id)
               PROVE  x = y
    BY DEF IInv, AtMostOnce
  <2>1. CASE x \in Sent(id)
    BY <2>1 DEF Unique, UniqueRequests, UniqueServing, UniqueReplies
  <2>2. CASE x \in Answered(id)
    BY <2>2 DEF Unique, UniqueRequests, UniqueServing, UniqueReplies
  <2>3. CASE x \in Serving(id)
    BY <2>3 DEF Unique, UniqueRequests, UniqueServing, UniqueReplies
  <2> QED BY <2>1, <2>2, <2>3
<1> QED BY <1>1, IInvHolds, PTL

\* A slot that is not empty is only emptied, and by a request to delete it.
DeletedOnly ==
    \A s \in Slots : store[s] # EMPTY /\ store'[s] # store[s] =>
        /\ store'[s] = EMPTY
        /\ \E q \in requests \ requests' : q.op = "del" /\ q.slot = s

\* Only deletions and pushes write the store, and a push an empty slot.
LEMMA DeletedOnlyStep == TypeOK /\ [Next]_vars => DeletedOnly
<1> SUFFICES ASSUME TypeOK, [Next]_vars PROVE DeletedOnly
  OBVIOUS
<1>1. ASSUME NEW c \in Clients, Push(c) PROVE DeletedOnly
  BY <1>1, Invocation DEF DeletedOnly
<1>2. ASSUME NEW c \in Clients, Ask(c) PROVE DeletedOnly
  BY <1>2, Invocation DEF DeletedOnly
<1>3. ASSUME NEW c \in Clients, Receive(c) PROVE DeletedOnly
  BY <1>3 DEF Receive, Close, clientVars, routerVars, TypeOK, DeletedOnly
<1>4. ASSUME NEW c \in Clients, GiveUp(c) PROVE DeletedOnly
  BY <1>4 DEF GiveUp, Close, clientVars, routerVars, DeletedOnly
<1>5. CASE LoseRequest
  BY <1>5 DEF LoseRequest, clientVars, routerVars, DeletedOnly
<1>6. CASE LoseReply
  BY <1>6 DEF LoseReply, clientVars, routerVars, DeletedOnly
<1>7. ASSUME NEW r \in Routers, NEW q \in requests, ServeDel(r, q) PROVE DeletedOnly
  <2>1. /\ q.op = "del" /\ requests' = requests \ {q}
        /\ store' = [store EXCEPT ![q.slot] = EMPTY]
    BY <1>7 DEF ServeDel, Take, Write
  <2> QED BY <2>1 DEF TypeOK, DeletedOnly
<1>8. ASSUME NEW r \in Routers, NEW q \in requests, ServePush(r, q) PROVE DeletedOnly
  BY <1>8 DEF ServePush, Take, Write, Reply, clientVars, routerVars, TypeOK,
       DeletedOnly
<1>9. ASSUME NEW r \in Routers, NEW q \in requests, ServePushNoMemory(r, q) PROVE DeletedOnly
  BY <1>9 DEF ServePushNoMemory, Take, clientVars, routerVars, DeletedOnly
<1>10. ASSUME NEW r \in Routers, NEW q \in requests, ServePullMissing(r, q) PROVE DeletedOnly
  BY <1>10 DEF ServePullMissing, Take, Reply, clientVars, routerVars, DeletedOnly
<1>11. ASSUME NEW r \in Routers, NEW q \in requests, ServePullFound(r, q) PROVE DeletedOnly
  BY <1>11 DEF ServePullFound, Take, clientVars, routerVars, DeletedOnly
<1>12. ASSUME NEW r \in Routers, NEW q \in requests, ServeSlots(r, q) PROVE DeletedOnly
  BY <1>12 DEF ServeSlots, Take, Reply, UsedSlots, clientVars, routerVars, DeletedOnly
<1>13. ASSUME NEW r \in Routers, NEW q \in requests, ServeRun(r, q) PROVE DeletedOnly
  BY <1>13 DEF ServeRun, Take, Reply, clientVars, routerVars, DeletedOnly
<1>14. ASSUME NEW r \in Routers, PackPull(r) PROVE DeletedOnly
  BY <1>14 DEF PackPull, Reply, clientVars, routerVars, DeletedOnly
<1>15. CASE UNCHANGED vars
  BY <1>15 DEF vars, DeletedOnly
<1> QED BY <1>1, <1>2, <1>3, <1>4, <1>5, <1>6, <1>7, <1>8, <1>9, <1>10, <1>11,
     <1>12, <1>13, <1>14, <1>15 DEF Next, Serve

\* Nobody's procedure is replaced or lost without a request to delete it.
THEOREM DeletesOnly == Spec => OnlyDeleteRemoves
<1>1. IInv /\ [Next]_vars => [DeletedOnly]_vars
  BY DeletedOnlyStep DEF IInv
<1>2. Spec => [][DeletedOnly]_vars
  BY <1>1, IInvHolds, PTL DEF Spec
<1> QED BY <1>2 DEF OnlyDeleteRemoves, DeletedOnly

\* What the answer to the push of a procedure that fits says.
PushTold ==
    \A q \in requests \ requests', p \in replies' \ replies :
        q.op = "push" /\ q.proc \notin Oversized /\ p.id = q.id =>
            IF p.status = "ok" THEN store[q.slot] = EMPTY /\ store'[q.slot] = q.proc
            ELSE store[q.slot] # EMPTY /\ store' = store

\* Only the handler of a push answers it.
LEMMA PushToldStep == TypeOK /\ Honest /\ [Next]_vars => PushTold
<1> SUFFICES ASSUME TypeOK, Honest, [Next]_vars PROVE PushTold
  OBVIOUS
<1>1. ASSUME NEW c \in Clients, Push(c) PROVE PushTold
  BY <1>1, Invocation DEF PushTold
<1>2. ASSUME NEW c \in Clients, Ask(c) PROVE PushTold
  BY <1>2, Invocation DEF PushTold
<1>3. ASSUME NEW c \in Clients, Receive(c) PROVE PushTold
  BY <1>3 DEF Receive, Close, clientVars, routerVars, PushTold
<1>4. ASSUME NEW c \in Clients, GiveUp(c) PROVE PushTold
  BY <1>4 DEF GiveUp, Close, clientVars, routerVars, PushTold
<1>5. CASE LoseRequest
  BY <1>5 DEF LoseRequest, clientVars, routerVars, PushTold
<1>6. CASE LoseReply
  BY <1>6 DEF LoseReply, clientVars, routerVars, PushTold
<1>7. ASSUME NEW r \in Routers, NEW q \in requests, ServeDel(r, q) PROVE PushTold
  BY <1>7 DEF ServeDel, Take, PushTold
<1>8. ASSUME NEW r \in Routers, NEW q \in requests, ServePush(r, q) PROVE PushTold
  <2> SUFFICES ASSUME q.op = "push", q.proc \notin Oversized, NEW p \in replies' \ replies
               PROVE  IF p.status = "ok" THEN store[q.slot] = EMPTY /\ store'[q.slot] = q.proc
                      ELSE store[q.slot] # EMPTY /\ store' = store
    BY <1>8 DEF ServePush, Take, PushTold
  <2>1. q.content = q.proc /\ q.proc # MALFORMED /\ q.slot \in Slots
    BY ServiceAssumption DEF ServiceAssumption, Honest, TypeOK, Requests
  <2>2. CASE store[q.slot] = EMPTY
    <3>1. store' = [store EXCEPT ![q.slot] = q.content] /\ Reply(q, "ok", NOTHING)
      BY <1>8, <2>1, <2>2 DEF ServePush, Write
    <3>2. p = [id |-> q.id, status |-> "ok", data |-> NOTHING]
      BY <3>1 DEF Reply
    <3> QED BY <2>1, <2>2, <3>1, <3>2 DEF TypeOK
  <2>3. CASE store[q.slot] # EMPTY
    <3>1. store' = store /\ Reply(q, "error", NOTHING)
      BY <1>8, <2>3 DEF ServePush
    <3>2. p = [id |-> q.id, status |-> "error", data |-> NOTHING]
      BY <3>1 DEF Reply
    <3> QED BY <2>3, <3>1, <3>2
  <2> QED BY <2>2, <2>3
<1>9. ASSUME NEW r \in Routers, NEW q \in requests, ServePushNoMemory(r, q) PROVE PushTold
  BY <1>9 DEF ServePushNoMemory, Take, clientVars, routerVars, PushTold
<1>10. ASSUME NEW r \in Routers, NEW q \in requests, ServePullMissing(r, q) PROVE PushTold
  BY <1>10 DEF ServePullMissing, Take, PushTold
<1>11. ASSUME NEW r \in Routers, NEW q \in requests, ServePullFound(r, q) PROVE PushTold
  BY <1>11 DEF ServePullFound, Take, clientVars, routerVars, PushTold
<1>12. ASSUME NEW r \in Routers, NEW q \in requests, ServeSlots(r, q) PROVE PushTold
  BY <1>12 DEF ServeSlots, Take, PushTold
<1>13. ASSUME NEW r \in Routers, NEW q \in requests, ServeRun(r, q) PROVE PushTold
  BY <1>13 DEF ServeRun, Take, PushTold
<1>14. ASSUME NEW r \in Routers, PackPull(r) PROVE PushTold
  BY <1>14 DEF PackPull, Reply, clientVars, routerVars, PushTold
<1>15. CASE UNCHANGED vars
  BY <1>15 DEF vars, PushTold
<1> QED BY <1>1, <1>2, <1>3, <1>4, <1>5, <1>6, <1>7, <1>8, <1>9, <1>10, <1>11,
     <1>12, <1>13, <1>14, <1>15 DEF Next, Serve

\* The answer to a push is true, whichever router gave it and whatever the others
\* do, for every procedure that fits into a packet.
THEOREM PushesToldTruly == Spec => FittingPushStored
<1>1. IInv /\ [Next]_vars => [PushTold]_vars
  BY PushToldStep DEF IInv
<1>2. Spec => [][PushTold]_vars
  BY <1>1, IInvHolds, PTL DEF Spec
<1> QED BY <1>2 DEF FittingPushStored, PushTold

-----------------------------------------------------------------------------
(***************************************************************************)
(* Refinement: with one router and procedures that fit into a packet,      *)
(* ProcService implements SlotStore, for any numbers of clients, calls and *)
(* slots.                                                                  *)
(***************************************************************************)

\* What the refinement is stated under.
OneRouter == (\E r0 : Routers = {r0}) /\ Oversized = {}

\* Nobody writes the slot that is being pulled, and nothing torn is answered.
Quiet ==
    /\ disturbed = {}
    /\ \A r \in Routers : serving[r] # NOTHING =>
            /\ serving[r].op = "pull"
            /\ found[r] = store[serving[r].slot]
            /\ found[r] # EMPTY
    /\ \A p \in replies : p.data # TORN

Pending == {Meaning(q) : q \in requests \cup Served}

\* A request that leaves the network, or the router, is no longer pending.
LEMMA MeaningRemoved ==
  ASSUME NEW S, NEW q \in S, \A x \in S : x.id = q.id => x = q
  PROVE  {Meaning(x) : x \in S \ {q}} = {Meaning(x) : x \in S} \ {Meaning(q)}
<1>1. \A x : Meaning(x).id = x.id
  BY DEF Meaning
<1>2. \A x \in S : Meaning(x) = Meaning(q) => x = q
  BY <1>1
<1> QED BY <1>2

\* A router that takes a request serves no other one; it is the only router.
LEMMA TakeRemoves ==
  ASSUME IInv, OneRouter, NEW r \in Routers, NEW q \in requests, serving[r] = NOTHING,
         requests' = requests \ {q}, serving' = serving
  PROVE  Pending' = Pending \ {Meaning(q)} /\ Meaning(q) \in Pending
<1>1. Served = {} /\ Served' = {}
  BY DEF OneRouter, Served
<1>2. \A x \in requests : x.id = q.id => x = q
  BY DEF IInv, Unique, UniqueRequests
<1>3. Pending = {Meaning(x) : x \in requests}
  BY <1>1 DEF Pending
<1>4. Pending' = {Meaning(x) : x \in requests \ {q}}
  BY <1>1 DEF Pending
<1> QED BY <1>2, <1>3, <1>4, MeaningRemoved

\* The abstract request has what the packet has.
LEMMA MeaningKeeps ==
  ASSUME NEW q
  PROVE  /\ Meaning(q).id = q.id /\ Meaning(q).op = q.op
         /\ Meaning(q).slot = q.slot /\ Meaning(q).proc = q.proc
  BY DEF Meaning

\* Initially nothing is pulled, and no step disturbs the only router.
LEMMA QuietInit == Init => Quiet
  BY DEF Init, Quiet

LEMMA QuietStep == OneRouter /\ TypeOK /\ Quiet /\ [Next]_vars => Quiet'
<1> SUFFICES ASSUME OneRouter, TypeOK, Quiet, [Next]_vars PROVE Quiet'
  OBVIOUS
<1> USE ServiceAssumption, DistinctAssumption DEF ServiceAssumption
<1>1. ASSUME NEW c \in Clients, Push(c) \/ Ask(c) PROVE Quiet'
  BY <1>1, Invocation DEF Quiet
<1>2. ASSUME NEW c \in Clients, Receive(c) \/ GiveUp(c) PROVE Quiet'
  BY <1>2 DEF Receive, GiveUp, Close, routerVars, Quiet
<1>3. CASE LoseRequest \/ LoseReply
  BY <1>3 DEF LoseRequest, LoseReply, routerVars, Quiet
<1>4. ASSUME NEW r \in Routers, NEW q \in requests, Serve(r, q) PROVE Quiet'
  <2>1. serving[r] = NOTHING /\ Routers = {r}
    BY <1>4 DEF Serve, ServeDel, ServePush, ServePushNoMemory, ServePullMissing, ServePullFound,
         ServeSlots, ServeRun, Take, OneRouter
  <2>2. CASE ServeDel(r, q)
    BY <2>1, <2>2 DEF ServeDel, Write, Reply, Quiet
  <2>3. CASE ServePush(r, q)
    BY <2>1, <2>3 DEF ServePush, Write, Reply, routerVars, Quiet
  <2>4. CASE ServePushNoMemory(r, q)
    BY <2>4 DEF ServePushNoMemory, routerVars, Quiet
  <2>5. CASE ServePullMissing(r, q)
    BY <2>5 DEF ServePullMissing, Reply, routerVars, Quiet
  <2>6. CASE ServePullFound(r, q)
    <3>1. /\ q.op = "pull" /\ store[q.slot] # EMPTY
          /\ serving' = [serving EXCEPT ![r] = q]
          /\ found' = [found EXCEPT ![r] = store[q.slot]]
          /\ UNCHANGED <<store, replies, disturbed>>
      BY <2>6 DEF ServePullFound, Take
    <3> QED BY <2>1, <3>1 DEF Quiet, TypeOK
  <2>7. CASE ServeSlots(r, q)
    <3>1. UsedSlots # TORN
      BY DEF UsedSlots
    <3> QED BY <2>7, <3>1 DEF ServeSlots, Reply, routerVars, Quiet
  <2>8. CASE ServeRun(r, q)
    BY <2>8 DEF ServeRun, Reply, routerVars, Quiet
  <2> QED BY <1>4, <2>2, <2>3, <2>4, <2>5, <2>6, <2>7, <2>8 DEF Serve
<1>5. ASSUME NEW r \in Routers, PackPull(r) PROVE Quiet'
  <2>1. /\ serving[r] # NOTHING /\ Routers = {r} /\ disturbed = {}
        /\ Reply(serving[r], "ok", found[r])
        /\ serving' = [serving EXCEPT ![r] = NOTHING]
        /\ disturbed' = {}
    BY <1>5 DEF PackPull, OneRouter, Quiet
  <2>2. found[r] # TORN
    BY <2>1 DEF Quiet, TypeOK, Requests
  <2>3. serving'[r] = NOTHING
    BY <2>1 DEF TypeOK
  <2> QED BY <2>1, <2>2, <2>3 DEF Reply, Quiet
<1>6. CASE UNCHANGED vars
  BY <1>6 DEF vars, Quiet
<1> QED BY <1>1, <1>2, <1>3, <1>4, <1>5, <1>6 DEF Next

\* The abstract step of a request that takes effect.
LEMMA Takes ==
  ASSUME NEW q, Meaning(q) \in Pending, Pending' = Pending \ {Meaning(q)},
         UNCHANGED <<calls, waiting, result>>,
         \/ Abstract!Push(Meaning(q)) \/ Abstract!Delete(Meaning(q)) \/ Abstract!Pull(Meaning(q))
         \/ Abstract!List(Meaning(q)) \/ Abstract!Run(Meaning(q))
  PROVE  Abstract!Next
<1>1. Abstract!Apply(Meaning(q))
  BY DEF Abstract!Apply, Pending
<1> QED BY <1>1 DEF Abstract!Next, Pending

\* The abstract step of a request, or of a packet, that is lost.
LEMMA Forgets ==
  ASSUME NEW q, Meaning(q) \in Pending, Pending' = Pending \ {Meaning(q)},
         UNCHANGED <<store, calls, waiting, result, replies>>
  PROVE  Abstract!Next
<1>1. Abstract!ForgetRequest(Meaning(q))
  BY DEF Abstract!ForgetRequest, Pending
<1> QED BY <1>1 DEF Abstract!Next, Pending

\* A call of a client is an abstract call.
LEMMA CallSimulated ==
  ASSUME TypeOK, NEW c \in Clients, Push(c) \/ Ask(c)
  PROVE  Abstract!Next
<1>1. PICK q \in Requests : requests' = requests \cup {q} /\ q.id = <<c, calls[c] + 1>>
  BY Invocation
<1>2. /\ calls[c] < MaxCalls
      /\ calls' = [calls EXCEPT ![c] = calls[c] + 1]
      /\ waiting' = [waiting EXCEPT ![c] = TRUE]
      /\ UNCHANGED <<store, result, replies, serving>>
  BY Invocation
<1>3. ~waiting[c]
  BY DEF Push, Ask, Open
<1>4. Pending' = Pending \cup {Meaning(q)}
  BY <1>1, <1>2 DEF Pending, Served
<1>5. q.op \in Abstract!Ops /\ q.slot \in Slots /\ q.proc \in Procs
  BY DEF Requests, Ops, Abstract!Ops
<1>6. Meaning(q) = [id |-> <<c, calls[c] + 1>>, op |-> q.op, slot |-> q.slot, proc |-> q.proc]
  BY <1>1 DEF Meaning
<1>7. Abstract!Open(c)
  BY <1>2, <1>3 DEF Abstract!Open
<1>8. \E op \in Abstract!Ops, s \in Slots, p \in Procs :
        Pending' = Pending \cup {[id |-> <<c, calls[c] + 1>>, op |-> op, slot |-> s, proc |-> p]}
  BY <1>4, <1>5, <1>6
<1>9. Abstract!Invoke(c)
  BY <1>2, <1>7, <1>8 DEF Abstract!Invoke, Pending
<1> QED BY <1>9 DEF Abstract!Next

\* The end of a transaction is the end of the abstract call.
LEMMA EndSimulated ==
  ASSUME Quiet, NEW c \in Clients, Receive(c) \/ GiveUp(c)
  PROVE  Abstract!Next
<1>1. Pending' = Pending
  BY DEF Receive, GiveUp, Close, routerVars, Pending, Served
<1>2. CASE Receive(c)
  <2>1. PICK p \in replies :
            /\ p.id = <<c, calls[c]>>
            /\ Close(c, [status |-> p.status, data |-> p.data])
            /\ replies' = replies \ {p}
    BY <1>2 DEF Receive, Quiet
  <2>2. Abstract!Receive(c)
    BY <1>1, <2>1 DEF Abstract!Receive, Abstract!Close, Abstract!Id, Close, Pending
  <2> QED BY <2>2 DEF Abstract!Next
<1>3. CASE GiveUp(c)
  <2>1. Abstract!GiveUp(c)
    BY <1>1, <1>3 DEF GiveUp, Close, Failed, Abstract!GiveUp, Abstract!Close, Abstract!Failed, Pending
  <2> QED BY <2>1 DEF Abstract!Next
<1> QED BY <1>2, <1>3

\* What the network loses is forgotten.
LEMMA LossSimulated ==
  ASSUME IInv, LoseRequest \/ LoseReply
  PROVE  Abstract!Next
<1>1. CASE LoseRequest
  <2>1. PICK q \in requests : requests' = requests \ {q}
    BY <1>1 DEF LoseRequest
  <2>2. UNCHANGED <<store, calls, waiting, result, replies, serving>>
    BY <1>1 DEF LoseRequest, clientVars, routerVars
  <2>3. \A x \in requests \cup Served : x.id = q.id => x = q
    BY DEF IInv, Unique, UniqueRequests, UniqueServing, Served
  <2>4. q \notin Served
    BY DEF IInv, Unique, UniqueServing, Served
  <2>5. Pending' = {Meaning(x) : x \in (requests \cup Served) \ {q}}
    BY <2>1, <2>2, <2>4 DEF Pending, Served
  <2>6. Pending' = Pending \ {Meaning(q)}
    BY <2>3, <2>5, MeaningRemoved DEF Pending
  <2>7. Meaning(q) \in Pending
    BY DEF Pending
  <2> QED BY <2>2, <2>6, <2>7, Forgets
<1>2. CASE LoseReply
  <2>1. PICK p \in replies : replies' = replies \ {p}
    BY <1>2 DEF LoseReply
  <2>2. UNCHANGED <<store, calls, waiting, result>> /\ Pending' = Pending
    BY <1>2 DEF LoseReply, clientVars, routerVars, Pending, Served
  <2>3. Abstract!ForgetAnswer(p)
    BY <2>1, <2>2 DEF Abstract!ForgetAnswer, Pending
  <2> QED BY <2>3 DEF Abstract!Next
<1> QED BY <1>1, <1>2

\* A handler takes effect at one instant; a pull that found a procedure does when
\* the procedure is packed.
LEMMA ServeSimulated ==
  ASSUME IInv, Quiet, OneRouter, NEW r \in Routers, NEW q \in requests, Serve(r, q)
  PROVE  Abstract!Next \/ UNCHANGED Abstract!vars
<1>1. serving[r] = NOTHING /\ requests' = requests \ {q} /\ UNCHANGED <<calls, waiting, result>>
  BY DEF Serve, ServeDel, ServePush, ServePushNoMemory, ServePullMissing, ServePullFound,
         ServeSlots, ServeRun, Take, clientVars
<1>2. ASSUME serving' = serving
      PROVE  Pending' = Pending \ {Meaning(q)} /\ Meaning(q) \in Pending
  BY <1>1, <1>2, TakeRemoves
<1>3. CASE ServeDel(r, q)
  <2>1. /\ q.op = "del" /\ serving' = serving
        /\ store' = [store EXCEPT ![q.slot] = EMPTY]
        /\ Reply(q, "ok", NOTHING)
    BY <1>3 DEF ServeDel, Take, Write
  <2>2. Abstract!Delete(Meaning(q))
    BY <2>1, MeaningKeeps DEF Reply, Abstract!Delete, Abstract!Answer
  <2> QED BY <1>1, <1>2, <2>1, <2>2, Takes
<1>4. CASE ServePush(r, q)
  <2>1. q.op = "push" /\ serving' = serving
    BY <1>4 DEF ServePush, Take, Write, routerVars
  <2>2. q.content = q.proc /\ q.proc # MALFORMED
    BY <2>1, ServiceAssumption DEF ServiceAssumption, OneRouter, IInv, Honest, TypeOK, Requests
  <2>3. IF store[q.slot] = EMPTY
        THEN store' = [store EXCEPT ![q.slot] = q.proc] /\ Reply(q, "ok", NOTHING)
        ELSE Reply(q, "error", NOTHING) /\ UNCHANGED store
    BY <1>4, <2>2 DEF ServePush, Write
  <2>4. Abstract!Push(Meaning(q))
    BY <2>1, <2>3, MeaningKeeps DEF Reply, Abstract!Push, Abstract!Answer
  <2> QED BY <1>1, <1>2, <2>1, <2>4, Takes
<1>5. CASE ServePushNoMemory(r, q)
  BY <1>1, <1>2, <1>5, Forgets DEF ServePushNoMemory, clientVars, routerVars
<1>6. CASE ServePullMissing(r, q)
  <2>1. /\ q.op = "pull" /\ store[q.slot] = EMPTY /\ serving' = serving /\ store' = store
        /\ Reply(q, "error", NOTHING)
    BY <1>6 DEF ServePullMissing, Take, routerVars
  <2>2. Abstract!Pull(Meaning(q))
    BY <2>1, MeaningKeeps DEF Reply, Abstract!Pull, Abstract!Answer
  <2> QED BY <1>1, <1>2, <2>1, <2>2, Takes
<1>7. CASE ServePullFound(r, q)
  <2>1. /\ serving' = [serving EXCEPT ![r] = q]
        /\ UNCHANGED <<store, replies>>
    BY <1>7 DEF ServePullFound
  <2>2. Served = {} /\ Served' = {q}
    BY <1>1, <2>1, DistinctAssumption DEF Served, OneRouter, IInv, TypeOK
  <2>3. Pending' = Pending
    BY <1>1, <2>2 DEF Pending
  <2> QED BY <1>1, <2>1, <2>3 DEF Abstract!vars, Pending
<1>8. CASE ServeSlots(r, q)
  <2>1. /\ q.op = "slots" /\ serving' = serving /\ store' = store
        /\ Reply(q, "ok", UsedSlots)
    BY <1>8 DEF ServeSlots, Take, routerVars
  <2>2. Abstract!List(Meaning(q))
    BY <2>1, MeaningKeeps DEF Reply, UsedSlots, Abstract!List, Abstract!Answer
  <2> QED BY <1>1, <1>2, <2>1, <2>2, Takes
<1>9. CASE ServeRun(r, q)
  <2>1. /\ q.op = "run" /\ serving' = serving /\ store' = store
        /\ \/ store[q.slot] # EMPTY /\ Reply(q, "ok", NOTHING)
           \/ Reply(q, "error", NOTHING)
    BY <1>9 DEF ServeRun, Take, routerVars
  <2>2. Abstract!Run(Meaning(q))
    BY <2>1, MeaningKeeps DEF Reply, Abstract!Run, Abstract!Answer
  <2> QED BY <1>1, <1>2, <2>1, <2>2, Takes
<1> QED BY <1>3, <1>4, <1>5, <1>6, <1>7, <1>8, <1>9 DEF Serve

\* The pull takes effect: nobody has written the slot since the procedure was found.
LEMMA PackSimulated ==
  ASSUME IInv, Quiet, OneRouter, NEW r \in Routers, PackPull(r)
  PROVE  Abstract!Next
<1> DEFINE q == serving[r]
<1>1. /\ q # NOTHING /\ q.op = "pull" /\ found[r] = store[q.slot] /\ store[q.slot] # EMPTY
      /\ Reply(q, "ok", store[q.slot])
      /\ serving' = [serving EXCEPT ![r] = NOTHING]
      /\ UNCHANGED <<store, calls, waiting, result, requests>>
  BY DEF PackPull, Quiet, clientVars
<1>2. Served = {q} /\ Served' = {}
  BY <1>1 DEF Served, OneRouter, IInv, TypeOK
<1>3. \A x \in requests \cup {q} : x.id = q.id => x = q
  BY <1>1 DEF IInv, Unique, UniqueServing
<1>4. q \notin requests
  BY <1>1 DEF IInv, Unique, UniqueServing
<1>5. Pending' = {Meaning(x) : x \in (requests \cup {q}) \ {q}}
  BY <1>1, <1>2, <1>4 DEF Pending
<1>6. Pending' = Pending \ {Meaning(q)} /\ Meaning(q) \in Pending
  BY <1>2, <1>3, <1>5, MeaningRemoved DEF Pending
<1>7. Abstract!Pull(Meaning(q))
  BY <1>1, MeaningKeeps DEF Reply, Abstract!Pull, Abstract!Answer
<1> HIDE DEF q
<1> QED BY <1>1, <1>6, <1>7, Takes

\* The first states correspond.
LEMMA InitSimulated == Init => Abstract!Init
<1> SUFFICES ASSUME Init PROVE Abstract!Init
  OBVIOUS
<1>1. Served = {}
  BY DEF Init, Served
<1>2. {Meaning(q) : q \in requests \cup Served} = {}
  BY <1>1 DEF Init
<1> QED BY <1>2 DEF Init, Failed, Abstract!Init, Abstract!Failed

\* Every step is an abstract step or a stutter.
LEMMA StepSimulated ==
  OneRouter /\ IInv /\ Quiet /\ [Next]_vars => [Abstract!Next]_(Abstract!vars)
<1> SUFFICES ASSUME OneRouter, IInv, Quiet, [Next]_vars
             PROVE  Abstract!Next \/ UNCHANGED Abstract!vars
  OBVIOUS
<1>1. ASSUME NEW c \in Clients, Push(c) \/ Ask(c) PROVE Abstract!Next
  BY <1>1, CallSimulated DEF IInv
<1>2. ASSUME NEW c \in Clients, Receive(c) \/ GiveUp(c) PROVE Abstract!Next
  BY <1>2, EndSimulated
<1>3. CASE LoseRequest \/ LoseReply
  BY <1>3, LossSimulated
<1>4. ASSUME NEW r \in Routers, NEW q \in requests, Serve(r, q)
      PROVE  Abstract!Next \/ UNCHANGED Abstract!vars
  BY <1>4, ServeSimulated
<1>5. ASSUME NEW r \in Routers, PackPull(r) PROVE Abstract!Next
  BY <1>5, PackSimulated
<1>6. CASE UNCHANGED vars
  BY <1>6 DEF vars, Abstract!vars, Served
<1> QED BY <1>1, <1>2, <1>3, <1>4, <1>5, <1>6 DEF Next

\* Every behaviour of clients, network and a server with one router is one that
\* the abstract store allows: whatever is lost, a request takes effect at most
\* once, at one instant, and its answer is true.
THEOREM ServiceImplementsStore == OneRouter => (Spec => ImplementsSlotStore)
<1> SUFFICES ASSUME OneRouter PROVE Spec => ImplementsSlotStore
  OBVIOUS
<1>1. Init => Quiet
  BY QuietInit
<1>2. IInv /\ Quiet /\ [Next]_vars => Quiet'
  BY QuietStep DEF IInv
<1>3. IInv /\ Quiet /\ [Next]_vars => [Abstract!Next]_(Abstract!vars)
  BY StepSimulated
<1>4. Init => Abstract!Init
  BY InitSimulated
<1>5. Spec => []IInv
  BY IInvHolds
<1> QED BY <1>1, <1>2, <1>3, <1>4, <1>5, PTL DEF Spec, ImplementsSlotStore, Abstract!Spec
=============================================================================
