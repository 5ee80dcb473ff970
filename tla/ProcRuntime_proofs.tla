------------------------- MODULE ProcRuntime_proofs -------------------------
(***************************************************************************)
(* Machine-checked proofs about ProcRuntime, for any number of threads,    *)
(* routers and stoppers and any limits.                                    *)
(***************************************************************************)
EXTENDS ProcRuntime, FiniteSetTheorems, TLAPS

-----------------------------------------------------------------------------
(* What removing an entry does to the array of running threads or tasks.    *)

\* Removing entry i moves the last entry into its place: exactly that thread
\* leaves, and the others stay distinct.
LEMMA SwapRemoveEntry ==
  ASSUME NEW Elements, NEW table \in Seq(Elements), NEW i \in 1 .. Len(table),
         \A j, k \in 1 .. Len(table) : table[j] = table[k] => j = k,
         NEW new, new = SwapRemove(table, i)
  PROVE  /\ new \in Seq(Elements)
         /\ Len(new) = Len(table) - 1
         /\ \A j, k \in 1 .. Len(new) : new[j] = new[k] => j = k
         /\ Entries(new) = Entries(table) \ {table[i]}
<1> DEFINE n == Len(table)
<1>1. n \in Nat \ {0} /\ n - 1 \in Nat
  OBVIOUS
<1>2. new = [j \in 1 .. n - 1 |-> IF j = i THEN table[n] ELSE table[j]]
  BY DEF SwapRemove
<1>3. \A j \in 1 .. n - 1 : new[j] \in Elements
  BY <1>1, <1>2
<1>4. new \in Seq(Elements) /\ Len(new) = n - 1
  BY <1>1, <1>2, <1>3
<1>5. \A j, k \in 1 .. n - 1 : new[j] = new[k] => j = k
  BY <1>1, <1>2
<1> DEFINE After == {new[j] : j \in 1 .. n - 1}
           Before == {table[j] : j \in 1 .. n}
<1>6. After = Before \ {table[i]}
  <2>1. ASSUME NEW j \in 1 .. n - 1
        PROVE  new[j] \in Before /\ new[j] # table[i]
    BY <1>1, <1>2
  <2>2. ASSUME NEW k \in 1 .. n, table[k] # table[i]
        PROVE  \E j \in 1 .. n - 1 : new[j] = table[k]
    <3>1. CASE k = n
      <4>1. i \in 1 .. n - 1 /\ new[i] = table[n]
        BY <1>1, <1>2, <2>2, <3>1
      <4> QED BY <3>1, <4>1
    <3>2. CASE k # n
      <4>1. k \in 1 .. n - 1 /\ new[k] = table[k]
        BY <1>1, <1>2, <2>2, <3>2
      <4> QED BY <4>1
    <3> QED BY <3>1, <3>2
  <2>3. After \subseteq Before \ {table[i]}
    <3> SUFFICES ASSUME NEW j \in 1 .. n - 1 PROVE new[j] \in Before \ {table[i]}
      OBVIOUS
    <3> QED BY <2>1
  <2>4. Before \ {table[i]} \subseteq After
    <3> SUFFICES ASSUME NEW k \in 1 .. n, table[k] # table[i] PROVE table[k] \in After
      OBVIOUS
    <3>1. PICK j \in 1 .. n - 1 : new[j] = table[k]
      BY <2>2
    <3> HIDE DEF n
    <3> QED BY <3>1
  <2> HIDE DEF After, Before
  <2> QED BY <2>3, <2>4
<1>7. Len(new) = n - 1
  BY <1>4
<1> QED BY <1>4, <1>5, <1>6, <1>7 DEF Entries

-----------------------------------------------------------------------------

USE DEF ThreadPlaces, RouterPlaces, StopPlaces, Replies

\* The types are those of the initial state.
LEMMA TypeInit == Init => TypeOK
<1> SUFFICES ASSUME Init PROVE TypeOK
  OBVIOUS
<1> USE DEF Init
<1>1. running_threads \in Seq(Threads)
  OBVIOUS
<1>2. /\ tpc \in [Threads -> ThreadPlaces]
      /\ held \in [Threads -> SUBSET {"proc", "analysis"}]
  OBVIOUS
<1>3. /\ rpc \in [Routers -> RouterPlaces]
      /\ rthread \in [Routers -> Threads \cup {NONE}]
      /\ reply \in [Routers -> Replies]
  OBVIOUS
<1>4. /\ spc \in [Stoppers -> StopPlaces]
      /\ sthread \in [Stoppers -> Threads \cup {NONE}]
      /\ sguard \in [Stoppers -> 0 .. LOOP_GUARD + 1]
  BY RuntimeAssumption DEF RuntimeAssumption
<1> QED BY <1>1, <1>2, <1>3, <1>4 DEF TypeOK

\* What the loop over the array does to a table without duplicates.
LEMMA RemoveThreadEffect ==
  ASSUME TypeOK, TableExact, NEW t \in Threads, RemoveThread(t)
  PROVE  /\ running_threads' \in Seq(Threads)
         /\ Len(running_threads') <= Len(running_threads)
         /\ \A i, j \in 1 .. Len(running_threads') : running_threads'[i] = running_threads'[j] => i = j
         /\ Registered' = Registered \ {t}
<1>1. CASE t \notin Registered
  BY <1>1 DEF TypeOK, TableExact, RemoveThread, Registered
<1>2. CASE t \in Registered
  <2>1. PICK i \in 1 .. Len(running_threads) :
            running_threads[i] = t /\ running_threads' = SwapRemove(running_threads, i)
    BY <1>2 DEF RemoveThread
  <2>2. running_threads \in Seq(Threads)
    BY DEF TypeOK
  <2>3. \A j, k \in 1 .. Len(running_threads) : running_threads[j] = running_threads[k] => j = k
    BY DEF TableExact
  <2>4. /\ running_threads' \in Seq(Threads)
        /\ Len(running_threads') = Len(running_threads) - 1
        /\ \A j, k \in 1 .. Len(running_threads') : running_threads'[j] = running_threads'[k] => j = k
        /\ Entries(running_threads') = Entries(running_threads) \ {running_threads[i]}
    BY <2>1, <2>2, <2>3, SwapRemoveEntry
  <2>5. Len(running_threads) \in Nat
    BY <2>2
  <2> QED BY <2>1, <2>4, <2>5 DEF Registered
<1> QED BY <1>1, <1>2
\* The loop over the array keeps a sequence of threads.
LEMMA RemoveThreadType ==
  ASSUME TypeOK, NEW t, RemoveThread(t)
  PROVE  running_threads' \in Seq(Threads)
<1>1. CASE t \notin Registered
  BY <1>1 DEF TypeOK, RemoveThread
<1>2. CASE t \in Registered
  <2>1. PICK i \in 1 .. Len(running_threads) : running_threads' = SwapRemove(running_threads, i)
    BY <1>2 DEF RemoveThread
  <2> DEFINE n == Len(running_threads)
  <2>2. running_threads \in Seq(Threads) /\ n \in Nat \ {0} /\ n - 1 \in Nat
    BY DEF TypeOK
  <2>3. running_threads' = [j \in 1 .. n - 1 |-> IF j = i THEN running_threads[n] ELSE running_threads[j]]
    BY <2>1 DEF SwapRemove
  <2> QED BY <2>2, <2>3
<1> QED BY <1>1, <1>2

\* A router about to register holds the thread it created: without this the
\* table might receive NONE, so TypeOK alone is not inductive.
RegistersThread == \A r \in Routers : rpc[r] = "register" => rthread[r] \in Threads
TypeInv == TypeOK /\ RegistersThread

\* A step keeps every variable in its type.
LEMMA TypeStep == TypeInv /\ [Next]_vars => TypeInv'
<1> SUFFICES ASSUME TypeInv, [Next]_vars PROVE TypeInv'
  OBVIOUS
<1> USE RuntimeAssumption DEF RuntimeAssumption
<1>1. ASSUME NEW r \in Routers, RunRefused(r) PROVE TypeInv'
  BY <1>1 DEF RunRefused, Reply, threadVars, routerVars, stopVars, TypeOK, TypeInv, RegistersThread
<1>2. ASSUME NEW r \in Routers, RunAdmitted(r) PROVE TypeInv'
  BY <1>2 DEF RunAdmitted, threadVars, routerVars, stopVars, TypeOK, TypeInv, RegistersThread
<1>3. ASSUME NEW r \in Routers, DetachProc(r) PROVE TypeInv'
  BY <1>3 DEF DetachProc, threadVars, routerVars, stopVars, TypeOK, TypeInv, RegistersThread
<1>4. ASSUME NEW r \in Routers, DetachFails(r) PROVE TypeInv'
  BY <1>4 DEF DetachFails, Reply, threadVars, routerVars, stopVars, TypeOK, TypeInv, RegistersThread
<1>5. ASSUME NEW r \in Routers, RunLock(r) PROVE TypeInv'
  BY <1>5 DEF RunLock, Lock, threadVars, routerVars, stopVars, TypeOK, TypeInv, RegistersThread
<1>6. ASSUME NEW r \in Routers, CreateThread(r) PROVE TypeInv'
  BY <1>6 DEF CreateThread, threadVars, routerVars, stopVars, TypeOK, TypeInv, RegistersThread
<1>7. ASSUME NEW r \in Routers, CreateFails(r) PROVE TypeInv'
  BY <1>7 DEF CreateFails, Reply, Unlock, threadVars, routerVars, stopVars, TypeOK, TypeInv, RegistersThread
<1>8. ASSUME NEW r \in Routers, Register(r) PROVE TypeInv'
  BY <1>8 DEF Register, Reply, Unlock, threadVars, routerVars, stopVars, TypeOK, TypeInv, RegistersThread
<1>9. ASSUME NEW t \in Threads, Analyze(t) PROVE TypeInv'
  BY <1>9 DEF Analyze, MoveThread, threadVars, routerVars, stopVars, TypeOK, TypeInv, RegistersThread
<1>10. ASSUME NEW t \in Threads, StartupFails(t) PROVE TypeInv'
  BY <1>10 DEF StartupFails, MoveThread, threadVars, routerVars, stopVars, TypeOK, TypeInv, RegistersThread
<1>11. ASSUME NEW t \in Threads, Exec(t) PROVE TypeInv'
  BY <1>11 DEF Exec, MoveThread, threadVars, routerVars, stopVars, TypeOK, TypeInv, RegistersThread
<1>12. ASSUME NEW t \in Threads, CleanupLock(t) PROVE TypeInv'
  BY <1>12 DEF CleanupLock, MoveThread, Lock, threadVars, routerVars, stopVars, TypeOK, TypeInv, RegistersThread
<1>13. ASSUME NEW t \in Threads, Unregister(t) PROVE TypeInv'
  <2>1. running_threads' \in Seq(Threads)
    BY <1>13, RemoveThreadType DEF Unregister, TypeInv
  <2> QED BY <1>13, <2>1 DEF Unregister, MoveThread, Unlock, threadVars, routerVars, stopVars, TypeOK, TypeInv, RegistersThread
<1>14. ASSUME NEW t \in Threads, FreeResources(t) PROVE TypeInv'
  BY <1>14 DEF FreeResources, MoveThread, threadVars, routerVars, stopVars, TypeOK, TypeInv, RegistersThread
<1>15. ASSUME NEW t \in Threads, Cancelled(t) PROVE TypeInv'
  BY <1>15 DEF Cancelled, threadVars, routerVars, stopVars, TypeOK, TypeInv, RegistersThread
<1>16. ASSUME NEW s \in Stoppers, StopAll(s) PROVE TypeInv'
  BY <1>16 DEF StopAll, MoveStopper, threadVars, routerVars, stopVars, TypeOK, TypeInv, RegistersThread
<1>17. ASSUME NEW s \in Stoppers, StopCheck(s) PROVE TypeInv'
  <2>1. running_threads[1] \in Threads
    BY <1>17 DEF StopCheck, TypeInv, TypeOK
  <2> QED BY <1>17, <2>1 DEF StopCheck, MoveStopper, threadVars, routerVars, stopVars, TypeOK, TypeInv, RegistersThread
<1>18. ASSUME NEW s \in Stoppers, StopReturn(s) PROVE TypeInv'
  <2>1. sguard' \in [Stoppers -> 0 .. LOOP_GUARD + 1]
    <3>1. CASE UNCHANGED sguard
      BY <3>1 DEF TypeInv, TypeOK
    <3>2. CASE sguard[s] = LOOP_GUARD /\ sguard' = [sguard EXCEPT ![s] = @ + 1]
      <4>1. LOOP_GUARD \in Nat /\ LOOP_GUARD + 1 \in 0 .. LOOP_GUARD + 1
        OBVIOUS
      <4>2. sguard' = [sguard EXCEPT ![s] = LOOP_GUARD + 1]
        BY <3>2
      <4>3. sguard \in [Stoppers -> 0 .. LOOP_GUARD + 1]
        BY DEF TypeInv, TypeOK
      <4> QED BY <4>1, <4>2, <4>3
    <3> QED BY <1>18, <3>1, <3>2 DEF StopReturn
  <2>2. /\ spc' \in [Stoppers -> StopPlaces]
        /\ sthread' \in [Stoppers -> Threads \cup {NONE}]
    BY <1>18 DEF StopReturn, MoveStopper, TypeInv, TypeOK
  <2>3. UNCHANGED <<running_threads_mutex, running_threads, threadVars, routerVars, crashed>>
    BY <1>18 DEF StopReturn
  <2> QED BY <2>1, <2>2, <2>3 DEF threadVars, routerVars, TypeOK, TypeInv, RegistersThread
<1>19. ASSUME NEW s \in Stoppers, StopPick(s) PROVE TypeInv'
  BY <1>19 DEF StopPick, MoveStopper, threadVars, routerVars, stopVars, TypeOK, TypeInv, RegistersThread
<1>20. ASSUME NEW s \in Stoppers, StopPickNull(s) PROVE TypeInv'
  BY <1>20 DEF StopPickNull, threadVars, routerVars, stopVars, TypeOK, TypeInv, RegistersThread
<1>21. ASSUME NEW s \in Stoppers, StopLock(s) PROVE TypeInv'
  BY <1>21 DEF StopLock, MoveStopper, Lock, threadVars, routerVars, stopVars, TypeOK, TypeInv, RegistersThread
<1>22. ASSUME NEW s \in Stoppers, StopCancel(s) PROVE TypeInv'
  BY <1>22 DEF StopCancel, MoveStopper, threadVars, routerVars, stopVars, TypeOK, TypeInv, RegistersThread
<1>23. ASSUME NEW s \in Stoppers, StopNotFound(s) PROVE TypeInv'
  BY <1>23 DEF StopNotFound, MoveStopper, Unlock, threadVars, routerVars, stopVars, TypeOK, TypeInv, RegistersThread
<1>24. ASSUME NEW s \in Stoppers, StopJoin(s) PROVE TypeInv'
  <2>1. running_threads' \in Seq(Threads)
    BY <1>24, RemoveThreadType DEF StopJoin, TypeInv
  <2> QED BY <1>24, <2>1 DEF StopJoin, MoveStopper, Unlock, threadVars, routerVars, stopVars, TypeOK, TypeInv, RegistersThread
<1>25. CASE UNCHANGED vars
  BY <1>25 DEF vars, threadVars, routerVars, stopVars, TypeOK, TypeInv, RegistersThread
<1> QED BY <1>1, <1>2, <1>3, <1>4, <1>5, <1>6, <1>7, <1>8, <1>9, <1>10, <1>11, <1>12, <1>13, <1>14, <1>15, <1>16, <1>17, <1>18, <1>19, <1>20, <1>21, <1>22, <1>23, <1>24, <1>25 DEF Next, RouterNext, ThreadNext, StopperNext

\* Every variable keeps its type for ever, in particular the table holds threads
\* and the loop guard stays below its bound.
THEOREM TypeCorrect == Spec => []TypeOK
<1>1. Init => TypeInv
  BY TypeInit DEF Init, TypeInv, RegistersThread
<1>2. TypeInv /\ [Next]_vars => TypeInv'
  BY TypeStep
<1>3. TypeInv => TypeOK
  BY DEF TypeInv
<1> QED BY <1>1, <1>2, <1>3, PTL DEF Spec

\* Mutual exclusion: the owner of the mutex and the places of the threads move
\* together.
LEMMA CriticalSectionsStep == TypeInv /\ CriticalSections /\ [Next]_vars => CriticalSections'
<1> SUFFICES ASSUME TypeInv, CriticalSections, [Next]_vars PROVE CriticalSections'
  OBVIOUS
<1> USE RuntimeAssumption DEF RuntimeAssumption
<1>1. ASSUME NEW r \in Routers, RunRefused(r) PROVE CriticalSections'
  BY <1>1 DEF RunRefused, Reply, threadVars, routerVars, stopVars, TypeInv,
       TypeOK, CriticalSections
<1>2. ASSUME NEW r \in Routers, RunAdmitted(r) PROVE CriticalSections'
  BY <1>2 DEF RunAdmitted, threadVars, routerVars, stopVars, TypeInv, TypeOK,
       CriticalSections
<1>3. ASSUME NEW r \in Routers, DetachProc(r) PROVE CriticalSections'
  BY <1>3 DEF DetachProc, threadVars, routerVars, stopVars, TypeInv, TypeOK,
       CriticalSections
<1>4. ASSUME NEW r \in Routers, DetachFails(r) PROVE CriticalSections'
  BY <1>4 DEF DetachFails, Reply, threadVars, routerVars, stopVars, TypeInv,
       TypeOK, CriticalSections
<1>5. ASSUME NEW r \in Routers, RunLock(r) PROVE CriticalSections'
  BY <1>5 DEF RunLock, Lock, threadVars, routerVars, stopVars, TypeInv,
       TypeOK, CriticalSections
<1>6. ASSUME NEW r \in Routers, CreateThread(r) PROVE CriticalSections'
  BY <1>6 DEF CreateThread, threadVars, routerVars, stopVars, TypeInv, TypeOK,
       CriticalSections
<1>7. ASSUME NEW r \in Routers, CreateFails(r) PROVE CriticalSections'
  BY <1>7 DEF CreateFails, Reply, Unlock, threadVars, routerVars, stopVars,
       TypeInv, TypeOK, CriticalSections
<1>8. ASSUME NEW r \in Routers, Register(r) PROVE CriticalSections'
  BY <1>8 DEF Register, Reply, Unlock, threadVars, routerVars, stopVars,
       TypeInv, TypeOK, CriticalSections
<1>9. ASSUME NEW t \in Threads, Analyze(t) PROVE CriticalSections'
  BY <1>9 DEF Analyze, MoveThread, threadVars, routerVars, stopVars, TypeInv,
       TypeOK, CriticalSections
<1>10. ASSUME NEW t \in Threads, StartupFails(t) PROVE CriticalSections'
  BY <1>10 DEF StartupFails, MoveThread, threadVars, routerVars, stopVars,
       TypeInv, TypeOK, CriticalSections
<1>11. ASSUME NEW t \in Threads, Exec(t) PROVE CriticalSections'
  BY <1>11 DEF Exec, MoveThread, threadVars, routerVars, stopVars, TypeInv,
       TypeOK, CriticalSections
<1>12. ASSUME NEW t \in Threads, CleanupLock(t) PROVE CriticalSections'
  BY <1>12 DEF CleanupLock, MoveThread, Lock, threadVars, routerVars,
       stopVars, TypeInv, TypeOK, CriticalSections
<1>13. ASSUME NEW t \in Threads, Unregister(t) PROVE CriticalSections'
  BY <1>13 DEF Unregister, MoveThread, Unlock, threadVars, routerVars,
       stopVars, TypeInv, TypeOK, CriticalSections
<1>14. ASSUME NEW t \in Threads, FreeResources(t) PROVE CriticalSections'
  BY <1>14 DEF FreeResources, MoveThread, threadVars, routerVars, stopVars,
       TypeInv, TypeOK, CriticalSections
<1>15. ASSUME NEW t \in Threads, Cancelled(t) PROVE CriticalSections'
  BY <1>15 DEF Cancelled, threadVars, routerVars, stopVars, TypeInv, TypeOK,
       CriticalSections
<1>16. ASSUME NEW s \in Stoppers, StopAll(s) PROVE CriticalSections'
  BY <1>16 DEF StopAll, MoveStopper, threadVars, routerVars, stopVars,
       TypeInv, TypeOK, CriticalSections
<1>17. ASSUME NEW s \in Stoppers, StopCheck(s) PROVE CriticalSections'
  BY <1>17 DEF StopCheck, MoveStopper, threadVars, routerVars, stopVars,
       TypeInv, TypeOK, CriticalSections
<1>18. ASSUME NEW s \in Stoppers, StopReturn(s) PROVE CriticalSections'
  BY <1>18 DEF StopReturn, MoveStopper, threadVars, routerVars, stopVars,
       TypeInv, TypeOK, CriticalSections
<1>19. ASSUME NEW s \in Stoppers, StopPick(s) PROVE CriticalSections'
  BY <1>19 DEF StopPick, MoveStopper, threadVars, routerVars, stopVars,
       TypeInv, TypeOK, CriticalSections
<1>20. ASSUME NEW s \in Stoppers, StopPickNull(s) PROVE CriticalSections'
  BY <1>20 DEF StopPickNull, threadVars, routerVars, stopVars, TypeInv,
       TypeOK, CriticalSections
<1>21. ASSUME NEW s \in Stoppers, StopLock(s) PROVE CriticalSections'
  BY <1>21 DEF StopLock, MoveStopper, Lock, threadVars, routerVars, stopVars,
       TypeInv, TypeOK, CriticalSections
<1>22. ASSUME NEW s \in Stoppers, StopCancel(s) PROVE CriticalSections'
  BY <1>22 DEF StopCancel, MoveStopper, threadVars, routerVars, stopVars,
       TypeInv, TypeOK, CriticalSections
<1>23. ASSUME NEW s \in Stoppers, StopNotFound(s) PROVE CriticalSections'
  BY <1>23 DEF StopNotFound, MoveStopper, Unlock, threadVars, routerVars,
       stopVars, TypeInv, TypeOK, CriticalSections
<1>24. ASSUME NEW s \in Stoppers, StopJoin(s) PROVE CriticalSections'
  BY <1>24 DEF StopJoin, MoveStopper, Unlock, threadVars, routerVars,
       stopVars, TypeInv, TypeOK, CriticalSections
<1>25. CASE UNCHANGED vars
  BY <1>25 DEF vars, threadVars, routerVars, stopVars, TypeInv, TypeOK, CriticalSections
<1> QED BY <1>1, <1>2, <1>3, <1>4, <1>5, <1>6, <1>7, <1>8, <1>9, <1>10, <1>11,
       <1>12, <1>13, <1>14, <1>15, <1>16, <1>17, <1>18, <1>19, <1>20, <1>21,
       <1>22, <1>23, <1>24, <1>25 DEF Next, RouterNext, ThreadNext,
       StopperNext

\* Threads that were created and have not cleaned up.
Live == {t \in Threads : tpc[t] \notin Unregistered}

\* A router about to register holds a live thread: that thread cannot clean up
\* before, because the router holds the mutex.
RegistersLive == \A r \in Routers : rpc[r] = "register" => rthread[r] \in Live

TableInv == TableExact /\ JoinsRegistered /\ RegistersLive

\* What a step has to leave alone for the table to stay exact.
LEMMA TableUndisturbed ==
  ASSUME TableInv, UNCHANGED running_threads, Live' = Live, BeingRegistered' = BeingRegistered
  PROVE  TableExact'
<1>1. Registered' = Registered
  BY DEF Registered, Entries
<1>2. Registered = Live \ BeingRegistered
  BY DEF TableInv, TableExact, Live
<1>3. Registered' = Live' \ BeingRegistered'
  BY <1>1, <1>2
<1> QED BY <1>3 DEF TableInv, TableExact, Live

\* The table lists exactly the live threads but the one being registered; the
\* thread a stopper joins stays in it.
LEMMA TableStep == TypeInv /\ CriticalSections /\ TableInv /\ [Next]_vars => TableInv'
<1> SUFFICES ASSUME TypeInv, CriticalSections, TableInv, [Next]_vars PROVE TableInv'
  OBVIOUS
<1> USE RuntimeAssumption DEF RuntimeAssumption
<1>1. ASSUME NEW r \in Routers, RunRefused(r) PROVE TableInv'
  <2>1. UNCHANGED running_threads /\ Live' = Live /\ BeingRegistered' = BeingRegistered
    BY <1>1 DEF RunRefused, Reply, threadVars, routerVars, stopVars, Live,
       Unregistered, BeingRegistered, TypeInv, TypeOK
  <2>2. JoinsRegistered' /\ RegistersLive'
    BY <1>1, <2>1 DEF RunRefused, Reply, threadVars, routerVars, stopVars,
       TableInv, JoinsRegistered, RegistersLive, Registered, Live,
       Unregistered, TypeInv, TypeOK
  <2> QED BY <2>1, <2>2, TableUndisturbed DEF TableInv
<1>2. ASSUME NEW r \in Routers, RunAdmitted(r) PROVE TableInv'
  <2>1. UNCHANGED running_threads /\ Live' = Live /\ BeingRegistered' = BeingRegistered
    BY <1>2 DEF RunAdmitted, threadVars, routerVars, stopVars, Live,
       Unregistered, BeingRegistered, TypeInv, TypeOK
  <2>2. JoinsRegistered' /\ RegistersLive'
    BY <1>2, <2>1 DEF RunAdmitted, threadVars, routerVars, stopVars, TableInv,
       JoinsRegistered, RegistersLive, Registered, Live, Unregistered,
       TypeInv, TypeOK
  <2> QED BY <2>1, <2>2, TableUndisturbed DEF TableInv
<1>3. ASSUME NEW r \in Routers, DetachProc(r) PROVE TableInv'
  <2>1. UNCHANGED running_threads /\ Live' = Live /\ BeingRegistered' = BeingRegistered
    BY <1>3 DEF DetachProc, threadVars, routerVars, stopVars, Live,
       Unregistered, BeingRegistered, TypeInv, TypeOK
  <2>2. JoinsRegistered' /\ RegistersLive'
    BY <1>3, <2>1 DEF DetachProc, threadVars, routerVars, stopVars, TableInv,
       JoinsRegistered, RegistersLive, Registered, Live, Unregistered,
       TypeInv, TypeOK
  <2> QED BY <2>1, <2>2, TableUndisturbed DEF TableInv
<1>4. ASSUME NEW r \in Routers, DetachFails(r) PROVE TableInv'
  <2>1. UNCHANGED running_threads /\ Live' = Live /\ BeingRegistered' = BeingRegistered
    BY <1>4 DEF DetachFails, Reply, threadVars, routerVars, stopVars, Live,
       Unregistered, BeingRegistered, TypeInv, TypeOK
  <2>2. JoinsRegistered' /\ RegistersLive'
    BY <1>4, <2>1 DEF DetachFails, Reply, threadVars, routerVars, stopVars,
       TableInv, JoinsRegistered, RegistersLive, Registered, Live,
       Unregistered, TypeInv, TypeOK
  <2> QED BY <2>1, <2>2, TableUndisturbed DEF TableInv
<1>5. ASSUME NEW r \in Routers, RunLock(r) PROVE TableInv'
  <2>1. UNCHANGED running_threads /\ Live' = Live /\ BeingRegistered' = BeingRegistered
    BY <1>5 DEF RunLock, Lock, threadVars, routerVars, stopVars, Live,
       Unregistered, BeingRegistered, TypeInv, TypeOK
  <2>2. JoinsRegistered' /\ RegistersLive'
    BY <1>5, <2>1 DEF RunLock, Lock, threadVars, routerVars, stopVars,
       TableInv, JoinsRegistered, RegistersLive, Registered, Live,
       Unregistered, TypeInv, TypeOK
  <2> QED BY <2>1, <2>2, TableUndisturbed DEF TableInv
<1>6. ASSUME NEW r \in Routers, CreateThread(r) PROVE TableInv'
  <2>1. PICK t \in Threads :
            /\ tpc[t] \in {"none", "joined"}
            /\ tpc' = [tpc EXCEPT ![t] = "analyze"]
            /\ rthread' = [rthread EXCEPT ![r] = t]
    BY <1>6 DEF CreateThread
  <2>2. /\ rpc' = [rpc EXCEPT ![r] = "register"]
        /\ UNCHANGED <<running_threads, stopVars>>
    BY <1>6 DEF CreateThread
  <2>3. Live' = Live \cup {t} /\ t \notin Live
    BY <2>1 DEF Live, Unregistered, TypeInv, TypeOK
  <2>4. running_threads_mutex = r
    BY <1>6 DEF CreateThread, CriticalSections
  <2>5. BeingRegistered = {}
    BY <2>4, <1>6 DEF CreateThread, BeingRegistered, CriticalSections
  <2>6. \A q \in Routers : rpc'[q] = "register" => q = r
    BY <2>2, <2>4 DEF CriticalSections, TypeInv, TypeOK
  <2>7. rthread'[r] = t /\ rpc'[r] = "register"
    BY <2>1, <2>2 DEF TypeInv, TypeOK
  <2>8. BeingRegistered' = {t}
    BY <2>6, <2>7 DEF BeingRegistered
  <2>9. Registered' = Registered /\ Registered = Live \ BeingRegistered
    BY <2>2 DEF Registered, Entries, TableInv, TableExact, Live
  <2>10. Registered' = Live' \ BeingRegistered'
    BY <2>3, <2>5, <2>8, <2>9
  <2>11. TableExact'
    BY <2>2, <2>10 DEF TableInv, TableExact, Live
  <2>12. JoinsRegistered' /\ RegistersLive'
    BY <2>2, <2>3, <2>6, <2>7, <2>9 DEF stopVars, TableInv, JoinsRegistered, RegistersLive
  <2> QED BY <2>11, <2>12 DEF TableInv
<1>7. ASSUME NEW r \in Routers, CreateFails(r) PROVE TableInv'
  <2>1. UNCHANGED running_threads /\ Live' = Live /\ BeingRegistered' = BeingRegistered
    BY <1>7 DEF CreateFails, Reply, Unlock, threadVars, routerVars, stopVars,
       Live, Unregistered, BeingRegistered, TypeInv, TypeOK
  <2>2. JoinsRegistered' /\ RegistersLive'
    BY <1>7, <2>1 DEF CreateFails, Reply, Unlock, threadVars, routerVars,
       stopVars, TableInv, JoinsRegistered, RegistersLive, Registered, Live,
       Unregistered, TypeInv, TypeOK
  <2> QED BY <2>1, <2>2, TableUndisturbed DEF TableInv
<1>8. ASSUME NEW r \in Routers, Register(r) PROVE TableInv'
  <2> DEFINE t == rthread[r]
             n == Len(running_threads)
  <2>1. t \in Threads /\ t \in Live /\ rpc[r] = "register"
    BY <1>8 DEF Register, TypeInv, RegistersThread, TableInv, RegistersLive
  <2>2. /\ running_threads' = Append(running_threads, t)
        /\ rpc' = [rpc EXCEPT ![r] = "idle"]
        /\ \A q \in Routers \ {r} : rthread'[q] = rthread[q]
        /\ UNCHANGED <<threadVars, stopVars>>
    BY <1>8 DEF Register, Reply, TypeInv, TypeOK
  <2>3. \A q \in Routers : rpc[q] = "register" => q = r
    BY <2>1 DEF CriticalSections
  <2>4. BeingRegistered = {t}
    BY <2>1, <2>3 DEF BeingRegistered
  <2>5. \A q \in Routers : rpc'[q] # "register"
    BY <2>2, <2>3 DEF TypeInv, TypeOK
  <2>6. BeingRegistered' = {}
    BY <2>5 DEF BeingRegistered
  <2>7. Live' = Live
    BY <2>2 DEF Live, threadVars
  <2>8. running_threads \in Seq(Threads) /\ n \in Nat
    BY DEF TypeInv, TypeOK
  <2>9. /\ Len(running_threads') = n + 1
        /\ running_threads'[n + 1] = t
        /\ \A i \in 1 .. n : running_threads'[i] = running_threads[i]
    BY <2>2, <2>8
  <2>10. Registered = Live \ {t} /\ \A i, j \in 1 .. n : running_threads[i] = running_threads[j] => i = j
    BY <2>4 DEF TableInv, TableExact, Live
  <2>11. \A i \in 1 .. n : running_threads[i] # t
    BY <2>10 DEF Registered, Entries
  <2>12. \A i, j \in 1 .. Len(running_threads') : running_threads'[i] = running_threads'[j] => i = j
    <3> SUFFICES ASSUME NEW i \in 1 .. n + 1, NEW j \in 1 .. n + 1, running_threads'[i] = running_threads'[j]
                 PROVE  i = j
      BY <2>9
    <3>1. CASE i = n + 1
      BY <2>8, <2>9, <2>11, <3>1
    <3>2. CASE i # n + 1
      BY <2>8, <2>9, <2>10, <2>11, <3>2
    <3> QED BY <3>1, <3>2
  <2>13. Registered' = Registered \cup {t}
    <3>1. Registered' = {running_threads'[i] : i \in 1 .. n + 1}
      BY <2>9 DEF Registered, Entries
    <3>2. Registered = {running_threads[i] : i \in 1 .. n}
      BY DEF Registered, Entries
    <3> HIDE DEF t
    <3>3. \A i \in 1 .. n + 1 : i = n + 1 \/ i \in 1 .. n
      BY <2>8
    <3>4. 1 .. n \subseteq 1 .. n + 1 /\ n + 1 \in 1 .. n + 1
      BY <2>8
    <3> HIDE DEF n
    <3> QED BY <2>9, <3>1, <3>2, <3>3, <3>4
  <2>14. Registered' = Live' \ BeingRegistered'
    BY <2>1, <2>6, <2>7, <2>10, <2>13
  <2>15. TableExact'
    BY <2>12, <2>14 DEF TableExact, Live
  <2>16. JoinsRegistered' /\ RegistersLive'
    BY <2>2, <2>5, <2>13 DEF stopVars, TableInv, JoinsRegistered, RegistersLive
  <2> QED BY <2>15, <2>16 DEF TableInv
<1>9. ASSUME NEW t \in Threads, Analyze(t) PROVE TableInv'
  <2>1. UNCHANGED running_threads /\ Live' = Live /\ BeingRegistered' = BeingRegistered
    BY <1>9 DEF Analyze, MoveThread, threadVars, routerVars, stopVars, Live,
       Unregistered, BeingRegistered, TypeInv, TypeOK
  <2>2. JoinsRegistered' /\ RegistersLive'
    BY <1>9, <2>1 DEF Analyze, MoveThread, threadVars, routerVars, stopVars,
       TableInv, JoinsRegistered, RegistersLive, Registered, Live,
       Unregistered, TypeInv, TypeOK
  <2> QED BY <2>1, <2>2, TableUndisturbed DEF TableInv
<1>10. ASSUME NEW t \in Threads, StartupFails(t) PROVE TableInv'
  <2>1. UNCHANGED running_threads /\ Live' = Live /\ BeingRegistered' = BeingRegistered
    BY <1>10 DEF StartupFails, MoveThread, threadVars, routerVars, stopVars,
       Live, Unregistered, BeingRegistered, TypeInv, TypeOK
  <2>2. JoinsRegistered' /\ RegistersLive'
    BY <1>10, <2>1 DEF StartupFails, MoveThread, threadVars, routerVars,
       stopVars, TableInv, JoinsRegistered, RegistersLive, Registered, Live,
       Unregistered, TypeInv, TypeOK
  <2> QED BY <2>1, <2>2, TableUndisturbed DEF TableInv
<1>11. ASSUME NEW t \in Threads, Exec(t) PROVE TableInv'
  <2>1. UNCHANGED running_threads /\ Live' = Live /\ BeingRegistered' = BeingRegistered
    BY <1>11 DEF Exec, MoveThread, threadVars, routerVars, stopVars, Live,
       Unregistered, BeingRegistered, TypeInv, TypeOK
  <2>2. JoinsRegistered' /\ RegistersLive'
    BY <1>11, <2>1 DEF Exec, MoveThread, threadVars, routerVars, stopVars,
       TableInv, JoinsRegistered, RegistersLive, Registered, Live,
       Unregistered, TypeInv, TypeOK
  <2> QED BY <2>1, <2>2, TableUndisturbed DEF TableInv
<1>12. ASSUME NEW t \in Threads, CleanupLock(t) PROVE TableInv'
  <2>1. UNCHANGED running_threads /\ Live' = Live /\ BeingRegistered' = BeingRegistered
    BY <1>12 DEF CleanupLock, MoveThread, Lock, threadVars, routerVars,
       stopVars, Live, Unregistered, BeingRegistered, TypeInv, TypeOK
  <2>2. JoinsRegistered' /\ RegistersLive'
    BY <1>12, <2>1 DEF CleanupLock, MoveThread, Lock, threadVars, routerVars,
       stopVars, TableInv, JoinsRegistered, RegistersLive, Registered, Live,
       Unregistered, TypeInv, TypeOK
  <2> QED BY <2>1, <2>2, TableUndisturbed DEF TableInv
<1>13. ASSUME NEW t \in Threads, Unregister(t) PROVE TableInv'
  <2>1. t \in Threads /\ RemoveThread(t) /\ UNCHANGED routerVars
    BY <1>13 DEF Unregister, TableInv, JoinsRegistered, TableExact, MoveStopper
  <2>2. /\ \A i, j \in 1 .. Len(running_threads') : running_threads'[i] = running_threads'[j] => i = j
        /\ Registered' = Registered \ {t}
    BY <2>1, RemoveThreadEffect DEF TypeInv, TableInv
  <2>3. Live' = Live \ {t}
    BY <1>13, <2>1 DEF Unregister, MoveThread, MoveStopper, Live, Unregistered, TypeInv, TypeOK
  <2>4. \A r \in Routers : rpc[r] # "register"
    BY <1>13 DEF Unregister, MoveThread, MoveStopper, CriticalSections
  <2>5. BeingRegistered = {} /\ BeingRegistered' = {}
    BY <2>1, <2>4 DEF BeingRegistered, routerVars
  <2>6. Registered' = Live' \ BeingRegistered'
    BY <2>2, <2>3, <2>5 DEF TableInv, TableExact, Live
  <2>7. TableExact'
    BY <2>2, <2>6 DEF TableExact, Live
  <2>8. \A q \in Stoppers : spc'[q] # "join"
    BY <1>13 DEF Unregister, MoveThread, MoveStopper, stopVars, CriticalSections, TypeInv, TypeOK
  <2>9. JoinsRegistered' /\ RegistersLive'
    BY <2>1, <2>4, <2>8 DEF routerVars, JoinsRegistered, RegistersLive
  <2> QED BY <2>7, <2>9 DEF TableInv
<1>14. ASSUME NEW t \in Threads, FreeResources(t) PROVE TableInv'
  <2>1. UNCHANGED running_threads /\ Live' = Live /\ BeingRegistered' = BeingRegistered
    BY <1>14 DEF FreeResources, MoveThread, threadVars, routerVars, stopVars,
       Live, Unregistered, BeingRegistered, TypeInv, TypeOK
  <2>2. JoinsRegistered' /\ RegistersLive'
    BY <1>14, <2>1 DEF FreeResources, MoveThread, threadVars, routerVars,
       stopVars, TableInv, JoinsRegistered, RegistersLive, Registered, Live,
       Unregistered, TypeInv, TypeOK
  <2> QED BY <2>1, <2>2, TableUndisturbed DEF TableInv
<1>15. ASSUME NEW t \in Threads, Cancelled(t) PROVE TableInv'
  <2>1. UNCHANGED running_threads /\ Live' = Live /\ BeingRegistered' = BeingRegistered
    BY <1>15 DEF Cancelled, threadVars, routerVars, stopVars, Live,
       Unregistered, BeingRegistered, TypeInv, TypeOK
  <2>2. JoinsRegistered' /\ RegistersLive'
    BY <1>15, <2>1 DEF Cancelled, threadVars, routerVars, stopVars, TableInv,
       JoinsRegistered, RegistersLive, Registered, Live, Unregistered,
       TypeInv, TypeOK
  <2> QED BY <2>1, <2>2, TableUndisturbed DEF TableInv
<1>16. ASSUME NEW s \in Stoppers, StopAll(s) PROVE TableInv'
  <2>1. UNCHANGED running_threads /\ Live' = Live /\ BeingRegistered' = BeingRegistered
    BY <1>16 DEF StopAll, MoveStopper, threadVars, routerVars, stopVars, Live,
       Unregistered, BeingRegistered, TypeInv, TypeOK
  <2>2. JoinsRegistered' /\ RegistersLive'
    BY <1>16, <2>1 DEF StopAll, MoveStopper, threadVars, routerVars, stopVars,
       TableInv, JoinsRegistered, RegistersLive, Registered, Live,
       Unregistered, TypeInv, TypeOK
  <2> QED BY <2>1, <2>2, TableUndisturbed DEF TableInv
<1>17. ASSUME NEW s \in Stoppers, StopCheck(s) PROVE TableInv'
  <2>1. UNCHANGED running_threads /\ Live' = Live /\ BeingRegistered' = BeingRegistered
    BY <1>17 DEF StopCheck, MoveStopper, threadVars, routerVars, stopVars,
       Live, Unregistered, BeingRegistered, TypeInv, TypeOK
  <2>2. JoinsRegistered' /\ RegistersLive'
    BY <1>17, <2>1 DEF StopCheck, MoveStopper, threadVars, routerVars,
       stopVars, TableInv, JoinsRegistered, RegistersLive, Registered, Live,
       Unregistered, TypeInv, TypeOK
  <2> QED BY <2>1, <2>2, TableUndisturbed DEF TableInv
<1>18. ASSUME NEW s \in Stoppers, StopReturn(s) PROVE TableInv'
  <2>1. UNCHANGED running_threads /\ Live' = Live /\ BeingRegistered' = BeingRegistered
    BY <1>18 DEF StopReturn, MoveStopper, threadVars, routerVars, stopVars,
       Live, Unregistered, BeingRegistered, TypeInv, TypeOK
  <2>2. JoinsRegistered' /\ RegistersLive'
    BY <1>18, <2>1 DEF StopReturn, MoveStopper, threadVars, routerVars,
       stopVars, TableInv, JoinsRegistered, RegistersLive, Registered, Live,
       Unregistered, TypeInv, TypeOK
  <2> QED BY <2>1, <2>2, TableUndisturbed DEF TableInv
<1>19. ASSUME NEW s \in Stoppers, StopPick(s) PROVE TableInv'
  <2>1. UNCHANGED running_threads /\ Live' = Live /\ BeingRegistered' = BeingRegistered
    BY <1>19 DEF StopPick, MoveStopper, threadVars, routerVars, stopVars,
       Live, Unregistered, BeingRegistered, TypeInv, TypeOK
  <2>2. JoinsRegistered' /\ RegistersLive'
    BY <1>19, <2>1 DEF StopPick, MoveStopper, threadVars, routerVars,
       stopVars, TableInv, JoinsRegistered, RegistersLive, Registered, Live,
       Unregistered, TypeInv, TypeOK
  <2> QED BY <2>1, <2>2, TableUndisturbed DEF TableInv
<1>20. ASSUME NEW s \in Stoppers, StopPickNull(s) PROVE TableInv'
  <2>1. UNCHANGED running_threads /\ Live' = Live /\ BeingRegistered' = BeingRegistered
    BY <1>20 DEF StopPickNull, threadVars, routerVars, stopVars, Live,
       Unregistered, BeingRegistered, TypeInv, TypeOK
  <2>2. JoinsRegistered' /\ RegistersLive'
    BY <1>20, <2>1 DEF StopPickNull, threadVars, routerVars, stopVars,
       TableInv, JoinsRegistered, RegistersLive, Registered, Live,
       Unregistered, TypeInv, TypeOK
  <2> QED BY <2>1, <2>2, TableUndisturbed DEF TableInv
<1>21. ASSUME NEW s \in Stoppers, StopLock(s) PROVE TableInv'
  <2>1. UNCHANGED running_threads /\ Live' = Live /\ BeingRegistered' = BeingRegistered
    BY <1>21 DEF StopLock, MoveStopper, Lock, threadVars, routerVars,
       stopVars, Live, Unregistered, BeingRegistered, TypeInv, TypeOK
  <2>2. JoinsRegistered' /\ RegistersLive'
    BY <1>21, <2>1 DEF StopLock, MoveStopper, Lock, threadVars, routerVars,
       stopVars, TableInv, JoinsRegistered, RegistersLive, Registered, Live,
       Unregistered, TypeInv, TypeOK
  <2> QED BY <2>1, <2>2, TableUndisturbed DEF TableInv
<1>22. ASSUME NEW s \in Stoppers, StopCancel(s) PROVE TableInv'
  <2>1. UNCHANGED running_threads /\ Live' = Live /\ BeingRegistered' = BeingRegistered
    BY <1>22 DEF StopCancel, MoveStopper, threadVars, routerVars, stopVars,
       Live, Unregistered, BeingRegistered, TypeInv, TypeOK
  <2>2. JoinsRegistered' /\ RegistersLive'
    BY <1>22, <2>1 DEF StopCancel, MoveStopper, threadVars, routerVars,
       stopVars, TableInv, JoinsRegistered, RegistersLive, Registered, Live,
       Unregistered, TypeInv, TypeOK
  <2> QED BY <2>1, <2>2, TableUndisturbed DEF TableInv
<1>23. ASSUME NEW s \in Stoppers, StopNotFound(s) PROVE TableInv'
  <2>1. UNCHANGED running_threads /\ Live' = Live /\ BeingRegistered' = BeingRegistered
    BY <1>23 DEF StopNotFound, MoveStopper, Unlock, threadVars, routerVars,
       stopVars, Live, Unregistered, BeingRegistered, TypeInv, TypeOK
  <2>2. JoinsRegistered' /\ RegistersLive'
    BY <1>23, <2>1 DEF StopNotFound, MoveStopper, Unlock, threadVars,
       routerVars, stopVars, TableInv, JoinsRegistered, RegistersLive,
       Registered, Live, Unregistered, TypeInv, TypeOK
  <2> QED BY <2>1, <2>2, TableUndisturbed DEF TableInv
<1>24. ASSUME NEW s \in Stoppers, StopJoin(s) PROVE TableInv'
  <2>1. sthread[s] \in Threads /\ RemoveThread(sthread[s]) /\ UNCHANGED routerVars
    BY <1>24 DEF StopJoin, TableInv, JoinsRegistered, TableExact, MoveStopper
  <2>2. /\ \A i, j \in 1 .. Len(running_threads') : running_threads'[i] = running_threads'[j] => i = j
        /\ Registered' = Registered \ {sthread[s]}
    BY <2>1, RemoveThreadEffect DEF TypeInv, TableInv
  <2>3. Live' = Live \ {sthread[s]}
    BY <1>24, <2>1 DEF StopJoin, MoveThread, MoveStopper, Live, Unregistered, TypeInv, TypeOK
  <2>4. \A r \in Routers : rpc[r] # "register"
    BY <1>24 DEF StopJoin, MoveThread, MoveStopper, CriticalSections
  <2>5. BeingRegistered = {} /\ BeingRegistered' = {}
    BY <2>1, <2>4 DEF BeingRegistered, routerVars
  <2>6. Registered' = Live' \ BeingRegistered'
    BY <2>2, <2>3, <2>5 DEF TableInv, TableExact, Live
  <2>7. TableExact'
    BY <2>2, <2>6 DEF TableExact, Live
  <2>8. \A q \in Stoppers : spc'[q] # "join"
    BY <1>24 DEF StopJoin, MoveThread, MoveStopper, stopVars, CriticalSections, TypeInv, TypeOK
  <2>9. JoinsRegistered' /\ RegistersLive'
    BY <2>1, <2>4, <2>8 DEF routerVars, JoinsRegistered, RegistersLive
  <2> QED BY <2>7, <2>9 DEF TableInv
<1>25. CASE UNCHANGED vars
  BY <1>25 DEF vars, threadVars, routerVars, stopVars, TableInv, TableExact, JoinsRegistered, RegistersLive, Registered, BeingRegistered, Live
<1> QED BY <1>1, <1>2, <1>3, <1>4, <1>5, <1>6, <1>7, <1>8, <1>9, <1>10, <1>11,
       <1>12, <1>13, <1>14, <1>15, <1>16, <1>17, <1>18, <1>19, <1>20, <1>21,
       <1>22, <1>23, <1>24, <1>25 DEF Next, RouterNext, ThreadNext,
       StopperNext

\* The copy of a procedure is freed once, by its own thread or by the stopper
\* that joined it, and never while it is executed.
LEMMA ResourcesStep ==
  TypeInv /\ CriticalSections /\ TableInv /\ ResourcesLive /\ [Next]_vars => ResourcesLive'
<1> SUFFICES ASSUME TypeInv, CriticalSections, TableInv, ResourcesLive, [Next]_vars
             PROVE  ResourcesLive'
  OBVIOUS
<1> USE RuntimeAssumption DEF RuntimeAssumption
<1>1. ASSUME NEW r \in Routers, RunRefused(r) PROVE ResourcesLive'
  BY <1>1 DEF RunRefused, Reply, threadVars, routerVars, stopVars, TypeInv,
       TypeOK, ResourcesLive
<1>2. ASSUME NEW r \in Routers, RunAdmitted(r) PROVE ResourcesLive'
  BY <1>2 DEF RunAdmitted, threadVars, routerVars, stopVars, TypeInv, TypeOK,
       ResourcesLive
<1>3. ASSUME NEW r \in Routers, DetachProc(r) PROVE ResourcesLive'
  BY <1>3 DEF DetachProc, threadVars, routerVars, stopVars, TypeInv, TypeOK,
       ResourcesLive
<1>4. ASSUME NEW r \in Routers, DetachFails(r) PROVE ResourcesLive'
  BY <1>4 DEF DetachFails, Reply, threadVars, routerVars, stopVars, TypeInv,
       TypeOK, ResourcesLive
<1>5. ASSUME NEW r \in Routers, RunLock(r) PROVE ResourcesLive'
  BY <1>5 DEF RunLock, Lock, threadVars, routerVars, stopVars, TypeInv,
       TypeOK, ResourcesLive
<1>6. ASSUME NEW r \in Routers, CreateThread(r) PROVE ResourcesLive'
  <2>1. PICK t \in Threads :
            /\ tpc[t] \in {"none", "joined"}
            /\ tpc' = [tpc EXCEPT ![t] = "analyze"]
            /\ held' = [held EXCEPT ![t] = {"proc"}]
    BY <1>6 DEF CreateThread
  <2>2. \A s \in Stoppers : spc[s] = "join" => tpc[sthread[s]] \notin Unregistered
    BY DEF TableInv, TableExact, JoinsRegistered
  <2>3. UNCHANGED stopVars
    BY <1>6 DEF CreateThread
  <2> QED BY <2>1, <2>2, <2>3 DEF stopVars, Unregistered, TypeInv, TypeOK, ResourcesLive
<1>7. ASSUME NEW r \in Routers, CreateFails(r) PROVE ResourcesLive'
  BY <1>7 DEF CreateFails, Reply, Unlock, threadVars, routerVars, stopVars,
       TypeInv, TypeOK, ResourcesLive
<1>8. ASSUME NEW r \in Routers, Register(r) PROVE ResourcesLive'
  BY <1>8 DEF Register, Reply, Unlock, threadVars, routerVars, stopVars,
       TypeInv, TypeOK, ResourcesLive
<1>9. ASSUME NEW t \in Threads, Analyze(t) PROVE ResourcesLive'
  BY <1>9 DEF Analyze, MoveThread, threadVars, routerVars, stopVars, TypeInv,
       TypeOK, ResourcesLive
<1>10. ASSUME NEW t \in Threads, StartupFails(t) PROVE ResourcesLive'
  BY <1>10 DEF StartupFails, MoveThread, threadVars, routerVars, stopVars,
       TypeInv, TypeOK, ResourcesLive
<1>11. ASSUME NEW t \in Threads, Exec(t) PROVE ResourcesLive'
  BY <1>11 DEF Exec, MoveThread, threadVars, routerVars, stopVars, TypeInv,
       TypeOK, ResourcesLive
<1>12. ASSUME NEW t \in Threads, CleanupLock(t) PROVE ResourcesLive'
  BY <1>12 DEF CleanupLock, MoveThread, Lock, threadVars, routerVars,
       stopVars, TypeInv, TypeOK, ResourcesLive
<1>13. ASSUME NEW t \in Threads, Unregister(t) PROVE ResourcesLive'
  BY <1>13 DEF Unregister, MoveThread, Unlock, threadVars, routerVars,
       stopVars, TypeInv, TypeOK, ResourcesLive
<1>14. ASSUME NEW t \in Threads, FreeResources(t) PROVE ResourcesLive'
  <2>1. \A s \in Stoppers : spc[s] = "join" => sthread[s] # t
    BY <1>14 DEF FreeResources, MoveThread, Unregistered, TableInv, TableExact, JoinsRegistered
  <2> QED BY <1>14, <2>1 DEF FreeResources, MoveThread, stopVars, TypeInv, TypeOK, ResourcesLive
<1>15. ASSUME NEW t \in Threads, Cancelled(t) PROVE ResourcesLive'
  BY <1>15 DEF Cancelled, threadVars, routerVars, stopVars, TypeInv, TypeOK,
       ResourcesLive
<1>16. ASSUME NEW s \in Stoppers, StopAll(s) PROVE ResourcesLive'
  BY <1>16 DEF StopAll, MoveStopper, threadVars, routerVars, stopVars,
       TypeInv, TypeOK, ResourcesLive
<1>17. ASSUME NEW s \in Stoppers, StopCheck(s) PROVE ResourcesLive'
  BY <1>17 DEF StopCheck, MoveStopper, threadVars, routerVars, stopVars,
       TypeInv, TypeOK, ResourcesLive
<1>18. ASSUME NEW s \in Stoppers, StopReturn(s) PROVE ResourcesLive'
  BY <1>18 DEF StopReturn, MoveStopper, threadVars, routerVars, stopVars,
       TypeInv, TypeOK, ResourcesLive
<1>19. ASSUME NEW s \in Stoppers, StopPick(s) PROVE ResourcesLive'
  BY <1>19 DEF StopPick, MoveStopper, threadVars, routerVars, stopVars,
       TypeInv, TypeOK, ResourcesLive
<1>20. ASSUME NEW s \in Stoppers, StopPickNull(s) PROVE ResourcesLive'
  BY <1>20 DEF StopPickNull, threadVars, routerVars, stopVars, TypeInv,
       TypeOK, ResourcesLive
<1>21. ASSUME NEW s \in Stoppers, StopLock(s) PROVE ResourcesLive'
  BY <1>21 DEF StopLock, MoveStopper, Lock, threadVars, routerVars, stopVars,
       TypeInv, TypeOK, ResourcesLive
<1>22. ASSUME NEW s \in Stoppers, StopCancel(s) PROVE ResourcesLive'
  <2>1. sthread[s] \in Threads /\ tpc[sthread[s]] \notin Unregistered
    BY <1>22 DEF StopCancel, TableInv, TableExact
  <2>2. "proc" \in held[sthread[s]]
    <3> DEFINE t == sthread[s]
    <3>1. \/ tpc[t] \in {"analyze", "exec", "cancelled", "dead"}
          \/ tpc[t] \in {"finished", "cleanup"}
      BY <2>1 DEF Unregistered, TypeInv, TypeOK
    <3>2. ASSUME tpc[t] \in {"finished", "cleanup"} PROVE held[t] = {"proc", "analysis"}
      BY <2>1, <3>2 DEF ResourcesLive
    <3> QED BY <2>1, <3>1, <3>2 DEF ResourcesLive
  <2> QED BY <1>22, <2>1, <2>2 DEF StopCancel, MoveStopper, threadVars, TypeInv, TypeOK,
       ResourcesLive
<1>23. ASSUME NEW s \in Stoppers, StopNotFound(s) PROVE ResourcesLive'
  BY <1>23 DEF StopNotFound, MoveStopper, Unlock, threadVars, routerVars,
       stopVars, TypeInv, TypeOK, ResourcesLive
<1>24. ASSUME NEW s \in Stoppers, StopJoin(s) PROVE ResourcesLive'
  <2> DEFINE t == sthread[s]
  <2>1. /\ tpc' = [tpc EXCEPT ![t] = "joined"]
        /\ held' = [held EXCEPT ![t] = @ \ {"proc"}]
    BY <1>24 DEF StopJoin
  <2>2. \A q \in Stoppers : spc'[q] # "join"
    BY <1>24 DEF StopJoin, MoveStopper, CriticalSections, TypeInv, TypeOK
  <2> QED BY <2>1, <2>2 DEF TypeInv, TypeOK, ResourcesLive
<1>25. CASE UNCHANGED vars
  BY <1>25 DEF vars, threadVars, routerVars, stopVars, ResourcesLive
<1> QED BY <1>1, <1>2, <1>3, <1>4, <1>5, <1>6, <1>7, <1>8, <1>9, <1>10, <1>11,
       <1>12, <1>13, <1>14, <1>15, <1>16, <1>17, <1>18, <1>19, <1>20, <1>21,
       <1>22, <1>23, <1>24, <1>25 DEF Next, RouterNext, ThreadNext,
       StopperNext

\* Every router past the test may still add one thread; the test admits one
\* more router only while the table is below its limit.
Admitted == Len(running_threads) + Cardinality(Past) <= MAX_PROC_CONCURRENT + Cardinality(Routers) - 1

\* The routers past the test are some of the routers.
LEMMA PastIsFinite ==
  /\ IsFiniteSet(Past)
  /\ Cardinality(Past) \in Nat
  /\ Cardinality(Routers) \in Nat
  /\ Cardinality(Past) <= Cardinality(Routers)
<1>1. Past \subseteq Routers
  BY DEF Past
<1> QED BY <1>1, RuntimeAssumption, FS_Subset, FS_CardinalityType DEF RuntimeAssumption

\* A step that neither adds a thread nor admits a router keeps the bound.
LEMMA AdmittedUndisturbed ==
  ASSUME TypeInv, TypeInv', Admitted, Len(running_threads') <= Len(running_threads), Past' \subseteq Past
  PROVE  Admitted'
<1>1. Cardinality(Past') <= Cardinality(Past) /\ Cardinality(Past') \in Nat
  BY PastIsFinite, FS_Subset, FS_CardinalityType
<1>2. Len(running_threads) \in Nat /\ Len(running_threads') \in Nat
  BY DEF TypeInv, TypeOK
<1> QED BY <1>1, <1>2, PastIsFinite, RuntimeAssumption DEF RuntimeAssumption, Admitted

\* The table and the routers on their way to it never exceed the bound.
LEMMA AdmittedStep == TypeInv /\ TypeInv' /\ TableInv /\ Admitted /\ [Next]_vars => Admitted'
<1> SUFFICES ASSUME TypeInv, TypeInv', TableInv, Admitted, [Next]_vars PROVE Admitted'
  OBVIOUS
<1>0. Len(running_threads) \in Nat
  BY DEF TypeInv, TypeOK
<1>1. ASSUME NEW r \in Routers, RunRefused(r) PROVE Admitted'
  <2>1. running_threads' = running_threads /\ Past' \subseteq Past
    BY <1>1 DEF RunRefused, Reply, threadVars, routerVars, stopVars, Past,
       TypeInv, TypeOK
  <2> QED BY <1>0, <2>1, AdmittedUndisturbed
<1>2. ASSUME NEW r \in Routers, RunAdmitted(r) PROVE Admitted'
  <2>1. Past' = Past \cup {r} /\ running_threads' = running_threads
    BY <1>2 DEF RunAdmitted, Past, TypeInv, TypeOK
  <2>2. Len(running_threads) <= MAX_PROC_CONCURRENT - 1
    BY <1>2, <1>0, RuntimeAssumption DEF RuntimeAssumption, RunAdmitted
  <2>3. Past' \subseteq Routers
    BY DEF Past
  <2>4. Cardinality(Past') <= Cardinality(Routers) /\ Cardinality(Past') \in Nat
    BY <2>3, RuntimeAssumption, FS_Subset, FS_CardinalityType DEF RuntimeAssumption
  <2> QED BY <1>0, <2>1, <2>2, <2>4, PastIsFinite, RuntimeAssumption DEF RuntimeAssumption, Admitted
<1>3. ASSUME NEW r \in Routers, DetachProc(r) PROVE Admitted'
  <2>1. running_threads' = running_threads /\ Past' \subseteq Past
    BY <1>3 DEF DetachProc, threadVars, routerVars, stopVars, Past, TypeInv,
       TypeOK
  <2> QED BY <1>0, <2>1, AdmittedUndisturbed
<1>4. ASSUME NEW r \in Routers, DetachFails(r) PROVE Admitted'
  <2>1. running_threads' = running_threads /\ Past' \subseteq Past
    BY <1>4 DEF DetachFails, Reply, threadVars, routerVars, stopVars, Past,
       TypeInv, TypeOK
  <2> QED BY <1>0, <2>1, AdmittedUndisturbed
<1>5. ASSUME NEW r \in Routers, RunLock(r) PROVE Admitted'
  <2>1. running_threads' = running_threads /\ Past' \subseteq Past
    BY <1>5 DEF RunLock, Lock, threadVars, routerVars, stopVars, Past,
       TypeInv, TypeOK
  <2> QED BY <1>0, <2>1, AdmittedUndisturbed
<1>6. ASSUME NEW r \in Routers, CreateThread(r) PROVE Admitted'
  <2>1. running_threads' = running_threads /\ Past' \subseteq Past
    BY <1>6 DEF CreateThread, threadVars, routerVars, stopVars, Past, TypeInv,
       TypeOK
  <2> QED BY <1>0, <2>1, AdmittedUndisturbed
<1>7. ASSUME NEW r \in Routers, CreateFails(r) PROVE Admitted'
  <2>1. running_threads' = running_threads /\ Past' \subseteq Past
    BY <1>7 DEF CreateFails, Reply, Unlock, threadVars, routerVars, stopVars,
       Past, TypeInv, TypeOK
  <2> QED BY <1>0, <2>1, AdmittedUndisturbed
<1>8. ASSUME NEW r \in Routers, Register(r) PROVE Admitted'
  <2>1. running_threads' = Append(running_threads, rthread[r])
    BY <1>8 DEF Register
  <2>2. Len(running_threads') = Len(running_threads) + 1
    BY <2>1 DEF TypeInv, TypeOK
  <2>3. r \in Past /\ Past' = Past \ {r}
    BY <1>8 DEF Register, Reply, Past, TypeInv, TypeOK
  <2>4. Cardinality(Past') = Cardinality(Past) - 1
    BY <2>3, PastIsFinite, FS_RemoveElement
  <2> QED BY <1>0, <2>2, <2>4, PastIsFinite, RuntimeAssumption DEF RuntimeAssumption, Admitted
<1>9. ASSUME NEW t \in Threads, Analyze(t) PROVE Admitted'
  <2>1. running_threads' = running_threads /\ Past' \subseteq Past
    BY <1>9 DEF Analyze, MoveThread, threadVars, routerVars, stopVars, Past,
       TypeInv, TypeOK
  <2> QED BY <1>0, <2>1, AdmittedUndisturbed
<1>10. ASSUME NEW t \in Threads, StartupFails(t) PROVE Admitted'
  <2>1. running_threads' = running_threads /\ Past' \subseteq Past
    BY <1>10 DEF StartupFails, MoveThread, threadVars, routerVars, stopVars,
       Past, TypeInv, TypeOK
  <2> QED BY <1>0, <2>1, AdmittedUndisturbed
<1>11. ASSUME NEW t \in Threads, Exec(t) PROVE Admitted'
  <2>1. running_threads' = running_threads /\ Past' \subseteq Past
    BY <1>11 DEF Exec, MoveThread, threadVars, routerVars, stopVars, Past,
       TypeInv, TypeOK
  <2> QED BY <1>0, <2>1, AdmittedUndisturbed
<1>12. ASSUME NEW t \in Threads, CleanupLock(t) PROVE Admitted'
  <2>1. running_threads' = running_threads /\ Past' \subseteq Past
    BY <1>12 DEF CleanupLock, MoveThread, Lock, threadVars, routerVars,
       stopVars, Past, TypeInv, TypeOK
  <2> QED BY <1>0, <2>1, AdmittedUndisturbed
<1>13. ASSUME NEW t \in Threads, Unregister(t) PROVE Admitted'
  <2>1. t \in Threads /\ RemoveThread(t) /\ UNCHANGED routerVars
    BY <1>13 DEF Unregister, MoveStopper, TableInv, TableExact, JoinsRegistered
  <2>2. Len(running_threads') <= Len(running_threads)
    BY <2>1, RemoveThreadEffect DEF TypeInv, TableInv
  <2>3. Past' = Past
    BY <2>1 DEF Past, routerVars
  <2> QED BY <2>2, <2>3, AdmittedUndisturbed
<1>14. ASSUME NEW t \in Threads, FreeResources(t) PROVE Admitted'
  <2>1. running_threads' = running_threads /\ Past' \subseteq Past
    BY <1>14 DEF FreeResources, MoveThread, threadVars, routerVars, stopVars,
       Past, TypeInv, TypeOK
  <2> QED BY <1>0, <2>1, AdmittedUndisturbed
<1>15. ASSUME NEW t \in Threads, Cancelled(t) PROVE Admitted'
  <2>1. running_threads' = running_threads /\ Past' \subseteq Past
    BY <1>15 DEF Cancelled, threadVars, routerVars, stopVars, Past, TypeInv,
       TypeOK
  <2> QED BY <1>0, <2>1, AdmittedUndisturbed
<1>16. ASSUME NEW s \in Stoppers, StopAll(s) PROVE Admitted'
  <2>1. running_threads' = running_threads /\ Past' \subseteq Past
    BY <1>16 DEF StopAll, MoveStopper, threadVars, routerVars, stopVars, Past,
       TypeInv, TypeOK
  <2> QED BY <1>0, <2>1, AdmittedUndisturbed
<1>17. ASSUME NEW s \in Stoppers, StopCheck(s) PROVE Admitted'
  <2>1. running_threads' = running_threads /\ Past' \subseteq Past
    BY <1>17 DEF StopCheck, MoveStopper, threadVars, routerVars, stopVars,
       Past, TypeInv, TypeOK
  <2> QED BY <1>0, <2>1, AdmittedUndisturbed
<1>18. ASSUME NEW s \in Stoppers, StopReturn(s) PROVE Admitted'
  <2>1. running_threads' = running_threads /\ Past' \subseteq Past
    BY <1>18 DEF StopReturn, MoveStopper, threadVars, routerVars, stopVars,
       Past, TypeInv, TypeOK
  <2> QED BY <1>0, <2>1, AdmittedUndisturbed
<1>19. ASSUME NEW s \in Stoppers, StopPick(s) PROVE Admitted'
  <2>1. running_threads' = running_threads /\ Past' \subseteq Past
    BY <1>19 DEF StopPick, MoveStopper, threadVars, routerVars, stopVars,
       Past, TypeInv, TypeOK
  <2> QED BY <1>0, <2>1, AdmittedUndisturbed
<1>20. ASSUME NEW s \in Stoppers, StopPickNull(s) PROVE Admitted'
  <2>1. running_threads' = running_threads /\ Past' \subseteq Past
    BY <1>20 DEF StopPickNull, threadVars, routerVars, stopVars, Past,
       TypeInv, TypeOK
  <2> QED BY <1>0, <2>1, AdmittedUndisturbed
<1>21. ASSUME NEW s \in Stoppers, StopLock(s) PROVE Admitted'
  <2>1. running_threads' = running_threads /\ Past' \subseteq Past
    BY <1>21 DEF StopLock, MoveStopper, Lock, threadVars, routerVars,
       stopVars, Past, TypeInv, TypeOK
  <2> QED BY <1>0, <2>1, AdmittedUndisturbed
<1>22. ASSUME NEW s \in Stoppers, StopCancel(s) PROVE Admitted'
  <2>1. running_threads' = running_threads /\ Past' \subseteq Past
    BY <1>22 DEF StopCancel, MoveStopper, threadVars, routerVars, stopVars,
       Past, TypeInv, TypeOK
  <2> QED BY <1>0, <2>1, AdmittedUndisturbed
<1>23. ASSUME NEW s \in Stoppers, StopNotFound(s) PROVE Admitted'
  <2>1. running_threads' = running_threads /\ Past' \subseteq Past
    BY <1>23 DEF StopNotFound, MoveStopper, Unlock, threadVars, routerVars,
       stopVars, Past, TypeInv, TypeOK
  <2> QED BY <1>0, <2>1, AdmittedUndisturbed
<1>24. ASSUME NEW s \in Stoppers, StopJoin(s) PROVE Admitted'
  <2>1. sthread[s] \in Threads /\ RemoveThread(sthread[s]) /\ UNCHANGED routerVars
    BY <1>24 DEF StopJoin, MoveStopper, TableInv, TableExact, JoinsRegistered
  <2>2. Len(running_threads') <= Len(running_threads)
    BY <2>1, RemoveThreadEffect DEF TypeInv, TableInv
  <2>3. Past' = Past
    BY <2>1 DEF Past, routerVars
  <2> QED BY <2>2, <2>3, AdmittedUndisturbed
<1>25. CASE UNCHANGED vars
  BY <1>25 DEF vars, threadVars, routerVars, stopVars, Admitted, Past
<1> QED BY <1>1, <1>2, <1>3, <1>4, <1>5, <1>6, <1>7, <1>8, <1>9, <1>10, <1>11,
       <1>12, <1>13, <1>14, <1>15, <1>16, <1>17, <1>18, <1>19, <1>20, <1>21,
       <1>22, <1>23, <1>24, <1>25 DEF Next, RouterNext, ThreadNext,
       StopperNext

\* The inductive invariant: types, mutual exclusion, the exact table, the
\* life of the allocations and the bound that counts admitted routers.
IInv == TypeInv /\ CriticalSections /\ TableInv /\ ResourcesLive /\ Admitted

\* Nothing runs and nothing is held at the start.
LEMMA IInvInit == Init => IInv
<1> SUFFICES ASSUME Init PROVE IInv
  OBVIOUS
<1> USE DEF Init
<1>1. TypeInv
  BY TypeInit DEF TypeInv, RegistersThread
<1>2. CriticalSections
  BY RuntimeAssumption DEF RuntimeAssumption, CriticalSections
<1>3. TableInv
  <2>1. Registered = {} /\ Len(running_threads) = 0
    BY DEF Registered, Entries
  <2>2. {t \in Threads : tpc[t] \notin Unregistered} = {}
    BY DEF Unregistered
  <2>3. TableExact
    BY <2>1, <2>2 DEF TableExact
  <2> QED BY <2>3 DEF TableInv, JoinsRegistered, RegistersLive
<1>4. ResourcesLive
  BY DEF ResourcesLive
<1>5. Admitted
  <2>1. Past = {} /\ Len(running_threads) = 0
    BY DEF Past
  <2>2. Cardinality(Past) = 0
    BY <2>1, FS_EmptySet
  <2>3. Cardinality(Routers) >= 1
    BY RuntimeAssumption, FS_EmptySet, FS_CardinalityType DEF RuntimeAssumption
  <2> QED BY <2>1, <2>2, <2>3, PastIsFinite, RuntimeAssumption DEF RuntimeAssumption, Admitted
<1> QED BY <1>1, <1>2, <1>3, <1>4, <1>5 DEF IInv

\* Each part of the invariant is kept by a step, given the parts before it.
LEMMA IInvStep == IInv /\ [Next]_vars => IInv'
  BY TypeStep, CriticalSectionsStep, TableStep, ResourcesStep, AdmittedStep DEF IInv

\* The invariant holds for ever.
THEOREM IInvHolds == Spec => []IInv
  BY IInvInit, IInvStep, PTL DEF Spec

\* The table never holds more than MAX_PROC_CONCURRENT threads and one for each
\* router but the first, whatever the interleaving of runs, ends and stops.
THEOREM TableBounded == Spec => []TableBound
<1>1. IInv => TableBound
  <2> SUFFICES ASSUME IInv PROVE TableBound
    OBVIOUS
  <2>1. Len(running_threads) \in Nat
    BY DEF IInv, TypeInv, TypeOK
  <2> QED BY <2>1, PastIsFinite, RuntimeAssumption DEF RuntimeAssumption, IInv, Admitted, TableBound
<1> QED BY <1>1, IInvHolds, PTL

\* At most one router, finishing thread or stopper is in a critical section.
THEOREM MutualExclusion == Spec => []CriticalSections
<1>1. IInv => CriticalSections
  BY DEF IInv
<1> QED BY <1>1, IInvHolds, PTL

\* A thread that finishes at once still finds its table entry, and no entry
\* names a thread that is gone.
THEOREM TableIsExact == Spec => []TableExact
<1>1. IInv => TableExact
  BY DEF IInv, TableInv
<1> QED BY <1>1, IInvHolds, PTL

\* No use after free and no double free of a thread's procedure.
THEOREM ResourcesAreLive == Spec => []ResourcesLive
<1>1. IInv => ResourcesLive
  BY DEF IInv
<1> QED BY <1>1, IInvHolds, PTL

\* A stopper never waits for a thread that is no longer registered.
THEOREM JoinsAreRegistered == Spec => []JoinsRegistered
<1>1. IInv => JoinsRegistered
  BY DEF IInv, TableInv
<1> QED BY <1>1, IInvHolds, PTL

\* A step removes an entry only through its own thread's cleanup or a join.
LEMMA RemovalStep ==
  ASSUME IInv, [Next]_vars, NEW t \in Registered \ Registered'
  PROVE  \/ tpc[t] = "cleanup" /\ tpc'[t] = "free"
         \/ \E s \in Stoppers : sthread[s] = t /\ tpc'[t] = "joined"
<1>0. TypeInv /\ TypeOK /\ TableInv /\ TableExact /\ running_threads' # running_threads
  BY DEF IInv, TypeInv, TableInv, Registered, Entries
<1>1. ASSUME NEW r \in Routers, Register(r) PROVE FALSE
  <2>1. running_threads' = Append(running_threads, rthread[r]) /\ running_threads \in Seq(Threads)
    BY <1>0, <1>1 DEF Register, TypeOK
  <2> DEFINE n == Len(running_threads)
  <2>2. n \in Nat /\ Len(running_threads') = n + 1 /\ \A i \in 1 .. n : running_threads'[i] = running_threads[i]
    BY <2>1
  <2>3. PICK i \in 1 .. n : running_threads[i] = t
    BY DEF Registered, Entries
  <2>4. i \in 1 .. Len(running_threads') /\ running_threads'[i] = t
    BY <2>2, <2>3
  <2> QED BY <2>4 DEF Registered, Entries
<1>2. ASSUME NEW u \in Threads, Unregister(u) PROVE tpc[t] = "cleanup" /\ tpc'[t] = "free"
  <2>1. Registered' = Registered \ {u}
    BY <1>0, <1>2, RemoveThreadEffect DEF Unregister
  <2> QED BY <1>0, <1>2, <2>1 DEF Unregister, MoveThread, TypeOK
<1>3. ASSUME NEW s \in Stoppers, StopJoin(s) PROVE sthread[s] = t /\ tpc'[t] = "joined"
  <2>1. sthread[s] \in Threads /\ RemoveThread(sthread[s])
    BY <1>0, <1>3 DEF StopJoin, MoveStopper, TableInv, TableExact, JoinsRegistered
  <2>2. Registered' = Registered \ {sthread[s]}
    BY <1>0, <2>1, RemoveThreadEffect
  <2> QED BY <1>0, <1>3, <2>1, <2>2 DEF StopJoin, TypeOK
<1>4. \/ \E r \in Routers : Register(r)
      \/ \E u \in Threads : Unregister(u)
      \/ \E s \in Stoppers : StopJoin(s)
  BY <1>0 DEF Next, RouterNext, ThreadNext, StopperNext, vars, RunRefused, RunAdmitted,
       DetachProc, DetachFails, RunLock, CreateThread, CreateFails, Analyze, StartupFails,
       Exec, CleanupLock, FreeResources, Cancelled, StopAll, StopCheck, StopReturn,
       StopPick, StopPickNull, StopLock, StopCancel, StopNotFound
<1> QED BY <1>1, <1>2, <1>3, <1>4

\* A thread only leaves the table by itself or by being joined.
THEOREM EntriesAreOwn == Spec => OnlyOwnEntryRemoved
<1> DEFINE A == \A t \in Registered \ Registered' :
                  \/ tpc[t] = "cleanup" /\ tpc'[t] = "free"
                  \/ \E s \in Stoppers : sthread[s] = t /\ tpc'[t] = "joined"
<1>1. IInv /\ [Next]_vars => [A]_vars
  BY RemovalStep
<1>2. Spec => [][A]_vars
  <2> HIDE DEF A
  <2> QED BY <1>1, IInvHolds, PTL DEF Spec
<1> QED BY <1>2 DEF OnlyOwnEntryRemoved
=============================================================================
