--------------------- MODULE ProcRuntimeFreeRTOS_proofs ---------------------
(***************************************************************************)
(* Machine-checked proofs about ProcRuntimeFreeRTOS, for any numbers of    *)
(* tasks, routers and stoppers and any limits.                             *)
(***************************************************************************)
EXTENDS ProcRuntimeFreeRTOS, TLAPS

-----------------------------------------------------------------------------
(* What removing an entry does to the array of running threads or tasks.    *)

\* Removing entry i moves the last entry into its place: exactly that thread
\* leaves, and the others stay distinct.
LEMMA SwapRemoveEntry ==
  ASSUME NEW Elements, NEW table \in Seq(Elements), NEW i \in 1 .. Len(table),
         \A j, k \in 1 .. Len(table) : table[j] = table[k] => j = k,
         NEW new, new = SwapRemove(table, i)
  PROVE  /\ new \in Seq(Elements)
         /\ Len(new) = Len(table) - 1
         /\ \A j, k \in 1 .. Len(new) : new[j] = new[k] => j = k
         /\ Entries(new) = Entries(table) \ {table[i]}
<1> DEFINE n == Len(table)
<1>1. n \in Nat \ {0} /\ n - 1 \in Nat
  OBVIOUS
<1>2. new = [j \in 1 .. n - 1 |-> IF j = i THEN table[n] ELSE table[j]]
  BY DEF SwapRemove
<1>3. \A j \in 1 .. n - 1 : new[j] \in Elements
  BY <1>1, <1>2
<1>4. new \in Seq(Elements) /\ Len(new) = n - 1
  BY <1>1, <1>2, <1>3
<1>5. \A j, k \in 1 .. n - 1 : new[j] = new[k] => j = k
  BY <1>1, <1>2
<1> DEFINE After == {new[j] : j \in 1 .. n - 1}
           Before == {table[j] : j \in 1 .. n}
<1>6. After = Before \ {table[i]}
  <2>1. ASSUME NEW j \in 1 .. n - 1
        PROVE  new[j] \in Before /\ new[j] # table[i]
    BY <1>1, <1>2
  <2>2. ASSUME NEW k \in 1 .. n, table[k] # table[i]
        PROVE  \E j \in 1 .. n - 1 : new[j] = table[k]
    <3>1. CASE k = n
      <4>1. i \in 1 .. n - 1 /\ new[i] = table[n]
        BY <1>1, <1>2, <2>2, <3>1
      <4> QED BY <3>1, <4>1
    <3>2. CASE k # n
      <4>1. k \in 1 .. n - 1 /\ new[k] = table[k]
        BY <1>1, <1>2, <2>2, <3>2
      <4> QED BY <4>1
    <3> QED BY <3>1, <3>2
  <2>3. After \subseteq Before \ {table[i]}
    <3> SUFFICES ASSUME NEW j \in 1 .. n - 1 PROVE new[j] \in Before \ {table[i]}
      OBVIOUS
    <3> QED BY <2>1
  <2>4. Before \ {table[i]} \subseteq After
    <3> SUFFICES ASSUME NEW k \in 1 .. n, table[k] # table[i] PROVE table[k] \in After
      OBVIOUS
    <3>1. PICK j \in 1 .. n - 1 : new[j] = table[k]
      BY <2>2
    <3> HIDE DEF n
    <3> QED BY <3>1
  <2> HIDE DEF After, Before
  <2> QED BY <2>3, <2>4
<1>7. Len(new) = n - 1
  BY <1>4
<1> QED BY <1>4, <1>5, <1>6, <1>7 DEF Entries

-----------------------------------------------------------------------------

\* A router that is about to register has a task to enter.
RegistersTask == \A r \in Routers : rpc[r] = "register" => rtask[r] \in Tasks

TypeInv == TypeOK /\ RegistersTask

\* Whoever is between taking and giving back running_tasks_mutex owns it.
CriticalSections ==
    /\ \A r \in Routers : rpc[r] \in {"create", "register"} => running_tasks_mutex = r
    /\ \A t \in Tasks : tpc[t] = "cleanup" => running_tasks_mutex = t
    /\ \A s \in Stoppers : spc[s] = "find" => running_tasks_mutex = s

\* Tasks that were created and have neither cleaned up nor been deleted.
Live == {t \in Tasks : tpc[t] \notin {"none", "free"}}

\* A task cannot clean up before its router has registered it, because the
\* router holds the mutex.
RegistersLive == \A r \in Routers : rpc[r] = "register" => rtask[r] \in Live

TableInv == TableExact /\ RegistersLive

\* The inductive invariant.
IInv == TypeInv /\ CriticalSections /\ TableInv /\ ResourcesLive

\* The entries of the table are tasks, whatever order it is in.
LEMMA EntriesAreTasks == TypeOK => Registered \subseteq Tasks
  BY DEF TypeOK, Registered, Entries

\* The loop over the array keeps a sequence of tasks.
LEMMA RemoveTaskType ==
  ASSUME TypeOK, NEW t, RemoveTask(t)
  PROVE  running_tasks' \in Seq(Tasks)
<1>1. CASE t \notin Registered
  BY <1>1 DEF TypeOK, RemoveTask
<1>2. CASE t \in Registered
  <2>1. PICK i \in 1 .. Len(running_tasks) : running_tasks' = SwapRemove(running_tasks, i)
    BY <1>2 DEF RemoveTask
  <2>2. running_tasks \in Seq(Tasks)
    BY DEF TypeOK
  <2> DEFINE n == Len(running_tasks)
  <2>3. running_tasks' = [j \in 1 .. n - 1 |-> IF j = i THEN running_tasks[n] ELSE running_tasks[j]]
    BY <2>1 DEF SwapRemove
  <2>4. n \in Nat \ {0} /\ n - 1 \in Nat
    BY <2>2
  <2>5. \A j \in 1 .. n - 1 : running_tasks'[j] \in Tasks
    BY <2>2, <2>3, <2>4
  <2> QED BY <2>3, <2>4, <2>5
<1> QED BY <1>1, <1>2

\* What the loop over the array does to a table without duplicates.
LEMMA RemoveTaskEffect ==
  ASSUME TypeOK, TableExact, NEW t \in Tasks, RemoveTask(t)
  PROVE  /\ \A i, j \in 1 .. Len(running_tasks') : running_tasks'[i] = running_tasks'[j] => i = j
         /\ Registered' = Registered \ {t}
<1>1. CASE t \notin Registered
  BY <1>1 DEF TypeOK, TableExact, RemoveTask, Registered
<1>2. CASE t \in Registered
  <2>1. PICK i \in 1 .. Len(running_tasks) :
            running_tasks[i] = t /\ running_tasks' = SwapRemove(running_tasks, i)
    BY <1>2 DEF RemoveTask
  <2>2. running_tasks \in Seq(Tasks)
    BY DEF TypeOK
  <2>3. \A j, k \in 1 .. Len(running_tasks) : running_tasks[j] = running_tasks[k] => j = k
    BY DEF TableExact
  <2>4. /\ \A j, k \in 1 .. Len(running_tasks') : running_tasks'[j] = running_tasks'[k] => j = k
        /\ Entries(running_tasks') = Entries(running_tasks) \ {running_tasks[i]}
    <3>1. ASSUME NEW new, new = SwapRemove(running_tasks, i)
          PROVE  /\ \A j, k \in 1 .. Len(new) : new[j] = new[k] => j = k
                 /\ Entries(new) = Entries(running_tasks) \ {running_tasks[i]}
      BY <2>2, <2>3, <3>1, SwapRemoveEntry
    <3> QED BY <2>1, <3>1
  <2>5. Registered' = Registered \ {t}
    BY <2>1, <2>4 DEF Registered
  <2> QED BY <2>4, <2>5
<1> QED BY <1>1, <1>2

\* Every step keeps the types.
LEMMA TypeStep == TypeInv /\ [Next]_vars => TypeInv'
<1> SUFFICES ASSUME TypeInv, [Next]_vars PROVE TypeInv'
  OBVIOUS
<1> USE FreeRTOSAssumption DEF FreeRTOSAssumption
<1>1. ASSUME NEW r \in Routers, RunAdmitted(r) PROVE TypeInv'
  BY <1>1 DEF RunAdmitted, MoveRouter, mutexVars, taskVars, routerVars,
       stopVars, TypeInv, TypeOK, RegistersTask
<1>2. ASSUME NEW r \in Routers, GetProc(r) PROVE TypeInv'
  BY <1>2 DEF GetProc, MoveRouter, mutexVars, taskVars, routerVars, stopVars,
       TypeInv, TypeOK, RegistersTask
<1>3. ASSUME NEW r \in Routers, GotProc(r) PROVE TypeInv'
  BY <1>3 DEF GotProc, MoveRouter, mutexVars, taskVars, routerVars, stopVars,
       TypeInv, TypeOK, RegistersTask
<1>4. ASSUME NEW r \in Routers, DetachProc(r) PROVE TypeInv'
  BY <1>4 DEF DetachProc, MoveRouter, mutexVars, taskVars, routerVars,
       stopVars, TypeInv, TypeOK, RegistersTask
<1>5. ASSUME NEW r \in Routers, DetachFails(r) PROVE TypeInv'
  BY <1>5 DEF DetachFails, Reply, mutexVars, taskVars, routerVars, stopVars,
       TypeInv, TypeOK, RegistersTask
<1>6. ASSUME NEW r \in Routers, RunLock(r) PROVE TypeInv'
  BY <1>6 DEF RunLock, MoveRouter, Lock, mutexVars, taskVars, routerVars,
       stopVars, TypeInv, TypeOK, RegistersTask
<1>7. ASSUME NEW r \in Routers, CreateTask(r) PROVE TypeInv'
  BY <1>7 DEF CreateTask, MoveRouter, mutexVars, taskVars, routerVars,
       stopVars, TypeInv, TypeOK, RegistersTask
<1>8. ASSUME NEW r \in Routers, CreateFails(r) PROVE TypeInv'
  BY <1>8 DEF CreateFails, Reply, Unlock, mutexVars, taskVars, routerVars,
       stopVars, TypeInv, TypeOK, RegistersTask
<1>9. ASSUME NEW r \in Routers, Register(r) PROVE TypeInv'
  BY <1>9 DEF Register, Reply, Unlock, mutexVars, taskVars, routerVars,
       stopVars, TypeInv, TypeOK, RegistersTask
<1>10. ASSUME NEW t \in Tasks, LookUp(t) PROVE TypeInv'
  BY <1>10 DEF LookUp, MoveTask, mutexVars, taskVars, routerVars, stopVars,
       TypeInv, TypeOK, RegistersTask
<1>11. ASSUME NEW t \in Tasks, LookedUp(t) PROVE TypeInv'
  BY <1>11 DEF LookedUp, MoveTask, mutexVars, taskVars, routerVars, stopVars,
       TypeInv, TypeOK, RegistersTask
<1>12. ASSUME NEW t \in Tasks, Analyzed(t) PROVE TypeInv'
  BY <1>12 DEF Analyzed, MoveTask, mutexVars, taskVars, routerVars, stopVars,
       TypeInv, TypeOK, RegistersTask
<1>13. ASSUME NEW t \in Tasks, StartupFails(t) PROVE TypeInv'
  BY <1>13 DEF StartupFails, MoveTask, mutexVars, taskVars, routerVars,
       stopVars, TypeInv, TypeOK, RegistersTask
<1>14. ASSUME NEW t \in Tasks, Exec(t) PROVE TypeInv'
  BY <1>14 DEF Exec, MoveTask, mutexVars, taskVars, routerVars, stopVars,
       TypeInv, TypeOK, RegistersTask
<1>15. ASSUME NEW t \in Tasks, CleanupLock(t) PROVE TypeInv'
  BY <1>15 DEF CleanupLock, MoveTask, Lock, mutexVars, taskVars, routerVars,
       stopVars, TypeInv, TypeOK, RegistersTask
<1>16. ASSUME NEW t \in Tasks, Unregister(t) PROVE TypeInv'
  <2>1. running_tasks' \in Seq(Tasks)
    BY <1>16, RemoveTaskType DEF Unregister, TypeInv
  <2> QED BY <1>16, <2>1 DEF Unregister, MoveTask, Unlock, mutexVars, taskVars, routerVars,
       stopVars, TypeInv, TypeOK, RegistersTask
<1>17. ASSUME NEW t \in Tasks, FreeResources(t) PROVE TypeInv'
  BY <1>17 DEF FreeResources, MoveTask, mutexVars, taskVars, routerVars,
       stopVars, TypeInv, TypeOK, RegistersTask
<1>18. ASSUME NEW s \in Stoppers, StopOne(s) PROVE TypeInv'
  BY <1>18 DEF StopOne, MoveStopper, mutexVars, taskVars, routerVars,
       stopVars, TypeInv, TypeOK, RegistersTask
<1>19. ASSUME NEW s \in Stoppers, StopAll(s) PROVE TypeInv'
  BY <1>19 DEF StopAll, MoveStopper, mutexVars, taskVars, routerVars,
       stopVars, TypeInv, TypeOK, RegistersTask
<1>20. ASSUME NEW s \in Stoppers, StopCheck(s) PROVE TypeInv'
  BY <1>20 DEF StopCheck, MoveStopper, mutexVars, taskVars, routerVars,
       stopVars, TypeInv, TypeOK, RegistersTask
<1>21. ASSUME NEW s \in Stoppers, StopReturn(s) PROVE TypeInv'
  <2>1. sguard' \in [Stoppers -> 0 .. LOOP_GUARD + 1]
    <3>1. sguard' = sguard \/ sguard' = [sguard EXCEPT ![s] = LOOP_GUARD + 1]
      BY <1>21 DEF StopReturn, TypeInv, TypeOK
    <3>2. LOOP_GUARD + 1 \in 0 .. LOOP_GUARD + 1
      OBVIOUS
    <3> QED BY <3>1, <3>2 DEF TypeInv, TypeOK
  <2> QED BY <1>21, <2>1 DEF StopReturn, MoveStopper, mutexVars, taskVars, routerVars,
       stopVars, TypeInv, TypeOK, RegistersTask
<1>22. ASSUME NEW s \in Stoppers, StopLock(s) PROVE TypeInv'
  BY <1>22 DEF StopLock, MoveStopper, Lock, mutexVars, taskVars, routerVars,
       stopVars, TypeInv, TypeOK, RegistersTask
<1>23. ASSUME NEW s \in Stoppers, StopDelete(s) PROVE TypeInv'
  <2>1. running_tasks' \in Seq(Tasks)
    BY <1>23, RemoveTaskType DEF StopDelete, TypeInv
  <2>2. starget[s] \in Tasks
    BY <1>23, EntriesAreTasks DEF StopDelete, TypeInv
  <2> QED BY <1>23, <2>1, <2>2 DEF StopDelete, Back, MoveStopper, Unlock, mutexVars,
       taskVars, routerVars, stopVars, TypeInv, TypeOK, RegistersTask
<1>24. ASSUME NEW s \in Stoppers, StopNotFound(s) PROVE TypeInv'
  BY <1>24 DEF StopNotFound, Back, MoveStopper, Unlock, mutexVars, taskVars,
       routerVars, stopVars, TypeInv, TypeOK, RegistersTask
<1>25. CASE UNCHANGED vars
  BY <1>25 DEF vars, mutexVars, taskVars, routerVars, stopVars, TypeInv,
       TypeOK, RegistersTask
<1> QED BY <1>1, <1>2, <1>3, <1>4, <1>5, <1>6, <1>7, <1>8, <1>9, <1>10, <1>11,
     <1>12, <1>13, <1>14, <1>15, <1>16, <1>17, <1>18, <1>19, <1>20, <1>21,
     <1>22, <1>23, <1>24, <1>25
       DEF Next, RouterNext, TaskNext, StopperNext

\* Nobody enters or leaves a critical section without the mutex.
LEMMA CriticalSectionsStep == TypeInv /\ CriticalSections /\ [Next]_vars => CriticalSections'
<1> SUFFICES ASSUME TypeInv, CriticalSections, [Next]_vars PROVE CriticalSections'
  OBVIOUS
<1> USE FreeRTOSAssumption DEF FreeRTOSAssumption
<1>1. ASSUME NEW r \in Routers, RunAdmitted(r) PROVE CriticalSections'
  BY <1>1 DEF RunAdmitted, MoveRouter, mutexVars, taskVars, routerVars,
       stopVars, TypeInv, TypeOK, CriticalSections
<1>2. ASSUME NEW r \in Routers, GetProc(r) PROVE CriticalSections'
  BY <1>2 DEF GetProc, MoveRouter, mutexVars, taskVars, routerVars, stopVars,
       TypeInv, TypeOK, CriticalSections
<1>3. ASSUME NEW r \in Routers, GotProc(r) PROVE CriticalSections'
  BY <1>3 DEF GotProc, MoveRouter, mutexVars, taskVars, routerVars, stopVars,
       TypeInv, TypeOK, CriticalSections
<1>4. ASSUME NEW r \in Routers, DetachProc(r) PROVE CriticalSections'
  BY <1>4 DEF DetachProc, MoveRouter, mutexVars, taskVars, routerVars,
       stopVars, TypeInv, TypeOK, CriticalSections
<1>5. ASSUME NEW r \in Routers, DetachFails(r) PROVE CriticalSections'
  BY <1>5 DEF DetachFails, Reply, mutexVars, taskVars, routerVars, stopVars,
       TypeInv, TypeOK, CriticalSections
<1>6. ASSUME NEW r \in Routers, RunLock(r) PROVE CriticalSections'
  BY <1>6 DEF RunLock, MoveRouter, Lock, mutexVars, taskVars, routerVars,
       stopVars, TypeInv, TypeOK, CriticalSections
<1>7. ASSUME NEW r \in Routers, CreateTask(r) PROVE CriticalSections'
  BY <1>7 DEF CreateTask, MoveRouter, mutexVars, taskVars, routerVars,
       stopVars, TypeInv, TypeOK, CriticalSections
<1>8. ASSUME NEW r \in Routers, CreateFails(r) PROVE CriticalSections'
  BY <1>8 DEF CreateFails, Reply, Unlock, mutexVars, taskVars, routerVars,
       stopVars, TypeInv, TypeOK, CriticalSections
<1>9. ASSUME NEW r \in Routers, Register(r) PROVE CriticalSections'
  BY <1>9 DEF Register, Reply, Unlock, mutexVars, taskVars, routerVars,
       stopVars, TypeInv, TypeOK, CriticalSections
<1>10. ASSUME NEW t \in Tasks, LookUp(t) PROVE CriticalSections'
  BY <1>10 DEF LookUp, MoveTask, mutexVars, taskVars, routerVars, stopVars,
       TypeInv, TypeOK, CriticalSections
<1>11. ASSUME NEW t \in Tasks, LookedUp(t) PROVE CriticalSections'
  BY <1>11 DEF LookedUp, MoveTask, mutexVars, taskVars, routerVars, stopVars,
       TypeInv, TypeOK, CriticalSections
<1>12. ASSUME NEW t \in Tasks, Analyzed(t) PROVE CriticalSections'
  BY <1>12 DEF Analyzed, MoveTask, mutexVars, taskVars, routerVars, stopVars,
       TypeInv, TypeOK, CriticalSections
<1>13. ASSUME NEW t \in Tasks, StartupFails(t) PROVE CriticalSections'
  BY <1>13 DEF StartupFails, MoveTask, mutexVars, taskVars, routerVars,
       stopVars, TypeInv, TypeOK, CriticalSections
<1>14. ASSUME NEW t \in Tasks, Exec(t) PROVE CriticalSections'
  BY <1>14 DEF Exec, MoveTask, mutexVars, taskVars, routerVars, stopVars,
       TypeInv, TypeOK, CriticalSections
<1>15. ASSUME NEW t \in Tasks, CleanupLock(t) PROVE CriticalSections'
  BY <1>15 DEF CleanupLock, MoveTask, Lock, mutexVars, taskVars, routerVars,
       stopVars, TypeInv, TypeOK, CriticalSections
<1>16. ASSUME NEW t \in Tasks, Unregister(t) PROVE CriticalSections'
  BY <1>16 DEF Unregister, MoveTask, Unlock, mutexVars, taskVars, routerVars,
       stopVars, TypeInv, TypeOK, CriticalSections
<1>17. ASSUME NEW t \in Tasks, FreeResources(t) PROVE CriticalSections'
  BY <1>17 DEF FreeResources, MoveTask, mutexVars, taskVars, routerVars,
       stopVars, TypeInv, TypeOK, CriticalSections
<1>18. ASSUME NEW s \in Stoppers, StopOne(s) PROVE CriticalSections'
  BY <1>18 DEF StopOne, MoveStopper, mutexVars, taskVars, routerVars,
       stopVars, TypeInv, TypeOK, CriticalSections
<1>19. ASSUME NEW s \in Stoppers, StopAll(s) PROVE CriticalSections'
  BY <1>19 DEF StopAll, MoveStopper, mutexVars, taskVars, routerVars,
       stopVars, TypeInv, TypeOK, CriticalSections
<1>20. ASSUME NEW s \in Stoppers, StopCheck(s) PROVE CriticalSections'
  BY <1>20 DEF StopCheck, MoveStopper, mutexVars, taskVars, routerVars,
       stopVars, TypeInv, TypeOK, CriticalSections
<1>21. ASSUME NEW s \in Stoppers, StopReturn(s) PROVE CriticalSections'
  BY <1>21 DEF StopReturn, MoveStopper, mutexVars, taskVars, routerVars,
       stopVars, TypeInv, TypeOK, CriticalSections
<1>22. ASSUME NEW s \in Stoppers, StopLock(s) PROVE CriticalSections'
  BY <1>22 DEF StopLock, MoveStopper, Lock, mutexVars, taskVars, routerVars,
       stopVars, TypeInv, TypeOK, CriticalSections
<1>23. ASSUME NEW s \in Stoppers, StopDelete(s) PROVE CriticalSections'
  <2>1. starget[s] \in Tasks
    BY <1>23, EntriesAreTasks DEF StopDelete, TypeInv
  <2>2. running_tasks_mutex = s /\ spc[s] = "find"
    BY <1>23 DEF StopDelete, Back, MoveStopper, CriticalSections
  <2> QED BY <1>23, <2>1, <2>2 DEF StopDelete, Back, MoveStopper, Unlock, mutexVars,
       taskVars, routerVars, stopVars, TypeInv, TypeOK, CriticalSections
<1>24. ASSUME NEW s \in Stoppers, StopNotFound(s) PROVE CriticalSections'
  BY <1>24 DEF StopNotFound, Back, MoveStopper, Unlock, mutexVars, taskVars,
       routerVars, stopVars, TypeInv, TypeOK, CriticalSections
<1>25. CASE UNCHANGED vars
  BY <1>25 DEF vars, mutexVars, taskVars, routerVars, stopVars,
       CriticalSections
<1> QED BY <1>1, <1>2, <1>3, <1>4, <1>5, <1>6, <1>7, <1>8, <1>9, <1>10, <1>11,
     <1>12, <1>13, <1>14, <1>15, <1>16, <1>17, <1>18, <1>19, <1>20, <1>21,
     <1>22, <1>23, <1>24, <1>25
       DEF Next, RouterNext, TaskNext, StopperNext

\* What a step has to leave alone for the table to stay exact.
LEMMA TableUndisturbed ==
  ASSUME TableInv, UNCHANGED running_tasks, Live' = Live, BeingRegistered' = BeingRegistered
  PROVE  TableExact'
<1>1. Registered' = Registered
  BY DEF Registered, Entries
<1>2. Registered = Live \ BeingRegistered
  BY DEF TableInv, TableExact, Live
<1>3. Registered' = Live' \ BeingRegistered'
  BY <1>1, <1>2
<1> QED BY <1>3 DEF TableInv, TableExact, Live

\* The table lists exactly the live tasks but the one being registered.
LEMMA TableStep == TypeInv /\ CriticalSections /\ TableInv /\ [Next]_vars => TableInv'
<1> SUFFICES ASSUME TypeInv, CriticalSections, TableInv, [Next]_vars PROVE TableInv'
  OBVIOUS
<1> USE FreeRTOSAssumption DEF FreeRTOSAssumption
<1>1. ASSUME NEW r \in Routers, RunAdmitted(r) PROVE TableInv'
  <2>1. UNCHANGED running_tasks /\ Live' = Live /\ BeingRegistered' = BeingRegistered
    BY <1>1 DEF RunAdmitted, MoveRouter, mutexVars, taskVars, routerVars,
         stopVars, Live, BeingRegistered, TypeInv, TypeOK
  <2>2. RegistersLive'
    BY <1>1, <2>1 DEF RunAdmitted, MoveRouter, mutexVars, taskVars,
         routerVars, stopVars, TableInv, RegistersLive, Live, TypeInv, TypeOK
  <2> QED BY <2>1, <2>2, TableUndisturbed DEF TableInv
<1>2. ASSUME NEW r \in Routers, GetProc(r) PROVE TableInv'
  <2>1. UNCHANGED running_tasks /\ Live' = Live /\ BeingRegistered' = BeingRegistered
    BY <1>2 DEF GetProc, MoveRouter, mutexVars, taskVars, routerVars,
         stopVars, Live, BeingRegistered, TypeInv, TypeOK
  <2>2. RegistersLive'
    BY <1>2, <2>1 DEF GetProc, MoveRouter, mutexVars, taskVars, routerVars,
         stopVars, TableInv, RegistersLive, Live, TypeInv, TypeOK
  <2> QED BY <2>1, <2>2, TableUndisturbed DEF TableInv
<1>3. ASSUME NEW r \in Routers, GotProc(r) PROVE TableInv'
  <2>1. UNCHANGED running_tasks /\ Live' = Live /\ BeingRegistered' = BeingRegistered
    BY <1>3 DEF GotProc, MoveRouter, mutexVars, taskVars, routerVars,
         stopVars, Live, BeingRegistered, TypeInv, TypeOK
  <2>2. RegistersLive'
    BY <1>3, <2>1 DEF GotProc, MoveRouter, mutexVars, taskVars, routerVars,
         stopVars, TableInv, RegistersLive, Live, TypeInv, TypeOK
  <2> QED BY <2>1, <2>2, TableUndisturbed DEF TableInv
<1>4. ASSUME NEW r \in Routers, DetachProc(r) PROVE TableInv'
  <2>1. UNCHANGED running_tasks /\ Live' = Live /\ BeingRegistered' = BeingRegistered
    BY <1>4 DEF DetachProc, MoveRouter, mutexVars, taskVars, routerVars,
         stopVars, Live, BeingRegistered, TypeInv, TypeOK
  <2>2. RegistersLive'
    BY <1>4, <2>1 DEF DetachProc, MoveRouter, mutexVars, taskVars, routerVars,
         stopVars, TableInv, RegistersLive, Live, TypeInv, TypeOK
  <2> QED BY <2>1, <2>2, TableUndisturbed DEF TableInv
<1>5. ASSUME NEW r \in Routers, DetachFails(r) PROVE TableInv'
  <2>1. UNCHANGED running_tasks /\ Live' = Live /\ BeingRegistered' = BeingRegistered
    BY <1>5 DEF DetachFails, Reply, mutexVars, taskVars, routerVars, stopVars,
         Live, BeingRegistered, TypeInv, TypeOK
  <2>2. RegistersLive'
    BY <1>5, <2>1 DEF DetachFails, Reply, mutexVars, taskVars, routerVars,
         stopVars, TableInv, RegistersLive, Live, TypeInv, TypeOK
  <2> QED BY <2>1, <2>2, TableUndisturbed DEF TableInv
<1>6. ASSUME NEW r \in Routers, RunLock(r) PROVE TableInv'
  <2>1. UNCHANGED running_tasks /\ Live' = Live /\ BeingRegistered' = BeingRegistered
    BY <1>6 DEF RunLock, MoveRouter, Lock, mutexVars, taskVars, routerVars,
         stopVars, Live, BeingRegistered, TypeInv, TypeOK
  <2>2. RegistersLive'
    BY <1>6, <2>1 DEF RunLock, MoveRouter, Lock, mutexVars, taskVars,
         routerVars, stopVars, TableInv, RegistersLive, Live, TypeInv, TypeOK
  <2> QED BY <2>1, <2>2, TableUndisturbed DEF TableInv
<1>7. ASSUME NEW r \in Routers, CreateTask(r) PROVE TableInv'
  <2>1. PICK t \in Tasks :
            /\ tpc[t] = "none"
            /\ tpc' = [tpc EXCEPT ![t] = "analyze"]
            /\ rtask' = [rtask EXCEPT ![r] = t]
    BY <1>7 DEF CreateTask
  <2>2. /\ rpc[r] = "create"
        /\ rpc' = [rpc EXCEPT ![r] = "register"]
        /\ UNCHANGED running_tasks
    BY <1>7 DEF CreateTask, MoveRouter
  <2>3. Live' = Live \cup {t} /\ t \notin Live
    BY <2>1 DEF Live, TypeInv, TypeOK
  <2>4. running_tasks_mutex = r
    BY <2>2 DEF CriticalSections
  <2>5. \A q \in Routers : rpc[q] # "register"
    BY <2>2, <2>4 DEF CriticalSections
  <2>6. BeingRegistered = {}
    BY <2>5 DEF BeingRegistered
  <2>7. \A q \in Routers : rpc'[q] = "register" => q = r
    BY <2>2, <2>5 DEF TypeInv, TypeOK
  <2>8. rtask'[r] = t /\ rpc'[r] = "register"
    BY <2>1, <2>2 DEF TypeInv, TypeOK
  <2>9. BeingRegistered' = {t}
    BY <2>7, <2>8 DEF BeingRegistered
  <2>10. Registered' = Registered /\ Registered = Live
    BY <2>2, <2>6 DEF Registered, Entries, TableInv, TableExact, Live
  <2>11. Registered' = Live' \ BeingRegistered'
    BY <2>3, <2>9, <2>10
  <2>12. TableExact'
    BY <2>2, <2>11 DEF TableInv, TableExact, Live
  <2>13. RegistersLive'
    BY <2>3, <2>7, <2>8 DEF RegistersLive
  <2> QED BY <2>12, <2>13 DEF TableInv
<1>8. ASSUME NEW r \in Routers, CreateFails(r) PROVE TableInv'
  <2>1. UNCHANGED running_tasks /\ Live' = Live /\ BeingRegistered' = BeingRegistered
    BY <1>8 DEF CreateFails, Reply, Unlock, mutexVars, taskVars, routerVars,
         stopVars, Live, BeingRegistered, TypeInv, TypeOK
  <2>2. RegistersLive'
    BY <1>8, <2>1 DEF CreateFails, Reply, Unlock, mutexVars, taskVars,
         routerVars, stopVars, TableInv, RegistersLive, Live, TypeInv, TypeOK
  <2> QED BY <2>1, <2>2, TableUndisturbed DEF TableInv
<1>9. ASSUME NEW r \in Routers, Register(r) PROVE TableInv'
  <2> DEFINE t == rtask[r]
             n == Len(running_tasks)
  <2>1. t \in Tasks /\ t \in Live /\ rpc[r] = "register"
    BY <1>9 DEF Register, TypeInv, RegistersTask, TableInv, RegistersLive
  <2>2. /\ running_tasks' = Append(running_tasks, t)
        /\ rpc' = [rpc EXCEPT ![r] = "idle"]
        /\ UNCHANGED taskVars
    BY <1>9 DEF Register, Reply
  <2>3. \A q \in Routers : rpc[q] = "register" => q = r
    BY <2>1 DEF CriticalSections
  <2>4. BeingRegistered = {t}
    BY <2>1, <2>3 DEF BeingRegistered
  <2>5. \A q \in Routers : rpc'[q] # "register"
    BY <2>2, <2>3 DEF TypeInv, TypeOK
  <2>6. BeingRegistered' = {}
    BY <2>5 DEF BeingRegistered
  <2>7. Live' = Live
    BY <2>2 DEF Live, taskVars
  <2>8. running_tasks \in Seq(Tasks) /\ n \in Nat
    BY DEF TypeInv, TypeOK
  <2>9. /\ Len(running_tasks') = n + 1
        /\ running_tasks'[n + 1] = t
        /\ \A i \in 1 .. n : running_tasks'[i] = running_tasks[i]
    BY <2>2, <2>8
  <2>10. Registered = Live \ {t} /\ \A i, j \in 1 .. n : running_tasks[i] = running_tasks[j] => i = j
    BY <2>4 DEF TableInv, TableExact, Live
  <2>11. \A i \in 1 .. n : running_tasks[i] # t
    BY <2>10 DEF Registered, Entries
  <2>12. \A i, j \in 1 .. Len(running_tasks') : running_tasks'[i] = running_tasks'[j] => i = j
    <3> SUFFICES ASSUME NEW i \in 1 .. n + 1, NEW j \in 1 .. n + 1, running_tasks'[i] = running_tasks'[j]
                 PROVE  i = j
      BY <2>9
    <3>1. CASE i = n + 1
      BY <2>8, <2>9, <2>11, <3>1
    <3>2. CASE i # n + 1
      BY <2>8, <2>9, <2>10, <2>11, <3>2
    <3> QED BY <3>1, <3>2
  <2>13. Registered' = Registered \cup {t}
    <3>1. Registered' = {running_tasks'[i] : i \in 1 .. n + 1}
      BY <2>9 DEF Registered, Entries
    <3>2. Registered = {running_tasks[i] : i \in 1 .. n}
      BY DEF Registered, Entries
    <3> HIDE DEF t
    <3>3. \A i \in 1 .. n + 1 : i = n + 1 \/ i \in 1 .. n
      BY <2>8
    <3>4. 1 .. n \subseteq 1 .. n + 1 /\ n + 1 \in 1 .. n + 1
      BY <2>8
    <3> HIDE DEF n
    <3> QED BY <2>9, <3>1, <3>2, <3>3, <3>4
  <2>14. Registered' = Live' \ BeingRegistered'
    BY <2>1, <2>6, <2>7, <2>10, <2>13
  <2>15. TableExact'
    BY <2>12, <2>14 DEF TableExact, Live
  <2>16. RegistersLive'
    BY <2>5 DEF RegistersLive
  <2> QED BY <2>15, <2>16 DEF TableInv
<1>10. ASSUME NEW t \in Tasks, LookUp(t) PROVE TableInv'
  <2>1. UNCHANGED running_tasks /\ Live' = Live /\ BeingRegistered' = BeingRegistered
    BY <1>10 DEF LookUp, MoveTask, mutexVars, taskVars, routerVars, stopVars,
         Live, BeingRegistered, TypeInv, TypeOK
  <2>2. RegistersLive'
    BY <1>10, <2>1 DEF LookUp, MoveTask, mutexVars, taskVars, routerVars,
         stopVars, TableInv, RegistersLive, Live, TypeInv, TypeOK
  <2> QED BY <2>1, <2>2, TableUndisturbed DEF TableInv
<1>11. ASSUME NEW t \in Tasks, LookedUp(t) PROVE TableInv'
  <2>1. UNCHANGED running_tasks /\ Live' = Live /\ BeingRegistered' = BeingRegistered
    BY <1>11 DEF LookedUp, MoveTask, mutexVars, taskVars, routerVars,
         stopVars, Live, BeingRegistered, TypeInv, TypeOK
  <2>2. RegistersLive'
    BY <1>11, <2>1 DEF LookedUp, MoveTask, mutexVars, taskVars, routerVars,
         stopVars, TableInv, RegistersLive, Live, TypeInv, TypeOK
  <2> QED BY <2>1, <2>2, TableUndisturbed DEF TableInv
<1>12. ASSUME NEW t \in Tasks, Analyzed(t) PROVE TableInv'
  <2>1. UNCHANGED running_tasks /\ Live' = Live /\ BeingRegistered' = BeingRegistered
    BY <1>12 DEF Analyzed, MoveTask, mutexVars, taskVars, routerVars,
         stopVars, Live, BeingRegistered, TypeInv, TypeOK
  <2>2. RegistersLive'
    BY <1>12, <2>1 DEF Analyzed, MoveTask, mutexVars, taskVars, routerVars,
         stopVars, TableInv, RegistersLive, Live, TypeInv, TypeOK
  <2> QED BY <2>1, <2>2, TableUndisturbed DEF TableInv
<1>13. ASSUME NEW t \in Tasks, StartupFails(t) PROVE TableInv'
  <2>1. UNCHANGED running_tasks /\ Live' = Live /\ BeingRegistered' = BeingRegistered
    BY <1>13 DEF StartupFails, MoveTask, mutexVars, taskVars, routerVars,
         stopVars, Live, BeingRegistered, TypeInv, TypeOK
  <2>2. RegistersLive'
    BY <1>13, <2>1 DEF StartupFails, MoveTask, mutexVars, taskVars,
         routerVars, stopVars, TableInv, RegistersLive, Live, TypeInv, TypeOK
  <2> QED BY <2>1, <2>2, TableUndisturbed DEF TableInv
<1>14. ASSUME NEW t \in Tasks, Exec(t) PROVE TableInv'
  <2>1. UNCHANGED running_tasks /\ Live' = Live /\ BeingRegistered' = BeingRegistered
    BY <1>14 DEF Exec, MoveTask, mutexVars, taskVars, routerVars, stopVars,
         Live, BeingRegistered, TypeInv, TypeOK
  <2>2. RegistersLive'
    BY <1>14, <2>1 DEF Exec, MoveTask, mutexVars, taskVars, routerVars,
         stopVars, TableInv, RegistersLive, Live, TypeInv, TypeOK
  <2> QED BY <2>1, <2>2, TableUndisturbed DEF TableInv
<1>15. ASSUME NEW t \in Tasks, CleanupLock(t) PROVE TableInv'
  <2>1. UNCHANGED running_tasks /\ Live' = Live /\ BeingRegistered' = BeingRegistered
    BY <1>15 DEF CleanupLock, MoveTask, Lock, mutexVars, taskVars, routerVars,
         stopVars, Live, BeingRegistered, TypeInv, TypeOK
  <2>2. RegistersLive'
    BY <1>15, <2>1 DEF CleanupLock, MoveTask, Lock, mutexVars, taskVars,
         routerVars, stopVars, TableInv, RegistersLive, Live, TypeInv, TypeOK
  <2> QED BY <2>1, <2>2, TableUndisturbed DEF TableInv
<1>16. ASSUME NEW t \in Tasks, Unregister(t) PROVE TableInv'
  <2>1. RemoveTask(t) /\ t \in Tasks /\ UNCHANGED routerVars
    BY <1>16, EntriesAreTasks DEF Unregister, TypeInv
  <2>2. /\ \A i, j \in 1 .. Len(running_tasks') : running_tasks'[i] = running_tasks'[j] => i = j
        /\ Registered' = Registered \ {t}
    BY <2>1, RemoveTaskEffect DEF TypeInv, TableInv
  <2>3. Live' = Live \ {t}
    BY <1>16, <2>1 DEF Unregister, MoveTask, Live, TypeInv, TypeOK
  <2>4. \A r \in Routers : rpc[r] # "register"
    BY <1>16 DEF Unregister, MoveTask, CriticalSections
  <2>5. BeingRegistered = {} /\ BeingRegistered' = {}
    BY <2>1, <2>4 DEF BeingRegistered, routerVars
  <2>6. Registered' = Live' \ BeingRegistered'
    BY <2>2, <2>3, <2>5 DEF TableInv, TableExact, Live
  <2>7. TableExact'
    BY <2>2, <2>6 DEF TableExact, Live
  <2>8. RegistersLive'
    BY <2>1, <2>4 DEF routerVars, RegistersLive
  <2> QED BY <2>7, <2>8 DEF TableInv
<1>17. ASSUME NEW t \in Tasks, FreeResources(t) PROVE TableInv'
  <2>1. UNCHANGED running_tasks /\ Live' = Live /\ BeingRegistered' = BeingRegistered
    BY <1>17 DEF FreeResources, MoveTask, mutexVars, taskVars, routerVars,
         stopVars, Live, BeingRegistered, TypeInv, TypeOK
  <2>2. RegistersLive'
    BY <1>17, <2>1 DEF FreeResources, MoveTask, mutexVars, taskVars,
         routerVars, stopVars, TableInv, RegistersLive, Live, TypeInv, TypeOK
  <2> QED BY <2>1, <2>2, TableUndisturbed DEF TableInv
<1>18. ASSUME NEW s \in Stoppers, StopOne(s) PROVE TableInv'
  <2>1. UNCHANGED running_tasks /\ Live' = Live /\ BeingRegistered' = BeingRegistered
    BY <1>18 DEF StopOne, MoveStopper, mutexVars, taskVars, routerVars,
         stopVars, Live, BeingRegistered, TypeInv, TypeOK
  <2>2. RegistersLive'
    BY <1>18, <2>1 DEF StopOne, MoveStopper, mutexVars, taskVars, routerVars,
         stopVars, TableInv, RegistersLive, Live, TypeInv, TypeOK
  <2> QED BY <2>1, <2>2, TableUndisturbed DEF TableInv
<1>19. ASSUME NEW s \in Stoppers, StopAll(s) PROVE TableInv'
  <2>1. UNCHANGED running_tasks /\ Live' = Live /\ BeingRegistered' = BeingRegistered
    BY <1>19 DEF StopAll, MoveStopper, mutexVars, taskVars, routerVars,
         stopVars, Live, BeingRegistered, TypeInv, TypeOK
  <2>2. RegistersLive'
    BY <1>19, <2>1 DEF StopAll, MoveStopper, mutexVars, taskVars, routerVars,
         stopVars, TableInv, RegistersLive, Live, TypeInv, TypeOK
  <2> QED BY <2>1, <2>2, TableUndisturbed DEF TableInv
<1>20. ASSUME NEW s \in Stoppers, StopCheck(s) PROVE TableInv'
  <2>1. UNCHANGED running_tasks /\ Live' = Live /\ BeingRegistered' = BeingRegistered
    BY <1>20 DEF StopCheck, MoveStopper, mutexVars, taskVars, routerVars,
         stopVars, Live, BeingRegistered, TypeInv, TypeOK
  <2>2. RegistersLive'
    BY <1>20, <2>1 DEF StopCheck, MoveStopper, mutexVars, taskVars,
         routerVars, stopVars, TableInv, RegistersLive, Live, TypeInv, TypeOK
  <2> QED BY <2>1, <2>2, TableUndisturbed DEF TableInv
<1>21. ASSUME NEW s \in Stoppers, StopReturn(s) PROVE TableInv'
  <2>1. UNCHANGED running_tasks /\ Live' = Live /\ BeingRegistered' = BeingRegistered
    BY <1>21 DEF StopReturn, MoveStopper, mutexVars, taskVars, routerVars,
         stopVars, Live, BeingRegistered, TypeInv, TypeOK
  <2>2. RegistersLive'
    BY <1>21, <2>1 DEF StopReturn, MoveStopper, mutexVars, taskVars,
         routerVars, stopVars, TableInv, RegistersLive, Live, TypeInv, TypeOK
  <2> QED BY <2>1, <2>2, TableUndisturbed DEF TableInv
<1>22. ASSUME NEW s \in Stoppers, StopLock(s) PROVE TableInv'
  <2>1. UNCHANGED running_tasks /\ Live' = Live /\ BeingRegistered' = BeingRegistered
    BY <1>22 DEF StopLock, MoveStopper, Lock, mutexVars, taskVars, routerVars,
         stopVars, Live, BeingRegistered, TypeInv, TypeOK
  <2>2. RegistersLive'
    BY <1>22, <2>1 DEF StopLock, MoveStopper, Lock, mutexVars, taskVars,
         routerVars, stopVars, TableInv, RegistersLive, Live, TypeInv, TypeOK
  <2> QED BY <2>1, <2>2, TableUndisturbed DEF TableInv
<1>23. ASSUME NEW s \in Stoppers, StopDelete(s) PROVE TableInv'
  <2>1. RemoveTask(starget[s]) /\ starget[s] \in Tasks /\ UNCHANGED routerVars
    BY <1>23, EntriesAreTasks DEF StopDelete, TypeInv
  <2>2. /\ \A i, j \in 1 .. Len(running_tasks') : running_tasks'[i] = running_tasks'[j] => i = j
        /\ Registered' = Registered \ {starget[s]}
    BY <2>1, RemoveTaskEffect DEF TypeInv, TableInv
  <2>3. Live' = Live \ {starget[s]}
    BY <1>23, <2>1 DEF StopDelete, Back, MoveStopper, Live, TypeInv, TypeOK
  <2>4. \A r \in Routers : rpc[r] # "register"
    BY <1>23 DEF StopDelete, Back, MoveStopper, CriticalSections
  <2>5. BeingRegistered = {} /\ BeingRegistered' = {}
    BY <2>1, <2>4 DEF BeingRegistered, routerVars
  <2>6. Registered' = Live' \ BeingRegistered'
    BY <2>2, <2>3, <2>5 DEF TableInv, TableExact, Live
  <2>7. TableExact'
    BY <2>2, <2>6 DEF TableExact, Live
  <2>8. RegistersLive'
    BY <2>1, <2>4 DEF routerVars, RegistersLive
  <2> QED BY <2>7, <2>8 DEF TableInv
<1>24. ASSUME NEW s \in Stoppers, StopNotFound(s) PROVE TableInv'
  <2>1. UNCHANGED running_tasks /\ Live' = Live /\ BeingRegistered' = BeingRegistered
    BY <1>24 DEF StopNotFound, Back, MoveStopper, Unlock, mutexVars, taskVars,
         routerVars, stopVars, Live, BeingRegistered, TypeInv, TypeOK
  <2>2. RegistersLive'
    BY <1>24, <2>1 DEF StopNotFound, Back, MoveStopper, Unlock, mutexVars,
         taskVars, routerVars, stopVars, TableInv, RegistersLive, Live,
         TypeInv, TypeOK
  <2> QED BY <2>1, <2>2, TableUndisturbed DEF TableInv
<1>25. CASE UNCHANGED vars
  BY <1>25 DEF vars, mutexVars, taskVars, routerVars, stopVars, TableInv,
       TableExact, RegistersLive, Registered, Entries, BeingRegistered, Live
<1> QED BY <1>1, <1>2, <1>3, <1>4, <1>5, <1>6, <1>7, <1>8, <1>9, <1>10, <1>11,
     <1>12, <1>13, <1>14, <1>15, <1>16, <1>17, <1>18, <1>19, <1>20, <1>21,
     <1>22, <1>23, <1>24, <1>25
       DEF Next, RouterNext, TaskNext, StopperNext

\* The copy of a procedure is freed once, by its own task or by its deleter.
LEMMA ResourcesStep == TypeInv /\ ResourcesLive /\ [Next]_vars => ResourcesLive'
<1> SUFFICES ASSUME TypeInv, ResourcesLive, [Next]_vars PROVE ResourcesLive'
  OBVIOUS
<1> USE FreeRTOSAssumption DEF FreeRTOSAssumption
<1>1. ASSUME NEW r \in Routers, RunAdmitted(r) PROVE ResourcesLive'
  BY <1>1 DEF RunAdmitted, MoveRouter, mutexVars, taskVars, routerVars,
       stopVars, TypeInv, TypeOK, ResourcesLive
<1>2. ASSUME NEW r \in Routers, GetProc(r) PROVE ResourcesLive'
  BY <1>2 DEF GetProc, MoveRouter, mutexVars, taskVars, routerVars, stopVars,
       TypeInv, TypeOK, ResourcesLive
<1>3. ASSUME NEW r \in Routers, GotProc(r) PROVE ResourcesLive'
  BY <1>3 DEF GotProc, MoveRouter, mutexVars, taskVars, routerVars, stopVars,
       TypeInv, TypeOK, ResourcesLive
<1>4. ASSUME NEW r \in Routers, DetachProc(r) PROVE ResourcesLive'
  BY <1>4 DEF DetachProc, MoveRouter, mutexVars, taskVars, routerVars,
       stopVars, TypeInv, TypeOK, ResourcesLive
<1>5. ASSUME NEW r \in Routers, DetachFails(r) PROVE ResourcesLive'
  BY <1>5 DEF DetachFails, Reply, mutexVars, taskVars, routerVars, stopVars,
       TypeInv, TypeOK, ResourcesLive
<1>6. ASSUME NEW r \in Routers, RunLock(r) PROVE ResourcesLive'
  BY <1>6 DEF RunLock, MoveRouter, Lock, mutexVars, taskVars, routerVars,
       stopVars, TypeInv, TypeOK, ResourcesLive
<1>7. ASSUME NEW r \in Routers, CreateTask(r) PROVE ResourcesLive'
  BY <1>7 DEF CreateTask, MoveRouter, mutexVars, taskVars, routerVars,
       stopVars, TypeInv, TypeOK, ResourcesLive
<1>8. ASSUME NEW r \in Routers, CreateFails(r) PROVE ResourcesLive'
  BY <1>8 DEF CreateFails, Reply, Unlock, mutexVars, taskVars, routerVars,
       stopVars, TypeInv, TypeOK, ResourcesLive
<1>9. ASSUME NEW r \in Routers, Register(r) PROVE ResourcesLive'
  BY <1>9 DEF Register, Reply, Unlock, mutexVars, taskVars, routerVars,
       stopVars, TypeInv, TypeOK, ResourcesLive
<1>10. ASSUME NEW t \in Tasks, LookUp(t) PROVE ResourcesLive'
  BY <1>10 DEF LookUp, MoveTask, mutexVars, taskVars, routerVars, stopVars,
       TypeInv, TypeOK, ResourcesLive
<1>11. ASSUME NEW t \in Tasks, LookedUp(t) PROVE ResourcesLive'
  BY <1>11 DEF LookedUp, MoveTask, mutexVars, taskVars, routerVars, stopVars,
       TypeInv, TypeOK, ResourcesLive
<1>12. ASSUME NEW t \in Tasks, Analyzed(t) PROVE ResourcesLive'
  BY <1>12 DEF Analyzed, MoveTask, mutexVars, taskVars, routerVars, stopVars,
       TypeInv, TypeOK, ResourcesLive
<1>13. ASSUME NEW t \in Tasks, StartupFails(t) PROVE ResourcesLive'
  BY <1>13 DEF StartupFails, MoveTask, mutexVars, taskVars, routerVars,
       stopVars, TypeInv, TypeOK, ResourcesLive
<1>14. ASSUME NEW t \in Tasks, Exec(t) PROVE ResourcesLive'
  BY <1>14 DEF Exec, MoveTask, mutexVars, taskVars, routerVars, stopVars,
       TypeInv, TypeOK, ResourcesLive
<1>15. ASSUME NEW t \in Tasks, CleanupLock(t) PROVE ResourcesLive'
  BY <1>15 DEF CleanupLock, MoveTask, Lock, mutexVars, taskVars, routerVars,
       stopVars, TypeInv, TypeOK, ResourcesLive
<1>16. ASSUME NEW t \in Tasks, Unregister(t) PROVE ResourcesLive'
  BY <1>16 DEF Unregister, MoveTask, TypeInv, TypeOK, ResourcesLive
<1>17. ASSUME NEW t \in Tasks, FreeResources(t) PROVE ResourcesLive'
  BY <1>17 DEF FreeResources, MoveTask, mutexVars, taskVars, routerVars,
       stopVars, TypeInv, TypeOK, ResourcesLive
<1>18. ASSUME NEW s \in Stoppers, StopOne(s) PROVE ResourcesLive'
  BY <1>18 DEF StopOne, MoveStopper, mutexVars, taskVars, routerVars,
       stopVars, TypeInv, TypeOK, ResourcesLive
<1>19. ASSUME NEW s \in Stoppers, StopAll(s) PROVE ResourcesLive'
  BY <1>19 DEF StopAll, MoveStopper, mutexVars, taskVars, routerVars,
       stopVars, TypeInv, TypeOK, ResourcesLive
<1>20. ASSUME NEW s \in Stoppers, StopCheck(s) PROVE ResourcesLive'
  BY <1>20 DEF StopCheck, MoveStopper, mutexVars, taskVars, routerVars,
       stopVars, TypeInv, TypeOK, ResourcesLive
<1>21. ASSUME NEW s \in Stoppers, StopReturn(s) PROVE ResourcesLive'
  BY <1>21 DEF StopReturn, MoveStopper, mutexVars, taskVars, routerVars,
       stopVars, TypeInv, TypeOK, ResourcesLive
<1>22. ASSUME NEW s \in Stoppers, StopLock(s) PROVE ResourcesLive'
  BY <1>22 DEF StopLock, MoveStopper, Lock, mutexVars, taskVars, routerVars,
       stopVars, TypeInv, TypeOK, ResourcesLive
<1>23. ASSUME NEW s \in Stoppers, StopDelete(s) PROVE ResourcesLive'
  <2>1. starget[s] \in Tasks
    BY <1>23, EntriesAreTasks DEF StopDelete, TypeInv
  <2> QED BY <1>23, <2>1 DEF StopDelete, TypeInv, TypeOK, ResourcesLive
<1>24. ASSUME NEW s \in Stoppers, StopNotFound(s) PROVE ResourcesLive'
  BY <1>24 DEF StopNotFound, Back, MoveStopper, Unlock, mutexVars, taskVars,
       routerVars, stopVars, TypeInv, TypeOK, ResourcesLive
<1>25. CASE UNCHANGED vars
  BY <1>25 DEF vars, mutexVars, taskVars, routerVars, stopVars, ResourcesLive
<1> QED BY <1>1, <1>2, <1>3, <1>4, <1>5, <1>6, <1>7, <1>8, <1>9, <1>10, <1>11,
     <1>12, <1>13, <1>14, <1>15, <1>16, <1>17, <1>18, <1>19, <1>20, <1>21,
     <1>22, <1>23, <1>24, <1>25
       DEF Next, RouterNext, TaskNext, StopperNext

\* Nothing runs and nothing is held at the start.
LEMMA IInvInit == Init => IInv
<1> SUFFICES ASSUME Init PROVE IInv
  OBVIOUS
<1> USE FreeRTOSAssumption DEF FreeRTOSAssumption, Init
<1>1. TypeOK
  <2>1. running_tasks \in Seq(Tasks)
    OBVIOUS
  <2>2. sguard \in [Stoppers -> 0 .. LOOP_GUARD + 1]
    OBVIOUS
  <2> QED BY <2>1, <2>2 DEF TypeOK
<1>2. RegistersTask /\ CriticalSections /\ RegistersLive /\ ResourcesLive
  BY DEF RegistersTask, CriticalSections, RegistersLive, ResourcesLive
<1>3. TableExact
  <2>1. Registered = {} /\ Len(running_tasks) = 0
    BY DEF Registered, Entries
  <2>2. {t \in Tasks : tpc[t] \notin {"none", "free"}} = {}
    OBVIOUS
  <2> QED BY <2>1, <2>2 DEF TableExact
<1> QED BY <1>1, <1>2, <1>3 DEF IInv, TypeInv, TableInv

\* Each part of the invariant is kept by a step, given the parts before it.
LEMMA IInvStep == IInv /\ [Next]_vars => IInv'
  BY TypeStep, CriticalSectionsStep, TableStep, ResourcesStep DEF IInv

\* The invariant holds for ever.
THEOREM IInvHolds == Spec => []IInv
  BY IInvInit, IInvStep, PTL DEF Spec

\* Table, mutexes and places stay well typed; the loop guard is never exceeded
\* by more than the one that ends the loop.
THEOREM TypeCorrect == Spec => []TypeOK
<1>1. IInv => TypeOK
  BY DEF IInv, TypeInv
<1> QED BY <1>1, IInvHolds, PTL

\* Although tasks are deleted wherever they are and handles are used again, no
\* entry names a task that is gone and no task runs without its entry.
THEOREM TableIsExact == Spec => []TableExact
<1>1. IInv => TableExact
  BY DEF IInv, TableInv
<1> QED BY <1>1, IInvHolds, PTL

\* No use after free and no double free of a task's procedure.
THEOREM ResourcesAreLive == Spec => []ResourcesLive
<1>1. IInv => ResourcesLive
  BY DEF IInv
<1> QED BY <1>1, IInvHolds, PTL
=============================================================================
