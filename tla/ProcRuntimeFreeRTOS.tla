------------------------ MODULE ProcRuntimeFreeRTOS ------------------------
(***************************************************************************)
(* runtime/proc_runtime_FreeRTOS.c: the table of running procedure tasks   *)
(* with vTaskDelete in the place of cancel and join. A task is deleted     *)
(* wherever it is, also while it looks a called procedure up in the store, *)
(* whose mutex it then never gives back. As in ProcRuntime, what a         *)
(* procedure computes is left out. xSemaphoreTake waits for ever           *)
(* (portMAX_DELAY), so its error paths are never taken.                    *)
(***************************************************************************)
EXTENDS RuntimeTable, FiniteSets

CONSTANTS
    Tasks,                \* task handles; one is used again when its task is gone
    Routers,              \* CSP router tasks
    Stoppers,             \* application tasks that stop procedures
    MAX_PROC_CONCURRENT,
    LOOP_GUARD,           \* iterations of proc_stop_all_runtime_tasks (1000)
    NONE,                 \* no owner; an address that is no task handle
    ORPHANED              \* owned by a task that was deleted

ASSUME FreeRTOSAssumption ==
    /\ IsFiniteSet(Routers)
    /\ Routers # {}
    /\ MAX_PROC_CONCURRENT \in Nat \ {0}
    /\ LOOP_GUARD \in Nat \ {0}
    /\ NONE # ORPHANED
    /\ {NONE, ORPHANED} \cap (Tasks \cup Routers \cup Stoppers) = {}
    /\ Tasks \cap Routers = {}
    /\ Tasks \cap Stoppers = {}
    /\ Routers \cap Stoppers = {}

VARIABLES
    running_tasks_mutex,  \* its owner, or NONE
    proc_store_mutex,     \* its owner, NONE or ORPHANED
    running_tasks,        \* the array; running_tasks_count is its length
    tpc, held,            \* tasks: place, and what is allocated for each
    rpc, rtask,           \* routers in proc_runtime_run: place, new task
    spc, starget, sguard, \* stoppers: place, the handle to stop, loop guard
    halted                \* a task function returned and the port stopped everything

mutexVars == <<running_tasks_mutex, proc_store_mutex>>
taskVars == <<tpc, held>>
routerVars == <<rpc, rtask>>
stopVars == <<spc, starget, sguard>>
vars == <<mutexVars, running_tasks, taskVars, routerVars, stopVars, halted>>

TypeOK ==
    /\ running_tasks_mutex \in Tasks \cup Routers \cup Stoppers \cup {NONE}
    /\ proc_store_mutex \in Tasks \cup Routers \cup {NONE, ORPHANED}
    /\ running_tasks \in Seq(Tasks)
    /\ tpc \in [Tasks -> {"none", "analyze", "store", "exec", "finished", "cleanup", "free", "dead"}]
    /\ held \in [Tasks -> SUBSET {"proc", "analysis"}]
    /\ rpc \in [Routers -> {"idle", "get_proc", "store", "copy", "lock", "create", "register"}]
    /\ rtask \in [Routers -> Tasks \cup {NONE}]
    /\ spc \in [Stoppers -> {"idle", "check", "lock", "find"}]
    /\ starget \in [Stoppers -> Tasks \cup {NONE}]
    /\ sguard \in [Stoppers -> 0 .. LOOP_GUARD + 1]
    /\ halted \in BOOLEAN

Init ==
    /\ running_tasks_mutex = NONE
    /\ proc_store_mutex = NONE
    /\ running_tasks = <<>>
    /\ tpc = [t \in Tasks |-> "none"]
    /\ held = [t \in Tasks |-> {}]
    /\ rpc = [r \in Routers |-> "idle"]
    /\ rtask = [r \in Routers |-> NONE]
    /\ spc = [s \in Stoppers |-> "idle"]
    /\ starget = [s \in Stoppers |-> NONE]
    /\ sguard = [s \in Stoppers |-> 0]
    /\ halted = FALSE

Registered == Entries(running_tasks)

\* The first entry of task t goes, if there is one.
RemoveTask(t) ==
    IF t \in Registered
    THEN \E i \in 1 .. Len(running_tasks) :
            /\ running_tasks[i] = t
            /\ \A j \in 1 .. i - 1 : running_tasks[j] # t
            /\ running_tasks' = SwapRemove(running_tasks, i)
    ELSE UNCHANGED running_tasks

Lock(p) == running_tasks_mutex = NONE /\ running_tasks_mutex' = p
Unlock == running_tasks_mutex' = NONE

-----------------------------------------------------------------------------
(* proc_runtime_run.                                                       *)

MoveRouter(r, from, to) == rpc[r] = from /\ rpc' = [rpc EXCEPT ![r] = to]
Reply(r) == rpc' = [rpc EXCEPT ![r] = "idle"] /\ rtask' = [rtask EXCEPT ![r] = NONE]

\* The count is read without the mutex. A refused request changes nothing.
RunAdmitted(r) ==
    /\ MoveRouter(r, "idle", "get_proc")
    /\ Len(running_tasks) < MAX_PROC_CONCURRENT
    /\ UNCHANGED <<mutexVars, running_tasks, taskVars, rtask, stopVars, halted>>

GetProc(r) ==
    /\ MoveRouter(r, "get_proc", "store")
    /\ proc_store_mutex = NONE
    /\ proc_store_mutex' = r
    /\ UNCHANGED <<running_tasks_mutex, running_tasks, taskVars, rtask, stopVars, halted>>

GotProc(r) ==
    /\ MoveRouter(r, "store", "copy")
    /\ proc_store_mutex' = NONE
    /\ UNCHANGED <<running_tasks_mutex, running_tasks, taskVars, rtask, stopVars, halted>>

DetachProc(r) ==
    /\ MoveRouter(r, "copy", "lock")
    /\ UNCHANGED <<mutexVars, running_tasks, taskVars, rtask, stopVars, halted>>

\* The slot is empty, or the copy fails.
DetachFails(r) ==
    /\ rpc[r] = "copy"
    /\ Reply(r)
    /\ UNCHANGED <<mutexVars, running_tasks, taskVars, stopVars, halted>>

RunLock(r) ==
    /\ MoveRouter(r, "lock", "create")
    /\ Lock(r)
    /\ UNCHANGED <<proc_store_mutex, running_tasks, taskVars, rtask, stopVars, halted>>

CreateTask(r) ==
    /\ MoveRouter(r, "create", "register")
    /\ \E t \in Tasks :
        /\ tpc[t] = "none"
        /\ tpc' = [tpc EXCEPT ![t] = "analyze"]
        /\ held' = [held EXCEPT ![t] = {"proc"}]
        /\ rtask' = [rtask EXCEPT ![r] = t]
    /\ UNCHANGED <<mutexVars, running_tasks, stopVars, halted>>

\* Faulty: the mutex is kept.
CreateFailsLocked(r) ==
    /\ rpc[r] = "create"
    /\ Reply(r)
    /\ UNCHANGED <<mutexVars, running_tasks, taskVars, stopVars, halted>>

CreateFails(r) ==
    /\ rpc[r] = "create"
    /\ Reply(r)
    /\ Unlock
    /\ UNCHANGED <<proc_store_mutex, running_tasks, taskVars, stopVars, halted>>

Register(r) ==
    /\ rpc[r] = "register"
    /\ running_tasks' = Append(running_tasks, rtask[r])
    /\ Reply(r)
    /\ Unlock
    /\ UNCHANGED <<proc_store_mutex, taskVars, stopVars, halted>>

-----------------------------------------------------------------------------
(* runtime_task.                                                           *)

MoveTask(t, from, to) == tpc[t] = from /\ tpc' = [tpc EXCEPT ![t] = to]

\* proc_analyze looks up each procedure that is called.
LookUp(t) ==
    /\ MoveTask(t, "analyze", "store")
    /\ proc_store_mutex = NONE
    /\ proc_store_mutex' = t
    /\ UNCHANGED <<running_tasks_mutex, running_tasks, held, routerVars, stopVars, halted>>

LookedUp(t) ==
    /\ MoveTask(t, "store", "analyze")
    /\ proc_store_mutex' = NONE
    /\ UNCHANGED <<running_tasks_mutex, running_tasks, held, routerVars, stopVars, halted>>

Analyzed(t) ==
    /\ MoveTask(t, "analyze", "exec")
    /\ held' = [held EXCEPT ![t] = @ \cup {"analysis"}]
    /\ UNCHANGED <<mutexVars, running_tasks, routerVars, stopVars, halted>>

\* The two early returns. A task function must not return: depending on the
\* port the task hangs for ever, its entry in the table, or everything stops.
StartupFails(t) ==
    /\ MoveTask(t, "analyze", "dead")
    /\ held' \in {held, [held EXCEPT ![t] = @ \cup {"analysis"}]}
    /\ halted' \in BOOLEAN
    /\ UNCHANGED <<mutexVars, running_tasks, routerVars, stopVars>>

\* Faulty: the task frees its procedure before it leaves the table.
ExecThenFree(t) ==
    /\ MoveTask(t, "exec", "finished")
    /\ held' = [held EXCEPT ![t] = {}]
    /\ UNCHANGED <<mutexVars, running_tasks, routerVars, stopVars, halted>>

Exec(t) ==
    /\ MoveTask(t, "exec", "finished")
    /\ UNCHANGED <<mutexVars, running_tasks, held, routerVars, stopVars, halted>>

CleanupLock(t) ==
    /\ MoveTask(t, "finished", "cleanup")
    /\ Lock(t)
    /\ UNCHANGED <<proc_store_mutex, running_tasks, held, routerVars, stopVars, halted>>

Unregister(t) ==
    /\ MoveTask(t, "cleanup", "free")
    /\ RemoveTask(t)
    /\ Unlock
    /\ UNCHANGED <<proc_store_mutex, held, routerVars, stopVars, halted>>

\* vTaskDelete(NULL): the handle is given back, unlike a pthread's.
FreeResources(t) ==
    /\ MoveTask(t, "free", "none")
    /\ held' = [held EXCEPT ![t] = {}]
    /\ UNCHANGED <<mutexVars, running_tasks, routerVars, stopVars, halted>>

-----------------------------------------------------------------------------
(* proc_stop_runtime_task and proc_stop_all_runtime_tasks.                 *)

MoveStopper(s, from, to) == spc[s] = from /\ spc' = [spc EXCEPT ![s] = to]

\* The application stops the task with handle t.
StopOne(s) ==
    /\ MoveStopper(s, "idle", "lock")
    /\ \E t \in Tasks : starget' = [starget EXCEPT ![s] = t]
    /\ UNCHANGED <<mutexVars, running_tasks, taskVars, routerVars, sguard, halted>>

StopAll(s) ==
    /\ MoveStopper(s, "idle", "check")
    /\ sguard' = [sguard EXCEPT ![s] = 0]
    /\ starget' = [starget EXCEPT ![s] = NONE]
    /\ UNCHANGED <<mutexVars, running_tasks, taskVars, routerVars, halted>>

\* Faulty: the loop never ends at its guard.
StopCheckUnguarded(s) ==
    /\ MoveStopper(s, "check", "lock")
    /\ Len(running_tasks) > 0
    /\ sguard' = [sguard EXCEPT ![s] = @ + 1]
    /\ UNCHANGED <<mutexVars, running_tasks, taskVars, routerVars, starget, halted>>

\* What is passed on is &running_tasks[0], the address of an entry and no task.
StopCheck(s) ==
    /\ MoveStopper(s, "check", "lock")
    /\ Len(running_tasks) > 0
    /\ sguard[s] < LOOP_GUARD
    /\ sguard' = [sguard EXCEPT ![s] = @ + 1]
    /\ UNCHANGED <<mutexVars, running_tasks, taskVars, routerVars, starget, halted>>

\* Returns 0 when the guard is below its limit and -1 otherwise.
StopReturn(s) ==
    /\ MoveStopper(s, "check", "idle")
    /\ \/ Len(running_tasks) = 0 /\ UNCHANGED sguard
       \/ /\ Len(running_tasks) > 0
          /\ sguard[s] = LOOP_GUARD
          /\ sguard' = [sguard EXCEPT ![s] = @ + 1]
    /\ UNCHANGED <<mutexVars, running_tasks, taskVars, routerVars, starget, halted>>

StopLock(s) ==
    /\ MoveStopper(s, "lock", "find")
    /\ Lock(s)
    /\ UNCHANGED <<proc_store_mutex, running_tasks, taskVars, routerVars, starget, sguard, halted>>

Back(s) == MoveStopper(s, "find", IF starget[s] = NONE THEN "check" ELSE "idle")

\* Faulty: the entry of a deleted task is kept.
StopDeleteKeepingEntry(s) ==
    LET t == starget[s] IN
    /\ t \in Registered
    /\ Back(s)
    /\ tpc' = [tpc EXCEPT ![t] = "none"]
    /\ held' = [held EXCEPT ![t] = @ \ {"proc"}]
    /\ proc_store_mutex' = IF proc_store_mutex = t THEN ORPHANED ELSE proc_store_mutex
    /\ Unlock
    /\ UNCHANGED <<running_tasks, routerVars, starget, sguard, halted>>

\* vTaskDelete, wherever the task is; its analysis is not freed, and a mutex it
\* holds is not given back.
StopDelete(s) ==
    LET t == starget[s] IN
    /\ t \in Registered
    /\ Back(s)
    /\ tpc' = [tpc EXCEPT ![t] = "none"]
    /\ held' = [held EXCEPT ![t] = @ \ {"proc"}]
    /\ proc_store_mutex' = IF proc_store_mutex = t THEN ORPHANED ELSE proc_store_mutex
    /\ RemoveTask(t)
    /\ Unlock
    /\ UNCHANGED <<routerVars, starget, sguard, halted>>

StopNotFound(s) ==
    /\ starget[s] \notin Registered
    /\ Back(s)
    /\ Unlock
    /\ UNCHANGED <<proc_store_mutex, running_tasks, taskVars, routerVars, starget, sguard, halted>>

-----------------------------------------------------------------------------

RouterNext(r) ==
    \/ RunAdmitted(r) \/ GetProc(r) \/ GotProc(r) \/ DetachProc(r) \/ DetachFails(r)
    \/ RunLock(r) \/ CreateTask(r) \/ CreateFails(r) \/ Register(r)

TaskNext(t) ==
    \/ LookUp(t) \/ LookedUp(t) \/ Analyzed(t) \/ StartupFails(t) \/ Exec(t)
    \/ CleanupLock(t) \/ Unregister(t) \/ FreeResources(t)

StopperNext(s) ==
    \/ StopOne(s) \/ StopAll(s) \/ StopCheck(s) \/ StopReturn(s)
    \/ StopLock(s) \/ StopDelete(s) \/ StopNotFound(s)

Next ==
    /\ ~halted
    /\ \/ \E r \in Routers : RouterNext(r)
       \/ \E t \in Tasks : TaskNext(t)
       \/ \E s \in Stoppers : StopperNext(s)

Spec == Init /\ [][Next]_vars

\* Tasks are scheduled, and one that waits for a mutex gets it if it is given
\* back again and again. Nothing is assumed of Exec, of requests and of the
\* application, and an analysis may look up procedures as often as it likes.
Running(A) == ~halted /\ A

Fairness ==
    /\ \A r \in Routers :
        /\ SF_vars(Running(GetProc(r)))
        /\ WF_vars(Running(GotProc(r)))
        /\ WF_vars(Running(DetachProc(r) \/ DetachFails(r)))
        /\ SF_vars(Running(RunLock(r)))
        /\ WF_vars(Running(CreateTask(r) \/ CreateFails(r)))
        /\ WF_vars(Running(Register(r)))
    /\ \A t \in Tasks :
        /\ WF_vars(Running(LookedUp(t)))
        /\ SF_vars(Running(CleanupLock(t)))
        /\ WF_vars(Running(Unregister(t)))
        /\ WF_vars(Running(FreeResources(t)))
    /\ \A s \in Stoppers :
        /\ WF_vars(Running(StopCheck(s) \/ StopReturn(s)))
        /\ SF_vars(Running(StopLock(s)))
        /\ WF_vars(Running(StopDelete(s) \/ StopNotFound(s)))

FairSpec == Spec /\ Fairness

-----------------------------------------------------------------------------
(* Properties.                                                             *)

\* The table lists each task once that was created and has neither cleaned up
\* nor been deleted, but for one that its router is about to enter ("taking
\* mutex early", line 151). The handle of a task that is gone is used again, so
\* an entry that stayed would let a stopper delete somebody else's procedure.
BeingRegistered == {t \in Tasks : \E r \in Routers : rpc[r] = "register" /\ rtask[r] = t}
TableExact ==
    /\ \A i, j \in 1 .. Len(running_tasks) : running_tasks[i] = running_tasks[j] => i = j
    /\ Registered = {t \in Tasks : tpc[t] \notin {"none", "free"}} \ BeingRegistered

\* Whoever deletes a task frees its procedure, which nobody freed before and
\* nobody executes afterwards; a task that ends itself still has both to free.
ResourcesLive ==
    /\ \A t \in Tasks : tpc[t] # "none" => "proc" \in held[t]
    /\ \A t \in Tasks : tpc[t] \in {"exec", "finished", "cleanup", "free"} => "analysis" \in held[t]
    /\ \A t \in Tasks : tpc[t] = "none" => "proc" \notin held[t]

\* The only thing that can keep a router, and so all later requests, waiting for
\* ever is a task that was deleted while it held the store's mutex: calls of
\* proc_stop_all_runtime_tasks, failing tasks and full tables do not.
RequestAnswered ==
    \A r \in Routers : rpc[r] # "idle" ~> rpc[r] = "idle" \/ proc_store_mutex = ORPHANED \/ halted
=============================================================================
