---------------------------- MODULE ProcRuntime ----------------------------
(***************************************************************************)
(* The POSIX runtime of csp_proc (src/src/runtime/proc_runtime_POSIX.c):   *)
(* the table of running procedure threads, the routers that start them,    *)
(* the threads themselves from pthread_create to their last free, and the  *)
(* application threads that stop them all.                                 *)
(*                                                                         *)
(* What a procedure computes is not modelled here (see ProcExec): a thread *)
(* is analysed, executes for as long as it likes and then cleans up.       *)
(***************************************************************************)
EXTENDS RuntimeTable, FiniteSets

CONSTANTS
    Threads,              \* pthread descriptors the process can hold
    Routers,              \* CSP router threads: each runs proc_serve synchronously
    Stoppers,             \* application threads that call proc_stop_all_runtime_threads
    MAX_PROC_CONCURRENT,  \* proc_runtime.h: bound tested before a thread is started
    LOOP_GUARD,           \* iterations proc_stop_all_runtime_threads allows itself (1000)
    NONE                  \* no owner, no thread

ASSUME RuntimeAssumption ==
    /\ IsFiniteSet(Routers)
    /\ Routers # {}
    /\ MAX_PROC_CONCURRENT \in Nat \ {0}
    /\ LOOP_GUARD \in Nat \ {0}
    /\ NONE \notin Threads \cup Routers \cup Stoppers
    /\ Threads \cap Routers = {}
    /\ Threads \cap Stoppers = {}
    /\ Routers \cap Stoppers = {}

VARIABLES
    running_threads_mutex,  \* its owner, or NONE
    running_threads,        \* the array; running_threads_count is its length
    tpc,                    \* where each procedure thread is
    held,                   \* what is allocated on behalf of each thread
    rpc, rthread, reply,    \* proc_runtime_run: place, new thread, last result
    spc, sthread, sguard,   \* proc_stop_all_runtime_threads: place, handle, loop guard
    crashed                 \* the process died of a NULL dereference

threadVars == <<tpc, held>>
routerVars == <<rpc, rthread, reply>>
stopVars == <<spc, sthread, sguard>>
vars == <<running_threads_mutex, running_threads, threadVars, routerVars, stopVars, crashed>>

ThreadPlaces == {"none", "analyze", "exec", "finished", "cleanup", "free", "done",
                 "dead", "cancelled", "joined"}
RouterPlaces == {"idle", "get_proc", "lock", "create", "register"}
StopPlaces == {"idle", "check", "pick", "lock", "find", "join"}
Replies == {"none", "started", "full", "error"}

TypeOK ==
    /\ running_threads_mutex \in Threads \cup Routers \cup Stoppers \cup {NONE}
    /\ running_threads \in Seq(Threads)
    /\ tpc \in [Threads -> ThreadPlaces]
    /\ held \in [Threads -> SUBSET {"proc", "analysis"}]
    /\ rpc \in [Routers -> RouterPlaces]
    /\ rthread \in [Routers -> Threads \cup {NONE}]
    /\ reply \in [Routers -> Replies]
    /\ spc \in [Stoppers -> StopPlaces]
    /\ sthread \in [Stoppers -> Threads \cup {NONE}]
    /\ sguard \in [Stoppers -> 0 .. LOOP_GUARD + 1]
    /\ crashed \in BOOLEAN

Init ==
    /\ running_threads_mutex = NONE
    /\ running_threads = <<>>
    /\ tpc = [t \in Threads |-> "none"]
    /\ held = [t \in Threads |-> {}]
    /\ rpc = [r \in Routers |-> "idle"]
    /\ rthread = [r \in Routers |-> NONE]
    /\ reply = [r \in Routers |-> "none"]
    /\ spc = [s \in Stoppers |-> "idle"]
    /\ sthread = [s \in Stoppers |-> NONE]
    /\ sguard = [s \in Stoppers |-> 0]
    /\ crashed = FALSE

-----------------------------------------------------------------------------
(* The table. *)

Registered == Entries(running_threads)

\* The loop over the array: the first entry of thread t goes, if there is one.
RemoveThread(t) ==
    IF t \in Registered
    THEN \E i \in 1 .. Len(running_threads) :
            /\ running_threads[i] = t
            /\ \A j \in 1 .. i - 1 : running_threads[j] # t
            /\ running_threads' = SwapRemove(running_threads, i)
    ELSE UNCHANGED running_threads

Lock(p) == running_threads_mutex = NONE /\ running_threads_mutex' = p
Unlock == running_threads_mutex' = NONE

-----------------------------------------------------------------------------
(* proc_runtime_run, called by a router for a run request.                 *)

Reply(r, result) ==
    /\ rpc' = [rpc EXCEPT ![r] = "idle"]
    /\ rthread' = [rthread EXCEPT ![r] = NONE]
    /\ reply' = [reply EXCEPT ![r] = result]

\* Faulty variants, one plausible slip each: the runs show that the properties
\* notice them.
\* The limit is off by one.
RunAdmittedAtLimit(r) ==
    /\ rpc[r] = "idle"
    /\ Len(running_threads) <= MAX_PROC_CONCURRENT
    /\ rpc' = [rpc EXCEPT ![r] = "get_proc"]
    /\ reply' = [reply EXCEPT ![r] = "none"]
    /\ UNCHANGED <<running_threads_mutex, running_threads, threadVars, rthread, stopVars, crashed>>
\* The mutex is not taken before the thread is created.
RunWithoutLock(r) ==
    /\ rpc[r] = "lock"
    /\ rpc' = [rpc EXCEPT ![r] = "create"]
    /\ UNCHANGED <<running_threads_mutex, running_threads, threadVars, rthread, reply, stopVars, crashed>>
\* The error path keeps the mutex.
CreateFailsLocked(r) ==
    /\ rpc[r] = "create"
    /\ Reply(r, "error")
    /\ UNCHANGED <<running_threads_mutex, running_threads, threadVars, stopVars, crashed>>

\* The count is read without the mutex.
RunRefused(r) ==
    /\ rpc[r] = "idle"
    /\ Len(running_threads) >= MAX_PROC_CONCURRENT
    /\ Reply(r, "full")
    /\ UNCHANGED <<running_threads_mutex, running_threads, threadVars, stopVars, crashed>>

RunAdmitted(r) ==
    /\ rpc[r] = "idle"
    /\ Len(running_threads) < MAX_PROC_CONCURRENT
    /\ rpc' = [rpc EXCEPT ![r] = "get_proc"]
    /\ reply' = [reply EXCEPT ![r] = "none"]
    /\ UNCHANGED <<running_threads_mutex, running_threads, threadVars, rthread, stopVars, crashed>>

\* get_proc finds a procedure with instructions and it is copied off the store ...
DetachProc(r) ==
    /\ rpc[r] = "get_proc"
    /\ rpc' = [rpc EXCEPT ![r] = "lock"]
    /\ UNCHANGED <<running_threads_mutex, running_threads, threadVars, rthread, reply, stopVars, crashed>>

\* ... or the slot is empty, its procedure is empty, or the copy fails.
DetachFails(r) ==
    /\ rpc[r] = "get_proc"
    /\ Reply(r, "error")
    /\ UNCHANGED <<running_threads_mutex, running_threads, threadVars, stopVars, crashed>>

RunLock(r) ==
    /\ rpc[r] = "lock"
    /\ Lock(r)
    /\ rpc' = [rpc EXCEPT ![r] = "create"]
    /\ UNCHANGED <<running_threads, threadVars, rthread, reply, stopVars, crashed>>

\* A descriptor that was never used, or one given back by pthread_join.
CreateThread(r) ==
    /\ rpc[r] = "create"
    /\ \E t \in Threads :
        /\ tpc[t] \in {"none", "joined"}
        /\ tpc' = [tpc EXCEPT ![t] = "analyze"]
        /\ held' = [held EXCEPT ![t] = {"proc"}]
        /\ rthread' = [rthread EXCEPT ![r] = t]
    /\ rpc' = [rpc EXCEPT ![r] = "register"]
    /\ UNCHANGED <<running_threads_mutex, running_threads, reply, stopVars, crashed>>

\* pthread_create fails: the copy is freed and the mutex released.
CreateFails(r) ==
    /\ rpc[r] = "create"
    /\ Unlock
    /\ Reply(r, "error")
    /\ UNCHANGED <<running_threads, threadVars, stopVars, crashed>>

Register(r) ==
    /\ rpc[r] = "register"
    /\ running_threads' = Append(running_threads, rthread[r])
    /\ Unlock
    /\ Reply(r, "started")
    /\ UNCHANGED <<threadVars, stopVars, crashed>>

-----------------------------------------------------------------------------
(* runtime_thread.                                                         *)

MoveThread(t, from, to) == tpc[t] = from /\ tpc' = [tpc EXCEPT ![t] = to]

Analyze(t) ==
    /\ MoveThread(t, "analyze", "exec")
    /\ held' = [held EXCEPT ![t] = @ \cup {"analysis"}]
    /\ UNCHANGED <<running_threads_mutex, running_threads, routerVars, stopVars, crashed>>

\* The three early returns: no memory for the analysis, the analysis fails,
\* pthread_key_create fails. Nothing is freed and the table entry stays.
StartupFails(t) ==
    /\ MoveThread(t, "analyze", "dead")
    /\ \E analysis \in {{}, {"analysis"}} :
            held' = [held EXCEPT ![t] = @ \cup analysis]
    /\ UNCHANGED <<running_threads_mutex, running_threads, routerVars, stopVars, crashed>>

\* proc_instructions_exec returns, whatever its result.
Exec(t) ==
    /\ MoveThread(t, "exec", "finished")
    /\ UNCHANGED <<running_threads_mutex, running_threads, held, routerVars, stopVars, crashed>>

\* pthread_mutex_lock is no cancellation point: a cancelled thread waits too.
CleanupLock(t) ==
    /\ MoveThread(t, "finished", "cleanup")
    /\ Lock(t)
    /\ UNCHANGED <<running_threads, held, routerVars, stopVars, crashed>>

\* Faulty: the mutex is kept.
UnregisterLocked(t) ==
    /\ MoveThread(t, "cleanup", "free")
    /\ RemoveThread(t)
    /\ UNCHANGED <<running_threads_mutex, held, routerVars, stopVars, crashed>>

Unregister(t) ==
    /\ MoveThread(t, "cleanup", "free")
    /\ RemoveThread(t)
    /\ Unlock
    /\ UNCHANGED <<held, routerVars, stopVars, crashed>>

\* The thread exits; nobody joins or detaches it, so its descriptor stays taken.
FreeResources(t) ==
    /\ MoveThread(t, "free", "done")
    /\ held' = [held EXCEPT ![t] = {}]
    /\ UNCHANGED <<running_threads_mutex, running_threads, routerVars, stopVars, crashed>>

\* A pending cancellation takes effect at a cancellation point: the printf of
\* the analysis, or a sleep or an I/O wait of the execution.
Cancelled(t) ==
    /\ \E s \in Stoppers : spc[s] = "join" /\ sthread[s] = t
    /\ tpc[t] \in {"analyze", "exec"}
    /\ tpc' = [tpc EXCEPT ![t] = "cancelled"]
    /\ held' = [held EXCEPT ![t] = {"proc", "analysis"}]
    /\ UNCHANGED <<running_threads_mutex, running_threads, routerVars, stopVars, crashed>>

-----------------------------------------------------------------------------
(* proc_stop_all_runtime_threads and proc_stop_runtime_thread.             *)

MoveStopper(s, from, to) == spc[s] = from /\ spc' = [spc EXCEPT ![s] = to]

StopAll(s) ==
    /\ MoveStopper(s, "idle", "check")
    /\ sguard' = [sguard EXCEPT ![s] = 0]
    /\ UNCHANGED <<running_threads_mutex, running_threads, threadVars, routerVars, sthread, crashed>>

\* Faulty variants. The loop guard is not tested.
StopCheckUnguarded(s) ==
    /\ Len(running_threads) > 0
    /\ MoveStopper(s, "check", "pick")
    /\ sguard' = [sguard EXCEPT ![s] = @ + 1]
    /\ sthread' = [sthread EXCEPT ![s] = running_threads[1]]
    /\ UNCHANGED <<running_threads_mutex, running_threads, threadVars, routerVars, crashed>>
\* The procedure is freed before the thread is joined.
StopCancelFreeing(s) ==
    /\ sthread[s] \in Registered
    /\ MoveStopper(s, "find", "join")
    /\ held' = [held EXCEPT ![sthread[s]] = @ \ {"proc"}]
    /\ UNCHANGED <<running_threads_mutex, running_threads, tpc, routerVars, sthread, sguard, crashed>>

\* The count and the array pointer are read without the mutex. The handle in
\* the block the pointer designates now is remembered: a later realloc may
\* move the array and leave the stopper reading the old block.
StopCheck(s) ==
    /\ Len(running_threads) > 0
    /\ sguard[s] < LOOP_GUARD
    /\ MoveStopper(s, "check", "pick")
    /\ sguard' = [sguard EXCEPT ![s] = @ + 1]
    /\ sthread' = [sthread EXCEPT ![s] = running_threads[1]]
    /\ UNCHANGED <<running_threads_mutex, running_threads, threadVars, routerVars, crashed>>

\* Returns 0 when the guard is below its limit and -1 otherwise.
StopReturn(s) ==
    /\ \/ Len(running_threads) = 0 /\ UNCHANGED sguard
       \/ /\ Len(running_threads) > 0
          /\ sguard[s] = LOOP_GUARD
          /\ sguard' = [sguard EXCEPT ![s] = @ + 1]
    /\ MoveStopper(s, "check", "idle")
    /\ sthread' = [sthread EXCEPT ![s] = NONE]
    /\ UNCHANGED <<running_threads_mutex, running_threads, threadVars, routerVars, crashed>>

\* running_threads[0].thread, read without the mutex: the handle of the old
\* block, the current first entry, or, while another thread is changing the
\* array, a value that is no handle at all.
StopPick(s) ==
    /\ MoveStopper(s, "pick", "lock")
    /\ \E h \in {sthread[s]}
                \cup (IF running_threads = <<>> THEN {} ELSE {running_threads[1]})
                \cup (IF running_threads_mutex = NONE THEN {} ELSE {NONE}) :
            sthread' = [sthread EXCEPT ![s] = h]
    /\ UNCHANGED <<running_threads_mutex, running_threads, threadVars, routerVars, sguard, crashed>>

\* realloc to size 0 left a NULL array: the read is a NULL dereference.
StopPickNull(s) ==
    /\ spc[s] = "pick"
    /\ running_threads = <<>>
    /\ crashed' = TRUE
    /\ UNCHANGED <<running_threads_mutex, running_threads, threadVars, routerVars, stopVars>>

StopLock(s) ==
    /\ MoveStopper(s, "lock", "find")
    /\ Lock(s)
    /\ UNCHANGED <<running_threads, threadVars, routerVars, sthread, sguard, crashed>>

\* Found: pthread_cancel, then pthread_join with the mutex still held.
StopCancel(s) ==
    /\ sthread[s] \in Registered
    /\ MoveStopper(s, "find", "join")
    /\ UNCHANGED <<running_threads_mutex, running_threads, threadVars, routerVars, sthread, sguard, crashed>>

StopNotFound(s) ==
    /\ sthread[s] \notin Registered
    /\ MoveStopper(s, "find", "check")
    /\ Unlock
    /\ UNCHANGED <<running_threads, threadVars, routerVars, sthread, sguard, crashed>>

\* pthread_join returns; the stopper frees the procedure and removes the entry.
StopJoin(s) ==
    LET t == sthread[s] IN
    /\ MoveStopper(s, "join", "check")
    /\ tpc[t] \in {"cancelled", "dead", "done"}
    /\ tpc' = [tpc EXCEPT ![t] = "joined"]
    /\ held' = [held EXCEPT ![t] = @ \ {"proc"}]
    /\ RemoveThread(t)
    /\ Unlock
    /\ UNCHANGED <<routerVars, sthread, sguard, crashed>>

-----------------------------------------------------------------------------

RouterNext(r) ==
    \/ RunRefused(r) \/ RunAdmitted(r) \/ DetachProc(r) \/ DetachFails(r)
    \/ RunLock(r) \/ CreateThread(r) \/ CreateFails(r) \/ Register(r)

ThreadNext(t) ==
    \/ Analyze(t) \/ StartupFails(t) \/ Exec(t) \/ CleanupLock(t)
    \/ Unregister(t) \/ FreeResources(t) \/ Cancelled(t)

StopperNext(s) ==
    \/ StopAll(s) \/ StopCheck(s) \/ StopReturn(s) \/ StopPick(s) \/ StopPickNull(s)
    \/ StopLock(s) \/ StopCancel(s) \/ StopNotFound(s) \/ StopJoin(s)

Next ==
    /\ ~crashed
    /\ \/ \E r \in Routers : RouterNext(r)
       \/ \E t \in Threads : ThreadNext(t)
       \/ \E s \in Stoppers : StopperNext(s)

Spec == Init /\ [][Next]_vars

\* Threads are scheduled: a step that stays enabled is taken, and a thread
\* that waits for a mutex which is released again and again gets it at last.
\* Nothing is assumed of Exec (a procedure may run for ever), of the requests
\* that arrive, or of the calls of the application.
Alive(A) == ~crashed /\ A

Fairness ==
    /\ \A r \in Routers :
        /\ WF_vars(Alive(DetachProc(r) \/ DetachFails(r)))
        /\ SF_vars(Alive(RunLock(r)))
        /\ WF_vars(Alive(CreateThread(r) \/ CreateFails(r)))
        /\ WF_vars(Alive(Register(r)))
    /\ \A t \in Threads :
        /\ WF_vars(Alive(Analyze(t) \/ StartupFails(t)))
        /\ SF_vars(Alive(CleanupLock(t)))
        /\ WF_vars(Alive(Unregister(t)))
        /\ WF_vars(Alive(FreeResources(t)))
        /\ WF_vars(Alive(Cancelled(t)))
    /\ \A s \in Stoppers :
        /\ WF_vars(Alive(StopCheck(s) \/ StopReturn(s)))
        /\ WF_vars(Alive(StopPick(s) \/ StopPickNull(s)))
        /\ SF_vars(Alive(StopLock(s)))
        /\ WF_vars(Alive(StopCancel(s) \/ StopNotFound(s)))
        /\ WF_vars(Alive(StopJoin(s)))

FairSpec == Spec /\ Fairness
-----------------------------------------------------------------------------
(* Properties.                                                             *)

Past == {r \in Routers : rpc[r] # "idle"}

\* The bound of line 120 is tested before the mutex is taken, so every router
\* can be past the test at once: the table holds at most MAX_PROC_CONCURRENT
\* threads and one more for each router but the first. Exactly the limit of
\* proc_runtime.h when a single router serves the requests.
TableBound == Len(running_threads) <= MAX_PROC_CONCURRENT + Cardinality(Routers) - 1

\* Whoever is inside a critical section of running_threads_mutex owns it, so
\* no two of routers, finishing threads and stoppers are in theirs at once.
CriticalSections ==
    /\ \A r \in Routers : rpc[r] \in {"create", "register"} <=> running_threads_mutex = r
    /\ \A t \in Threads : tpc[t] = "cleanup" <=> running_threads_mutex = t
    /\ \A s \in Stoppers : spc[s] \in {"find", "join"} <=> running_threads_mutex = s

\* A thread that was created and has not cleaned up is in the table, unless
\* the router that created it is just about to enter it ...
Unregistered == {"none", "free", "done", "joined"}
BeingRegistered == {t \in Threads : \E r \in Routers : rpc[r] = "register" /\ rthread[r] = t}
\* ... and the table lists no thread twice and no thread that is gone. This is
\* what "taking mutex early" (line 144) is for: a thread that finishes at once
\* still finds its entry when it cleans up.
TableExact ==
    /\ \A i, j \in 1 .. Len(running_threads) : running_threads[i] = running_threads[j] => i = j
    /\ Registered = {t \in Threads : tpc[t] \notin Unregistered} \ BeingRegistered

\* The copy of the procedure outlives its execution and is freed once: it is
\* allocated while the thread may execute it, when the thread is about to free
\* it and when a stopper is; a finished thread's analysis is there to free too.
ResourcesLive ==
    /\ \A t \in Threads : tpc[t] \in {"analyze", "exec", "cancelled", "dead"} => "proc" \in held[t]
    /\ \A t \in Threads : tpc[t] \in {"exec", "finished", "cleanup", "free"} =>
                            held[t] = {"proc", "analysis"}
    /\ \A s \in Stoppers : spc[s] = "join" => "proc" \in held[sthread[s]]

\* A stopper only waits for a thread whose entry it found, and that thread
\* cannot leave the table behind its back.
JoinsRegistered == \A s \in Stoppers : spc[s] = "join" => sthread[s] \in Registered

\* A thread leaves the table through its own cleanup or because a stopper
\* joined it, never because another thread's entry was removed.
OnlyOwnEntryRemoved ==
    [][\A t \in Registered \ Registered' :
            \/ tpc[t] = "cleanup" /\ tpc'[t] = "free"
            \/ \E s \in Stoppers : sthread[s] = t /\ tpc'[t] = "joined"]_vars

\* A started procedure whose execution returned is eventually cleaned up.
FinishedIsFreed == \A t \in Threads : tpc[t] = "finished" ~> tpc[t] = "done"

\* A run request is eventually answered.
RequestAnswered == \A r \in Routers : rpc[r] # "idle" ~> rpc[r] = "idle"

-----------------------------------------------------------------------------
(* What the documentation says and the code does not do.                   *)

\* proc_stop_runtime_thread returns "0 on success, -1 on failure" (lines 36-37): it
\* returns. Violated when the thread it joins waits for the mutex it holds.
StopReturns == \A s \in Stoppers : spc[s] = "join" ~> spc[s] # "join"
=============================================================================
