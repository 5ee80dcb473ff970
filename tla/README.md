# TLA+ models of csp_proc

csp_proc lets a spacecraft operator write small *procedures* on the command
line, store them in numbered slots on a CSP node and run them there, several at
a time. This directory holds TLA+ modules that model the program, the TLC
configurations that check them on small instances, and proofs that TLAPS checks
for every value of the constants. Paths such as `proc_runtime_POSIX.c` are below
`src/src`; a comment in a module gives the line where it matters.
`PROJECT.json` maps every definition that models code to the lines it models.

## The system

| Component | State | Operations | Talks to |
|---|---|---|---|
| Client (`proc_client.c`) | one connection per call | delete, pull, push, slots and run requests, each one `proc_transaction` | server, by CSP packets |
| Server (`proc_server.c`) | none | `proc_serve`, one handler per request, in the router thread that received the packet | store, runtime |
| Store (`store/*.c`) | `proc_store[]`, `proc_store_mutex` | `set_proc`, `delete_proc`, `get_proc`, `get_proc_slots`, reset, init, destroy | called by server, runtime and analysis, from any thread |
| Runtime (`runtime/proc_runtime_*.c`) | the table of running threads, its mutex, the depth key | `proc_runtime_run`, `runtime_thread`, stop one, stop all | store, analysis, executor, platform threads |
| Analysis (`proc_analyze.c`) | the graph of analyses of one thread | `proc_analyze`, `free_proc_analysis` | reads the store |
| Executor (`runtime/proc_runtime_instructions_{POSIX,FreeRTOS}.c`) | per call: position, if-else flag, depth; per thread: the depth in thread-specific storage | `proc_instructions_exec`, `proc_runtime_block` | instruction handlers |
| Handlers (`runtime/proc_runtime_instructions_common.c`) | parameters, local and remote | ifelse, set, unop, binop, call | libparam, executor (a call is a recursion) |
| Packing (`proc_pack.c`) | none | size, pack, unpack, copy, free | client, server, runtime |
| Slash commands (`slash/slash_csp_proc.c`) | `current_procedure` | new, pop, list, pull, push, ... | client |
| Platform (`platform/*.c`) | mutexes, heap | wrappers | operating system |

What is hard in it:

- *Concurrency.* Router threads, procedure threads and the threads that stop
  them share the thread table; routers and procedure threads share the store.
  Some reads are made without the mutex, pointers outlive the mutex they were
  read under, and a join happens inside a critical section.
- *Failure.* Startup, allocation, packing and nested analysis fail half-way;
  packets are lost, and nobody sends them again.
- *Control.* Tail calls rewrite the running frame; ifelse skips one of the next
  two instructions by a flag that survives an instruction; depth must be
  restored on every path; call graphs have cycles.
- *Limits.* Concurrent procedures, recursion depth, packet size, slot counts.

What makes the parts correct: the table lists exactly the threads that run, and
every copy is freed once, after its last use (runtime); a procedure does what its
instructions say, within the depth, and ends unless it loops (executor); a result
is computed from values its operands had, and a block goes on after its condition
was met (handlers); every call finds its analysis, and the graph is freed completely (analysis); a request
takes effect at one instant, at most once, and is answered truthfully, and a
stored procedure stays until it is deleted (server and store); the procedure on
the command line is what the user edited, and owns its strings alone (commands).

## The modules

| Module | Models |
|---|---|
| `RuntimeTable` | the array of running threads or tasks |
| `ProcRuntime` | the POSIX runtime: routers in `proc_runtime_run`, procedure threads, stoppers |
| `ProcRuntime_proofs` | theorems about it |
| `ProcRuntimeFreeRTOS` | the FreeRTOS runtime: the same with tasks that are deleted wherever they are |
| `ProcRuntimeFreeRTOS_proofs` | theorems about it |
| `ProcProgram` | procedures, reduced to their control, and what the analysis of one says: its tail calls, and the calls it resolves if it failed half-way |
| `ProcSemantics` | what a procedure means: a to-do list without frames and flags (abstract) |
| `ProcExec` | the executor, shown to implement `ProcSemantics` |
| `ProcExec_proofs` | theorems about it |
| `ProcOperands` | typed values: parsing, operating, comparing, writing back |
| `ProcHandlers` | set, unop, binop, ifelse and block, on parameters that threads and nodes share |
| `ProcHandlers_proofs` | theorems about it, and lemmas on powers, division and the operators of `ProcOperands` |
| `ProcAnalyze` | `proc_analyze` and `free_proc_analysis` on a changing store |
| `ProcAnalyze_proofs` | theorems about it: types, what is analyzed, what is freed, and that every call has its analysis |
| `SlotStore` | what the server promises its clients: atomic slots (abstract) |
| `ProcService` | clients, network, server and store, shown to implement `SlotStore` |
| `ProcService_proofs` | theorems about it, for any number of routers; with one router it implements `SlotStore` |
| `ProcPack` | `proc_pack.c` by fields: what each of its functions measures, writes, reads, frees and copies |
| `ProcHeap` | procedures whose strings have addresses: duplicating, copying, freeing |
| `ProcMemory` | where the strings of procedures live on the server |
| `ProcMemory_proofs` | theorems about it |
| `ProcEditor` | what the commands promise their user: a sequence that is edited (abstract) |
| `ProcSlash` | the commands and their memory, shown to implement `ProcEditor` |
| `ProcSlash_proofs` | theorems about it, the refinement among them |
| `MC...` | small instances for TLC |

The composition is by layers. `ProcMemory` has the handlers of `ProcService` once
more, one instruction at a time and with the memory they use. `ProcService` contains the store and takes a run
request to its answer; `ProcRuntime` is what happens inside that request and
afterwards; `ProcAnalyze` and `ProcExec` are the steps `Analyze` and `Exec` of
one thread of `ProcRuntime`; `ProcProgram` is shared by the last two, and
`ProcHandlers` is what an instruction does inside one step of `ProcExec`. `ProcHeap`
serves `ProcMemory` and `ProcSlash`, and `RuntimeTable` both runtimes. Operators
whose comment begins with *Faulty* are not used by a specification: each is a
plausible slip in the code, and putting it in the place of the definition that
follows it makes one property fail, which shows that the property depends on the
code.

### `ProcRuntime`

`running_threads` is the array (its length is `running_threads_count`),
`running_threads_mutex` the owner of the mutex. `rpc`, `tpc` and `spc` say where
each router, procedure thread and stopper is; there is one place between any two
accesses to shared state, so all interleavings of the code's accesses are
behaviours. The unlocked reads are steps of their own: the test of the limit
(`RunRefused`, `RunAdmitted`), the test of the count (`StopCheck`) and the read of
the first entry (`StopPick`, which reads while others write and may get the entry
of the old block, of the new one, or no handle at all; `StopPickNull` is the read
through the NULL that `realloc(.., 0)` leaves, after which the process is dead).
`held` is what is allocated for a thread: its copy of the procedure and its
analysis. `StartupFails` stands for the three early returns of `runtime_thread`,
`Exec` for everything a procedure computes. A cancelled thread ends at a
cancellation point only (`Cancelled`); waiting for a mutex is none.

### `ProcRuntimeFreeRTOS`

As above with tasks for threads, and three differences. `vTaskDelete` (`StopDelete`)
takes a task away at once, wherever it is, and its handle is used again. A task may
be in the middle of a look-up of its analysis and own `proc_store_mutex`, which is
then owned by nobody for ever (`ORPHANED`); the store's mutex is therefore a
variable of this module, and routers take it too. And `proc_stop_all_runtime_tasks`
passes the address of the first entry, which is no handle (`StopCheck` leaves
`starget` at `NONE`), so that `StopNotFound` is all that ever follows, until the guard
ends the loop. A task function that returns (`StartupFails`) is an error whose
effect depends on the port: the task hangs, or everything stops (`halted`).

### `ProcProgram`, `ProcSemantics`, `ProcExec`

An instruction is one of op (set, unop, binop), block, ifelse, noop and call.
`ProcSemantics` keeps a list of positions to perform: a call is replaced by the
body it names, an ifelse by one of its two clauses. `ProcExec` has the frames of
`proc_instructions_exec` with the C variables `i`, `_if_else_flag` and
`recursion_depth`, and the thread-specific values under each key. `TailCall` and
`NestedCall` are the two branches of `proc_runtime_call`. The positions start at
1, so the code's `*i = -1` before an increment is `i = 1`. The refinement mapping
`Todo` reads, from the innermost frame outwards, the instructions a frame has
left: the one its flag selects, then all that are no clause of an ifelse.
`KeyReplaced` is another thread's `pthread_key_create` on the global key. With
`MaxKey = 1` the module is the FreeRTOS executor, whose storage index is fixed.
Procedures are well-formed: README.md forbids an ifelse in the clauses of another.

`analysis` says where the analysis of each slot stopped. That of the procedure that is
run has succeeded (`runtime_thread` would not go on), but that of a called one may have
failed, at a call of an empty slot or for want of memory, and line 149 of
`proc_analyze.c` ignores it. Calls that it did not come to are not in its list:
`proc_runtime_call` returns "procedure not found" (`CallNotFound`), unless an earlier
call names the same slot. The call at which it failed is listed without a sub-analysis,
so that memory that was never written is followed (`CallWild`), which ends a run in
`undefined`. The `Root` is the copy that `proc_runtime_run` made; no call names it.

### `ProcOperands`, `ProcHandlers`

`ProcOperands` has the four tables of `proc_runtime_instructions_common.c`: how a
parameter of each type becomes an operand, what each operator does to operands of
each kind, how operands compare, and how many bits of the result are written back.
Widths are constants, so that TLC can use small ones with the same order. The value
of a float is left open: whatever depends on it may come out either way.

`ProcHandlers` is the handlers as the threads of procedures run them. `memory` is the
list of parameters of this node, those of other nodes included, of which it holds
copies; `peer` is what those really are. `proc_fetch_param` pulls a copy in two steps,
the other node's answer (`PullServed`) and its arrival in the shared copy
(`PullApplied`), and reads the copy in a third (`Parse`), so another thread's pull or
acknowledged push may come in between. ifelse fetches each operand twice (`Look`
is the first time), and looks at the second one also if the first one was not found
(`LooksOn`), so that its copy is new in spite of the failure. A push is a request that may be lost, served late, or served
without its answer arriving (`PushTimesOut`). `left` is the time until the deadline
of a block, which passes wherever the block is (`Tick`); the time is tested once
before each poll and once after the last one (`End`). `seen` is a history variable:
the values each operand has had since the instruction or the poll began.

Facts of the code that a reader may not expect, and that the modules contain: binop
stores its result on the node of the instruction, and not on node 0 (see
below); the result has the type of the first operand, and a negative one
stored in a wider signed parameter becomes a large positive one; `!` works on UINT8
and UINT16 alone, because line 541 compares the type of a parameter with the number
of an operand type; a comparison of two kinds in a block is polled until the timeout.

### `ProcAnalyze`

`nodes` are the `proc_analysis_t` in the order of their allocation, `analyses` is
the configuration that remembers the analysis of each slot, and `calls` is the C
stack of the recursion, first of the analysis and then of the freeing. The called
procedures are read from the store, which a router may empty at any moment. A
nested failure is ignored, as at line 149, and remembered in `failed`. Reading the
mark of a freed analysis is recorded in `stale`; what is read is either the old
mark or anything else, after which the model stops (`undefined`). Allocations
fail in `AnalyzeCallFails` and `AnalyzeNoMemory`; a failing `realloc` is left out.

### `SlotStore`, `ProcService`

A packet is a record with the identity of its transaction: every transaction has
a connection of its own, so a late reply never reaches a later call. The
network loses and reorders packets; libcsp does not duplicate or resend them.
Each store operation is one step, because it holds the mutex throughout, except
for the pull: `get_proc` returns a pointer (`ServePullFound`) and the procedure is
packed later (`PackPull`); when the slot was written in between (`disturbed`) the
result is the old procedure, the new one, a mixture (`TORN`), or an error because what
is there now does not fit. A procedure that
does not fit is sent as what the buffer held before (`Oversized`).
In `SlotStore` a request takes effect in a single step some time after it was
made, or never.

### `ProcPack`, `ProcMemory`

`proc_pack.c` consists of five functions with a switch over the instruction types
each; `ProcPack` has one table for each switch. A packet is the sequence of its
values: the number of instructions, then node, type and fields of each. Numbers are
not split into bytes, and a string is known by its length. `ProcMemory` runs these
tables in the handlers: `heap` is what `proc_strdup` allocated, `store`, `copies` and
`job` hold procedures with addresses. Allocating the strings of one instruction is
one step, and an address is used again after it was freed. A router that reads a
slot which is written meanwhile is `disturbed`; it goes on with what it finds, or
`Torn` reads what was freed. Reading freed or unwritten memory sets `undefined` and
ends the behaviour. A procedure that does not fit is sent as what a buffer held:
another procedure, or one with an unknown type (`Mangled`). `proc_strdup` does not
fail in the model (the code does not check it), and `Threads` bounds the copies.

### `ProcHeap`, `ProcEditor`, `ProcSlash`

`ProcHeap` is the part of `ProcMemory` that the commands need too. `ProcSlash` has one
action per command, since one thread runs them, but for the removal of an instruction
from the middle: it frees the instruction, then copies each one behind it over the one
before (`PopShift`, once per instruction), and in between the procedure has a place
whose strings are freed or moved (`shift`). A command line is a record of its words;
`BlockArguments` and its siblings are the order in which each command reads them.
A refused line (`AddRefused`) leaves what was duplicated before the refusal. The
number behind `proc pop` is any of `Indexes` and reduced to a byte (`Step`), as the slot
of a call is (`Argument`). `ProcEditor` knows nothing of bytes: a number up to
`MAX_INSTRUCTIONS` names one instruction (`Pop`), a larger one may remove any
(`PopAnother`), and a line with such a slot may stand for several instructions
(`Means`). The
refinement mapping `Edited` forgets addresses and leaves out the place being
overwritten, so that a removal takes effect in `ProcEditor` when it begins.

## The runs

Each run finishes within 2 to 3 minutes on two cores.

| Run | Instance | What it shows |
|---|---|---|
| `RuntimeSafety` | 4 threads, 2 routers, 1 stopper, limit 2, loop guard 2 | `TypeOK`, `TableBound`, `TableExact`, `ResourcesLive`, `OnlyOwnEntryRemoved` |
| `RuntimeLiveness` | 3 threads, 2 routers, no stopper, limit 2 | no deadlock, `RequestAnswered`, `FinishedIsFreed` |
| `RuntimeStopDeadlock` | 1 router, 1 stopper | violates `StopReturns` |
| `FreeRTOSStops` | 2 tasks, 2 routers, 1 stopper, limit 1, loop guard 2 | `TypeOK`, `TableExact`, `ResourcesLive`, `RequestAnswered` |
| `ExecRefines` | three procedures: the copy that runs (up to 2 instructions), one of up to 3 and one of up to 1, which call the latter two; each place where the analysis of these may stop; depth 1, two keys | `ImplementsSemantics`, `DepthCountsFrames`, `OwnKeyBoundsDepth`, `LastCallsNeverNest`, `Terminates`, `TypeOK` |
| `HandlersShare` | 2 threads with one of 24 or 2 instructions each, 6 parameters on 2 nodes, types of 1 to 3 bits, one change by an application, timeout 2 | `TypeOK`, `StoredIsResult`, `BlockWaits`, `InstructionEnds` |
| `AnalyzeGraph` | all call graphs of three slots with up to 2 calls each | `AnalyzedOnce`, `CallsResolve`, `FreedExactly`, `Terminates`, `TypeOK` |
| `AnalyzeFreedMark` | the same | violates `NoFreedMarkRead` |
| `ServiceOneRouter` | 2 clients, 2 calls each, 1 router, 1 slot, 2 procedures | `ImplementsSlotStore` |
| `ServiceTwoRouters` | the same with 2 routers and a procedure that does not fit | `AtMostOnce`, `OnlyDeleteRemoves`, `FittingPushStored`, `TypeOK` |
| `MemoryOwned` | 2 routers, 1 thread, 1 slot, 2 pushes, 5 procedures with every type, one of them too big and one of exactly the packet's size | `SoleOwner`, `NoStringLost`, `ArrivesAsSent`, `SizeIsExact`, `TypeOK` |
| `SlashEdits` | 5 commands, 9 lines (3 refused), room for 3 instructions, bytes of 4 values, numbers 0 to 8 | `TypeOK`, `SoleOwner`, `OnlyPopsAndRefusalsLose`, `ImplementsEditor` |

Why the bounds are enough. *Runtime:* two routers are what it takes to pass the
unlocked test together, and with limit 2 the table reaches 3 entries, one more
than the limit and enough for a removal from its middle; four threads allow a
descriptor to be joined and used again while three others are in the table; a
loop guard of 2 is reached. Threads and routers are interchangeable, so the
safety run uses their symmetry; the liveness runs do not. *Executor:* a procedure
of 3 instructions has an ifelse with both clauses, or two calls and an instruction
before, between or behind them, so that the analysis may stop at the first or the second
one, of the same slot or of another; the two slots that can be called are enough for
calls of oneself, of another, and in a cycle; with depth 1 a nested call succeeds and
one inside it fails. The copy that runs only has to get there, with and without another
call behind it. *Analysis:* three
slots with two calls each contain double calls, diamonds, cycles of length one to
three and calls of the root's own slot, of which the root is a copy. *Service:*
the second call of a client can meet the late request or reply of its first one,
and that of the other client. The store treats slots independently, so one slot
is where interference happens. *Memory:* two routers meet in one slot in every way
two requests can, and the third owner of strings is the thread; the lengths of the
strings differ, one is empty, so that a wrong sum or a swapped field shows.
*FreeRTOS:* two tasks are a handle that is used again while another one lives; the
second router can be in any place while the first one waits for the store.
*Handlers:* the two threads share the copy of one remote parameter, which one of them
sets and decrements while the other one reads, increments or compares it; one change
from outside is enough for any value to be old. Local parameters of each kind of type
and two widths have every operator with signed or unsigned operands, mixed kinds, a division by zero (1 - 1),
an overflow, a read-only result and a name that is unknown. *Commands:* three
instructions have a first, a middle and a last to remove; five commands fill the
procedure, remove from it and add again; `BYTE` is 4, so that a called slot wraps and
numbers of two rounds wrap to each position, and to none.

`CHECK_DEADLOCK FALSE` is in the configurations of systems that do stop: a
procedure ends, a client makes its `MaxCalls` calls, and the runtime with a
stopper may die or wait for ever, which is what `RuntimeStopDeadlock` shows.

### Fairness

`ProcRuntime!FairSpec`: a thread whose next step stays enabled takes it (weak
fairness), since the operating system schedules it; one that waits for the mutex
gets it if it is free again and again (strong fairness on the locking steps only),
since a pthread mutex has no owner that could starve it for ever under a normal
scheduler. Nothing is assumed of `Exec` (procedures may loop for ever), of
requests, or of the application's decision to stop. `ProcExec!FairSpec`: the
thread is scheduled, and every handler returns, because a block has a timeout and
so has every remote access. `ProcAnalyze!FairSpec`: the thread is scheduled; the
execution between building and freeing is assumed to end.
`ProcRuntimeFreeRTOS!FairSpec`: as for the POSIX runtime, and strong fairness on the
store's mutex, as long as it is given back; nothing is assumed of the number of
look-ups an analysis makes. `ProcHandlers!FairSpec`: each thread is scheduled, every
remote access ends, since libparam gives it a timeout, and the clock of each block runs.

## What the checks found

The violation runs are disagreements between the code and its documentation:

1. `RuntimeStopDeadlock`: line 48 of `proc_runtime_POSIX.c` joins a thread with the
   mutex held that the thread needs at line 102.
2. `AnalyzeFreedMark`: `proc_analyze.c:13` reads the mark of an analysis that was
   freed through an earlier call.

Others are part of the models, and what is still true in spite of them is what the
properties say:

- `proc_runtime_POSIX.c:120` tests the limit without the mutex, so the table exceeds
  `MAX_PROC_CONCURRENT`; by how much is `TableBound`, which is proved.
- `proc_runtime_POSIX.c:94` replaces the global key of all threads; the depth of those
  that run starts at 0 again (`KeyReplaced`). `OwnKeyBoundsDepth` is the limit that a
  thread has as long as its key is its own; no property is about the depth after that.
- The analysis of a called procedure may fail unnoticed (`proc_analyze.c:149`), after
  which some of its calls are not found and one follows an unwritten pointer (`CallWild`).
  `ImplementsSemantics` says which, and that all others are performed.
- `proc_client.c:88` ignores that packing failed; something else is stored and the user
  is told that the push succeeded (`Push` with an oversized procedure).
  `FittingPushStored` is about those that fit.
- A FreeRTOS task that is deleted during a look-up keeps the store's mutex; it is the
  one exception that `RequestAnswered` names. `proc_stop_all_runtime_tasks` stops none.
- Entries of threads that failed to start (`StartupFails`) stay in the table and use up
  the limit; the analysis of a stopped thread is not freed (`held`); the last thread may
  end before `proc_stop_all_runtime_threads` reads the first entry (`StopPickNull`);
  thread descriptors are never given back (`done`).
- A procedure is packed or copied outside the store's mutex while it is deleted
  (`PackPull`, `Torn`), and no property is about what then arrives; `free_proc` goes
  over instructions that were never unpacked (`UnpackFails` on the server, `PullFails`
  on the command line).
- `slash_csp_proc.c:347` assigns the typed position to a `uint8_t`, so `proc pop 256`
  removes instruction 0 (`Step`), although README.md:22 of the repository has it remove
  "the instruction at the specified index". `ImplementsEditor` promises that for the
  numbers that fit, and of the others that one instruction is removed at most.
- `proc_runtime_instructions_common.c:742` sets the result of a binop on the node of its
  operands (`ResultNode`). README.md:29 says that results are always stored on the
  server's node, except for `rmt`, but the example at its line 49 relies on the code.
  `StoredIsResult` places the results of unops where README.md says, and leaves open
  where that of a binop goes.
- Removing an instruction, and a refused command line, lose strings;
  `OnlyPopsAndRefusalsLose` says that nothing else does. The error path of `proc_unop`
  at line 760 keeps its option parser, which is not modelled.
- The push of a result may be served after its instruction failed (`PushTimesOut`, then
  `PushServed`), and two procedures that increment one parameter may lose an update.
  What an answer to one thread puts into a shared copy is what another one reads;
  `StoredIsResult` and `BlockWaits` take it for a current value.

## The proofs

`ProcRuntime_proofs` proves, for any numbers of threads and stoppers, any finite
set of routers and any limit, every safety property that `RuntimeSafety` checks, and
that critical sections exclude each other and joins find their thread in the table.
The inductive invariant is

    IInv == TypeInv /\ CriticalSections /\ TableInv /\ ResourcesLive /\ Admitted

None of its parts is inductive alone. That the table lists each thread once
(`TableExact`) needs that only the owner of the mutex is at `register` or at its
clean-up (`CriticalSections`); that a copy is allocated when a stopper joins needs
that the thread is in the table; and `TableBound` needs `Admitted`, which counts the
routers that are past the test of the limit together with the entries: a router
that passes saw fewer than `MAX_PROC_CONCURRENT` entries, and each of the others
adds at most one. The arithmetic of `Cardinality` is in lemmas of its own; what
`SwapRemove` does to the set of entries is the lemma `SwapRemoveEntry`. Each action has one step in the
proof of each part it can disturb. `EntriesAreOwn` is the action property, from
the same invariant.

`ProcRuntimeFreeRTOS_proofs` proves the three invariants of `FreeRTOSStops`, for any
numbers of tasks, routers and stoppers. Its inductive invariant

    IInv == TypeInv /\ CriticalSections /\ TableInv /\ ResourcesLive

adds to them that a router about to register has a task (`RegistersTask`), that this
task is alive (`RegistersLive`), which is so because nobody can delete or unregister it
while the router holds the mutex (`CriticalSections`). That `StopDelete` leaves an exact
table needs that the table has each task once, so that removing the first entry of a
task removes the task (`RemoveTaskEffect`).

`ProcExec_proofs` proves, for procedures of any length, any number of slots, any
calls and any limit: type correctness; that the depth under a thread's own key is
the number of its active calls and stays within the limit (`DepthInv` says also
what depth each frame will restore, without which a return could not be shown to
restore the right one); and that procedures which call only where README.md:151
recommends it never nest.

`ProcService_proofs` proves the four properties of `ServiceTwoRouters`, for any numbers
of clients, calls, routers and slots and any procedures. The invariant

    IInv == TypeOK /\ Unique /\ Honest

says in `Unique` that the identity of a call is at one place only (a request, a pull
under way, or a reply) and has been issued, which makes `AtMostOnce` inductive; and in
`Honest` that the request to push a procedure that fits carries it, without which what
a router stores could not be compared with what its client meant. The two action
properties have one step per action.

It also proves `Spec => ImplementsSlotStore` under `OneRouter`: one
router thread and procedures that fit, for any numbers of clients, calls and slots. It
adds to `IInv` that the procedure a pull has found is still the one in its slot and that
nothing was torn (`Quiet`); with a second router this is false, and so is the refinement.
Each action of `ProcService` is shown to be one of `SlotStore` or a stutter: a request
takes effect when it is served, a pull when its answer is packed, and whatever
the network does is invisible.

`ProcAnalyze_proofs` proves the invariants `TypeOK`, `AnalyzedOnce` and `FreedExactly` of
`AnalyzeGraph`, for any finite number of slots, procedures of any length and any calls
between them. The invariant is

    IInv == TypeOK /\ nodes # <<>> /\ Working /\ Ended
              /\ Known /\ Depth /\ Ascending /\ Parents
              /\ Unfreed /\ Unmarked /\ Marks

`Known` says that the table finds each analysis by its slot, so two analyses of one slot
are one; `Depth` bounds the stack by the number of analyses, and these by the number of
slots. `Parents` says that each analysis but the first is listed by an earlier one, or
will be when the call on the stack returns (`Ascending`). `Marks` says that, while the
graph is freed, what is marked was freed or is on the stack, and that so are the
sub-analyses of what was freed. `FreedExactly` follows at the end, when the stack is
empty: the least analysis that was not freed has a parent that was, so it is marked, so
it was freed. That cycles and shared analyses do no harm is in `Marks`.

`CallsAreResolved` states `CallsResolve`, from `IInv` and a second invariant,

    CallsInv == KnownBack /\ Idle /\ (Sound => Listing)

`Sound` says that nothing failed. Then each call of a procedure up to the one the
analysis has come to is listed with the analysis of its slot, and the latest entry of a
frame on the stack is the slot whose analysis comes next (`Listing`); a call still to be
analyzed is `Ahead`.

`ProcMemory_proofs` proves the five invariants of `MemoryOwned`, for any routers,
threads, slots and procedures, strings of any lengths and any buffer that holds the
beginning of a packet. The invariant is

    Inv == Shapes /\ Owned(Owners, DOMAIN heap) /\ Contents

`Owners` gives to each slot, router and thread the strings that it has to free. `Owned`
says that no string has two owners and that every string on the heap has one, so that
`SoleOwner` and `NoStringLost` are about the same sets; it needs `Shapes`, which says
where a router must be to have a procedure. `Contents` says that each procedure with
addresses is the duplicate of a text that was sent, and a packet its fields, unless it is
`Mangled`; `ArrivesAsSent` follows because unpacking the fields of a text gives that
text. That is a lemma about the layout of a packet, for any procedure: where the fields
of each instruction begin (`MessageLayout`). `SizeIsExact` needs that the size of a
procedure up to a position is a sum that grows by each instruction (`SizeSteps`). Both
are proved without induction over data: if they failed there would be a least position at
which they fail, and the position before it gives the contradiction.

`ProcSlash_proofs` proves the two invariants and the action property of `SlashEdits`,
and `Spec => ImplementsEditor`, for any lines, any stored procedures and any limits. The
invariant says that the places of strings of the active procedure have strings of their
own, all allocated (`Held`); while a removal goes on (`shift`), this is so of the places
other than the one that is being overwritten. `PopFrom` and `PopLatest` map to `Pop` of
the editor, the steps that copy the following instructions and the refusals to stutters.
That the position in a byte is the typed one for all numbers up to `MAX_INSTRUCTIONS`,
and never behind a byte, is the lemma `StepIs`; a larger number is `PopAnother`.
The theorems have two hypotheses: `NullIsNoProcedure`, that the NULL of
`current_procedure` is none of the procedures, and, for the refinement, `MeansExactly`,
that a line is parsed to an instruction it may stand for. TLC evaluates the second for the
lines of `SlashEdits`.

The lemmas on the functions of `proc_pack.c` (what duplicating, copying and freeing do to
the heap) are in both modules, so that each can be read and checked without the other.

`ProcHandlers_proofs` proves the three safety properties of `HandlersShare`, for any
threads, parameters on any nodes, instructions and timeouts, and for all widths of
operands and parameters. The invariant is

    Inv == TypeOK /\ \A t \in Threads :
               Placed(t) /\ Watched(t) /\ Calculated(t) /\ Met(t)

`Placed` says where a thread can be with which instruction and how many fetches it has
made. `Watched` is what makes a statement about old values inductive: what an operand's
parameter is now, the answer on its way, the shared copy that is about to be read, and
what was parsed are all in `seen`, and stay there when other threads, other nodes and
applications write. `Calculated` says that the result is that of operands which were
seen, in the type of the first one, and then the part of it that its destination takes;
`Met`, that a block that ends before its timeout has compared values that were seen.
A step of another thread, of the network or of an application disturbs none of this
because `seen` follows what changes (`Follows`, `Bystander`).

The rest is arithmetic. Conversions cut a number off at a power of two, so that a
result is right up to a multiple of that power, and of the smaller one when it
is cut off again (`KeptBits`, `TakenIsRight`). What the operators give is stated by what
they mean (`UnopMeans`, `BinopMeans`): the quotient is rounded towards zero and the rest
has the sign of the dividend (`Division`); a shift multiplies by a power of two, or divides
by it downwards (`QuotientIs`); and the bits of the result of `&`, `|` and `^` are
those of both, of either or of exactly one operand. For these, `OfBits` is a sum over
positions, and `OfBitsHas` says that the operand it gives has the bits it was given and
no others, whatever the width and the sign: adding or taking away the power of a position
sets its bit, if the sum so far is smaller (`BitAt`), and leaves the bits below it as
they are (`BitBelow`).

Assumptions of the proofs are the named `ASSUME`s of the modules:
`RuntimeAssumption`, `FreeRTOSAssumption`, `ProgramAssumption`, `ExecAssumption`,
`ServiceAssumption` and `DistinctAssumption` (a request is no procedure, and the like),
`AnalyzeAssumption` (the slots are finite), `PackAssumption` (a buffer has room for
flags, slot and count), `MemoryAssumption` and `SlashAssumption` (positions fit a byte),
`OperandsAssumption` (the types are those of libparam, no parameter is wider than an
operand), `HandlersAssumption` (instructions have the fields of their types, parameters
start with values that fit them) and
`PowerAssumption`, which is no assumption about the code: it says that `2 ^ 0` is 1 and
each further power twice the one before, up to twice the width of operands, which the
provers do not know.

Model-checked only: liveness (it rests on fairness, which is beyond the prover), and
`ImplementsSemantics`, whose mapping flattens sequences recursively and would need induction
over data. Every other invariant and action property of a passing run is proved.

## Not modelled, and the plan

What could be added, in this order:

1. In `ProcMemory`: calls, which execute a procedure straight from the store while
   it may be replaced, and `reset_proc_store`.
2. In `ProcHandlers`: elements of arrays, and operands that are strings. Reading a string
   into an operand writes behind a pointer for strings longer than one, so most of what
   follows is undefined; line 464 also tests a parameter's type against the number of an
   operand type, which is that of UINT64.

Not planned: clocks that are set back and tick counts that wrap (both would let a block
that timed out succeed, or wait longer), the array of ten interface addresses at
`proc_runtime_instructions_common.c:195`, the platform wrappers (a call to the
operating system each), libcsp
and libparam themselves (outside the repository; only what the code relies on is
modelled), printing and the parsing of command line options.
