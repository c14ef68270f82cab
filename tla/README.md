# A TLA+ verification project for stanli

stanli compiles a Stan program and its data to a fixed graph of C++ operations
and runs that graph for every gradient, on several chains and, inside a chain,
on several threads. This directory holds models of the parts whose correctness
depends on order: threads, locks, shared buffers, caches, failures, and the
compiler's rewriting of programs and graphs, where a value read early and used
late is the usual mistake. They are translated from the code under
`src/runtime/` and `src/tools/`, model-checked with TLC on small instances, and,
for everything that runs on several threads or hands state from one call to the
next and for what the graph passes leave to bind, proved with TLAPS for every size.

Check everything from this directory: `tlc -config X.cfg M` for the runs of
`PROJECT.json`, and `tlapm P.tla` for each of the eight modules `*Proofs.tla`. On four
cores a proof takes from a quarter of a minute to six minutes.

## 1. Inventory

Per component: the state it keeps, its operations, how it meets the others, and
what makes it correct. `PROJECT.json` lists every component, also the ones that
are not modelled.

| Component | State | Operations | Meets | Correct when |
|---|---|---|---|---|
| Model compilation (`lower.cpp`, `lower_worker.hpp`) | the decoded program, the data environment, a second lowering on a worker thread | `compile_model`, `WriteArrayLowering::begin/finish` | bridge, large stack, executors | the model does not depend on the path that built it; the worker never outlives what it reads |
| Large-stack runner (`large_stack.cpp`), readers (`mir_decode.cpp`) | nesting limit of the thread | `run_on_large_stack`, `decode_program` | model compilation | nothing walks a program deeper than its stack, be it to read, lower, run or destroy it; a job runs once |
| Statement lowering (`lower_stmt.cpp`, `lower_expr.cpp`) | `int_env`, `scope`, the folding interpreter, target terms | `lower_stmt_impl`, islands, unrolling | region compiler, passes | the graph adds to the target what the program adds; the copies of an integer agree |
| Region compiler and interpreters (`mir_prog.hpp`, `program.hpp`, `mir_interp.hpp`) | registers, folded integers, jumps, markers | `ProgramCompiler::stmt`, `finish`, `run_program`, `MirInterp::exec` | lowering | a register program does what its region says and reads no unwritten register |
| Graph passes (`inplace.cpp`, `constfold.cpp`, `cse.cpp`, `lower.cpp`) | the op graph, fills, roots, terms | `run_passes` | executor | value, effects, throws and gradient of the graph as lowered, at every evaluation |
| Executor (`executor.cpp`) | arenas, contexts, copy-on-write `data_`, `reverse_ready_`, thread-local `g_values_only` | clone, `set_values`, `value_ptr`, `forward`, `forward_value_only`, `gradient`, `reverse` | pool, reduce_sum, chain runner | every executor evaluates on its own data; a reverse sweep matches its forward |
| Executor pool (`executor_pool.cpp`) | free executors and tapes, thread-local current tape | `acquire`, `Lease` construct/move/destroy | C API and BridgeStan entry points on any thread | no executor or tape serves two threads; a thread keeps its own stack |
| reduce_sum team (`reduce_sum.cpp`) | workers, generation, cursor, errors | constructor, `run`, `worker`, `consume`, `stop` | executor kernels, chain threads | each job once, all done at return, least error reported, no thread leaked |
| reduce_sum kernels (`reduce_sum.cpp`) | `ready`, `values_only`, child executors | `forward`, `backward`, the jobs | team, executor handshakes | values and gradients come from the current point |
| Chain runner (`nuts.cpp`) | chain cursor, stop flag, progress queue, results | `run_nuts_chains`, `run_nuts_with` | C API, observer, poll | the caller's rows are complete and in order, a stop is prompt, the call ends |
| C API (`capi.cpp`) | caller's buffers, options | `stanli_sample_multi_metric`, `stanli_n_stored_draws`, ... | all of the above | sizes announced are sizes written |
| Message sink (`message_sink.cpp`, print callback) | sink, callback, captured text, pending flag | `emit_message`, `set_message_sink`, capture and take | sampler threads, host | each line to one destination, once, in order |
| Standalone functions (`function.cpp`) | plan cache, storage count, pending fingerprint | `function_plan` | any thread calling a function | one plan per signature, storage bounded, recompilation bounded |
| OCaml bridge (`stanc_embed_c.cpp`) | compile mutex, runtime lock, thread registration | `stanli_stanc_compile` | host threads | no deadlock, no unregistered callback |
| Compiler process (`tools/stanc_process.cpp`) | two pipes, a reader thread, the child | `run_process_posix`, `run_compiler` | `compile_source` of the tools | the call ends whichever pipe fills, as long as both are read; a truncated translation is an error |
| Kernels, front end, services, bindings, tools | none that is shared, or external | - | - | numeric; see section 8 |

The hard behaviours are: two or more threads on one cursor, one cache, one free
list or one callback; thread creation and allocation that fail half-way;
exceptions that leave while other threads run; state that survives from one
evaluation to the next; flags read outside the lock that guards what they
describe; several copies of one fact that a branch must invalidate together;
rewrites whose justification a later rewrite takes away. Each is a hazard of `PROJECT.json`,
at its line.

## 2. Modules

| Module | Models | Shape |
|---|---|---|
| `ReduceTeam` | `ReduceExecutionContext::Impl` | owner, callers, workers; a block under `mu_` is one step; waits are "asleep", "woken" |
| `ReduceBatch` | what `run()` promises | abstract specification that `ReduceTeam` implements (`ImplementsBatch`) |
| `ReduceTeamProofs` | | extends `ReduceTeam` and `ReduceEval`: the inductive invariant and theorems of each, and the refinement of `ReduceBatch` |
| `ReduceEval` | forward and backward kernels, `Executor::forward`, `gradient`, `reverse`, `g_values_only` | the team is taken as `ReduceBatch` describes it: jobs in any order on any thread, failure reported at the end |
| `ExecutorData` | `Executor`'s copy constructor, `detach_data_`, `value_ptr`, `set_values`, destructor | blocks with contents; raw pointers of contexts and micro-operations are variables of their own |
| `PrivateData` | what copying an executor promises | abstract specification that `ExecutorData` implements (`ImplementsPrivateData`) |
| `ExecutorDataProofs` | | inductive invariant, theorems, and the refinement of `PrivateData` |
| `ExecutorPool` | `ExecutorPool`, `Lease`, `Tape` | threads with several lease variables over several pools |
| `ExecutorLoans` | what the pools promise the threads | abstract specification that `ExecutorPool` implements (`ImplementsLoans`) |
| `ExecutorPoolProofs` | | inductive invariant, theorems, and the refinement of `ExecutorLoans` |
| `MessageSink` | `message_sink.cpp`, `bs_set_print_callback`, `stanli_take_messages` | emitters and hosts, one mutex, two variables outside it |
| `MessageLog` | what the sink promises those who print and collect | abstract specification that `MessageSink` implements (`ImplementsLog`) |
| `MessageSinkProofs` | | inductive invariant, theorems, and the refinement of `MessageLog` |
| `ChainRunner` | `run_nuts_chains`, the loops of `run_nuts_with`, the copy-out of the C API | caller and runners; a draw is named by its transition |
| `ChainRunnerProofs` | | inductive invariant and theorems |
| `FunctionCache` | `function_plan` | threads, keys with sizes and fingerprints |
| `FunctionCacheProofs` | | inductive invariant and theorems |
| `CompilerProcess` | `run_process_posix`, `run_compiler` | caller, reader thread and child around two bounded pipes |
| `ModelBuild` | `stanli_stanc_compile`, `compile_source`, `decode_program`, `run_on_large_stack`, `compile_model`, `WriteArrayLowering`, `LowerWorker` | extends `CompilerProcess`; one record per client, one action per step that another thread or a failure can come between |
| `ModelBuildProofs` | | inductive invariant and theorems |
| `GraphPasses` | `run_passes` from the lowered graph to the bound executor, and the executor's sweeps | the passes as operators over a graph, each loop over its ops a recursive function of one step; one action per pass; the evaluation as operators over an arena |
| `GraphPassesProofs` | | what each loop keeps, the inductive invariant of the pipeline, and the theorem |
| `MirSemantics` | `MirInterp::exec` on control statements | recursive operators; the reference for the next two |
| `RegionCompiler` | `ProgramCompiler` and `run_program` | extends `MirSemantics`; the compiler's state is a record threaded through recursive operators |
| `StmtLowering` | `lower_stmt_impl` | extends `RegionCompiler`; one action per kind of statement, lowering and interpreter side by side |

`MC*` modules and the `.cfg` files give the instances. Definitions whose
comment begins with "Fault variant" or "Mutant", and the second versions that
`PROJECT.json` names under "mutants", are not part of a specification: each is
one action or operator with a plausible mistake, and shows that the property it
is paired with in `PROJECT.json` notices it.

Notes on the correspondence, beyond the source comments:

- *ReduceTeam.* `next_` and `busy_` are atomics, so a claim and an entry are
  steps of their own; `errors_` is the set of its non-null indexes; `state_` and
  `work_` are set beside `jobs_` in `RunSetup` and not kept apart. A refused
  entry (`busy_` already set) throws. `ran` and `threw` are history.
- *ReduceEval.* `stage`, `stateReady`, `jobThrew` and `outcome` are what `ReduceTeam`
  calls `pc`, `ready`, `threw` and `result` of its own: the two are extended by one
  module of proofs. A number is the parameter point it was computed at; a child's
  `cTape` is the point its reverse sweep would differentiate at. The host calls
  `reverse` only at the point it evaluated: writing `params_data()` between
  `forward` and `reverse` is a use error the executor cannot see.
- *ExecutorData.* `heap[b] = Freed` is a block without owner; `use_count()` is
  the number of live executors that point to it, and the check, the copy and the
  swap of `detach_data_` are three steps, so that another executor may clone,
  detach or die between them. `view` is history: what the client gave.
- *ExecutorPool.* The free lists are stacks in the code and sets here: their
  elements are interchangeable. A failed clone or tape is an alternative of the
  action that makes it.
- *MessageSink.* Everything `emit_message` does under the mutex is one step,
  except where it touches the callback pointer or the pending flag, which others
  reach without the mutex. `set_diagnostic_sink` repeats the sink half and
  shares nothing with it. `Spots(m)` names every place line `m` is in, each
  occurrence of it for itself; `unheard` and `unallocated` are history: lines lost to
  a null callback, and to a failed `malloc` of the collector.
- *ChainRunner.* `opts` ranges over every combination of warmup, samples,
  thinning, saved warmup, thread count, observer and poll. Initialisation and a
  transition may throw. `values` is filled by the runner, `draws` by the copy-out.
  Options are ints up to `IntMax`, and `CeilDiv` adds in that width as the C API does:
  a sum beyond it wraps. `owed` and `ordered` are history: the events raised and not
  yet observed, over all chains, in the order they were raised, and whether the
  observer was always given the oldest.
- *FunctionCache.* A plan is named by its key; `Refused` stands for a plan that
  could not be compiled. `deferrals` and `recompiled` are history.
- *CompilerProcess.* Output is counted in pieces of a pipe's buffer. A child that
  writes to a pipe whose reader is gone, or meets any other signal, is "killed"
  and its status is 128. A read of either pipe may fail. The caller keeps a failure on
  standard output for after the wait and closes the pipe; on standard error the reader
  ends and tells nobody, and its pipe stays open until it is joined (`err_ok` is
  history). The tools have one thread, so one process at a time is
  enough; beside it `ModelBuild` lets another client use the bridge, which a
  tool does not do and which costs nothing.
- *ModelBuild.* A program is a record of what the control can tell apart
  (nesting, whether its data prepares, what the bounded specialization, the log
  density and the generated quantities come to); the data environment is the set
  of names bound in it. The order in which the frame's locals die is explicit
  (`live`), because it is what keeps the worker safe. A call is one record of `b`, and every action
  of the build is `Change(c, r)`: the client's record becomes `r`, one of the
  results the step can have. `Begin` is `WriteArrayLowering::begin`. Destroying a
  program walks it as lowering does: `Destroys` says when a step is about to, on a helper
  or by unwinding. A model that interprets generated quantities or transforms inits
  shares the program (`KeptBy`), which then outlives the call until `FreeModel`.
- *GraphPasses.* A cell holds an integer modulo `Modulus`: the passes never look
  at a value, so a kernel only has to tell its operands apart. There is one op of
  each class the passes distinguish (a backward that reads nothing, its inputs,
  its output; an op that throws; one with an effect). The arena survives from
  evaluation to evaluation as in the code. `PostReroll` runs the second
  `make_inplace_updates`, which the code runs when rerolling changed anything.
- *MirSemantics, RegionCompiler, StmtLowering.* Integers only: `int_env`, `scope`
  and `td` are the three places the lowering keeps one. A slot stands for its
  value under each value of the parameter; an island is compiled and run to find
  it. The lowering runs beside the interpreter, statement by statement. `stale`
  and `broken` are history: names whose folded value outlived an island, and an
  island that read an unwritten register or ran out of steps.

The type invariant of a module is a conjunct of an invariant of its run:
`AllJobsDone`, `HandshakesAgree`, `Isolation`, `OneHome`, `EachLineOnce`,
`ChainsAccounted`, `StorageBounded`; the other modules have states built by
construction from records.

## 3. Runs

All under five minutes on two workers. Every bound is a constant of the cfg.

| Run | Question | Instance, and why it is enough |
|---|---|---|
| `reduce_team` | Is each job worked once and all of them before `run()` returns; is the batch rewritten only when nobody reads it; is the team whole or gone; does everything end; is `ReduceBatch`, with its least error reported, implemented? | 2 workers, 2 callers, batches of 0 and 2 jobs, 2 runs. Three threads claim two jobs, so some thread always comes too late; the second run meets the leftovers of the first (`errors_`, `seen`, `next_`) |
| `reduce_eval` | Is a returned value or gradient computed by every child at the current point, whatever failed or was values-only before? | 3 children, host and a worker, 2 points: the second point tells stale from fresh, three children leave one before and one after a failure |
| `executor_data` | Does each executor see its own data, is a shared block never written, does an exposed pointer stay valid; to a client, is there any sharing (`PrivateData`)? | 3 executors, 4 blocks (one per executor and one for a replacement), 2 slots, 2 values |
| `executor_pool` | Is an executor in one place, a tape on one thread, a stack where it was; do threads see more than loans from a shelf (`ExecutorLoans`)? | 3 threads (one with a stack of its own), 2 pools, 2 lease variables each, 2 executors, 2 tapes: a third request fails to allocate |
| `message_sink` | Is each line in one place, in order; is text never stranded; is a former callback quiet; does everyone get out; is all this a log whose lines are printed at once (`MessageLog`)? | 2 emitters of 2 lines, 2 hosts of 2 calls, 2 callbacks: install and replace, capture and take, two takers |
| `chain_runner` | Are the rows complete and in order, do the two buffers agree, is every event observed, oldest first, is nobody left behind, does the call end? | 2 chains, 1 or 2 threads, every combination of saved warmup, observer and poll; 1 warmup and 2 sampling transitions thinned by 2, the same without sampling, 2 sampling transitions kept whole, and 2 thinned by 4: the largest int is 4, so that the sums of the first three fit and the last wraps |
| `function_cache` | One plan per key, storage and count bounded, recompilation paid for? | 2 threads of 4 calls, 4 keys: two that fit together and share a fingerprint, one that fits alone, one that leaves no room for its plan |
| `graph_passes` | Do the passes keep value, roots, throws, effects and gradient, and leave a graph the executor can bind? | 11 program shapes of 3 to 6 ops, all operands, cells and roots TLC can choose; both sections, with and without `fast_math` and the second in-place pass; 3 points on one arena, so that what one evaluation leaves meets the next; arithmetic modulo 5. The passes look at most at three ops at once (a store, a reader, the next store), and the longest shapes hold two such groups |
| `model_build` | Are the OCaml runtime's rules kept, is the worker's life inside that of its data, is transformed data run once, does every walk of the build fit its stack, is the model the same on every path, does every call return? | 2 clients of 2 calls, one builds and may use a compiler process; stacks of 4, 3 and 2 levels against programs of up to 5, so that each size is enough for one program and too small for the next; a compiler prints nothing or twice what a pipe holds, on either pipe |
| `stmt_lowering` | Does the graph add what the program adds, do the copies of an integer agree, do islands run clean? | 35,072 programs: a prelude, one compound statement (branch, `for`, `while`, two levels deep, jumps, block locals), an epilogue that reads the same integer; both values of the parameter; at most 12 trips of a statement, 300 instructions of an island, 3 unrolled trips of a `while` |
| `store_forward_drop`, `stale_branch_fact` | The two findings below | the smallest instances that show them |

Symmetry is used where a run has no liveness property, over sets whose elements
nothing tells apart. Deadlock checking is off where the system rightly stops
(bounded calls, a call that has ended).

## 4. Fairness

Weak fairness, of a thread inside a call: the owner, the callers and the workers
of the reduce_sum team; the emitters and hosts of the message sink; the caller
and the runners of the chain pool; the clients, the write-array worker, the
compiler process and its two readers in `ModelBuild`. The operating system runs
every runnable thread, a mutex is held for finitely many steps (no holder waits
for another lock), a condition variable that was notified wakes its waiters,
and a compiler that can write or has nothing left to write goes on. Nobody has to
read standard error once its reader has failed, which is why `BuildEnds` excepts a
compiler that then waits for room (`ErrAbandoned`; section 5). Not
assumed: that a caller calls, that an owner destroys, that a thread fails to
start, that a read fails, that a child is killed, that a wakeup is spurious,
that anyone installs a callback. `wait_for` in the chain runner ends on its own
by its timeout. In `MessageSink` the lines are bounded, so that weak fairness of
the waiting host is enough; with emitters that print for ever it would need the
mutex to be fair, which `std::mutex` does not promise.

## 5. Findings

1. `store_forward_drop` (`inplace.cpp:261`): `forward_stores_to_loads` drops an
   in-place element store when the next store writes the same element and
   nothing has read the vector between. Stores do not count among the readers:
   their branches leave the loop before they mark their inputs observed. A
   vector copied into another between two stores to one element therefore
   copies the old element. `SameDensity` and `SameGradient` hold for all graphs
   without that shape (`ReadByStoreThenRewritten`).
2. `stale_branch_fact` (`lower_stmt.cpp:805`): after an island, only those of its
   results that were compile-time integers lose their value in the folding
   interpreter. A flag that lives in a slot and was last set from a literal
   keeps the literal there, and the next condition on it is folded. `SameTarget`
   and `CopiesAgree` hold as long as no name is in that state (`stale`).

Where the code does not do what a property should say of it, the property names
the exception, and holds everywhere else:

- `capi.cpp:735` (`SizesFit` in `DrawsComplete`): the ceiling division of
  `stanli_n_stored_draws` adds `samples + thin - 1` in `int`, and the options check
  (701-728) lets `thin` reach `INT_MAX`. The overflow is undefined; where it wraps,
  fewer rows are announced than a chain keeps, and the rest is dropped, although
  `capi.h:246` sizes the caller's buffers by it. What `DrawsComplete` says of each row
  holds for all options, and of their number where no sum overflows. `capi.cpp:992`
  repeats the sum; `capi.cpp:1135` does it in 64 bits.
- `lower.cpp:1276` (`DestroyerShort` in `WalksFit`): the large stack that destroys a
  deep program is asked for anew. It may be smaller than the one that lowered it, and
  when no helper starts, unwinding destroys the program on the client's stack, against
  `large_stack.hpp:6` ("a CompileError rather than an overflow"). Whether that
  overflows depends on the destructors' frames; by the measure that made the code
  send the destruction to a helper it does not fit.
- `lower.cpp:1337`, `1391` (`KeptBy`; `WalksFit` ends where `compile_model` is left): a
  model that interprets its generated quantities, or can transform inits, keeps the
  decoded program. The client interprets it, and destroys it with the model
  (`FreeModel`), on whatever thread it calls from, however deep it is.
- `stanc_process.cpp:279` (`ErrAbandoned` in `BuildEnds`): if reading the compiler's
  standard error fails, its reader ends without a word, the compiler waits for room in
  that pipe, and the caller for the compiler's standard output. A read of a pipe
  seldom fails; but the same failure on the other pipe is handled, and line 276 says
  that "stderr drains".

Observations without a run of their own, from reading the same code:

- `inplace.cpp:284-287`: a forwarded load is renamed to the slot of the stored
  value; if that slot is a container of one element that is updated in place
  later, the load sees the update.
- `reroll.cpp` (density arm): lanes of width one are fused without a look at the
  length of an operand that is the same in every lane; `row_operands_ok` is asked
  only for wider lanes. `for (n in 1:10) y[n] ~ normal(mu, sigma)` with a
  `vector[10] mu` would become one elementwise density, where the comment at
  `reroll.cpp:10` relies on such operands having one element.
- `lower_stmt.cpp:334`: `runtime_loop_control` reads conditions with the values at
  the loop's entry, so a loop that becomes parameter-dependent on its way is not
  promoted and is refused with "break outside a loop". An island whose only
  assignment folds is refused with "region produces nothing". Both are refusals,
  not wrong models.
- `nuts.cpp:502`: if the second worker thread cannot be created, unwinding
  destroys the joinable first one; the comment at 555-558 states the rule for
  the observer's exception only.
- `capi.cpp:921`: a stop answered after every chain's last check is consumed and
  not reported (`capi.h:343-345`). `capi.cpp:937`: an interrupted chain does return
  fewer rows than its block holds.
- `bridgestan_abi.cpp:703`: the callback pointer is stored outside the mutex; a
  line emitted during a removal can be dropped (`unheard`), against the comment
  at 152.
- `executor_pool.cpp:11`: a thread may allocate a tape after its first lease, when
  another thread took the one it gave back.
- `stanc_process.cpp:279`: if the reader thread cannot be created, the child and the
  descriptors are left to the tool's exit.

## 6. Proofs

The constants are arbitrary: any threads, callers, jobs, chains, executors, tapes,
blocks, keys, programs and stack sizes, and any value of the bounds that the runs
need. What is assumed of them are the named assumptions of the modules, which TLC
evaluates on the runs too:

| Assumption | Why the code justifies it |
|---|---|
| names are distinct (`NoneAssumption`, `RolesAssumption`, ...) | they stand for a null pointer, or for different threads |
| sets of workers, threads and leases are finite | a process has finitely many |
| sizes, thinnings and limits are naturals or positive (`SizesAssumption`, ...) | the C API checks them, or they are compile-time constants |
| options of a sampling call are ints, up to an arbitrary `IntMax` (`SizesAssumption`) | their type; the check asks nothing else of them, nor does the assumption |
| no stack is larger than the first that is asked for (`BuildAssumption`) | `large_stack.cpp:156` divides the size at each try |

No property below is inductive as it stands. Each module states an `IInv` and
proves that it holds initially, that every step keeps it, and that it implies the
properties.

*ReduceTeamProofs.* `SetupExclusive` needs that `remaining_` counts the workers
that may still touch the batch, which needs that a worker is active exactly while
its `seen` lags or it consumes. `IInv` is the conjunction of

- `OwnerInv`: where the owner is decides which workers exist and that only one
  caller is inside, and only while the team is up;
- `ReadyInv`: `ready_` is the number of workers past their start;
- `GenerationInv`: outside the stretch from publish to the end of the wait, no
  worker is active;
- `RemainingInv`: `remaining_` is the number of active workers;
- `CursorInv`: below the cursor every job is done or in somebody's hands.

From it: `TypeCorrect`, `SetupIsExclusive`, `JobsAreDisjoint`, `BatchIsComplete`,
`LifetimeIsSafe`, and `LeastErrorIsReported` as an action property.

*The refinement* (`TheTeamImplementsTheBatch`, same module). Under the mapping of
`ReduceTeam`, every step of the team is a step of `ReduceBatch` or leaves its
state alone. The steps are sorted by what they do to the batch: `Quiet` steps
change none of the mapped variables; an entry that is admitted opens the batch, a
worked job records its error, and the collection closes it. That a caller is
admitted only when the batch is free is `BusyInv` (`busy_` is up only while
somebody is inside `run()`), and that it closes only with every job done is
`CompleteAtCollect`, the lemma under `BatchIsComplete`.

*ReduceEval* (second half of `ReduceTeamProofs`). The three handshakes (`reverse_ready_` of the executor, `ready`
of the kernel, `reverse_ready_` of each child) are written at different moments
and by different threads. `ParentInv` says when the parent's stands: only after a
reversible forward, over children that are all prepared at that forward's point.
`ForwardInv` and `BackwardInv` say what the jobs worked so far have left, as long
as none has failed; `ModeInv` that values-only mode is a matter of the host inside
its own call. From their conjunction, `EvalInv`: `HandshakesAlwaysAgree`, `ChildrenAreAlwaysPrepared`, and
`ReturnsAreFresh` as an action property.

*ExecutorDataProofs.* `Isolation` speaks of executors between operations; in
the middle of one, what keeps it is that all pointers of an executor lead to its
block (`PointerInv`), that the block holds what it was given (`DataInv`), that
whoever writes or has let a pointer escape owns its block alone (`SoleInv`), and
that a replacement not yet swapped in is nobody else's (`FreshInv`); `PcInv`
ties the operation to its stage. From it: `TypeCorrect`, `DataIsIsolated`,
`SharedBlocksAreReadOnly`, `PointersStayPinned`. Under the mapping to `PrivateData`
an executor's data is what its pointers read, so that a detach in three steps is
none; `MappedIsGiven` says that it is what the client gave, and the rest is one
lemma per action (`SharingIsInvisible`).

*ExecutorPoolProofs.* Homes are sets: the free lists, leases and calls under way
that have an executor. `HomeInv` says that exactly one of the three is a singleton
and the others are empty, which, unlike a sum of cardinalities, a step disturbs in
one place only. `TapeInv` says the same of a tape, waiting or serving one thread;
it needs `CountInv` (`Tape::leases` is the number of leases that hold the tape,
the step where moving a lease could go wrong) and `StackInv` (`Tape::current()` of
a thread is the stack it runs on). From it: `ExecutorsHaveOneHome`,
`TapesArePrivate`. The mapping to `ExecutorLoans` counts as lent what a lease or a
call under way holds, so that moving a lease is no step of the loans; `LentOnce`
makes a return leave no second loan behind, and `LastLeaseWorksNot` that the tape
goes back when its thread has nothing left to work with (`ThePoolsLend`).

*MessageSinkProofs.* The lines that were emitted are partitioned by where they are
(`PlaceInv`: eight kinds of place), and each step moves one line, or the contents of one
place to another. Order across the swap of the captured text needs that what a
host has taken comes before what it has in hand, and both before what is still
captured (`OrderInv`). `FormerCallbackQuiet` stays invariant because the mutex is
held from the load of the callback to the end of its call (`MutexInv`) and
`bs_set_print_callback` has to take it, after its store, before it returns. From it:
`NoLineIsLostOrRepeated`, `LinesStayInOrder`, `FormerCallbacksAreQuiet`. `MessageLog`
prints a line in one step: the mapping counts a line as printed when it reaches its
destination (`Printed`), not when its emitter enters, and a collection as done when
the text is swapped. It needs one fact more, `SinkHeld`: an emitter that has chosen the
callback still finds the sink installed, because the mutex is held
(`TheSinkIsALog`).

*ChainRunnerProofs.* What ties the transition loop to the caller's buffers is
arithmetic. `ThinnedCount` shows that the ceiling of `n / thin` counts the kept
indexes of a loop of `n`, by a bijection, and `KeptCount` that
`stanli_n_stored_draws` counts those of both loops, where no sum of it overflows
(`SizesFit`). The invariant then says of a
runner in its loops that the chain has as many rows as transitions are kept before
the one it stands at (`PlaceInv`, with `BeforeCount` for one step), and of a chain
that its rows are those transitions, each at its number (`RowsInv`). Hence, where the
announced size is right, the writer's row is inside the buffer whenever a
transition is kept; where it is not, the buffers still hold the first rows. `RunnerInv` says
that the chains below the cursor are those that were claimed, and that each one that
has not ended is in its runner's hands; `LiveInv` that `live_workers` and the workers gone
add up to the pool, so that a zero read by the caller means that everybody is
gone; `QueueInv` that the events raised and not yet observed are the one in the caller's
hand followed by the queue, in that order.
The proofs split on `Steps`, the steps with their conditionals resolved, which
`CallerSteps` and `RunnerSteps` show to be all there are. From it:
`ChainsAreAccountedFor`, `DrawsAreComplete`, `ProgressIsDelivered`.

*FunctionCacheProofs.* `Storage` is a recursive function over the cache. A proof
that goes by a least counterexample (`WFMin` on the naturals, which takes no
operator) shows that it adds up any list of entries (`StorageTotal`), and that evicting from
the front subtracts what it evicts (`EvictionTotal`). `BoundInv` says that the
counter is that sum, so that the unsigned subtraction cannot wrap, and within the
budget, unless the whole cache is one refusal; `EntryInv` that keys are unique;
`CallInv` what a thread has in hand between its unlock and its insertion. From
it: `OnePlanForEachKey`, `StorageStaysBounded`, `RecompilationIsPaid`.

*ModelBuildProofs.* The invariant has one part per client and one for the compiler
process. `BridgeOK` ties the mutex, the runtime lock and the registration to where
the client is. `CallOK` says of the call's record at each step what is bound,
prepared and alive: `FrameOK` that data was prepared once and that the walk fits the
stack of its frame, `WorkerOK` that a worker exists only inside the frame it reads,
`LiveOK` that a program about to be destroyed fits the stack it is on or came there because a
thread did not start,
`IdleOK` and `UnwindOK` that the outcome is the one its program has. Steps of one
client are proved on its record alone; `OtherCalls` says that they leave the others
alone. `ProcOK` says that what was printed is in the child, in a pipe or with a
reader, unless a read has failed. From it: `RuntimeIsUsedByItsRules`, `TheWorkerReadsLiveObjects`,
`DataIsPreparedOnce`, `WalksAlwaysFit`, `EveryBuildIsTheSame`.

*GraphPassesProofs.* `BindsCleanly` speaks of the end of the pipeline, so the proof
says what every pass hands to the next. Up to `cse` a graph is `Good`: typed, every
op of its opcode's arity, no op names a slot without cells, in-place stores write what they
read, and what any other op computes is new when it is computed (`DefFirst`), which
is what remains of single assignment once stores are destructive. `AllSorted` says
beside it that stores update containers and that an element loaded is a scalar: it
keeps the renamings of `forward_stores_to_loads`, which are of scalars, away from
the bases of in-place stores. After `cse` a graph is `Bindable`.

A pass is a loop over the ops, and has an invariant of the loop. All four share
`Follows`: the op at each place names only slots that the graph before the pass named
up to there. `InplaceInv` adds that a slot that was renamed has lost its cells, is no
root, and is named by nothing that the loop has gone through; `ForwardInv` that what is
put for a load was stored before it; `ElideInv` that only readers move; `CseInv`
that an op that joins another, or takes its cells, is the only writer of its output
and comes after it. A last lemma for each pass drops the ops to be dropped
(`KeptFacts`: what is kept keeps its order). Lowering is covered too: every
choice of operands gives a proper op (`OperandsFacts`, `EmitGood`), and so is
`reduce_terms` (`ReduceBindable`).

The prover has no induction over data, so the loops go by a least counterexample.
`Trace(f, n, p, x)` says that `f` is the run of loop `p` up to step `n`: `TraceExists`
shows that there is one, which is what the recursive function of the module then
denotes, and `TraceKeeps` that what every step keeps holds at its end. Both are proved once,
for the four passes and for `Kept`. `IInv` puts the parts along `pc`; it was
checked with TLC on the instance of `graph_passes`. From it: `PassesBindCleanly`.
It assumes nothing of the passes' inputs but that programs are made of the module's
opcodes and that strides and lengths of constants are positive (`StridesAssumption`, `ProgramsAssumption`): lowering makes no other.

Only model-checked:

- liveness (`CallsEnd` of the team, `CallsReturn` of the sink, `CallEnds` of the
  chains, `BuildEnds`): the prover has neither fairness nor `ENABLED`;
- `SameDensity` and `SameGradient` of `GraphPasses`: that the graph a pass leaves
  computes what the graph before it computed relates two whole sweeps, each a fold,
  over graphs of different lengths and an arena that outlives them; the proof of
  `BindsCleanly` is about the ops and the slots, not about the cells;
- `SameTarget`, `CopiesAgree` and `IslandsRunClean` of `StmtLowering`, with
  `MirSemantics` and `RegionCompiler`: recursive operators over statements, which the
  prover cannot use;
- `CompilerProcess` by itself; its invariant is proved as `ProcOK` of `ModelBuild`,
  which extends it.

## 7. Plan

Done: the modules above; a theorem for every invariant and action property of the runs
except the five that section 6 lists as only model-checked; four refinements.
Next, in order of importance:

1. The reroll pass, with lanes of width one, as an action of `GraphPasses` in the
   place where `PostReroll` now assumes that it found nothing.
2. That `make_inplace_updates` keeps every cell a later op reads: with `Trace` for the
   forward sweep, an invariant between the two arenas at each op. It is the first
   step to a proof of `SameDensity`.

## 8. Not modelled, and why

- *Kernels, densities, solvers, the samplers' numbers*: floating-point code that
  the repository compares with Stan; a discrete model tells nothing apart.
- *Rerolling, partition, collapse, islands' fusion, structured loops*: they match
  long runs of similar ops (at least four lanes) and write new ones; the graphs
  in which they do anything are beyond those TLC enumerates here, except for the
  narrow part named in the plan.
- *Generated adjoints* (`adjoint.cpp`): the derivative of a register program over
  real numbers.
- *Containers, expressions and functions in lowering*: translation without
  control of its own; what they share with the control statements (the copies of
  an integer, the islands) is modelled.
- *The stanc3 front end*: sequential OCaml over types of stanc3.
- *Stan's services, walnutpie, initialisation*: libraries called on one thread, or
  a retry loop with the two outcomes `ChainRunner` has.
- *Bindings and the web front end*: calls of the C API; what they may do is the
  environment of `ChainRunner` and `MessageSink`.
- *BridgeStan ABI, reports, JSON reading, command-line parsing, harnesses*: no
  state of their own beyond what is modelled.
- *Relaxed memory order*: the relaxed cursors are only ever modified by atomic
  read-modify-write operations, and what they guard is published under a mutex or
  by a join.

The modelled lines are a small share of the repository, because most of its lines
are kernels, tables of functions and densities, and generated or numeric code;
the share is high in the files that hold threads, locks, passes and control.
