# Compute Library in TLA+

Specifications of the control logic of the Arm Compute Library: how kernels are cut into workloads and
run by threads, how functions share memory, how a network is rewritten, given memory and executed, and how operators are
fused into GPU kernels. They are written from the C++ of this repository
(paths below are relative to its root; a `src/`
in front of a path in `PROJECT.json` is the directory that holds the repository, so `src/src/runtime/IScheduler.cpp` is
`src/runtime/IScheduler.cpp` of the repository). TLC checks them on small instances; TLAPS proves the theorems of the
`*Proofs` modules for every value of the constants.

    tlc -config MCSchedulerPool.cfg CPPScheduler       # any run of PROJECT.json: its module and its cfg
    tlapm CPPSchedulerProofs.tla                       # any proof module

## 1. The system

The library is a set of *functions* (`NEGEMM`, `CLConvolutionLayer`, ...), each a sequence of *kernels*. A kernel
declares a `Window`, the iteration space over its output, and the scheduler of its backend runs it over that window.
What a user sees is `configure()` (once), `run()` (often), a memory manager that functions may share, and, on top, a
graph API that builds, rewrites and executes networks of functions. The numerical kernels are most of the code; the
logic that is shared, concurrent or stateful is the part modelled here.

| component | state it keeps | operations | talks to | hard behaviours | what makes it correct |
|---|---|---|---|---|---|
| CPP thread pool (`runtime/CPP/CPPScheduler.cpp`) | threads, per-thread job, flags, mutex and condition variable, wake-up mode | `run_workloads`, `set_num_threads[_with_affinity]`, destructor, the worker loop | kernels (workloads), callers on any thread | one condition variable for two waiters, notify outside the lock, a tree of wake-ups, exceptions from any thread, resizing | every workload once, no lost wake-up, the caller's stack is not used after it returned, calls end |
| Kernel scheduling (`runtime/IScheduler.cpp`, `SchedulerUtils.cpp`, `core/Window.inl`, `OMP/`, `SingleThreadScheduler`) | none of its own; reads the thread count | `schedule`, `schedule_op`, `split_window`, `split_2d`, `adjust_num_of_windows` | thread pool | remainders, empty windows, a thread count that changes meanwhile | each iteration of the kernel's window once, windows not too small |
| Scheduler registry (`runtime/Scheduler.cpp`) | map of schedulers, current type, custom scheduler | `set`, `get`, `is_available` | all of the above | lazy initialisation | see section 6 |
| Lifetime managers (`ISimpleLifetimeManager`, `BlobLifetimeManager`, `OffsetLifetimeManager`) | active group, active objects, free and occupied blobs, mappings, blob sizes | `register_group`, `start_lifetime`, `end_lifetime`, `release_group` | memory groups, pools | nested groups, blobs reused by objects of different sizes, groups mapped at different times | objects alive together never share memory, everything fits |
| Pools (`PoolManager`, `BlobMemoryPool`, `OffsetMemoryPool`, `MemoryManagerOnDemand`, `MemoryGroup`, `support/Semaphore.h`, `TensorAllocator`) | free and occupied pools, semaphore, each group's pool and mappings, each tensor's memory | `populate`, `clear`, `acquire`, `release`, `lock_pool`, `unlock_pool`, `allocate`, `free`, `import_memory` | lifetime manager, threads | semaphore and mutex taken one after the other, notify outside the lock | no two users of a pool, no lost wake-up, memory present while it is used |
| Weights manager (`IWeightsManager.cpp`) | managed weights, their transforms, reference counts | `manage`, `run`, `acquire`, `release`, `pre_mark_as_unused` | functions | weights shared by functions, chained transforms | weights are not marked unused while a function still needs them |
| Graph (`graph/Graph.cpp`, `algorithms/TopologicalSort.cpp`) | nodes, edges, tensors, tagged nodes | `add_connection`, `remove_connection`, `remove_node`, `bfs`, `dfs` | mutators, graph manager | removal while ids are held, diamonds, two edges between the same nodes | edges, nodes and tensors agree; an order that respects edges |
| Graph mutators (`graph/mutators/*`) | the graph they rewrite, sub-tensor handles | fusion of activations and batch normalisations, grouped convolutions, in-place operations, windows for concatenations and splits | graph | a pass starts from what the passes before left; tensors with several readers | the rewritten graph computes what the graph as built did |
| Graph execution (`GraphManager`, `ExecutionHelpers`, `CrossLayerMemoryManagerHelpers`) | workloads, contexts, tensor handles | `finalize_graph`, `execute_graph`, `invalidate_graph` | memory manager, backends | transition buffers reused across layers, an exception in a task | no tensor is overwritten before its last reader |
| Dynamic fusion sketch (`dynamic_fusion/sketch`: `DependencyGraph.h`, `GpuOperatorGroup`, `GpuKernelComponentGraph`, `GpuKernelComponentGroup`) | dependency graphs of operators and of components, tensor infos, tiles | `create_op` of each operator, `try_add_operator`, `add_operator`, `remove_operator`, `fuse`, `finalize` | workload runtime | roll-back when an operator does not fit, tiles given away, tensors that exist only inside a kernel | a linear sequence, a refused operator leaves no trace, one kernel computes what its operators would |
| Dynamic fusion runtime (`ClWorkloadRuntime`, `template_writer`) | kernels, tensor look-up tables | `configure`, `run` | sketch, OpenCL | what one kernel leaves for the next | outputs after each run |
| OpenCL runtime (`CLCompileContext`, `CLScheduler`, `CLTensorAllocator`, `CLTuner`) | program caches, queue, mapped memory, tuning table | build, enqueue, map and unmap, tune | OpenCL driver | driver-side asynchrony | caches return what was asked for |
| Tensor metadata (`TensorInfo`, `SubTensorInfo`, `TensorShape`, `AccessWindow*`) | shape, strides, padding | `extend_padding`, `set_tensor_shape`, ... | every function | padding after allocation | offsets and strides agree with padding |
| Operators, CPU kernels, OpenCL kernels, kernel writer, C API, CPU information, tests and tools, vendored headers | - | - | - | numerics, code generation, I/O | not modelled, see section 7 |

A function's `run()` acquires the memory of its group, which takes a pool from the pool manager; then every kernel goes
through `Scheduler::get().schedule()`, which cuts the kernel's window into workloads and gives them to
`run_workloads()`; when all have ended the group releases its pool. `configure()` has, before that, told the lifetime
manager when each tensor is needed, and `populate()` has made the pools from what it found out. The graph API is built on
this: `finalize_graph` runs the mutators over the graph the frontend built, orders the nodes, has the backend make a
function for each, and tells a memory group from which task to which each buffer between tasks is needed;
`execute_graph` calls the input accessors, the tasks and the output accessors. Dynamic fusion is a world of its own: the user
creates operators in a *sketch*, whose operator group refuses what cannot be fused; the runtime turns the components of the operators
into one or more OpenCL kernels and runs them in order. The hazards of each part, at the line where they bite and with the properties that watch them, are
listed in `PROJECT.json`.

## 2. The modules

    WindowSplit <---- KernelSchedule ----> WorkloadBatch <.... CPPScheduler
                           ^                (promise)      implements
                       KernelLoop

    LifetimeManager <---- MemoryManager ----> PoolAllocation <.... PoolManager
                                               (promise)       implements

    Graph <-- TopologicalSort <-- GraphBuilder <-- GraphMutators <-- CrossLayerMemory <-- GraphManager
      ^                                                                                       .   |
      |                                                                                       . WeightsManager
      +----------------------- Dataflow (promise) <.............................. implements ..

    DependencyGraph <-- FusedKernel <-- WorkloadSketch

| module | models | state and actions |
|---|---|---|
| `CPPScheduler` | the thread pool, thread by thread and lock by lock | One value of `wpc`, `waitForWork`, `jobComplete`, ... per node of `_threads`; one caller, because `_run_workloads_mutex` admits one. A step is what happens between two points where another thread can interfere: the unlocked set-up of a thread, the locked half of `Thread::start`, its `notify_one`, one workload, the end of a job, the `notify_one` after it. A condition variable is the set of threads whose `pc` is `"blocked"`; both may also wake spuriously. `outcome` is a history of what each workload did. |
| `WorkloadBatch` | the promise of `run_workloads`: no thread, no lock | `Submit`, `Execute`, `Return`. `CPPScheduler` refines it, `KernelSchedule` is built on it. |
| `WindowSplit` | `split_window`, `adjust_num_of_windows`, `split_2d` as operators over integers | `std::round(std::sqrt(...))` is an integer inequality; where the code converts an infinity to unsigned, any value up to the thread count may result. |
| `KernelSchedule` | `schedule_common`, `OMPScheduler::schedule_op` and `run_workloads`, `SingleThreadScheduler` | One call of `schedule` at a time; `runs` is the bag of iterations the kernel was run on. The number of threads may change between the unlocked read and the batch. Windows have two dimensions, because splitting treats the others as it treats Y. |
| `KernelLoop` | `execute_window_loop`, `Iterator`, window slices, `collapse_if_possible` | Operators that turn a window into the sequence of calls of the kernel's lambda, each with the coordinates and where every iterator points. Windows have two more dimensions here, which no scheduler splits. Its properties are about the windows of the workloads of `KernelSchedule`. |
| `PoolManager` | `PoolManager`, `Semaphore`, and `acquire`/`release` of the group each thread runs | `lock_pool` is: read the free list and then the occupied list (assertion), the semaphore, the mutex and the splice; `unlock_pool` is: the splice under `_mtx`, the increment, the notification. `_mtx` is held over the last two, which is why `mtx` is a variable. |
| `PoolAllocation` | the promise of `IPoolManager` | `Want`, `Grant`, `GiveBack`, `Add`, `Withdraw`. `PoolManager` refines it, `MemoryManager` is built on it. |
| `LifetimeManager` | `ISimpleLifetimeManager` with either subclass | The lists of free and occupied blobs in the order of the code; `mappings` is what `update_blobs_and_mappings` writes into the groups; `together` is a history of the pairs of objects that were alive at the same time. |
| `MemoryManager` | `MemoryManagerOnDemand`, `MemoryGroup`, `TensorAllocator` and the two kinds of pools | The actions of `LifetimeManager` while nothing is populated; `Populate` remembers the sizes the pools were created with; then each group acquires (`Acquire`, `Lock`, `Map`) and releases (`Unmap`, `Unlock`) in steps that interleave with those of the others. |
| `Graph` | `Graph`, `INode`, `Edge`, `Tensor` | A record of sequences of nodes, edges, tensors and handles, as the vectors of the code, with `Empty` for what is removed. Operators `AddNode`, `AddConnection`, `RemoveConnections`, `RemoveNode`, `SetOutputTensor` return the new graph; `EdgesAgree` relates the three places that know of an edge. |
| `TopologicalSort` | `bfs` and `dfs` | A turn of the loop is a function of the visited set, the order so far and the stack or queue of the code; a node may be pushed more than once. The loop is a table of turns, and goes on until a turn finds nothing to do or there were as many turns as nodes and edges, which the theorems show is enough. |
| `GraphBuilder` | the calls of `GraphBuilder` and the shapes nodes give their outputs | A tensor's shape is its width along the channel axis, which concatenation, split and grouped convolution act on. |
| `GraphMutators` | the five mutators that change a graph, in the order `default` passes have | One operator per pass, its loop a fold over the nodes or the order that the code iterates over. A window is a handle with a parent and an offset. |
| `CrossLayerMemory` | which handles get memory, and the lifetimes computed for those between tasks | `HandleLifetimes` is the loop of `configure_handle_lifetime` over the tasks, `AcquireRelease` what it does at one of them: handles in flight with the readers they still wait for. |
| `Dataflow` | the promise of `execute_graph` | `Build`, `Execute`: each output is handed the value that the graph denotes. `GraphManager` refines it. |
| `WeightsManager` | `manage`, `pre_mark_as_unused`, `release` of the weights manager | A manager is a value: a counter and a flag for each of the weights it manages. |
| `GraphManager` | `finalize_graph` and `execute_graph` on the CPU backend, from the frontend's calls on | `Frontend`, `RunBackendPasses`, `ConfigureWorkload`, `PrepareAllTasks`, `ConfigureTransitionManager` or `AllocateAllTensors`, then `CallInputAccessors`, `CallAllTasks`, `CallOutputAccessors` again and again. Memory holds atoms `<<node, output, position>>`; a task that does not find in its windows the values its first node reads writes junk, and so does the memory manager to every buffer outside its lifetime. |
| `DependencyGraph` | the class of that name | The four adjacency lists and `_last_op`, with one operator per method. |
| `FusedKernel` | `GpuKernelComponentGroup` and the code the template writers generate | `Accepts` is `add_component`; `Tensors` and `TileMap` are the two passes of `finalize`; `Compiles` says when the text is a kernel: the codes of the components share one scope, where no tile may be declared twice and none be used undeclared. `Component` says what the code of each kind of component does to tiles and memory. |
| `WorkloadSketch` | the operators, `GpuOperatorGroup`, `GpuKernelComponentGraph`, `ClWorkloadRuntime` | `CreateComplex`, `CreateActivation`, `CreateCast`, `CreateElementwiseBinary`, `CreateOutput`, `CreateSoftmax`, then `Configure`, or `ConfigureFails` if a kernel does not compile, `EnqueueOp` kernel by kernel, `RunAgain`. `meaning` is a history: each tensor as a term over the inputs. `Answer` is what `create_op` tells its caller. |
| `MCKernelSchedule`, `MCMemory`, `MCGraph`, `MCSketch` | - | values for constants that a cfg cannot write, and symmetry |
| `CPPSchedulerProofs`, `KernelScheduleProofs`, `PoolManagerProofs`, `MemoryManagerProofs`, `WorkloadSketchProofs`, `GraphManagerProofs` | - | theorems about the module of the name and those below it |
| `GraphProofs`, `DataInduction` | - | lemmas on the operations of a graph; induction over numbers and the unrolling of folds |

An operator whose name has an underscore and a second word after that of another (`TakePool_Keeps` before `TakePool`)
is a mutant: the same step with a plausible mistake, with which the property named in `PROJECT.json` must fail. No
specification uses one.

## 3. What the runs check

| run | question | instance, and why it is enough |
|---|---|---|
| `pool` | Does the wake-up tree start each thread in use once, is any wake-up lost, is the pool quiet when a call returns, does the pool implement `WorkloadBatch`? | 5 threads, up to 5 workloads, fanout 2, Fanout mode from 3 threads on: both modes, a tree of depth two with a clamped last range, batches larger and smaller than the pool, growing, shrinking, destruction. |
| `failures` | What does a caller learn of workloads that raise? Does every call end? | 4 threads, up to 4 workloads, each of which may end well or raise one of two kinds of exception, so that several of one batch do. |
| `forced_fanout` | Is a workload ever executed twice, even with the Fanout mode forced by the environment? | 3 threads. Here the process may hang or run off the end of a list (below), so deadlock is not checked. |
| `kernel` | Is every iteration run exactly once? Are the windows valid, big enough, not too many? Do the loops of a kernel visit each iteration of its part once, with its iterators at the right element, and do slicing and collapsing change neither? | Dimensions of 0, 3 and 4 iterations with a start and a step that are not 0 and 1, up to 4 threads, three minimum-workload-size functions, two thresholds, each kind of hint, three schedulers. Two upper dimensions of 2, so that there is something to slice, reset and collapse at each level below; tensors with one element in no dimension, in the first, in the second and third. |
| `pools` | Does whoever passes the semaphore find a pool, has a pool one user, is a wake-up lost, do pools keep moving, is `PoolAllocation` implemented? | 4 threads and up to 3 pools: more threads than pools, so that some sleep while several are between the semaphore and the mutex. |
| `memory` | Do objects alive together get disjoint memory in one group, does everything fit, is memory that is needed ever overwritten, missing or dangling while groups run? | 3 tensors in 2 groups, two sizes of which the smaller has the alignment and the other is no multiple of it, 2 pools, populated, cleared and reconfigured; either manager, groups nested in one another. |
| `graph` | Do nodes, edges and tensors agree, are the orders topological, are buffers managed while they are read, are shared weights freed when all have copied them, is every supported graph executed as promised? | All graphs of up to 2 sources and 4 nodes of six kinds, with an output on every unread tensor, on all but one, or on one more: a concatenation of a split, a diamond, two edges between the same nodes, in-place after in-place, layers that share weights all occur. Eight larger graphs give what four nodes cannot: nested concatenations, grouped convolutions with an activation on either side, a residual block, a split whose branches are changed in place, a rejoined split, fusion behind a node with two outputs, three layers that share weights, and a concatenation nobody reads one of whose inputs is read. Both ways to set up memory, any number of executions. Deadlock is not checked, since finalisation and execution may end with an exception. |
| `sketch` | Is what the sketch accepts linear, are components ordered, do only unfusable components split kernels, does a refused operator leave no trace, which sketches become kernels that compile, do outputs hold what the operators mean? | Up to 5 operators (4 of a group, so that the limit is reached) over 1 or 2 inputs of three combinations of shape and type; the constants are 4 operators, 8 components and 3 destinations for the 32, 64 and 8 of the code: a sketch meets the limit on operators, and never the one on components, in both. Deadlock is not checked: a sketch whose `create_op` or `configure` raised is not used again. |

Four disagreements between the code and what it says of itself have a run whose counterexample shows them.

- `forced_hang`: with `ARM_COMPUTE_CPP_SCHEDULER_MODE=fanout`, a batch that uses one thread starts a pool thread that has
  no workload; the thread exits, and a later batch waits for it for ever. (In the other modes Fanout is
  chosen only for many threads, and the two clamps agree.)
- `pools_false_alarm`: in a build with assertions, `lock_pool` may report that no pools were set up while the only pool is
  on its way from one list to the other.
- `graph_inplace`: an elementwise operation whose first input cannot be overwritten takes the tensor of its second input, also if other
  nodes read it; the mutator looks at the readers of the first input only.
- `sketch_tiles`: `finalize()` counts the usages of an input's tile from 0 again at each component that reads it, so that in `x * sigmoid(x)`
  the sigmoid overwrites the tile of `x`, which the multiplication reads. With the present template writers this stays without
  consequence, because such a kernel declares the tile of `x` twice and does not compile (TLC finds no kernel that compiles in which it happens).

More were met that the models describe and no run is devoted to: a `std::system_error` raised by a workload is printed by
`run_workloads`, which returns as if all was well (`result = "swallowed"` in `CPPScheduler`), also when it has replaced an ordinary error of an earlier thread
of the list, which is lost; a sketch that loads a tensor twice (`x + x`, `(x + row) + row`, `x * sigmoid(x)`) is accepted and then cannot be configured; `split_dimensions_all` cuts the window of a
kernel that says it cannot be cut; `register_group` does nothing while another group is active, so that a group whose objects are managed inside another
one's configuration gets no mappings of its own, and the outer group's `acquire()` backs them. The graph passes and the sketch have preconditions
that nobody checks; they are the next section.

### What is promised only under a condition

`SlicesAreTheWindow` asks for steps of 1 in the dimensions that are cut, and that none is empty: `slide_window_slice` advances by 1 whatever
the step, and the loop of its callers visits one slice before it asks for the next. `CollapsedIsTheSame` asks that the scheduler did not split the
dimension that grows, and that it starts at 0 with a step of 1: `collapse_if_possible` compares the dimensions above it with the full window, and never
looks at it. Kernels rely on both by the dimension they let the scheduler split.

`Supported` of `GraphManager` says which rewritten graphs are executed as promised. Each of its conjuncts is there because TLC finds
`ImplementsDataflow` or `SupportedGraphRuns` violated without it, by a counterexample that was then followed through the code:
an operation in place on a tensor, a part of a split or a concatenation that somebody else reads, or on a part of a constant; a tensor that two passes
make a window (two concatenations, or a split output that is concatenated: the second `set_handle` destroys the first handle); an input,
constant or output that is a window into a tensor which is none of these, and gets no memory; a split of a split; an output that nobody reads (`hc.at()` raises
`std::out_of_range`, or an accessor finds no memory); a fused or grouped convolution behind an output of a node that is not its first;
weights of fully connected layers that anything else reads (they are freed once the layers have copied them).

`OperatorsAreLinear`, `TilesAreConsumedOnce` and what `OutputsHoldTheirMeaning` says of `configure` exclude sketches that begin with an output (`_last_op_available` is false then, the linear check
is skipped, and the next operators may read whatever they like). `CanBeCompiled` says for the others exactly which of them `configure` takes: elementwise
components, and an activation that is the root, declare a tile for each tensor of the user they read, in the one scope that all components of the kernel share, so no tensor may
be read so twice; and a result that nobody reads has no tile at all. What an output holds is promised if the sketch is `InStep`: an elementwise component
multiplies the third index of the window by the stride between batches (`ClTemplateElementwiseBinary.cpp:104`), but behind a root other than a convolution or an
elementwise component that index is a plane, and a full tensor that comes in there is read at the wrong place. TLC finds a counterexample to that without `InStep`, and one to the former for a sketch that begins with an output.

### Bounds

`MaxThreads` bounds `set_num_threads`, `MaxWorkloads` the batch; both are constants the theorems leave free. The sets `Objects`,
`Groups`, `Pools`, `Threads`, `Requests`, `Dimensions`, `Thresholds` and `KernelMws` are finite in the runs. No model has a
counter that needs a bound of its own: the feeder passes the end of a batch at most once per thread, the semaphore is
bounded by the pools. Objects, groups and pools of the memory runs are interchangeable, so these use symmetry; they check
invariants only, for which it is sound.

### Fairness

`CPPScheduler` has weak fairness of each worker and of the caller inside an operation: the operating system runs every
thread that is not blocked, and no step of a thread is disabled again and again by others while it waits for a mutex,
because a worker holds its mutex for one job, which ends. New operations and spurious wake-ups are never required.
`PoolManager` has weak fairness of the threads inside `lock_pool` and `unlock_pool` and of the end of a function that runs.
It is not enough for a promise that each thread gets a pool, and the code makes none: a notified thread may find that
another has taken the unit of the semaphore. `PoolsKeepMoving` promises only that somebody gets one.
The graph and the sketch are sequential, and only safety is asked of them.

### Assumptions on the environment

Configuration is done by one thread, as `docs/user_guide/library.dox:278` asks: `manage` and `allocate` happen while the manager has no pools, and pools
are registered, released and cleared while no thread is in `lock_pool` or holds one. A managed object has one lifetime until its group is released, and a tensor
that a group manages is not freed while the group exists. In a build without assertions `acquire` is called only when pools exist. Alignments are powers of two (`AlignmentAssumption`); an alignment of 0 asks for none.
One thread builds a graph, one target (the CPU) executes it, node validation passes. Elementwise operations have inputs of one width, or
one of width 1, which is broadcast; a split has two parts of equal width. Weights of convolutions and all biases are no nodes: a convolution is a function of its input.
Weights of fully connected layers are constants, which the layer transposes when it is prepared (the default of `FullyConnectedLayerInfo`), and the context has
a weights manager (the default of `GraphConfig`). The lifetime manager behind
the group of a graph is represented by its promise, which the `memory` run checks. In the sketch `validate_op` passes for what the
actions name, no two sketches share a compile context (which finds programs by the name of the kernel), the template writers write the kernels, and a full tensor has several planes and batches; a build without assertions is assumed where an operator reads one tensor twice (`link_input` asserts otherwise).

## 4. What is proved

For every value of the constants that satisfies the named assumptions:

- `CPPSchedulerProofs`, for the modes that are not forced: `TypeCorrect` (types, and indexes that stay within the list of threads and the batch), `QuiescentReturn` (when a call has returned
  no worker holds a pointer into its caller's batch) and `StartsAreUnstarted` (each start goes to a thread in use that has its
  workload and was not started). The last two are not inductive. `IInv` adds, for each thread of a batch, the phases it goes
  through in order - set up, waiting for its starter, started, running, finished - and ties the starter to the wake-up tree: lemmas
  `OneWaker` and `SomeWaker` say that the ranges `[(t+1)f-1, (t+2)f-1)` of different wakers are disjoint and cover every thread
  in use, so that the starter of a thread is unique and exists. With forced Fanout the theorem is false (`forced_hang`),
  which is where the proof needs its hypothesis.
  For the same modes it proves `NoWorkloadTwice`, `CallersLearn` (a call ends well exactly when everything was executed, and otherwise with the
  exception of the last thread of the list that raised one, whichever came first), `NoWakeUpIsLost`, and `PoolImplementsBatch`, the refinement
  of `WorkloadBatch`, which is what `KernelSchedule` builds on. The invariant `BInv` follows each
  workload: until it begins it is with exactly one of the feeder, the caller and the worker it was handed to, and an exception
  lies where the caller will look for it. `LastInv` says whose exception the caller has while it goes through the list. `SleepersInv` and `CallerInv` are about the condition variable that a worker shares with its
  caller: whoever sleeps with its condition true is about to be notified, and the caller is never a sleeper of a variable on which a
  starter is about to notify the worker, because it waits for the threads only after the one that starts them is past its notify.
- `KernelScheduleProofs`, about splitting: the parts of a window follow one another and are valid windows (`PartsFollow`), lie inside it
  (`PartsInside`), and contain each iteration exactly once (`EachStepInOnePart`), for all windows and all numbers of parts;
  `WindowsBigEnough` says that the smallest of the windows `adjust_num_of_windows` decides for has the minimum workload size.
  About scheduling: `KernelRunsOnce`, `AllPartsAreWindows`, `NoWindowTooSmall` and `GridOfThreadsFits`,
  for every window, hint, minimum workload size, scheduler and number of threads. The invariant `SInv` says that the windows of a
  call cut (`Cuts`) the one that was scheduled - each iteration in exactly one of them - and that the bag of iterations run so far is the
  set of iterations (`Covered`) of the workloads that are done. `PartsCut` gets the former for one dimension from the lemmas on parts,
  `GridCuts` for the grid of split_dimensions_all, whose loops name each place once (`PlacesOfGrid`), and `GridIsSmall` bounds the grid
  by the threads, whichever ratio the square root of split_2d is rounded to.
  About the loops of a kernel: `NestedLoopsRunOnce` (over all parts, the lambda is called once for each iteration in all dimensions: the calls
  of a part name each iteration once, those of two parts none in common, and together they name those of the whole window) and
  `IteratorsPointToTheirElement`. The nested loops are a recursive function; `ExecuteWindowLoopIs` goes from the innermost loop out, by
  `SetInduction` over the dimensions, and says of the calls that they are those of the product of the steps, in lexicographic order, with
  the offset of an iterator the product of coordinates and strides. About two ways to
  go through a window other than by its loops: `SlicesLeadThroughTheWindow` and, for a kernel that has a tensor as large as its window
  (`{} \in Broadcasts`), `CollapsedLeadsThroughTheWindow`. Two lists of the same calls that are both in lexicographic order are equal
  (`ListedOnce`), so it is enough to show which calls are made and that they are in order. Of slices: what is left of the window from one slice on
  is that slice and what is left from the next (`NextSlice`), and the next is further on in an order without infinite ascent (`LexicallyLeast`, `GoingEnds`).
  Of collapsed windows: merging one dimension with the next maps coordinates one to one, in order, and to the same offsets, because the strides of
  the tensor are packed (`MergedLeads`); `Collapse` does that one dimension at a time.
- `PoolManagerProofs`: `PassesFindPools`, `PoolsNeverShared`, `NoWakeupLost`, `TypeCorrect`, and `ManagerImplementsAllocation`, the
  refinement of `PoolAllocation`. The semaphore and the free list change at different times: `CountInv` says that the list is
  longer than the semaphore's value by the number of threads between the two, and `WakeInv` that while somebody sleeps the
  value is at most the number of threads that will look at the semaphore or make a sleeper look.
- `MemoryManagerProofs`, about lifetimes: `LivingHaveBlobs`, `NeighboursApart` and `PoolsFit`, for both managers.
  `LifetimeInv` says that every element of the active group uses one blob, that two users of one blob were never alive together,
  that the active group and the finalized ones have different objects, and that every mapping leads to a blob that holds its object.
  The last part needs that update_blobs_and_mappings sorts the blobs of both sides and takes the maximum at each place, so a mapping
  made earlier still fits; under `OffsetLifetimeManager`, that the offsets, which a fold adds up, place the blobs one behind the other
  (`OffsetPlaces`, `PlacesInv`). `AlignmentAssumption` (of two alignments that are asked for, the larger is a multiple of the smaller) is used by `PoolsFit` alone.
  About the memory manager: `NoTensorDangles`, `MemorySharedOnlyByDead` and `RunningIsBacked`. Each step of the
  composition is a step of the lifetime manager or leaves its variables alone, so `LifetimeInv` holds of it as well;
  `ExecInv` adds that pools are held by one thread, that handles are set exactly while their group runs, and that a populated pool
  was made from the current blobs.
- `WorkloadSketchProofs`: `RefusedLeaveNoTrace`, `OperatorsStayLinear`, `StreamStaysOrdered` and `OnlyUnfusableKernelsSplit`, for every number of operators, of inputs and any
  shapes and types. `SketchInv` says that the
  dependency graph of the operators reflects (`Reflects`) the list of those accepted - its adjacency lists are exactly what that list says, so that the roll-back
  of a refused operator restores them -, that the last operator is the one appended last, and that the list is linear. The latter speaks of a
  sketch that does not begin with an output, as the property does.
  `OrderInv` adds what the other two need. `Arranged`: every component reads what earlier ones or nobody made, and no tensor is made twice; this makes the graph of
  components `Layered`. For such a graph a call of build_operators_sequence from a tensor visits only what it may (`FromGoesFurther`), and between two calls from the roots
  nothing waits: an operator whose inputs have all been visited is in the sequence. So the sequence has every operator, once, after those it reads (`SequenceIsOrder`),
  and fusing only puts brackets into it (`GroupsAreFlat`). `Mirrored`: unless they are those of one unfusable operator, the components are the operators one by one, at
  most `MaxFusedOperators`, all of one shape with one destination, and at most the first is complex. Since only the first reads nothing of the others a complex one is also the
  first of the sequence (`ComplexIsFirst`), and one kernel accepts the whole of it (`OneGroup`). `LimitsAssumption` is used here: a group of operators is not longer than a
  kernel can be (32 and 64 in the code), and the two destinations of the first softmax component are fewer than the limit (8).
- `GraphManagerProofs`, on top of `GraphProofs`: the graph API, for every graph the frontend can build. The invariant is that a graph is
  `Good`: the three places that know of a connection agree (`WellFormed`), every input is connected (`Full`), and there is a rank that grows along the edges.
  `GraphProofs` has what each call of `Graph` changes and that it keeps this (a call that wires many connections is a table of steps, and
  what a turn keeps holds at the end); the ranks are kept by an argument of its own for each
  rewriting: what is appended is above all else, a removed node leaves a gap, and a node put in place of another takes its rank.
  `GraphStaysGood` carries it from the first node through the frontend and all passes. From it follow
  `GraphIsConsistent` and `OrdersAreTopological`: `bfs` and `dfs` name only nodes whose producers they named (sources aside), and do not end before
  they have named every node. The first is an invariant of the turns of the loop; the second, that a turn which finds nothing to do leaves nothing,
  since a node of the least rank among those not named would be waiting; and each turn makes `DfsLeft` or `BfsLeft` smaller, so the turns suffice.
  `WeightsAreReleased`: in the weights manager the counter of shared weights is the number of layers still to copy them, and what it knows to be unused is
  not allocated again. `HandlesManagedWhileRead`: the counter of a handle in flight is the number of reads to come (`LifetimeSteps`), so that
  the group manages the handle once, from the first task that touches it to the last that reads it, whichever tensors are windows of it.
- `DataInduction` has what all of these share. The induction theorems of the library take an operator as a parameter, which the installed provers cannot
  instantiate, so it is stated of sets: a set with 0 that has the successor of each member has every number (`SetInduction`, from the
  well-foundedness of the numbers). From it come functions defined step by step (`StepByStep`), and folds over sequences and over sets as tables of their
  intermediate results (`FoldTable`, `FoldOfSet`). Recursive definitions in the modules are functions or folds for that reason.

One proof attempt corrected the model. It used to be said that every task which touches a handle lies in its lifetime. That is false, and only the bounds of the
run hid it: a concatenation nobody reads, one of whose inputs is read as well, is written through a window after
the last reader has released the handle. TLC finds it in the graph `Tapped` of `MCGraph`. What holds of every graph is `ReadWhileManaged`; the stronger claim is now a part
of `SupportedGraphRuns`, since `Supported` asks that somebody reads every output.

Model-checked only:

- Liveness, `CallsReturn` and `PoolsKeepMoving`: the proof system has no backend for `ENABLED` and fairness.
- Whatever the forced Fanout mode does: the theorems about `CPPScheduler` are false of it.
- `SupportedGraphRuns` and `ImplementsDataflow`: these need, at each pass, that the values which a rewritten graph
  denotes are those of the graph before, under all the conditions of `Supported` together, and for the execution that no buffer is reused too soon.
- `FirstInputNotShared`: the invariant on the graph would also have to follow which nodes were made before which, through all rewritings.
- `OutputsHoldTheirMeaning` of the sketch: it needs `CanBeCompiled` and `InStep` to be carried into the tiles of each kernel, and what a kernel computes is a term that grows with the sketch.
- `TilesAreConsumedOnce` is what the run that expects a violation refutes.

## 5. What is done and what is left

Done, in this order: the thread pool and its promise, window splitting, kernel scheduling and the loops of kernels, pools and their promise, lifetimes,
the memory manager, the graph with its passes, its execution and the weights its layers share, the dynamic fusion sketch. Left, most important first:

1. `SchedulerRegistry`: lazy initialisation raced by two threads, and `set` before `get`.
2. `GraphManager`: `invalidate_graph` (which leaves nodes configured, so that a second `finalize_graph` makes no task); several targets; a context without a
   weights manager, or with several graphs; a task that raises and leaves the pools of the transition buffers locked.
3. `WeightsManager`: chained transforms (`acquire`, `run`), which no function of the library uses.
4. `MemoryManager`: groups run inside one another by one thread; `free()` of managed tensors; sub-tensors.
5. `CompileContext` (program and kernel caches), `TensorPadding`, the tensor look-up table of `ClWorkloadRuntime`, which keeps entries of earlier runs.

Theorems to add: `FirstInputNotShared`, and then what the values of a graph are after each pass, which `SupportedGraphRuns` needs.

## 6. The scheduler registry

`Scheduler::get`, `set` and `is_available` are a few assignments to static members without a lock. Two facts are
hazards and are planned as a module: the map of schedulers is filled at the first `get()` (two threads may both fill it,
and the second destroys the schedulers to which the first returned references), and `is_available()` looks into it before.

## 7. Not modelled

CPU and OpenCL kernels, their assembly and the kernel writers compute numbers or print source text: there is no control
to check that TLC could reach. The several hundred operator and function classes are one pattern, a sequence of kernels
and inner functions, which the schedulers see as calls of `schedule` and the memory manager as groups. The C API wraps
objects in handles. CPU information reads files of the operating system; all that matters of it here is the constant
`ThreadHint`. The OpenMP runtime and the OpenCL driver are external. The vendored headers, tests, examples and scripts
are not part of the library.
