--------------------------- MODULE KernelSchedule ---------------------------
(***************************************************************************)
(* A function schedules a kernel: IScheduler::schedule_common and the      *)
(* schedule and schedule_op of the three built-in schedulers (CPP, OMP and *)
(* SingleThread).  The window is cut into workloads, which run_workloads   *)
(* executes; its promise is the module WorkloadBatch, which CPPScheduler   *)
(* is shown to implement.                                                  *)
(*                                                                         *)
(* A window has two dimensions here, X and Y; the other four are never     *)
(* split in a way that differs.                                            *)
(***************************************************************************)
EXTENDS WorkloadBatch, WindowSplit, FiniteSets, Bags

CONSTANTS MaxThreads,    \* bound on num_threads()
          Dimensions,    \* the Window::Dimension values a window is made of
          Thresholds,    \* Hints::threshold()
          KernelMws      \* get_mws: functions of the thread count

ASSUME ScheduleAssumption ==
    /\ MaxThreads \in Nat \ {0} /\ MaxWorkloads \in Nat
    /\ Failures \subseteq {"error", "system"}
    /\ \A d \in Dimensions : d \in Dimension /\ Valid(d) /\ NumIterations(d) <= MaxWorkloads
    /\ Thresholds \subseteq Int
    /\ KernelMws \subseteq [1..MaxWorkloads -> Nat \ {0}]

VARIABLES
    backend,       \* the scheduler that Scheduler::get() returned
    numThreads,    \* its num_threads(), which any thread may change
    pc,            \* where the caller of schedule() is
    call,          \* the kernel, the window and the hints it passed
    threads,       \* the number of threads read by this call
    windows,       \* windows[w]: what workload w gives the kernel
    runs           \* the bag of the iterations the kernel ran on

vars == <<batchVars, backend, numThreads, pc, call, threads, windows, runs>>

-----------------------------------------------------------------------------
NoWindows == [w \in {} |-> "pending"]

(* The iterations of execute_window_loop over a window.                    *)
Points(w) == Steps(w.x) \X Steps(w.y)

Along(w, dim) == IF dim = "X" THEN w.x ELSE w.y

(* max_window.split_window(dim, id, total)                                 *)
Part(w, dim, id, total) ==
    IF dim = "X" THEN [w EXCEPT !.x = SplitWindow(@, id, total)]
                 ELSE [w EXCEPT !.y = SplitWindow(@, id, total)]

Parts(w, dim, total) == [id \in 0..total-1 |-> Part(w, dim, id, total)]

(* The workloads of split_dimensions_all: ni is the outer loop.            *)
Grid(w, grid) ==
    [id \in 0..grid[1] * grid[2] - 1 |->
        Part(Part(w, "X", id % grid[1], grid[1]), "Y", id \div grid[1], grid[2])]

(* num_windows before adjust_num_of_windows.                               *)
InitWindows(c, num_iterations, num_threads) ==
    IF c.strategy = "STATIC" THEN num_threads
    ELSE Lesser(num_iterations, IF c.threshold <= 0 THEN num_threads ELSE c.threshold)

Calls == [window : [x : Dimensions, y : Dimensions], parallelisable : BOOLEAN,
          dim : {"X", "Y", "all"}, strategy : {"STATIC", "DYNAMIC"},
          threshold : Thresholds, mws : KernelMws]

(* Options that the code never looks at keep one value.                    *)
Sensible(c) ==
    /\ c.dim = "all" => c.strategy = "STATIC"
    /\ c.dim = "all" \/ ~c.parallelisable => c.mws = CHOOSE f \in KernelMws : TRUE
    /\ c.strategy = "STATIC" \/ ~c.parallelisable => c.threshold = CHOOSE t \in Thresholds : TRUE

-----------------------------------------------------------------------------
(* The three ways a call of schedule goes on.                              *)

Whole(c) ==
    /\ windows' = [id \in {0} |-> c.window]
    /\ pc' = "whole"
    /\ UNCHANGED batchVars

Nothing ==
    /\ windows' = NoWindows
    /\ pc' = "returned" /\ result' = "ok"
    /\ UNCHANGED <<active, outcome>>

Queue(ws) ==
    /\ windows' = ws
    /\ pc' = "queued"
    /\ UNCHANGED batchVars

Begin(c, n) ==
    /\ pc = "idle"
    /\ call' = c
    /\ threads' = n
    /\ UNCHANGED <<backend, numThreads, runs>>

(* schedule_common with split_dimensions_all: a grid of windows.           *)
ScheduleAll(c) ==
    /\ backend \in {"CPP", "OMP"} /\ c.dim = "all"
    /\ Begin(c, numThreads)
    /\ \E grid \in Split2D(numThreads, NumIterations(c.window.x), NumIterations(c.window.y)) :
          Queue(Grid(c.window, grid))

(* schedule_common along one dimension.                                    *)
ScheduleAlong(c) ==
    LET num_iterations == NumIterations(Along(c.window, c.dim))
        num_threads    == Lesser(num_iterations, numThreads)
    IN  /\ backend \in {"CPP", "OMP"} /\ c.dim # "all"
        /\ Begin(c, num_threads)
        /\ \/ num_iterations = 0 /\ Nothing
           \/ /\ num_iterations # 0
              /\ ~c.parallelisable \/ num_threads = 1
              /\ Whole(c)
           \/ /\ num_iterations # 0
              /\ c.parallelisable /\ num_threads # 1
              /\ LET init == InitWindows(c, num_iterations, num_threads)
                 IN  Queue(Parts(c.window, c.dim,
                                 AdjustNumOfWindows(num_iterations, init, c.mws)))

(* OMPScheduler::schedule_op does not use schedule_common: a window for    *)
(* each thread, however small, and an empty window gives no workloads.     *)
OMPScheduleOp(c) ==
    LET num_threads == Lesser(NumIterations(Along(c.window, c.dim)), numThreads)
    IN  /\ backend = "OMP" /\ c.dim # "all" /\ c.strategy = "STATIC"
        /\ Begin(c, num_threads)
        /\ IF ~c.parallelisable \/ num_threads = 1
           THEN Whole(c)
           ELSE Queue(Parts(c.window, c.dim, num_threads))

(* SingleThreadScheduler::schedule and schedule_op.                        *)
STSchedule(c) ==
    /\ backend = "ST"
    /\ Begin(c, 1)
    /\ \/ c.dim # "all" /\ NumIterations(Along(c.window, c.dim)) < 1 /\ Nothing
       \/ Whole(c)

-----------------------------------------------------------------------------
(* kernel->run on window w.                                                *)
RunOn(w) == runs' = runs (+) SetToBag(Points(w))

(* The caller itself runs the kernel: what it raises reaches the caller of *)
(* schedule, whatever its type.                                            *)
RunWhole ==
    /\ pc = "whole"
    /\ \/ RunOn(windows[0]) /\ result' = "ok"
       \/ Failures # {} /\ result' = "throw" /\ UNCHANGED runs
    /\ pc' = "returned"
    /\ UNCHANGED <<active, outcome, backend, numThreads, call, threads, windows>>

(* run_workloads(workloads)                                                *)
RunWorkloads ==
    /\ pc = "queued"
    /\ \/ windows # NoWindows /\ Submit(Cardinality(DOMAIN windows)) /\ pc' = "batch"
       \/ windows = NoWindows /\ SubmitNothing /\ pc' = "returned"
    /\ UNCHANGED <<backend, numThreads, call, threads, windows, runs>>

(* Some thread executes workload w.                                        *)
RunWindow(w) ==
    /\ pc = "batch"
    /\ \/ Execute(w, "done") /\ RunOn(windows[w])
       \/ backend # "OMP" /\ (\E e \in Failures : Execute(w, e)) /\ UNCHANGED runs
    /\ UNCHANGED <<backend, numThreads, pc, call, threads, windows>>

WorkloadsRun ==
    /\ pc = "batch"
    /\ Return
    /\ pc' = "returned"
    /\ UNCHANGED <<backend, numThreads, call, threads, windows, runs>>

(* The call has returned and its workloads are destroyed.                  *)
Forget ==
    /\ pc = "returned"
    /\ pc' = "idle" /\ call' = {} /\ threads' = 0
    /\ windows' = NoWindows /\ runs' = EmptyBag
    /\ outcome' = NoWindows /\ result' = "none"
    /\ UNCHANGED <<active, backend, numThreads>>

(* set_num_threads waits for the batch that is being executed, if any.     *)
SetNumThreads(n) ==
    /\ backend # "ST" /\ ~active
    /\ numThreads' = n
    /\ UNCHANGED <<batchVars, backend, pc, call, threads, windows, runs>>

Init ==
    /\ BatchInit
    /\ backend \in {"CPP", "OMP", "ST"}
    /\ numThreads \in IF backend = "ST" THEN {1} ELSE 1..MaxThreads
    /\ pc = "idle" /\ call = {} /\ threads = 0
    /\ windows = NoWindows /\ runs = EmptyBag

Next ==
    \/ \E c \in Calls : /\ Sensible(c)
                        /\ ScheduleAll(c) \/ ScheduleAlong(c) \/ OMPScheduleOp(c) \/ STSchedule(c)
    \/ RunWhole \/ RunWorkloads \/ WorkloadsRun \/ Forget
    \/ \E w \in DOMAIN outcome : RunWindow(w)
    \/ \E n \in 1..MaxThreads : SetNumThreads(n)

Spec == Init /\ [][Next]_vars
-----------------------------------------------------------------------------
(* Properties *)

(* The kernel is never run twice on an iteration of its window nor on one  *)
(* outside it, and a call that returned with no exception, seen or         *)
(* swallowed, has run it on every iteration.                               *)
ExactlyOnce ==
    pc # "idle" =>
        /\ runs \sqsubseteq SetToBag(Points(call.window))
        /\ pc = "returned" /\ result = "ok" => runs = SetToBag(Points(call.window))

(* Every part of a window is a window the kernel accepts (win.validate()), *)
(* with steps that start where the kernel's own steps start.               *)
PartsAreWindows ==
    pc \in {"queued", "whole"} => \A w \in DOMAIN windows :
        /\ Valid(windows[w].x) /\ Valid(windows[w].y)
        /\ Points(windows[w]) \subseteq Points(call.window)

(* IScheduler.cpp:144, "Make sure the smallest window is larger than       *)
(* minimum workload size": unless one thread does it all.                  *)
SmallestWindow ==
    backend = "CPP" /\ pc = "queued" /\ call.dim # "all" /\ Cardinality(DOMAIN windows) > 1 =>
        \A w \in DOMAIN windows :
            NumIterations(Along(windows[w], call.dim)) >= call.mws[Cardinality(DOMAIN windows)]

(* SchedulerUtils.h: the grid of threads fits in the threads there are.    *)
GridFits ==
    pc = "queued" /\ call.dim = "all" => Cardinality(DOMAIN windows) <= threads
=============================================================================
