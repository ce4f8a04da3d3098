---------------------------- MODULE WindowSplit ----------------------------
(***************************************************************************)
(* How an execution window is cut into workloads: Window::split_window     *)
(* (arm_compute/core/Window.inl), IScheduler::adjust_num_of_windows        *)
(* (src/runtime/IScheduler.cpp) and scheduler_utils::split_2d              *)
(* (src/runtime/SchedulerUtils.cpp).  A Window::Dimension is a record      *)
(* [start, end, step] with step >= 1: step 0 marks a broadcast dimension,  *)
(* which is never split.                                                   *)
(***************************************************************************)
EXTENDS Integers

Least(S)    == CHOOSE x \in S : \A y \in S : x <= y
Greatest(S) == CHOOSE x \in S : \A y \in S : y <= x
Lesser(a, b) == IF a <= b THEN a ELSE b

Dimension == {d \in [start : Int, end : Int, step : Nat \ {0}] : d.start <= d.end}

(* Window::validate                                                        *)
Valid(d) == d.start <= d.end /\ (d.end - d.start) % d.step = 0

NumIterations(d) == (d.end - d.start) \div d.step

(* The values execute_window_loop gives the coordinate.                    *)
Steps(d) == {v \in d.start..d.end-1 : (v - d.start) % d.step = 0}

(* Mutant: the shares of the first num_it % total parts do not push the    *)
(* later parts back.                                                       *)
SplitWindow_NoRemainder(d, id, total) ==
    LET num_it == NumIterations(d)
        work   == num_it \div total + (IF id < num_it % total THEN 1 ELSE 0)
        start  == d.start + (num_it \div total) * id * d.step
    IN  [start |-> start, end |-> Lesser(d.end, start + work * d.step), step |-> d.step]

(* Mutant: the bigger share goes to one part too many.                     *)
SplitWindow_OneBigger(d, id, total) ==
    LET num_it == NumIterations(d)
        work   == num_it \div total + (IF id <= num_it % total THEN 1 ELSE 0)
        start  == d.start + ((num_it \div total) * id + Lesser(id, num_it % total)) * d.step
    IN  [start |-> start, end |-> start + work * d.step, step |-> d.step]

(* Window::split_window: part id of total.                                 *)
SplitWindow(d, id, total) ==
    LET num_it == NumIterations(d)
        work   == num_it \div total + (IF id < num_it % total THEN 1 ELSE 0)
        start  == d.start + ((num_it \div total) * id + Lesser(id, num_it % total)) * d.step
    IN  [start |-> start, end |-> Lesser(d.end, start + work * d.step), step |-> d.step]

(* Mutant: one window too many.                                            *)
AdjustNumOfWindows_OneMore(num_it, init, mws) ==
    LET fits == {t \in 1..init : num_it \div mws[t] + 1 >= t}
    IN  IF fits = {} THEN 1 ELSE Greatest(fits)

(* The largest number of windows that are not too small; mws[t] is the     *)
(* kernel's get_mws for t threads.                                         *)
AdjustNumOfWindows(num_it, init, mws) ==
    LET fits == {t \in 1..init : num_it \div mws[t] >= t}
    IN  IF fits = {} THEN 1 ELSE Greatest(fits)

(* std::round(std::sqrt(max_threads * (m / n))) without the doubles.  For  *)
(* n = 0 it converts an infinity or a NaN to unsigned, which is undefined: *)
(* every value up to max_threads stands for what the build may produce.    *)
Adjusted(max_threads, m, n) ==
    IF n = 0 THEN 0..max_threads
    ELSE {Least({k \in 0..max_threads * m + 1 : 4 * max_threads * m < (2 * k + 1) * (2 * k + 1) * n})}

(* The grid for one value of adjusted: the nearest factor of max_threads,  *)
(* down before up, or all threads along the longer dimension.              *)
Grid2D(max_threads, m, n, adjusted) ==
    LET near  == {i \in 0..adjusted-1 : max_threads % (adjusted - i) = 0
                                        \/ max_threads % (adjusted + i) = 0}
        i     == Least(near)
        rows  == IF max_threads % (adjusted - i) = 0 THEN adjusted - i ELSE adjusted + i
    IN  CASE adjusted > 0        -> <<rows, max_threads \div rows>>
          [] adjusted = 0 /\ m > n -> <<Lesser(m, max_threads), 1>>
          [] OTHER               -> <<1, Lesser(n, max_threads)>>

(* Mutant: the other dimension gets one thread more.                       *)
Split2D_OneMore(max_threads, m, n) ==
    {<<Grid2D(max_threads, m, n, a)[1], Grid2D(max_threads, m, n, a)[2] + 1>> :
        a \in Adjusted(max_threads, m, n)}

Split2D(max_threads, m, n) ==
    {Grid2D(max_threads, m, n, a) : a \in Adjusted(max_threads, m, n)}
=============================================================================
