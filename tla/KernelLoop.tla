----------------------------- MODULE KernelLoop -----------------------------
(***************************************************************************)
(* How a kernel goes through the window a workload gives it: the nested    *)
(* loops of execute_window_loop with their iterators, the slices of a      *)
(* window, and collapsed windows (arm_compute/core/Helpers.inl and         *)
(* Window.inl).  A window is the sequence of its dimensions here: X and Y, *)
(* which schedulers split, and those above.                                *)
(***************************************************************************)
EXTENDS KernelSchedule, SequencesExt

CONSTANTS Upper,       \* the dimensions of windows from DimZ on
          Broadcasts   \* sets of dimensions in which a tensor has one element

ASSUME LoopAssumption ==
    /\ Upper \in Seq(Dimension) /\ Len(Upper) = 2
    /\ \A n \in DOMAIN Upper : Valid(Upper[n])
    /\ Broadcasts \subseteq SUBSET (1..4)

Dims == 1..4

AllDimensions(w) == <<w.x, w.y>> \o Upper

Dot(a, b) == a[1] * b[1] + a[2] * b[2] + a[3] * b[3] + a[4] * b[4]

-----------------------------------------------------------------------------
(* Helpers.inl: an iterator knows its offset at the start of every         *)
(* dimension, and start[1] is where it is.                                 *)

NewIterator(strides, w) ==
    LET first == Dot(strides, [n \in Dims |-> w[n].start])
    IN  [start |-> [n \in Dims |-> first], stride |-> [n \in Dims |-> w[n].step * strides[n]]]

(* Mutant: the lower dimensions go on from where they are.                 *)
Increment_NoReset(it, dim) == [it EXCEPT !.start[dim] = @ + it.stride[dim]]

Increment(it, dim) ==
    LET next == it.start[dim] + it.stride[dim]
    IN  [it EXCEPT !.start = [n \in Dims |-> IF n <= dim THEN next ELSE @[n]]]

(* Window::broadcast_if_dimension_le_one: no progress along ones.          *)
Broadcast(w, ones) ==
    [n \in Dims |-> IF n \in ones THEN [start |-> 0, end |-> 0, step |-> 0] ELSE w[n]]

(* Mutant: the last value of a part belongs to the next part.              *)
Values_OneMore(d) == [k \in 1..NumIterations(d) + 1 |-> d.start + (k - 1) * d.step]

(* for (v = start; v < end; v += step)                                     *)
Values(d) == [k \in 1..NumIterations(d) |-> d.start + (k - 1) * d.step]

Coordinates == [Dims -> Int]
Iterators   == [Broadcasts -> [start : Coordinates, stride : Coordinates]]

(* One turn of the loop over dimension dim: the loops inside, for which    *)
(* id[dim] is v, then the increment of all iterators.                      *)
Turn(inner, dim, id, done, v) ==
    LET r == inner[[id EXCEPT ![dim] = v]][done.its]
    IN  [calls |-> done.calls \o r.calls,
         its   |-> [i \in DOMAIN r.its |-> Increment(r.its[i], dim)]]

LoopOver(w, dim, inner, id, its) ==
    FoldLeft(LAMBDA done, v : Turn(inner, dim, id, done, v),
             [calls |-> <<>>, its |-> its], Values(w[dim]))

(* What the lambda is given: id, and the offsets its iterators have.       *)
Call(id, its) == [id |-> id, offset |-> [i \in DOMAIN its |-> its[i].start[1]]]

(* ForEachDimension<dim>::unroll, for each dim.                            *)
ForEachDimension(w) ==
    LET each[dim \in 0..4] ==
            [id \in Coordinates |-> [its \in Iterators |->
                IF dim = 0 THEN [calls |-> <<Call(id, its)>>, its |-> its]
                ELSE LoopOver(w, dim, each[dim - 1], id, its)]]
    IN  each

(* A kernel with an iterator for each of the broadcasts.                   *)
ExecuteWindowLoop(w, strides) ==
    ForEachDimension(w)[4][<<0, 0, 0, 0>>]
        [[ones \in Broadcasts |-> NewIterator(strides, Broadcast(w, ones))]].calls

Ids(calls) == [k \in DOMAIN calls |-> calls[k].id]

-----------------------------------------------------------------------------
(* Window.inl *)

One(v) == [start |-> v, end |-> v + 1, step |-> 1]

(* Window::first_slice_window: the first k dimensions are whole.           *)
FirstSlice(w, k) == [n \in Dims |-> IF n <= k THEN w[n] ELSE One(w[n].start)]

(* Mutant: the dimensions below the one that moves stay where they are.    *)
SlideSlice_NoReset(w, k, slice, n) == [slice EXCEPT ![n] = One(slice[n].start + 1)]

(* Window::slide_window_slice, when n is the dimension that moves.         *)
SlideSlice(w, k, slice, n) ==
    [m \in Dims |-> IF m = n THEN One(slice[n].start + 1)
                    ELSE IF k < m /\ m < n THEN One(w[m].start) ELSE slice[m]]

(* do { ... } while(window.slide_window_slice(slice))                      *)
Slices(w, k) ==
    LET from[slice \in [Dims -> [start : Int, end : Int, step : Int]]] ==
            LET moves == {n \in k+1..4 : slice[n].start + 1 < w[n].end}
            IN  <<slice>> \o (IF moves = {} THEN <<>> ELSE from[SlideSlice(w, k, slice, Least(moves))])
    IN  from[FirstSlice(w, k)]

(* Mutant: only the part is looked at, not the window it is a part of.     *)
Collapsable_Itself(w, full, first, last) ==
    \A d \in first+1..last : w[d].start = 0 /\ full[d].start = 0 /\ w[d].step <= 1

Collapsable(w, full, first, last) ==
    \A d \in first+1..last : /\ w[d].start = 0 /\ full[d].start = 0
                             /\ w[d].step <= 1 /\ full[d].end = w[d].end

(* Window::collapse_if_possible, with the last dimension to collapse.      *)
Collapse(w, full, first, last) ==
    LET end[d \in first..last] == IF d = first THEN w[d].end ELSE end[d - 1] * w[d].end
    IN  IF Collapsable(w, full, first, last)
        THEN [d \in Dims |-> IF d = first THEN [w[d] EXCEPT !.end = end[last]]
                             ELSE IF first < d /\ d <= last THEN One(0) ELSE w[d]]
        ELSE w

(* The strides of a tensor as large as the window, without padding.        *)
PackedStrides(w) ==
    LET stride[n \in Dims] == IF n = 1 THEN 1 ELSE stride[n - 1] * w[n - 1].end IN stride

-----------------------------------------------------------------------------
(* Properties *)

Ready == pc \in {"queued", "whole"}

(* The loops of all the workloads of a call together call the lambda once  *)
(* for each iteration of the window that was scheduled: what KernelSchedule *)
(* takes for one step.                                                     *)
LoopsRunOnce ==
    Ready =>
        LET full  == AllDimensions(call.window)
            ids   == [w \in DOMAIN windows |->
                        Ids(ExecuteWindowLoop(AllDimensions(windows[w]), PackedStrides(full)))]
        IN  /\ UNION {Range(ids[w]) : w \in DOMAIN windows}
                 = Steps(full[1]) \X Steps(full[2]) \X Steps(full[3]) \X Steps(full[4])
            /\ \A w \in DOMAIN windows : IsInjective(ids[w])
            /\ \A v, w \in DOMAIN windows : v # w => Range(ids[v]) \intersect Range(ids[w]) = {}

(* Helpers.h:80: whatever part of the window a kernel was given, at each   *)
(* call an iterator points to the element of its tensor with the           *)
(* coordinates id, those along a broadcast dimension being 0.              *)
IteratorsFollow ==
    Ready => \A w \in DOMAIN windows :
        LET strides == PackedStrides(AllDimensions(call.window))
            calls   == ExecuteWindowLoop(AllDimensions(windows[w]), strides)
        IN  \A k \in DOMAIN calls, ones \in Broadcasts :
               calls[k].offset[ones]
                 = Dot(strides, [n \in Dims |-> IF n \in ones THEN 0 ELSE calls[k].id[n]])

(* Going through a window slice by slice is going through the window, if   *)
(* the dimensions that are cut have steps of 1 and are not empty.          *)
SlicesAreTheWindow ==
    Ready => \A w \in DOMAIN windows, k \in 1..3 :
        LET all     == AllDimensions(windows[w])
            strides == PackedStrides(AllDimensions(call.window))
            slices  == Slices(all, k)
        IN  (\A n \in k+1..4 : all[n].step = 1 /\ all[n].start < all[n].end) =>
               FlattenSeq([s \in DOMAIN slices |-> ExecuteWindowLoop(slices[s], strides)])
                 = ExecuteWindowLoop(all, strides)

(* Window.h:366: a collapsed window leads to the same elements in the same *)
(* order, if the scheduler did not split the dimension that grows.         *)
CollapsedIsTheSame ==
    Ready => \A w \in DOMAIN windows, first \in 1..3 : \A last \in first+1..4 :
        LET all     == AllDimensions(windows[w])
            full    == AllDimensions(call.window)
            strides == PackedStrides(full)
            there(c) == LET calls == ExecuteWindowLoop(c, strides)
                        IN  [k \in DOMAIN calls |-> calls[k].offset[{}]]
        IN  all[first] = full[first] /\ full[first].start = 0 /\ full[first].step = 1
            => there(Collapse(all, full, first, last)) = there(all)
=============================================================================
