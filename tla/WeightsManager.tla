--------------------------- MODULE WeightsManager ---------------------------
(***************************************************************************)
(* src/src/runtime/IWeightsManager.cpp, as the functions of the library    *)
(* use it: functions that share weights are counted when they are          *)
(* configured, each counts down when it has prepared its own copy, and the *)
(* last one marks the weights unused.  A manager is a value: for the       *)
(* weights it manages, _managed_counter.  Transforms (acquire, run) are    *)
(* used by no function and not modelled.                                   *)
(***************************************************************************)
EXTENDS Integers

NoWeights == [w \in {} |-> 0]

AreWeightsManaged(m, w) == w \in DOMAIN m

(* A manager that knows of new weights, too.                               *)
Managing(m, w, count) ==
    [x \in DOMAIN m \union {w} |-> IF x = w THEN [counter |-> count, isUnused |-> FALSE] ELSE m[x]]

(* Mutant: the counter of new weights, which begins with 1, is increased,  *)
(* too.                                                                    *)
Manage_CountsTwice(m, w) ==
    IF AreWeightsManaged(m, w) THEN [m EXCEPT ![w].counter = @ + 1]
    ELSE Managing(m, w, 2)

(* Mutant: weights that are managed already are not counted again.         *)
Manage_Once(m, w) ==
    IF AreWeightsManaged(m, w) THEN m ELSE Managing(m, w, 1)

(* manage, for weights without a parent.                                   *)
Manage(m, w) ==
    IF AreWeightsManaged(m, w) THEN [m EXCEPT ![w].counter = @ + 1]
    ELSE Managing(m, w, 1)

PreMarkAsUnused(m, w) ==
    IF AreWeightsManaged(m, w) THEN [m EXCEPT ![w].isUnused = TRUE] ELSE m

Release(m, w) ==
    IF AreWeightsManaged(m, w) THEN [m EXCEPT ![w].counter = @ - 1] ELSE m

(* A release that gave m marks the weights unused.                         *)
MarkedAsUnused(m, w) == AreWeightsManaged(m, w) /\ m[w].counter = 0 /\ m[w].isUnused
=============================================================================
