--------------------------- MODULE WorkloadBatch ---------------------------
(***************************************************************************)
(* What IScheduler::run_workloads promises its callers, with no threads    *)
(* and no locks: batches are executed one at a time, a workload of the     *)
(* batch is executed at most once and only while the call lasts, and the   *)
(* way the call ends agrees with what the workloads did.                   *)
(***************************************************************************)
EXTENDS Naturals

CONSTANTS MaxWorkloads,  \* bound on the size of a batch
          Failures       \* ways a workload can raise: a subset of {"error", "system"}

VARIABLES active,        \* is a call of run_workloads being served?
          outcome,       \* outcome[w]: what workload w of the last batch did
          result         \* how the last call ended

batchVars == <<active, outcome, result>>

(* A call with the workloads 0 .. k-1.                                     *)
Submit(k) ==
    /\ ~active
    /\ active' = TRUE
    /\ outcome' = [w \in 0..k-1 |-> "pending"]
    /\ result' = "none"

(* An empty batch, and every operation on the pool, is over at once.       *)
SubmitNothing ==
    /\ ~active
    /\ outcome' = [w \in {} |-> "pending"]
    /\ result' = "ok"
    /\ UNCHANGED active

Execute(w, o) ==
    /\ active
    /\ outcome[w] = "pending"
    /\ outcome' = [outcome EXCEPT ![w] = o]
    /\ UNCHANGED <<active, result>>

Raised(kind) == \E w \in DOMAIN outcome : outcome[w] = kind

(* A std::system_error does not reach the caller.                          *)
Return ==
    /\ active
    /\ active' = FALSE
    /\ \/ result' = "ok"        /\ \A w \in DOMAIN outcome : outcome[w] = "done"
       \/ result' = "throw"     /\ Raised("error")
       \/ result' = "swallowed" /\ Raised("system")
    /\ UNCHANGED outcome

BatchInit == active = FALSE /\ outcome = [w \in {} |-> "pending"] /\ result = "none"

BatchNext == \/ \E k \in 1..MaxWorkloads : Submit(k)
             \/ SubmitNothing
             \/ \E w \in DOMAIN outcome, o \in Failures \union {"done"} : Execute(w, o)
             \/ Return

BatchSpec == BatchInit /\ [][BatchNext]_batchVars
=============================================================================
