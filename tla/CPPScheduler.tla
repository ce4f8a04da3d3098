---------------------------- MODULE CPPScheduler ----------------------------
(***************************************************************************)
(* The thread pool of src/src/runtime/CPP/CPPScheduler.cpp.                *)
(*                                                                         *)
(* Callers are serialised by _run_workloads_mutex, so one process ("main") *)
(* stands for whichever caller holds it; the worker threads are 0, 1, ...  *)
(* in the order of the std::list _threads.  Every Thread has its own mutex *)
(* and one condition variable that both the worker and main wait on.       *)
(* thread_id is the thread's own index in every job it is given, so it is  *)
(* not a variable.                                                         *)
(***************************************************************************)
EXTENDS Integers, FiniteSets

CONSTANTS MaxThreads,       \* bound on set_num_threads (and the initial hint)
          ThreadHint,       \* IScheduler::num_threads_hint()
          MaxWorkloads,     \* bound on the size of a batch of workloads
          WakeFanout,       \* Impl::m_default_wake_fanout
          FanoutThreshold,  \* more threads than this select the Fanout mode
          ForcedMode,       \* ARM_COMPUTE_CPP_SCHEDULER_MODE
          Failures          \* what a workload may raise besides ending well

ASSUME ThreadsAssumption ==
    /\ MaxThreads \in Nat \ {0}
    /\ ThreadHint \in 1..MaxThreads
    /\ MaxWorkloads \in Nat

ASSUME ModeAssumption ==
    /\ WakeFanout \in Nat
    /\ FanoutThreshold \in Nat \ {0}
    /\ ForcedMode \in {"None", "Linear", "Fanout"}
    /\ Failures \subseteq {"error", "system"}

T == 0..MaxThreads-2                     \* the possible nodes of _threads

Exceptions == {"none", "error", "system"}

VARIABLES
    (* one value per Thread *)
    wpc,           \* where its worker_thread() is; "none" when it does not exist
    waitForWork,   \* _wait_for_work
    jobComplete,   \* _job_complete
    workloads,     \* _workloads # nullptr
    info,          \* _info.num_threads
    wake,          \* <<_wake_beg, _wake_end>>
    exc,           \* _current_exception
    wakeIdx,       \* local t of the loop that starts peer threads
    cur,           \* local workload_index of process_workloads
    (* the scheduler and the caller that holds _run_workloads_mutex *)
    numThreads,    \* _num_threads
    wakeFanout,    \* _wake_fanout, which is 0 exactly in the Linear mode
    mpc,           \* where the caller is
    midx,          \* its loop index
    mcur,          \* its workload_index in process_workloads
    mexc,          \* its last_exception
    op,            \* the operation it performs
    use,           \* num_threads_to_use
    feeder,        \* ThreadFeeder::_atomic_counter
    outcome,       \* what each workload of the last batch did
    result         \* how the last operation ended

threadVars == <<wpc, waitForWork, jobComplete, workloads, info, wake, exc, wakeIdx, cur>>
callVars   == <<numThreads, wakeFanout, mpc, midx, mcur, mexc, op, use, result>>
vars       == <<threadVars, callVars, feeder, outcome>>

-----------------------------------------------------------------------------
Smaller(a, b) == IF a <= b THEN a ELSE b
Larger(a, b)  == IF a <= b THEN b ELSE a

Pool   == {t \in T : wpc[t] # "none"}    \* the nodes of _threads
Size   == Cardinality(DOMAIN outcome)    \* workloads.size()
NoWork == [w \in {} |-> "pending"]

(* _m of thread t is held by its worker for the whole of a job.  Everybody *)
(* else who takes it gives it back in the same step.                       *)
LockFree(t) == wpc[t] \notin {"wake", "wnotify", "run", "fin"}

(* Impl::auto_switch_mode: the mode picked for k threads.                  *)
FanoutFor(k) == ForcedMode = "Fanout" \/ (ForcedMode = "None" /\ k > FanoutThreshold)

(* actual_wake_fanout.  num_threads_to_use is unsigned but at least 1 here. *)
ActualWakeFanout(k) == Larger(2, Smaller(WakeFanout, k - 1))

(* Impl::set_fanout_mode: node t (i = t + 1 in the loop) wakes [beg, end). *)
FanoutRange(k, f, t) ==
    IF t < k - 1 THEN << (t + 1) * f - 1, Smaller((t + 2) * f - 1, k - 1) >>
                 ELSE << 0, 0 >>

(* Impl::set_linear_mode or Impl::set_fanout_mode over the nodes in pool.  *)
AutoSwitchMode(k, pool) ==
    LET f == IF FanoutFor(k) THEN ActualWakeFanout(k) ELSE 0
    IN  /\ wakeFanout' = f
        /\ wake' = [t \in T |-> IF t \notin pool \/ f = 0 THEN <<0, 0>>
                                                          ELSE FanoutRange(k, f, t)]

(* Mutant: main also starts the thread the first worker is to start.       *)
ToStart_OneMore == IF wakeFanout # 0 THEN wakeFanout ELSE use - 1

(* num_threads_to_start of run_workloads.                                  *)
ToStart == IF wakeFanout # 0 THEN wakeFanout - 1 ELSE use - 1

(* The end of the range a worker wakes, clamped by its own job's size.     *)
WakeEnd(t) == Smaller(wake[t][2], info[t] - 1)

(* Mutant: _job_complete is not reset.                                     *)
SetStarted_NoReset(u) == waitForWork' = [waitForWork EXCEPT ![u] = TRUE] /\ UNCHANGED jobComplete

(* The locked half of Thread::start, and its notify_one, which lets one    *)
(* thread that is blocked on _cv go on, if there is any.                   *)
SetStarted(u) ==
    /\ waitForWork' = [waitForWork EXCEPT ![u] = TRUE]
    /\ jobComplete' = [jobComplete EXCEPT ![u] = FALSE]

(* pcs is the program counter of every worker, m that of the caller, once  *)
(* the notifying step itself has been taken.                               *)
NotifyOne(u, pcs, m) ==
    \/ /\ pcs[u] = "blocked"
       /\ wpc' = [pcs EXCEPT ![u] = "lock"] /\ mpc' = m
    \/ /\ m = "blocked" /\ midx = u
       /\ wpc' = pcs /\ mpc' = "wait"
    \/ /\ pcs[u] # "blocked" /\ ~(m = "blocked" /\ midx = u)
       /\ wpc' = pcs /\ mpc' = m

(* One workload is executed and its outcome is on record for ever.         *)
Record(w, o) == outcome' = [outcome EXCEPT ![w] = IF @ = "pending" THEN o ELSE "twice"]

-----------------------------------------------------------------------------
(* Thread::worker_thread *)

(* _cv.wait: take the job when there is one, sleep otherwise.              *)
WorkerSleep(t) ==
    /\ wpc[t] = "lock" /\ ~waitForWork[t]
    /\ wpc' = [wpc EXCEPT ![t] = "blocked"]
    /\ UNCHANGED <<waitForWork, jobComplete, workloads, info, wake, exc, wakeIdx, cur,
                   callVars, feeder, outcome>>

WorkerTakeJob(t) ==
    /\ wpc[t] = "lock" /\ waitForWork[t]
    /\ waitForWork' = [waitForWork EXCEPT ![t] = FALSE]
    /\ exc' = [exc EXCEPT ![t] = "none"]
    /\ IF workloads[t]
       THEN /\ wakeIdx' = [wakeIdx EXCEPT ![t] = wake[t][1]]
            /\ cur' = [cur EXCEPT ![t] = t]
            /\ wpc' = [wpc EXCEPT ![t] = IF wake[t][1] < WakeEnd(t) THEN "wake" ELSE "run"]
       ELSE /\ wpc' = [wpc EXCEPT ![t] = "exited"]
            /\ UNCHANGED <<wakeIdx, cur>>
    /\ UNCHANGED <<jobComplete, workloads, info, wake, callVars, feeder, outcome>>

(* _cv may also wake a thread that nobody notified.                        *)
WorkerSpurious(t) ==
    /\ wpc[t] = "blocked"
    /\ wpc' = [wpc EXCEPT ![t] = "lock"]
    /\ UNCHANGED <<waitForWork, jobComplete, workloads, info, wake, exc, wakeIdx, cur,
                   callVars, feeder, outcome>>

(* thread_it->start() for a peer: first its lock, then its notify_one.     *)
WorkerStartPeer(t) ==
    /\ wpc[t] = "wake"
    /\ wakeIdx[t] \in Pool /\ LockFree(wakeIdx[t])
    /\ SetStarted(wakeIdx[t])
    /\ wpc' = [wpc EXCEPT ![t] = "wnotify"]
    /\ UNCHANGED <<workloads, info, wake, exc, wakeIdx, cur, callVars, feeder, outcome>>

WorkerNotifyPeer(t) ==
    /\ wpc[t] = "wnotify"
    /\ wakeIdx' = [wakeIdx EXCEPT ![t] = @ + 1]
    /\ LET next == IF wakeIdx[t] + 1 < WakeEnd(t) THEN "wake" ELSE "run"
       IN  NotifyOne(wakeIdx[t], [wpc EXCEPT ![t] = next], mpc)
    /\ UNCHANGED <<waitForWork, jobComplete, workloads, info, wake, exc, cur, numThreads,
                   wakeFanout, midx, mcur, mexc, op, use, result, feeder, outcome>>

(* process_workloads: execute workloads[workload_index]; if it does not    *)
(* raise, ask the feeder for another one.                                  *)
WorkerProcess(t) ==
    /\ wpc[t] = "run"
    /\ \/ /\ Record(cur[t], "done")
          /\ feeder' = feeder + 1
          /\ IF feeder < Size THEN cur' = [cur EXCEPT ![t] = feeder] /\ UNCHANGED wpc
                              ELSE wpc' = [wpc EXCEPT ![t] = "fin"] /\ UNCHANGED cur
          /\ UNCHANGED exc
       \/ \E e \in Failures :
          /\ Record(cur[t], e)
          /\ exc' = [exc EXCEPT ![t] = e]
          /\ wpc' = [wpc EXCEPT ![t] = "fin"]
          /\ UNCHANGED <<feeder, cur>>
    /\ UNCHANGED <<waitForWork, jobComplete, workloads, info, wake, wakeIdx, callVars>>

(* Mutant: the end of the job is not published.                            *)
WorkerFinish_NotComplete(t) ==
    /\ wpc[t] = "fin"
    /\ workloads' = [workloads EXCEPT ![t] = FALSE]
    /\ wpc' = [wpc EXCEPT ![t] = "notify"]
    /\ cur' = [cur EXCEPT ![t] = 0]
    /\ wakeIdx' = [wakeIdx EXCEPT ![t] = 0]
    /\ UNCHANGED <<waitForWork, jobComplete, info, wake, exc, callVars, feeder, outcome>>

(* The end of the job: publish it and release the lock, then notify_one.   *)
WorkerFinish(t) ==
    /\ wpc[t] = "fin"
    /\ workloads' = [workloads EXCEPT ![t] = FALSE]
    /\ jobComplete' = [jobComplete EXCEPT ![t] = TRUE]
    /\ wpc' = [wpc EXCEPT ![t] = "notify"]
    /\ cur' = [cur EXCEPT ![t] = 0]
    /\ wakeIdx' = [wakeIdx EXCEPT ![t] = 0]
    /\ UNCHANGED <<waitForWork, info, wake, exc, callVars, feeder, outcome>>

(* Mutant: the worker goes back to sleep without the notify_one.           *)
WorkerNotify_Skipped(t) ==
    /\ wpc[t] = "notify"
    /\ wpc' = [wpc EXCEPT ![t] = "lock"]
    /\ UNCHANGED <<waitForWork, jobComplete, workloads, info, wake, exc, wakeIdx, cur,
                   callVars, feeder, outcome>>

WorkerNotify(t) ==
    /\ wpc[t] = "notify"
    /\ NotifyOne(t, [wpc EXCEPT ![t] = "lock"], mpc)
    /\ UNCHANGED <<waitForWork, jobComplete, workloads, info, wake, exc, wakeIdx, cur,
                   numThreads, wakeFanout, midx, mcur, mexc, op, use, result, feeder, outcome>>

Worker(t) == \/ WorkerSleep(t) \/ WorkerTakeJob(t) \/ WorkerStartPeer(t)
             \/ WorkerNotifyPeer(t) \/ WorkerProcess(t) \/ WorkerFinish(t)
             \/ WorkerNotify(t)

-----------------------------------------------------------------------------
(* CPPScheduler::run_workloads.  Any batch size may arrive: schedule_common *)
(* computed it from a num_threads() that may be stale by now.              *)

(* Mutant: the feeder hands out the workloads the threads already have.    *)
RunWorkloads_FeedAll(k) ==
    /\ mpc = "idle" /\ k >= 1
    /\ op' = "run"
    /\ LET u == Smaller(numThreads, k)
       IN  use' = u /\ feeder' = 0 /\ AutoSwitchMode(u, Pool)
    /\ outcome' = [w \in 0..k-1 |-> "pending"]
    /\ midx' = 0 /\ mexc' = "none" /\ result' = "none"
    /\ mpc' = "set"
    /\ UNCHANGED <<wpc, waitForWork, jobComplete, workloads, info, exc, wakeIdx, cur,
                   numThreads, mcur>>

RunWorkloads(k) ==
    /\ mpc = "idle" /\ k >= 1
    /\ op' = "run"
    /\ LET u == Smaller(numThreads, k)
       IN  use' = u /\ feeder' = u /\ AutoSwitchMode(u, Pool)
    /\ outcome' = [w \in 0..k-1 |-> "pending"]
    /\ midx' = 0 /\ mexc' = "none" /\ result' = "none"
    /\ mpc' = "set"
    /\ UNCHANGED <<wpc, waitForWork, jobComplete, workloads, info, exc, wakeIdx, cur,
                   numThreads, mcur>>

(* num_threads_to_use < 1: an early return.                                *)
RunNoWorkloads ==
    /\ mpc = "idle"
    /\ op' = "run" /\ use' = 0 /\ outcome' = NoWork /\ result' = "ok"
    /\ UNCHANGED <<threadVars, numThreads, wakeFanout, mpc, midx, mcur, mexc, feeder>>

(* The set_workload loop, thread by thread, without the threads' locks.    *)
SetWorkload ==
    /\ mpc = "set" /\ midx < use - 1
    /\ workloads' = [workloads EXCEPT ![midx] = TRUE]
    /\ info' = [info EXCEPT ![midx] = use]
    /\ midx' = midx + 1
    /\ UNCHANGED <<wpc, waitForWork, jobComplete, wake, exc, wakeIdx, cur, numThreads,
                   wakeFanout, mpc, mcur, mexc, op, use, result, feeder, outcome>>

WorkloadsSet ==
    /\ mpc = "set" /\ midx = use - 1
    /\ midx' = 0
    /\ mpc' = "start"
    /\ UNCHANGED <<threadVars, numThreads, wakeFanout, mcur, mexc, op, use, result,
                   feeder, outcome>>

(* The loop of Thread::start calls; main's own workload comes after it.    *)
MainStart ==
    /\ mpc = "start" /\ midx < ToStart
    /\ midx \in Pool /\ LockFree(midx)
    /\ SetStarted(midx)
    /\ mpc' = "notify"
    /\ UNCHANGED <<wpc, workloads, info, wake, exc, wakeIdx, cur, numThreads, wakeFanout,
                   midx, mcur, mexc, op, use, result, feeder, outcome>>

MainNotify ==
    /\ mpc = "notify"
    /\ NotifyOne(midx, wpc, "start")
    /\ midx' = midx + 1
    /\ UNCHANGED <<waitForWork, jobComplete, workloads, info, wake, exc, wakeIdx, cur,
                   numThreads, wakeFanout, mcur, mexc, op, use, result, feeder, outcome>>

MainStarted ==
    /\ mpc = "start" /\ midx >= ToStart
    /\ mcur' = use - 1
    /\ mpc' = "run"
    /\ UNCHANGED <<threadVars, numThreads, wakeFanout, midx, mexc, op, use, result,
                   feeder, outcome>>

(* start() on the end() of a list with too few nodes is undefined: nothing *)
(* is assumed of the call from here on, so it simply stops.                *)
MainStartPastEnd ==
    /\ mpc = "start" /\ midx < ToStart /\ midx \notin Pool
    /\ mpc' = "undefined"
    /\ UNCHANGED <<threadVars, numThreads, wakeFanout, midx, mcur, mexc, op, use, result,
                   feeder, outcome>>

MainProcess ==
    /\ mpc = "run"
    /\ \/ /\ Record(mcur, "done")
          /\ feeder' = feeder + 1
          /\ IF feeder < Size
             THEN mcur' = feeder /\ UNCHANGED <<mpc, midx>>
             ELSE mcur' = 0 /\ mpc' = "wait" /\ midx' = 0
          /\ UNCHANGED mexc
       \/ \E e \in Failures :
          /\ Record(mcur, e)
          /\ mexc' = e
          /\ mcur' = 0 /\ mpc' = "wait" /\ midx' = 0
          /\ UNCHANGED feeder
    /\ UNCHANGED <<threadVars, numThreads, wakeFanout, op, use, result>>

(* Thread::wait of every thread in use, in the order of the list; the last *)
(* exception found replaces the earlier ones.                              *)
MainSleep ==
    /\ mpc = "wait" /\ midx < use - 1
    /\ LockFree(midx) /\ ~jobComplete[midx]
    /\ mpc' = "blocked"
    /\ UNCHANGED <<threadVars, numThreads, wakeFanout, midx, mcur, mexc, op, use, result,
                   feeder, outcome>>

(* Mutant: a thread that raised nothing clears the exception found so far. *)
MainWaited_Overwrites ==
    /\ mpc = "wait" /\ midx < use - 1
    /\ LockFree(midx) /\ jobComplete[midx]
    /\ mexc' = exc[midx]
    /\ midx' = midx + 1
    /\ UNCHANGED <<threadVars, numThreads, wakeFanout, mpc, mcur, op, use, result,
                   feeder, outcome>>

MainWaited ==
    /\ mpc = "wait" /\ midx < use - 1
    /\ LockFree(midx) /\ jobComplete[midx]
    /\ mexc' = IF exc[midx] # "none" THEN exc[midx] ELSE mexc
    /\ midx' = midx + 1
    /\ UNCHANGED <<threadVars, numThreads, wakeFanout, mpc, mcur, op, use, result,
                   feeder, outcome>>

MainSpurious ==
    /\ mpc = "blocked"
    /\ mpc' = "wait"
    /\ UNCHANGED <<threadVars, numThreads, wakeFanout, midx, mcur, mexc, op, use, result,
                   feeder, outcome>>

(* Rethrow the last exception; a std::system_error is caught and printed.  *)
Return ==
    /\ mpc = "wait" /\ midx = use - 1
    /\ result' = CASE mexc = "none"   -> "ok"
                   [] mexc = "error"  -> "throw"
                   [] mexc = "system" -> "swallowed"
    /\ mpc' = "idle"
    /\ mexc' = "none" /\ midx' = 0
    /\ UNCHANGED <<threadVars, numThreads, wakeFanout, mcur, op, use, feeder, outcome>>

-----------------------------------------------------------------------------
(* set_num_threads, set_num_threads_with_affinity and ~CPPScheduler.  Nodes *)
(* of _threads from midx on are destroyed one by one (~Thread), then the   *)
(* missing ones are constructed, then the mode is switched.                *)

Resize(newOp, num, keep) ==
    /\ mpc = "idle"
    /\ op' = newOp
    /\ numThreads' = num
    /\ midx' = keep
    /\ mpc' = "kill"
    /\ use' = 0 /\ outcome' = NoWork /\ result' = "none" /\ feeder' = 0
    /\ UNCHANGED <<threadVars, wakeFanout, mcur, mexc>>

(* Mutant: 0 is not replaced by the hint.                                  *)
SetNumThreads_NoHint(req) == Resize("resize", req, req - 1)

SetNumThreads(req) ==
    LET num == IF req = 0 THEN ThreadHint ELSE req IN Resize("resize", num, num - 1)

SetNumThreadsWithAffinity(req) ==
    LET num == IF req = 0 THEN ThreadHint ELSE req IN Resize("resize", num, 0)

Destroy == Resize("destroy", numThreads, 0)

(* ~Thread: set_workload(nullptr), start() and join().                     *)
KillStart ==
    /\ mpc = "kill" /\ midx \in Pool /\ LockFree(midx)
    /\ workloads' = [workloads EXCEPT ![midx] = FALSE]
    /\ info' = [info EXCEPT ![midx] = 1]
    /\ SetStarted(midx)
    /\ mpc' = "knotify"
    /\ UNCHANGED <<wpc, wake, exc, wakeIdx, cur, numThreads, wakeFanout, midx,
                   mcur, mexc, op, use, result, feeder, outcome>>

KillNotify ==
    /\ mpc = "knotify"
    /\ NotifyOne(midx, wpc, "join")
    /\ UNCHANGED <<waitForWork, jobComplete, workloads, info, wake, exc, wakeIdx, cur,
                   numThreads, wakeFanout, midx, mcur, mexc, op, use, result, feeder, outcome>>

KillJoin ==
    /\ mpc = "join" /\ wpc[midx] = "exited"
    /\ wpc' = [wpc EXCEPT ![midx] = "none"]
    /\ midx' = midx + 1
    /\ mpc' = "kill"
    /\ UNCHANGED <<waitForWork, jobComplete, workloads, info, wake, exc, wakeIdx, cur,
                   numThreads, wakeFanout, mcur, mexc, op, use, result, feeder, outcome>>

(* The members of a Thread that has just been constructed.                 *)
FreshThread(new) ==
    /\ wpc' = [t \in T |-> IF t \in new THEN "lock" ELSE wpc[t]]
    /\ waitForWork' = [t \in T |-> t \notin new /\ waitForWork[t]]
    /\ jobComplete' = [t \in T |-> t \in new \/ jobComplete[t]]
    /\ workloads' = [t \in T |-> t \notin new /\ workloads[t]]
    /\ info' = [t \in T |-> IF t \in new THEN 1 ELSE info[t]]
    /\ exc' = [t \in T |-> IF t \in new THEN "none" ELSE exc[t]]

Resized ==
    /\ mpc = "kill" /\ midx \notin Pool /\ op = "resize"
    /\ FreshThread(0..numThreads-2 \ Pool)
    /\ AutoSwitchMode(numThreads, 0..numThreads-2)
    /\ mpc' = "idle" /\ midx' = 0 /\ result' = "ok"
    /\ UNCHANGED <<wakeIdx, cur, numThreads, mcur, mexc, op, use, feeder, outcome>>

Destroyed ==
    /\ mpc = "kill" /\ midx \notin Pool /\ op = "destroy"
    /\ mpc' = "gone" /\ midx' = 0 /\ result' = "ok"
    /\ UNCHANGED <<threadVars, numThreads, wakeFanout, mcur, mexc, op, use, feeder, outcome>>

-----------------------------------------------------------------------------
(* Impl::Impl(thread_hint): thread_hint - 1 threads, Linear mode.          *)
Init ==
    /\ wpc = [t \in T |-> IF t < ThreadHint - 1 THEN "lock" ELSE "none"]
    /\ waitForWork = [t \in T |-> FALSE] /\ jobComplete = [t \in T |-> TRUE]
    /\ workloads = [t \in T |-> FALSE]
    /\ info = [t \in T |-> 1] /\ wake = [t \in T |-> <<0, 0>>]
    /\ exc = [t \in T |-> "none"]
    /\ wakeIdx = [t \in T |-> 0] /\ cur = [t \in T |-> 0]
    /\ numThreads = ThreadHint /\ wakeFanout = 0
    /\ mpc = "idle" /\ midx = 0 /\ mcur = 0 /\ mexc = "none"
    /\ op = "none" /\ use = 0 /\ feeder = 0 /\ outcome = NoWork /\ result = "none"

Operation ==
    \/ \E k \in 1..MaxWorkloads : RunWorkloads(k)
    \/ RunNoWorkloads
    \/ \E req \in 0..MaxThreads : SetNumThreads(req) \/ SetNumThreadsWithAffinity(req)
    \/ Destroy

Main == \/ SetWorkload \/ WorkloadsSet \/ MainStart \/ MainNotify \/ MainStarted
        \/ MainStartPastEnd \/ MainProcess \/ MainSleep \/ MainWaited \/ Return
        \/ KillStart \/ KillNotify \/ KillJoin \/ Resized \/ Destroyed

Spurious == MainSpurious \/ \E t \in T : WorkerSpurious(t)

(* After ~CPPScheduler nothing is left to happen.                          *)
Finished == mpc = "gone" /\ UNCHANGED vars

Next == Operation \/ Main \/ (\E t \in T : Worker(t)) \/ Spurious \/ Finished

Spec == Init /\ [][Next]_vars

(* Every thread the operating system runs keeps taking steps.              *)
FairSpec == Spec /\ WF_vars(Main) /\ \A t \in T : WF_vars(Worker(t))

-----------------------------------------------------------------------------
(* Properties *)

MainPCs   == {"idle", "set", "start", "notify", "run", "wait", "blocked", "kill",
              "knotify", "join", "gone", "undefined"}
WorkerPCs == {"none", "lock", "blocked", "wake", "wnotify", "run", "fin", "notify", "exited"}

OutcomeOK == \E k \in 0..MaxWorkloads :
    outcome \in [0..k-1 -> {"pending", "done", "error", "system", "twice"}]

(* Every variable has its type.                                            *)
Types ==
    /\ wpc \in [T -> WorkerPCs]
    /\ waitForWork \in [T -> BOOLEAN]
    /\ jobComplete \in [T -> BOOLEAN]
    /\ workloads \in [T -> BOOLEAN]
    /\ info \in [T -> Nat]
    /\ wake \in [T -> Nat \X Nat]
    /\ exc \in [T -> Exceptions]
    /\ wakeIdx \in [T -> Nat]
    /\ cur \in [T -> Nat]
    /\ numThreads \in 1..MaxThreads
    /\ wakeFanout \in Nat
    /\ mpc \in MainPCs
    /\ midx \in Nat
    /\ mcur \in Int
    /\ mexc \in Exceptions
    /\ op \in {"none", "run", "resize", "destroy"}
    /\ use \in 0..MaxThreads
    /\ feeder \in Nat
    /\ OutcomeOK
    /\ result \in {"none", "ok", "throw", "swallowed"}

(* Whoever is about to use an index stays inside the list of threads or    *)
(* the vector of workloads: main and the workers advance an iterator over  *)
(* _threads, which has fewer nodes than set_num_threads was last asked for *)
(* while a resize goes on, and index workloads with their own thread_id or *)
(* with what the feeder gave them.                                         *)
IndexesInBounds ==
    /\ mpc \in {"set", "wait", "blocked"} /\ midx < use - 1 => midx \in Pool
    /\ mpc = "start" /\ midx < ToStart => midx \in Pool
    /\ mpc \in {"notify", "knotify", "join"} => midx \in Pool
    /\ mpc = "run" => mcur \in DOMAIN outcome
    /\ \A t \in T : /\ wpc[t] \in {"wake", "wnotify"} => wakeIdx[t] \in Pool
                    /\ wpc[t] = "run" => cur[t] \in DOMAIN outcome

(* Every variable has its type, and the indexes of workloads and threads   *)
(* stay inside the containers of run_workloads.                            *)
TypeOK == Types /\ IndexesInBounds

(* A thread that has work to do in this batch but was not started yet.     *)
Unstarted(u) == /\ u \in Pool
                /\ workloads[u] /\ jobComplete[u] /\ ~waitForWork[u]
                /\ wpc[u] \in {"lock", "blocked", "notify"}

(* The wake-up tree of lines 114-139: whoever calls start() on a thread    *)
(* calls it on a thread of the pool that is in use, has its workload and   *)
(* was not started before in this batch, so that each one starts once.     *)
StartsUnstarted ==
    /\ mpc = "start" /\ midx < ToStart => Unstarted(midx)
    /\ \A t \in T : wpc[t] = "wake" => Unstarted(wakeIdx[t])

(* When run_workloads or set_num_threads has returned no worker has a job, *)
(* a start that is still to be seen, or a pointer into the caller's batch  *)
(* and feeder, both of which live on the caller's stack.                   *)
ReturnQuiescent ==
    mpc = "idle" => \A t \in Pool : /\ wpc[t] \in {"lock", "blocked", "notify"}
                                    /\ ~waitForWork[t] /\ jobComplete[t] /\ ~workloads[t]

(* No two threads ever execute the same workload of a batch.               *)
AtMostOnce == \A w \in DOMAIN outcome : outcome[w] # "twice"

Raised(kind) == \E w \in DOMAIN outcome : outcome[w] = kind

(* How a call ends agrees with what some workload did: without complaint   *)
(* only when every workload ended well, by throwing only when one raised   *)
(* an ordinary error, and with a printed message only when one raised a    *)
(* std::system_error.                                                      *)
ResultAgrees ==
    mpc = "idle" /\ op = "run" =>
        /\ result \in {"ok", "throw", "swallowed"}
        /\ result = "ok" <=> \A w \in DOMAIN outcome : outcome[w] = "done"
        /\ result = "throw" => Raised("error")
        /\ result = "swallowed" => Raised("system")

(* The last of the first n threads of the list that raised anything.       *)
LastRaiser(t, n) ==
    /\ t < n /\ exc[t] # "none"
    /\ \A u \in T : t < u /\ u < n => exc[u] = "none"

(* Of several exceptions the one of the last thread in the list decides:   *)
(* main's own comes first, and each later one replaces it.                 *)
LastExceptionWins ==
    mpc = "idle" /\ op = "run" =>
        \A t \in T : LastRaiser(t, use - 1) =>
            result = IF exc[t] = "error" THEN "throw" ELSE "swallowed"

(* What run_workloads tells its caller: "ok" exactly when every workload   *)
(* ended well, and otherwise what the last thread of the list that raised  *)
(* (main counting as the first) raised.  It does not promise that every    *)
(* error reaches the caller: an ordinary error is lost when a later thread *)
(* raised a system_error, which replaces it and is printed only.           *)
ReturnTellsTruth == ResultAgrees /\ LastExceptionWins

(* A condition variable shared by the worker and by main, woken with       *)
(* notify_one, loses no wake-up: a sleeper whose condition holds is about  *)
(* to be notified and no other thread sleeps where it could take the call. *)
NoLostWakeup ==
    /\ \A u \in T : wpc[u] = "blocked" /\ waitForWork[u] =>
          /\ \/ mpc \in {"notify", "knotify"} /\ midx = u
             \/ \E t \in T : wpc[t] = "wnotify" /\ wakeIdx[t] = u
          /\ ~(mpc = "blocked" /\ midx = u)
    /\ mpc = "blocked" /\ jobComplete[midx] => wpc[midx] = "notify"

(* Every operation on the scheduler comes to an end.                       *)
CallsReturn == (mpc # "idle") ~> (mpc \in {"idle", "gone", "undefined"})

(* The pool implements the promise of run_workloads.                       *)
Batch == INSTANCE WorkloadBatch
    WITH active <- mpc \in {"set", "start", "notify", "run", "wait", "blocked"},
         result <- IF op = "run" THEN result ELSE IF op = "none" THEN "none" ELSE "ok"

ImplementsBatch == Batch!BatchSpec
=============================================================================
