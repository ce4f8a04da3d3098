------------------------- MODULE CPPSchedulerProofs -------------------------
(***************************************************************************)
(* Theorems about the thread pool, for every number of threads, size of    *)
(* batch, fanout and threshold, and any pattern of exceptions.  They need  *)
(* that the Fanout mode is not forced by the environment: then a thread    *)
(* that is not in use may be started, exit and be waited for (forced_hang). *)
(***************************************************************************)
EXTENDS CPPScheduler, FiniteSetTheorems, TLAPS

(* The inductive invariant, by what the caller is doing. *)

Sleeping(t) == wpc[t] \in {"lock", "blocked", "notify"}

(* Where a thread is in its part of a batch; Unstarted is the second.      *)
Parked(t) == Sleeping(t) /\ ~waitForWork[t] /\ jobComplete[t] /\ ~workloads[t]

Signalled(t) == Sleeping(t) /\ waitForWork[t] /\ ~jobComplete[t] /\ workloads[t]

Working(t) == /\ wpc[t] \in {"wake", "wnotify", "run", "fin"}
              /\ ~waitForWork[t] /\ ~jobComplete[t] /\ workloads[t]

PoolIs(num) == \A t \in T : t \in Pool <=> t < num - 1

(* The range of threads that p is to wake, and those it has woken by now.  *)
InRange(p, t) == wake[p][1] <= t /\ t < wake[p][2]

Woke(p, t) == \/ wpc[p] \in {"run", "fin"}
              \/ wpc[p] = "wake" /\ t < wakeIdx[p]
              \/ wpc[p] = "wnotify" /\ t <= wakeIdx[p]
              \/ Parked(p)

MainWoke(t) == \/ mpc = "start" /\ t < midx
               \/ mpc = "notify" /\ t <= midx
               \/ mpc \in {"run", "wait", "blocked"}

(* The wake-up tree over the threads in use.                               *)
TreeShape ==
    \/ wakeFanout = 0 /\ \A t \in T : wake[t] = <<0, 0>>
    \/ /\ wakeFanout >= 2 /\ wakeFanout <= use
       /\ \A t \in T : t < use - 1 => wake[t] = FanoutRange(use, wakeFanout, t)

InBatch == mpc \in {"set", "start", "notify", "run", "wait", "blocked"}

SettingInv ==
    mpc = "set" =>
        /\ midx <= use - 1
        /\ \A t \in T : t < midx => Unstarted(t) /\ info[t] = use
        /\ \A t \in T : t >= midx /\ t < use - 1 => Parked(t)

(* A thread is unstarted exactly as long as its waker has not woken it.    *)
ThreadInv(t) ==
    /\ info[t] = use
    /\ Parked(t) \/ Unstarted(t) \/ Signalled(t) \/ Working(t)
    /\ wpc[t] \in {"wake", "wnotify"} =>
          wake[t][1] <= wakeIdx[t] /\ wakeIdx[t] < WakeEnd(t)
    /\ t < ToStart => (Unstarted(t) <=> ~MainWoke(t))
    /\ \A p \in T : p < use - 1 /\ InRange(p, t) => (Unstarted(t) <=> ~Woke(p, t))

StartedInv == InBatch /\ mpc # "set" => \A t \in T : t < use - 1 => ThreadInv(t)

WaitingInv ==
    /\ mpc = "start" => midx <= ToStart
    /\ mpc = "notify" => midx < ToStart
    /\ mpc \in {"wait", "blocked"} => midx <= use - 1 /\ \A t \in T : t < midx => Parked(t)

BatchInv ==
    InBatch =>
        /\ use >= 1 /\ use <= numThreads
        /\ PoolIs(numThreads)
        /\ TreeShape
        /\ \A t \in T : t >= use - 1 /\ t < numThreads - 1 => Parked(t)

InKill == mpc \in {"kill", "knotify", "join"}

(* The nodes below k are kept, those from k to midx - 1 are gone.          *)
KillInv ==
    InKill =>
        /\ op \in {"resize", "destroy"}
        /\ \E k \in 0..numThreads-1 :
              /\ k <= midx
              /\ \A t \in T : t < k => t \in Pool
              /\ \A t \in T : t >= k /\ t < midx => t \notin Pool
        /\ \A t, u \in T : midx <= t /\ t <= u /\ u \in Pool => t \in Pool
        /\ \A t \in Pool : t # midx \/ mpc = "kill" => Parked(t)
        /\ mpc # "kill" =>
              /\ midx \in Pool /\ ~workloads[midx]
              /\ wpc[midx] = "exited" \/ (Sleeping(midx) /\ waitForWork[midx])

IdleInv ==
    /\ mpc = "idle" => PoolIs(numThreads) /\ \A t \in Pool : Parked(t)
    /\ mpc = "gone" => op = "destroy" /\ \A t \in Pool : Parked(t)
    /\ mpc # "undefined"

IInv == Types /\ SettingInv /\ StartedInv /\ WaitingInv /\ BatchInv /\ KillInv /\ IdleInv

-----------------------------------------------------------------------------
(* Type correctness *)

USE DEF MainPCs, WorkerPCs, Exceptions

(* AutoSwitchMode leaves ranges of numbers in every thread, for any number *)
(* of threads it may be called with.                                       *)
LEMMA SwitchType ==
    ASSUME NEW k \in Nat \ {0}, NEW pool, AutoSwitchMode(k, pool)
    PROVE  wakeFanout' \in Nat /\ wake' \in [T -> Nat \X Nat]
<1> DEFINE f == IF FanoutFor(k) THEN ActualWakeFanout(k) ELSE 0
<1>1. f \in Nat /\ (f = 0 \/ f >= 2)
  BY ModeAssumption DEF ActualWakeFanout, Larger, Smaller
<1>2. ASSUME NEW t \in T, f # 0 PROVE FanoutRange(k, f, t) \in Nat \X Nat
  <2>1. CASE t < k - 1
    <3>1. t \in Nat BY ThreadsAssumption DEF T
    <3>2. (t + 1) * f >= 1 /\ (t + 2) * f >= 1 BY <1>1, <1>2, <3>1
    <3>3. (t + 1) * f \in Int /\ (t + 2) * f \in Int BY <1>1, <3>1
    <3> QED BY <2>1, <3>2, <3>3 DEF FanoutRange, Smaller
  <2>2. CASE ~(t < k - 1)
    BY <2>2 DEF FanoutRange
  <2> QED BY <2>1, <2>2
<1> HIDE DEF f
<1>3. wake' = [t \in T |-> IF t \notin pool \/ f = 0 THEN <<0, 0>> ELSE FanoutRange(k, f, t)]
  BY DEF AutoSwitchMode, f
<1>4. wakeFanout' = f BY DEF AutoSwitchMode, f
<1> QED BY <1>1, <1>2, <1>3, <1>4

(* Recording what a workload did keeps the record of the batch a record.   *)
LEMMA RecordType ==
    ASSUME OutcomeOK, NEW w, NEW o \in {"done", "error", "system"}, Record(w, o)
    PROVE  OutcomeOK'
BY DEF OutcomeOK, Record

LEMMA OutcomeSame == OutcomeOK /\ outcome' = outcome => OutcomeOK'
BY DEF OutcomeOK

(* A notify_one changes nothing but where the two sleepers are.            *)
LEMMA NotifyType ==
    ASSUME NEW u, NEW pcs \in [T -> WorkerPCs], NEW m \in MainPCs, NotifyOne(u, pcs, m)
    PROVE  wpc' \in [T -> WorkerPCs] /\ mpc' \in MainPCs
BY DEF NotifyOne

LEMMA ResizeType ==
    ASSUME Types, NEW newOp \in {"resize", "destroy"}, NEW num \in 1..MaxThreads,
           NEW keep \in Nat, Resize(newOp, num, keep)
    PROVE  Types'
<1>1. OutcomeOK'
  BY ThreadsAssumption DEF OutcomeOK, Resize, NoWork
<1> QED BY <1>1, ThreadsAssumption DEF Types, Resize, threadVars

LEMMA WorkerType ==
    ASSUME Types, NEW t \in T, Worker(t) \/ WorkerSpurious(t)
    PROVE  Types'
<1> USE OutcomeSame DEF Types, callVars
<1>1. t \in Nat BY ThreadsAssumption DEF T
<1>2. CASE WorkerSleep(t) BY <1>2 DEF WorkerSleep
<1>3. CASE WorkerTakeJob(t)
  <2>1. wake[t][1] \in Nat OBVIOUS
  <2>2. wakeIdx' \in [T -> Nat] /\ cur' \in [T -> Nat]
    BY <1>1, <1>3, <2>1 DEF WorkerTakeJob
  <2>3. wpc' \in [T -> WorkerPCs] BY <1>3 DEF WorkerTakeJob
  <2> QED BY <1>3, <2>2, <2>3 DEF WorkerTakeJob
<1>4. CASE WorkerStartPeer(t) BY <1>4 DEF WorkerStartPeer, SetStarted
<1>5. CASE WorkerNotifyPeer(t)
  <2> DEFINE pcs == [wpc EXCEPT ![t] = IF wakeIdx[t] + 1 < WakeEnd(t) THEN "wake" ELSE "run"]
  <2>1. pcs \in [T -> WorkerPCs] OBVIOUS
  <2>2. NotifyOne(wakeIdx[t], pcs, mpc) BY <1>5 DEF WorkerNotifyPeer
  <2> HIDE DEF pcs
  <2>3. wpc' \in [T -> WorkerPCs] /\ mpc' \in MainPCs BY <2>1, <2>2, NotifyType
  <2>4. wakeIdx' \in [T -> Nat] BY <1>5 DEF WorkerNotifyPeer
  <2> QED BY <1>5, <2>3, <2>4 DEF WorkerNotifyPeer
<1>6. CASE WorkerProcess(t)
  <2>1. \E o \in {"done", "error", "system"} : Record(cur[t], o)
    BY <1>6, ModeAssumption DEF WorkerProcess
  <2>2. OutcomeOK' BY <2>1, RecordType
  <2>3. ASSUME NEW e \in Failures, exc' = [exc EXCEPT ![t] = e] PROVE exc' \in [T -> Exceptions]
    BY <2>3, ModeAssumption
  <2>4. exc' \in [T -> Exceptions] BY <1>6, <2>3 DEF WorkerProcess
  <2>5. feeder' \in Nat /\ cur' \in [T -> Nat] /\ wpc' \in [T -> WorkerPCs]
    BY <1>6 DEF WorkerProcess
  <2> QED BY <1>6, <2>2, <2>4, <2>5 DEF WorkerProcess
<1>7. CASE WorkerFinish(t) BY <1>7 DEF WorkerFinish
<1>8. CASE WorkerNotify(t)
  <2> DEFINE pcs == [wpc EXCEPT ![t] = "lock"]
  <2>1. pcs \in [T -> WorkerPCs] OBVIOUS
  <2>2. NotifyOne(t, pcs, mpc) BY <1>8 DEF WorkerNotify
  <2> HIDE DEF pcs
  <2>3. wpc' \in [T -> WorkerPCs] /\ mpc' \in MainPCs BY <2>1, <2>2, NotifyType
  <2> QED BY <1>8, <2>3 DEF WorkerNotify
<1>9. CASE WorkerSpurious(t) BY <1>9 DEF WorkerSpurious
<1> QED BY <1>2, <1>3, <1>4, <1>5, <1>6, <1>7, <1>8, <1>9 DEF Worker

LEMMA MainType ==
    ASSUME Types, Main \/ MainSpurious
    PROVE  Types'
<1> USE OutcomeSame DEF Types, threadVars
<1>1. CASE SetWorkload
  <2>1. use \in Nat BY ThreadsAssumption
  <2>2. info' \in [T -> Nat] /\ workloads' \in [T -> BOOLEAN]
    BY <1>1, <2>1 DEF SetWorkload
  <2> QED BY <1>1, <2>2 DEF SetWorkload
<1>2. CASE WorkloadsSet BY <1>2 DEF WorkloadsSet
<1>3. CASE MainStart BY <1>3 DEF MainStart, SetStarted
<1>4. CASE MainNotify
  <2>1. wpc' \in [T -> WorkerPCs] /\ mpc' \in MainPCs
    BY <1>4, NotifyType DEF MainNotify
  <2> QED BY <1>4, <2>1 DEF MainNotify
<1>5. CASE MainStarted
  <2>1. use - 1 \in Int OBVIOUS
  <2> QED BY <1>5, <2>1 DEF MainStarted
<1>6. CASE MainStartPastEnd BY <1>6 DEF MainStartPastEnd
<1>7. CASE MainProcess
  <2>1. \E o \in {"done", "error", "system"} : Record(mcur, o)
    BY <1>7, ModeAssumption DEF MainProcess
  <2>2. OutcomeOK' BY <2>1, RecordType
  <2>3. mexc' \in Exceptions BY <1>7, ModeAssumption DEF MainProcess
  <2> QED BY <1>7, <2>2, <2>3 DEF MainProcess
<1>8. CASE MainSleep BY <1>8 DEF MainSleep
<1>9. CASE MainWaited
  <2>1. midx \in T BY <1>9, ThreadsAssumption DEF MainWaited, T
  <2>2. mexc' \in Exceptions BY <1>9, <2>1 DEF MainWaited
  <2> QED BY <1>9, <2>2 DEF MainWaited
<1>10. CASE Return BY <1>10 DEF Return
<1>11. CASE KillStart BY <1>11 DEF KillStart, SetStarted
<1>12. CASE KillNotify
  <2>1. wpc' \in [T -> WorkerPCs] /\ mpc' \in MainPCs
    BY <1>12, NotifyType DEF KillNotify
  <2> QED BY <1>12, <2>1 DEF KillNotify
<1>13. CASE KillJoin
  <2>1. wpc' \in [T -> WorkerPCs] BY <1>13 DEF KillJoin
  <2>2. midx' \in Nat BY <1>13 DEF KillJoin
  <2> QED BY <1>13, <2>1, <2>2 DEF KillJoin
<1>14. CASE Resized
  <2>1. wakeFanout' \in Nat /\ wake' \in [T -> Nat \X Nat]
    BY <1>14, SwitchType DEF Resized
  <2> QED BY <1>14, <2>1 DEF Resized, FreshThread
<1>15. CASE Destroyed BY <1>15 DEF Destroyed
<1>16. CASE MainSpurious BY <1>16 DEF MainSpurious
<1> QED BY <1>1, <1>2, <1>3, <1>4, <1>5, <1>6, <1>7, <1>8, <1>9, <1>10, <1>11, <1>12,
           <1>13, <1>14, <1>15, <1>16 DEF Main

LEMMA OperationType ==
    ASSUME Types, Operation
    PROVE  Types'
<1>1. ASSUME NEW k \in 1..MaxWorkloads, RunWorkloads(k) PROVE Types'
  <2> DEFINE u == Smaller(numThreads, k)
  <2>1. u \in 1..MaxThreads BY ThreadsAssumption DEF Smaller, Types
  <2>2. wakeFanout' \in Nat /\ wake' \in [T -> Nat \X Nat]
    BY <1>1, <2>1, SwitchType DEF RunWorkloads
  <2>3. OutcomeOK'
    BY <1>1, ThreadsAssumption DEF OutcomeOK, RunWorkloads
  <2> QED BY <1>1, <2>1, <2>2, <2>3 DEF RunWorkloads, Types
<1>2. CASE RunNoWorkloads
  <2>1. OutcomeOK' BY <1>2, ThreadsAssumption DEF RunNoWorkloads, OutcomeOK, NoWork
  <2> QED BY <1>2, <2>1, ThreadsAssumption DEF RunNoWorkloads, Types, threadVars
<1>3. ASSUME NEW req \in 0..MaxThreads, SetNumThreads(req) \/ SetNumThreadsWithAffinity(req)
      PROVE  Types'
  BY <1>3, ThreadsAssumption, ResizeType DEF SetNumThreads, SetNumThreadsWithAffinity
<1>4. CASE Destroy
  BY <1>4, ResizeType DEF Destroy, Types
<1> QED BY <1>1, <1>2, <1>3, <1>4 DEF Operation

LEMMA TypeInit == Init => Types
<1> SUFFICES ASSUME Init PROVE Types OBVIOUS
<1>1. outcome \in [0..0-1 -> {"pending"}] BY DEF Init, NoWork
<1>2. OutcomeOK BY <1>1, ThreadsAssumption DEF OutcomeOK
<1> QED BY <1>2, ThreadsAssumption DEF Init, Types, T

LEMMA TypeStep == Types /\ [Next]_vars => Types'
<1> SUFFICES ASSUME Types, [Next]_vars PROVE Types' OBVIOUS
<1>1. CASE UNCHANGED vars
  BY <1>1 DEF Types, OutcomeOK, vars, threadVars, callVars
<1>2. CASE Next
  BY <1>1, <1>2, OperationType, MainType, WorkerType DEF Next, Spurious, Finished
<1> QED BY <1>1, <1>2

(* The state of the pool and of the caller is always of its type, forced   *)
(* mode or not.                                                            *)
LEMMA TypesHold == Spec => []Types
<1>1. Init => Types BY TypeInit
<1>2. Types /\ [Next]_vars => Types' BY TypeStep
<1> QED BY <1>1, <1>2, PTL DEF Spec

-----------------------------------------------------------------------------
(* The wake-up tree: every thread in use has one waker, which is main or a *)
(* thread with a smaller index.                                            *)

LEMMA RangeBounds ==
    ASSUME NEW k \in Nat, NEW f \in Nat, f >= 2, NEW p \in Nat, p < k - 1
    PROVE  /\ FanoutRange(k, f, p)[1] = (p + 1) * f - 1
           /\ (p + 1) * f \in Int /\ (p + 2) * f \in Int
           /\ FanoutRange(k, f, p)[2] \in Int
           /\ FanoutRange(k, f, p)[2] <= (p + 2) * f - 1
           /\ FanoutRange(k, f, p)[2] <= k - 1
           /\ \A t \in Nat : t < (p + 2) * f - 1 /\ t < k - 1 => t < FanoutRange(k, f, p)[2]
<1>1. (p + 1) * f \in Int /\ (p + 2) * f \in Int OBVIOUS
<1> QED BY <1>1 DEF FanoutRange, Smaller

LEMMA ProductMonotone ==
    ASSUME NEW a \in Nat, NEW b \in Nat, NEW f \in Nat, a <= b
    PROVE  a * f <= b * f
OBVIOUS

(* No thread is in the ranges of two wakers.                               *)
LEMMA OneWaker ==
    ASSUME Types, TreeShape, NEW p \in T, NEW q \in T, NEW t \in T,
           p < use - 1, q < use - 1, InRange(p, t), InRange(q, t)
    PROVE  p = q
<1> USE ThreadsAssumption DEF T
<1>1. CASE wakeFanout = 0
  <2>1. wake[p] = <<0, 0>> BY <1>1 DEF TreeShape
  <2> QED BY <2>1 DEF InRange
<1>2. CASE wakeFanout # 0
  <2> DEFINE f == wakeFanout
  <2>1. f \in Nat /\ f >= 2 /\ use \in Nat /\ p \in Nat /\ q \in Nat /\ t \in Nat
    BY <1>2 DEF TreeShape, Types
  <2>2. wake[p] = FanoutRange(use, f, p) /\ wake[q] = FanoutRange(use, f, q)
    BY <1>2 DEF TreeShape
  <2> HIDE DEF f
  <2>3. (p + 1) * f - 1 <= t /\ t < (p + 2) * f - 1
    <3>1. /\ wake[p][1] = (p + 1) * f - 1 /\ wake[p][2] <= (p + 2) * f - 1
          /\ (p + 1) * f \in Int /\ (p + 2) * f \in Int /\ wake[p][2] \in Int
      BY <2>1, <2>2, RangeBounds
    <3> QED BY <2>1, <3>1 DEF InRange
  <2>4. (q + 1) * f - 1 <= t /\ t < (q + 2) * f - 1
    <3>1. /\ wake[q][1] = (q + 1) * f - 1 /\ wake[q][2] <= (q + 2) * f - 1
          /\ (q + 1) * f \in Int /\ (q + 2) * f \in Int /\ wake[q][2] \in Int
      BY <2>1, <2>2, RangeBounds
    <3> QED BY <2>1, <3>1 DEF InRange
  <2>5. CASE p < q
    <3>1. (p + 2) * f <= (q + 1) * f BY <2>1, <2>5, ProductMonotone
    <3> QED BY <2>1, <2>3, <2>4, <3>1
  <2>6. CASE q < p
    <3>1. (q + 2) * f <= (p + 1) * f BY <2>1, <2>6, ProductMonotone
    <3> QED BY <2>1, <2>3, <2>4, <3>1
  <2> QED BY <2>1, <2>5, <2>6
<1> QED BY <1>1, <1>2

(* No thread that main starts is in the range of a waker.                  *)
LEMMA MainOrWaker ==
    ASSUME Types, TreeShape, NEW p \in T, NEW t \in T, p < use - 1, InRange(p, t)
    PROVE  ~(t < ToStart)
<1> USE ThreadsAssumption DEF T
<1>1. CASE wakeFanout = 0
  <2>1. wake[p] = <<0, 0>> BY <1>1 DEF TreeShape
  <2> QED BY <2>1 DEF InRange
<1>2. CASE wakeFanout # 0
  <2>1. wakeFanout \in Nat /\ wakeFanout >= 2 /\ use \in Nat /\ p \in Nat
    BY <1>2 DEF TreeShape, Types
  <2>2. wake[p] = FanoutRange(use, wakeFanout, p) BY <1>2 DEF TreeShape
  <2>3. (p + 1) * wakeFanout - 1 <= t
    <3>1. FanoutRange(use, wakeFanout, p)[1] = (p + 1) * wakeFanout - 1 BY ONLY <2>1, p < use - 1, RangeBounds
    <3>2. wake[p][1] = (p + 1) * wakeFanout - 1 BY ONLY <2>2, <3>1
    <3> QED BY <3>2 DEF InRange
  <2>4. 1 * wakeFanout <= (p + 1) * wakeFanout
    BY <2>1, ProductMonotone
  <2> QED BY <1>2, <2>1, <2>3, <2>4 DEF ToStart
<1> QED BY <1>1, <1>2

(* A thread main does not start has a waker, and one that comes before it. *)
LEMMA SomeWaker ==
    ASSUME Types, TreeShape, NEW t \in T, t < use - 1, ~(t < ToStart)
    PROVE  \E p \in T : p < t /\ InRange(p, t)
<1> USE ThreadsAssumption DEF T
<1>1. wakeFanout \in Nat /\ wakeFanout >= 2 /\ use \in Nat /\ t \in Nat /\ t + 1 >= wakeFanout
  BY DEF TreeShape, Types, ToStart
<1> DEFINE f == wakeFanout
           q == (t + 1) \div f
<1>2. f \in Nat /\ f >= 2 BY <1>1
<1> HIDE DEF f
<1>3. q \in Nat /\ q * f <= t + 1 /\ t + 1 < (q + 1) * f
  BY <1>1, <1>2
<1> HIDE DEF q
<1>4. q >= 1
  BY <1>1, <1>3 DEF f
<1>5. q < t + 1
  <2>1. q * 2 <= q * f /\ q * f \in Int BY <1>2, <1>3
  <2> QED BY <1>1, <1>3, <1>4, <2>1
<1>6. q - 1 \in T /\ q - 1 \in Nat /\ q - 1 < t /\ q - 1 < use - 1
  BY <1>1, <1>3, <1>4, <1>5
<1>7. wake[q - 1] = FanoutRange(use, f, q - 1) BY <1>1, <1>6 DEF TreeShape, f
<1>8. FanoutRange(use, f, q - 1)[1] = ((q - 1) + 1) * f - 1
      /\ \A s \in Nat : s < ((q - 1) + 2) * f - 1 /\ s < use - 1
                         => s < FanoutRange(use, f, q - 1)[2]
  BY <1>1, <1>2, <1>6, RangeBounds
<1>9. (q - 1) + 1 = q /\ (q - 1) + 2 = q + 1 BY <1>3
<1>10. q * f \in Int /\ (q + 1) * f \in Int BY <1>2, <1>3
<1>11. InRange(q - 1, t)
  BY <1>1, <1>3, <1>7, <1>8, <1>9, <1>10 DEF InRange
<1> QED BY <1>6, <1>11

-----------------------------------------------------------------------------
(* Every step preserves the invariant. *)

(* A step that moves threads only between the states of a sleeper, between *)
(* the two states after the wake-ups, or main in and out of its sleep.     *)
QuietStep ==
    /\ \A t \in T : \/ wpc'[t] = wpc[t]
                    \/ {wpc[t], wpc'[t]} \subseteq {"lock", "blocked", "notify"}
                    \/ {wpc[t], wpc'[t]} \subseteq {"run", "fin"}
    /\ mpc' = mpc \/ {mpc, mpc'} \subseteq {"wait", "blocked"}
    /\ UNCHANGED <<waitForWork, jobComplete, workloads, info, wake, wakeIdx,
                   numThreads, wakeFanout, midx, op, use>>

LEMMA Quiet ==
    ASSUME IInv, Types', QuietStep
    PROVE  IInv'
<1>1. /\ waitForWork' = waitForWork /\ jobComplete' = jobComplete /\ workloads' = workloads
      /\ info' = info /\ wake' = wake /\ wakeIdx' = wakeIdx /\ numThreads' = numThreads
      /\ wakeFanout' = wakeFanout /\ midx' = midx /\ op' = op /\ use' = use
  BY DEF QuietStep
<1>2. ASSUME NEW t \in T
      PROVE  /\ Sleeping(t)' <=> Sleeping(t)
             /\ Parked(t)' <=> Parked(t)
             /\ Unstarted(t)' <=> Unstarted(t)
             /\ Signalled(t)' <=> Signalled(t)
             /\ Working(t)' <=> Working(t)
             /\ (t \in Pool)' <=> t \in Pool
             /\ wpc'[t] \in {"wake", "wnotify"} => wpc'[t] = wpc[t]
             /\ wpc[t] = "exited" => wpc'[t] = "exited"
             /\ WakeEnd(t)' = WakeEnd(t)
  <2>1. \/ wpc'[t] = wpc[t]
        \/ wpc[t] \in {"lock", "blocked", "notify"} /\ wpc'[t] \in {"lock", "blocked", "notify"}
        \/ wpc[t] \in {"run", "fin"} /\ wpc'[t] \in {"run", "fin"}
    BY DEF QuietStep
  <2> QED BY <1>1, <2>1 DEF Sleeping, Parked, Unstarted, Signalled, Working, Pool, WakeEnd
<1>3. ASSUME NEW p \in T, NEW t \in T
      PROVE  (Woke(p, t)' <=> Woke(p, t)) /\ (InRange(p, t)' <=> InRange(p, t))
  <2>1. \/ wpc'[p] = wpc[p]
        \/ wpc[p] \in {"lock", "blocked", "notify"} /\ wpc'[p] \in {"lock", "blocked", "notify"}
        \/ wpc[p] \in {"run", "fin"} /\ wpc'[p] \in {"run", "fin"}
    BY DEF QuietStep
  <2> QED BY <1>1, <1>2, <2>1 DEF Woke, InRange
<1>4. mpc' = mpc \/ (mpc \in {"wait", "blocked"} /\ mpc' \in {"wait", "blocked"})
  BY DEF QuietStep
<1>5. ASSUME NEW t \in T PROVE MainWoke(t)' <=> MainWoke(t)
  BY <1>1, <1>4 DEF MainWoke
<1>6. ToStart' = ToStart BY <1>1 DEF ToStart
<1>7. SettingInv' BY <1>1, <1>2, <1>4 DEF SettingInv, IInv
<1>8. StartedInv'
  <2> SUFFICES ASSUME InBatch', (mpc # "set")', NEW t \in T, (t < use - 1)'
               PROVE  ThreadInv(t)'
    BY DEF StartedInv
  <2>1. ThreadInv(t) BY <1>1, <1>4 DEF StartedInv, InBatch, IInv
  <2>2. \A p \in T : (p < use - 1 /\ InRange(p, t) => (Unstarted(t) <=> ~Woke(p, t)))'
    BY <1>1, <1>2, <1>3, <2>1 DEF ThreadInv
  <2> QED BY <1>1, <1>2, <1>5, <1>6, <2>1, <2>2 DEF ThreadInv
<1>9. WaitingInv' BY <1>1, <1>2, <1>4, <1>6 DEF WaitingInv, IInv
<1>10. BatchInv'
  BY <1>1, <1>2, <1>4 DEF BatchInv, IInv, InBatch, PoolIs, TreeShape
<1>11. KillInv'
  <2>1. SUFFICES ASSUME InKill' PROVE KillInv' BY DEF KillInv
  <2>2. mpc' = mpc /\ InKill BY <1>4, <2>1 DEF InKill
  <2>3. \A t \in T : (t \in Pool)' <=> t \in Pool BY <1>2
  <2>4. \A t \in T : Parked(t)' <=> Parked(t) BY <1>2
  <2>5. \A t \in Pool' : t \in T BY DEF Pool
  <2>6. \A t \in Pool : t \in T BY DEF Pool
  <2>7. \A t \in T : /\ wpc[t] = "exited" => wpc'[t] = "exited"
                     /\ Sleeping(t)' <=> Sleeping(t)
    BY <1>2
  <2>8. KillInv BY DEF IInv
  <2>9. op' \in {"resize", "destroy"} BY <1>1, <2>2, <2>8 DEF KillInv
  <2>10. \E k \in 0..numThreads'-1 :
           /\ k <= midx'
           /\ \A t \in T : t < k => t \in Pool'
           /\ \A t \in T : t >= k /\ t < midx' => t \notin Pool'
    BY <1>1, <2>2, <2>3, <2>8 DEF KillInv
  <2>11. \A t, u \in T : midx' <= t /\ t <= u /\ u \in Pool' => t \in Pool'
    BY <1>1, <2>2, <2>3, <2>8 DEF KillInv
  <2>12. \A t \in Pool' : t # midx' \/ mpc' = "kill" => Parked(t)'
    BY <1>1, <2>2, <2>3, <2>4, <2>5, <2>8 DEF KillInv
  <2>13. mpc' # "kill" =>
           /\ midx' \in Pool' /\ ~workloads'[midx']
           /\ wpc'[midx'] = "exited" \/ (Sleeping(midx)' /\ waitForWork'[midx'])
    BY <1>1, <2>2, <2>3, <2>6, <2>7, <2>8 DEF KillInv
  <2> QED BY <1>1, <2>9, <2>10, <2>11, <2>12, <2>13 DEF KillInv
<1>12. IdleInv'
  <2>1. \A t \in Pool' : t \in T BY DEF Pool
  <2> QED BY <1>1, <1>2, <1>4, <2>1 DEF IdleInv, IInv, PoolIs
<1> QED BY <1>7, <1>8, <1>9, <1>10, <1>11, <1>12 DEF IInv

(* The part a thread of the pool has in what the caller does.              *)
LEMMA ThreadParts ==
    ASSUME IInv, NEW t \in Pool
    PROVE  \/ Parked(t)
           \/ mpc = "set" /\ Unstarted(t)
           \/ InBatch /\ mpc # "set" /\ t < use - 1 /\ ThreadInv(t)
           \/ /\ mpc \in {"knotify", "join"} /\ t = midx /\ ~workloads[t]
              /\ wpc[t] = "exited" \/ (Sleeping(t) /\ waitForWork[t])
<1> USE ThreadsAssumption DEF T
<1>1. t \in T /\ t \in Int BY DEF Pool
<1>2. use \in Int /\ midx \in Int /\ numThreads \in Int BY DEF IInv, Types
<1>3. CASE mpc = "set"
  <2>1. t < numThreads - 1 BY <1>1, <1>3 DEF IInv, BatchInv, InBatch, PoolIs
  <2>2. CASE t < use - 1 BY <1>1, <1>2, <1>3, <2>2 DEF IInv, SettingInv
  <2>3. CASE ~(t < use - 1)
    BY <1>1, <1>2, <1>3, <2>1, <2>3 DEF IInv, BatchInv, InBatch
  <2> QED BY <2>2, <2>3
<1>4. CASE InBatch /\ mpc # "set"
  <2>1. t < numThreads - 1 BY <1>1, <1>4 DEF IInv, BatchInv, InBatch, PoolIs
  <2>2. CASE t < use - 1 BY <1>1, <1>4, <2>2 DEF IInv, StartedInv
  <2>3. CASE ~(t < use - 1)
    BY <1>1, <1>2, <1>4, <2>1, <2>3 DEF IInv, BatchInv
  <2> QED BY <1>4, <2>2, <2>3
<1>5. CASE InKill
  BY <1>5 DEF IInv, KillInv, InKill
<1>6. CASE mpc \in {"idle", "gone"}
  BY <1>6 DEF IInv, IdleInv
<1> QED BY <1>3, <1>4, <1>5, <1>6 DEF InBatch, InKill, IInv, Types, IdleInv

LEMMA ActiveThread ==
    ASSUME IInv, NEW t \in T, wpc[t] \in {"wake", "wnotify", "run", "fin"}
    PROVE  InBatch /\ mpc # "set" /\ t < use - 1 /\ ThreadInv(t) /\ Working(t)
<1>1. t \in Pool BY DEF Pool
<1>2. ~Sleeping(t) BY DEF Sleeping
<1>3. ~Parked(t) /\ ~Unstarted(t) /\ ~Signalled(t)
  BY <1>2 DEF Parked, Signalled, Unstarted, Sleeping
<1>4. InBatch /\ mpc # "set" /\ t < use - 1 /\ ThreadInv(t)
  BY <1>1, <1>2, <1>3, ThreadParts
<1> QED BY <1>3, <1>4 DEF ThreadInv

(* It is enough to look at the threads in use when a worker or main takes  *)
(* a step inside a batch.                                                  *)
LEMMA BatchFrame ==
    ASSUME IInv, Types', InBatch, mpc # "set",
           mpc' = mpc \/ {mpc, mpc'} \subseteq {"wait", "blocked"},
           UNCHANGED <<numThreads, wakeFanout, wake, midx, op, use>>,
           \A s \in T : (s \in Pool)' <=> s \in Pool,
           \A s \in T : Parked(s) => Parked(s)',
           \A s \in T : s < use - 1 => ThreadInv(s)'
    PROVE  IInv'
<1>1. mpc' = mpc \/ (mpc \in {"wait", "blocked"} /\ mpc' \in {"wait", "blocked"})
  OBVIOUS
<1>2. InBatch' /\ mpc' # "set" /\ ~InKill' BY <1>1 DEF InBatch, InKill
<1>3. ToStart' = ToStart BY DEF ToStart
<1>4. SettingInv' /\ KillInv' /\ IdleInv'
  BY <1>2 DEF SettingInv, KillInv, IdleInv, InBatch, InKill
<1>5. StartedInv' BY DEF StartedInv
<1>6. WaitingInv' BY <1>1, <1>3 DEF WaitingInv, IInv
<1>7. BatchInv' BY <1>1 DEF BatchInv, IInv, PoolIs, TreeShape
<1> QED BY <1>4, <1>5, <1>6, <1>7 DEF IInv

LEMMA QuietWorker ==
    ASSUME IInv, NEW t \in T,
           WorkerSleep(t) \/ WorkerSpurious(t) \/ WorkerNotify(t) \/ WorkerProcess(t)
    PROVE  QuietStep
<1> USE DEF IInv, Types
<1>1. CASE WorkerSleep(t) BY <1>1 DEF WorkerSleep, QuietStep, callVars
<1>2. CASE WorkerSpurious(t) BY <1>2 DEF WorkerSpurious, QuietStep, callVars
<1>3. CASE WorkerNotify(t)
  BY <1>3 DEF WorkerNotify, QuietStep, NotifyOne
<1>4. CASE WorkerProcess(t) BY <1>4 DEF WorkerProcess, QuietStep, callVars
<1> QED BY <1>1, <1>2, <1>3, <1>4

(* What the other threads see of a step of thread t: nothing, but for what *)
(* it has woken.                                                           *)
LEMMA OthersSame ==
    ASSUME NEW s \in T, waitForWork'[s] = waitForWork[s],
           \/ wpc'[s] = wpc[s]
           \/ wpc[s] = "blocked" /\ wpc'[s] = "lock",
           jobComplete'[s] = jobComplete[s], workloads'[s] = workloads[s]
    PROVE  /\ Parked(s)' <=> Parked(s)
           /\ Unstarted(s)' <=> Unstarted(s)
           /\ Signalled(s)' <=> Signalled(s)
           /\ Working(s)' <=> Working(s)
           /\ (s \in Pool)' <=> s \in Pool
BY DEF Parked, Unstarted, Signalled, Working, Sleeping, Pool

LEMMA TakeJobInBatch ==
    ASSUME IInv, Types', NEW t \in T, WorkerTakeJob(t), InBatch, mpc # "set"
    PROVE  IInv'
<1> USE DEF IInv, Types
<1>1. /\ wpc[t] = "lock" /\ waitForWork[t] /\ t \in Pool
      /\ jobComplete' = jobComplete /\ workloads' = workloads /\ info' = info /\ wake' = wake
      /\ numThreads' = numThreads /\ wakeFanout' = wakeFanout /\ mpc' = mpc /\ midx' = midx
      /\ op' = op /\ use' = use
  BY DEF WorkerTakeJob, callVars, Pool
<1>2. t < use - 1 /\ ThreadInv(t) /\ Signalled(t)
  <2>1. ~Parked(t) /\ ~Unstarted(t) /\ ~Working(t)
    BY <1>1 DEF Parked, Unstarted, Working
  <2>2. ~(mpc \in {"knotify", "join"}) BY DEF InBatch
  <2> QED BY <1>1, <2>1, <2>2, ThreadParts DEF ThreadInv
<1>3. /\ wpc' = [wpc EXCEPT ![t] = IF wake[t][1] < WakeEnd(t) THEN "wake" ELSE "run"]
      /\ wakeIdx' = [wakeIdx EXCEPT ![t] = wake[t][1]]
      /\ waitForWork' = [waitForWork EXCEPT ![t] = FALSE]
  BY <1>2 DEF WorkerTakeJob, Signalled
<1>4. Working(t)' /\ ~Unstarted(t)' /\ ~Parked(t) /\ ~Unstarted(t) /\ ~Parked(t)'
  BY <1>1, <1>2, <1>3 DEF Working, Unstarted, Parked, Signalled, Sleeping
<1>5. ASSUME NEW s \in T, s # t
      PROVE  /\ Parked(s)' <=> Parked(s)
             /\ Unstarted(s)' <=> Unstarted(s)
             /\ Signalled(s)' <=> Signalled(s)
             /\ Working(s)' <=> Working(s)
             /\ (s \in Pool)' <=> s \in Pool
  <2>1. wpc'[s] = wpc[s] /\ waitForWork'[s] = waitForWork[s] BY <1>3, <1>5
  <2> QED BY <1>1, <1>5, <2>1, OthersSame
<1>6. ASSUME NEW s \in T PROVE (s \in Pool)' <=> s \in Pool
  <2>1. (t \in Pool)' BY <1>4 DEF Working, Pool
  <2> QED BY <1>1, <1>5, <2>1
<1>7. ASSUME NEW s \in T, s < use - 1, InRange(t, s) PROVE ~Woke(t, s) /\ ~Woke(t, s)'
  <2>1. ~Woke(t, s) BY <1>1, <1>4 DEF Woke
  <2>2. wake[t][1] <= s /\ s < wake[t][2] BY <1>7 DEF InRange
  <2>3. s < WakeEnd(t) BY <1>2, <1>7, <2>2 DEF WakeEnd, Smaller, ThreadInv
  <2>4. wake[t][1] \in Int /\ s \in Int /\ WakeEnd(t) \in Int
    <3>1. wake[t][1] \in Nat /\ wake[t][2] \in Nat /\ info[t] \in Nat OBVIOUS
    <3>2. s \in Int BY ThreadsAssumption DEF T
    <3>3. WakeEnd(t) \in Int BY <3>1 DEF WakeEnd, Smaller
    <3> QED BY <3>1, <3>2, <3>3
  <2>5. wake[t][1] < WakeEnd(t) BY <2>2, <2>3, <2>4
  <2>6. wpc'[t] = "wake" /\ wakeIdx'[t] = wake[t][1] BY <1>3, <2>5
  <2>7. ~Woke(t, s)' BY <1>4, <2>2, <2>4, <2>6 DEF Woke
  <2> QED BY <2>1, <2>7
<1>8. ASSUME NEW s \in T, s < use - 1 PROVE ThreadInv(s)'
  <2>1. ThreadInv(s) BY <1>8 DEF StartedInv
  <2>2. Unstarted(s)' <=> Unstarted(s) BY <1>4, <1>5
  <2>3. (s < ToStart => (Unstarted(s) <=> ~MainWoke(s)))'
    BY <1>1, <2>1, <2>2 DEF ThreadInv, ToStart, MainWoke
  <2>4. ASSUME NEW p \in T, p < use - 1, InRange(p, s)
        PROVE  Unstarted(s)' <=> ~Woke(p, s)'
    <3>1. Unstarted(s) <=> ~Woke(p, s) BY <2>1, <2>4 DEF ThreadInv
    <3>2. CASE p = t BY <1>7, <1>8, <2>2, <2>4, <3>1, <3>2
    <3>3. CASE p # t
      <4>1. Woke(p, s)' <=> Woke(p, s) BY <1>3, <1>5, <3>3 DEF Woke
      <4> QED BY <2>2, <3>1, <4>1
    <3> QED BY <3>2, <3>3
  <2>5. (\A p \in T : p < use - 1 /\ InRange(p, s) => (Unstarted(s) <=> ~Woke(p, s)))'
    BY <1>1, <2>4 DEF InRange
  <2>6. (wpc[s] \in {"wake", "wnotify"} => wake[s][1] <= wakeIdx[s] /\ wakeIdx[s] < WakeEnd(s))'
    <3>1. CASE s = t
      <4>1. wake[t][1] \in Int OBVIOUS
      <4> QED BY <1>1, <1>3, <3>1, <4>1 DEF WakeEnd
    <3>2. CASE s # t BY <1>1, <1>3, <2>1, <3>2 DEF ThreadInv, WakeEnd
    <3> QED BY <3>1, <3>2
  <2>7. (Parked(s) \/ Unstarted(s) \/ Signalled(s) \/ Working(s))'
    BY <1>4, <1>5, <2>1 DEF ThreadInv
  <2> QED BY <1>1, <2>1, <2>3, <2>5, <2>6, <2>7 DEF ThreadInv
<1>9. ASSUME NEW s \in T, Parked(s) PROVE Parked(s)' BY <1>4, <1>5, <1>9
<1> QED BY <1>1, <1>6, <1>8, <1>9, BatchFrame

LEMMA FinishKeeps ==
    ASSUME IInv, Types', NEW t \in T, WorkerFinish(t)
    PROVE  IInv'
<1> USE DEF IInv, Types
<1>1. /\ wpc[t] = "fin" /\ wpc' = [wpc EXCEPT ![t] = "notify"]
      /\ workloads' = [workloads EXCEPT ![t] = FALSE]
      /\ jobComplete' = [jobComplete EXCEPT ![t] = TRUE]
      /\ wakeIdx' = [wakeIdx EXCEPT ![t] = 0]
      /\ waitForWork' = waitForWork /\ info' = info /\ wake' = wake
      /\ numThreads' = numThreads /\ wakeFanout' = wakeFanout /\ mpc' = mpc /\ midx' = midx
      /\ op' = op /\ use' = use
  BY DEF WorkerFinish, callVars
<1>2. InBatch /\ mpc # "set" /\ t < use - 1 /\ ThreadInv(t) /\ Working(t)
  BY <1>1, ActiveThread
<1>3. Parked(t)' /\ ~Unstarted(t)' /\ ~Unstarted(t)
  BY <1>1, <1>2 DEF Working, Unstarted, Parked, Sleeping
<1>4. ASSUME NEW s \in T, s # t
      PROVE  /\ Parked(s)' <=> Parked(s)
             /\ Unstarted(s)' <=> Unstarted(s)
             /\ Signalled(s)' <=> Signalled(s)
             /\ Working(s)' <=> Working(s)
             /\ (s \in Pool)' <=> s \in Pool
  <2>1. wpc'[s] = wpc[s] /\ workloads'[s] = workloads[s] /\ jobComplete'[s] = jobComplete[s]
    BY <1>1, <1>4
  <2> QED BY <1>1, <1>4, <2>1, OthersSame
<1>5. ASSUME NEW s \in T PROVE (s \in Pool)' <=> s \in Pool
  BY <1>1, <1>4 DEF Pool
<1>6. ASSUME NEW s \in T PROVE Woke(t, s) /\ Woke(t, s)'
  BY <1>1, <1>3 DEF Woke
<1>7. ASSUME NEW s \in T, s < use - 1 PROVE ThreadInv(s)'
  <2>1. ThreadInv(s) BY <1>2, <1>7 DEF StartedInv
  <2>2. Unstarted(s)' <=> Unstarted(s) BY <1>3, <1>4
  <2>3. (s < ToStart => (Unstarted(s) <=> ~MainWoke(s)))'
    BY <1>1, <2>1, <2>2 DEF ThreadInv, ToStart, MainWoke
  <2>4. ASSUME NEW p \in T, p < use - 1, InRange(p, s)
        PROVE  Unstarted(s)' <=> ~Woke(p, s)'
    <3>1. Unstarted(s) <=> ~Woke(p, s) BY <2>1, <2>4 DEF ThreadInv
    <3>2. CASE p = t BY <1>6, <2>2, <3>1, <3>2
    <3>3. CASE p # t
      <4>1. Woke(p, s)' <=> Woke(p, s) BY <1>1, <1>4, <3>3 DEF Woke
      <4> QED BY <2>2, <3>1, <4>1
    <3> QED BY <3>2, <3>3
  <2>5. (\A p \in T : p < use - 1 /\ InRange(p, s) => (Unstarted(s) <=> ~Woke(p, s)))'
    BY <1>1, <2>4 DEF InRange
  <2>6. (wpc[s] \in {"wake", "wnotify"} => wake[s][1] <= wakeIdx[s] /\ wakeIdx[s] < WakeEnd(s))'
    BY <1>1, <2>1 DEF ThreadInv, WakeEnd
  <2>7. (Parked(s) \/ Unstarted(s) \/ Signalled(s) \/ Working(s))'
    BY <1>3, <1>4, <2>1 DEF ThreadInv
  <2> QED BY <1>1, <2>1, <2>3, <2>5, <2>6, <2>7 DEF ThreadInv
<1>8. ASSUME NEW s \in T, Parked(s) PROVE Parked(s)' BY <1>3, <1>4, <1>8
<1> QED BY <1>1, <1>2, <1>5, <1>7, <1>8, BatchFrame

(* A worker starts thread u = wakeIdx[t]: u is in its range, so it has no  *)
(* other waker, and it was unstarted.                                      *)
LEMMA PeerIsUnstarted ==
    ASSUME IInv, NEW t \in T, wpc[t] = "wake"
    PROVE  /\ InBatch /\ mpc # "set" /\ t < use - 1 /\ Working(t)
           /\ wakeIdx[t] \in T /\ wakeIdx[t] < use - 1 /\ wakeIdx[t] # t
           /\ InRange(t, wakeIdx[t]) /\ Unstarted(wakeIdx[t])
<1> USE ThreadsAssumption DEF IInv, Types
<1>1. InBatch /\ mpc # "set" /\ t < use - 1 /\ ThreadInv(t) /\ Working(t)
  BY ActiveThread
<1>2. wake[t][1] \in Nat /\ wake[t][2] \in Nat /\ info[t] \in Nat /\ wakeIdx[t] \in Nat
  OBVIOUS
<1>3. info[t] = use /\ wake[t][1] <= wakeIdx[t] /\ wakeIdx[t] < WakeEnd(t)
  BY <1>1 DEF ThreadInv
<1>4. wakeIdx[t] < use - 1 /\ wakeIdx[t] < wake[t][2]
  BY <1>2, <1>3 DEF WakeEnd, Smaller
<1>5. wakeIdx[t] \in T
  BY <1>1, <1>2, <1>4 DEF T, BatchInv
<1>6. InRange(t, wakeIdx[t]) BY <1>3, <1>4 DEF InRange
<1>7. ThreadInv(wakeIdx[t]) BY <1>1, <1>4, <1>5 DEF StartedInv
<1>8. ~Woke(t, wakeIdx[t])
  BY <1>1, <1>2 DEF Woke, Parked, Sleeping
<1>9. Unstarted(wakeIdx[t]) BY <1>1, <1>6, <1>7, <1>8 DEF ThreadInv
<1>10. wakeIdx[t] # t BY <1>1, <1>9 DEF Unstarted, Working
<1> QED BY <1>1, <1>4, <1>5, <1>6, <1>9, <1>10

LEMMA StartPeerKeeps ==
    ASSUME IInv, Types', NEW t \in T, WorkerStartPeer(t)
    PROVE  IInv'
<1> USE DEF IInv, Types
<1> SUFFICES ASSUME NEW u \in T, u = wakeIdx[t] PROVE IInv'
  BY PeerIsUnstarted DEF WorkerStartPeer
<1>1. /\ wpc[t] = "wake" /\ wpc' = [wpc EXCEPT ![t] = "wnotify"]
      /\ waitForWork' = [waitForWork EXCEPT ![u] = TRUE]
      /\ jobComplete' = [jobComplete EXCEPT ![u] = FALSE]
      /\ workloads' = workloads /\ wakeIdx' = wakeIdx /\ info' = info /\ wake' = wake
      /\ numThreads' = numThreads /\ wakeFanout' = wakeFanout /\ mpc' = mpc /\ midx' = midx
      /\ op' = op /\ use' = use
  BY DEF WorkerStartPeer, SetStarted, callVars
<1>2. /\ InBatch /\ mpc # "set" /\ t < use - 1 /\ Working(t)
      /\ u \in T /\ u < use - 1 /\ u # t /\ InRange(t, u) /\ Unstarted(u)
  BY <1>1, PeerIsUnstarted
<1>3. TreeShape BY <1>2 DEF BatchInv
<1>4. Working(t)' /\ ~Unstarted(t)' /\ ~Unstarted(t) /\ ~Parked(t) /\ ~Parked(t)'
  BY <1>1, <1>2 DEF Working, Unstarted, Parked, Sleeping
<1>5. Signalled(u)' /\ ~Unstarted(u)' /\ ~Parked(u) /\ ~Parked(u)'
  BY <1>1, <1>2 DEF Signalled, Unstarted, Parked, Sleeping
<1>6. ASSUME NEW s \in T, s # t, s # u
      PROVE  /\ Parked(s)' <=> Parked(s)
             /\ Unstarted(s)' <=> Unstarted(s)
             /\ Signalled(s)' <=> Signalled(s)
             /\ Working(s)' <=> Working(s)
  <2>1. /\ wpc'[s] = wpc[s] /\ waitForWork'[s] = waitForWork[s]
        /\ jobComplete'[s] = jobComplete[s]
    BY <1>1, <1>2, <1>6
  <2> QED BY <1>1, <1>6, <2>1, OthersSame
<1>7. ASSUME NEW s \in T PROVE (s \in Pool)' <=> s \in Pool
  BY <1>1 DEF Pool
<1>8. ASSUME NEW s \in T, s # u, InRange(t, s) PROVE Woke(t, s)' <=> Woke(t, s)
  <2>1. s \in Int /\ u \in Int BY <1>2, <1>8, ThreadsAssumption DEF T
  <2>2. wpc'[t] = "wnotify" /\ wakeIdx'[t] = u BY <1>1
  <2>3. Woke(t, s) <=> s < u BY <1>1, <1>4 DEF Woke
  <2>4. Woke(t, s)' <=> s <= u BY <1>4, <2>2 DEF Woke
  <2> QED BY <1>8, <2>1, <2>3, <2>4
<1>9. Woke(t, u)'
  <2>1. wpc'[t] = "wnotify" /\ wakeIdx'[t] = u BY <1>1
  <2>2. u <= u BY <1>2, ThreadsAssumption DEF T
  <2> QED BY <2>1, <2>2 DEF Woke
<1>10. ASSUME NEW p \in T, p # t, NEW s \in T PROVE Woke(p, s)' <=> Woke(p, s)
  <2>1. wpc'[p] = wpc[p] /\ wakeIdx'[p] = wakeIdx[p] BY <1>1, <1>10
  <2>2. Parked(p)' <=> Parked(p) BY <1>5, <1>6, <1>10
  <2> QED BY <2>1, <2>2 DEF Woke
<1>11. ASSUME NEW s \in T, s < use - 1 PROVE ThreadInv(s)'
  <2>1. ThreadInv(s) BY <1>2, <1>11 DEF StartedInv
  <2>2. (s < ToStart => (Unstarted(s) <=> ~MainWoke(s)))'
    <3>1. CASE s = u
      <4>1. ~(u < ToStart) BY <1>2, <1>3, MainOrWaker
      <4> QED BY <1>1, <3>1, <4>1 DEF ToStart
    <3>2. CASE s # u
      <4>1. Unstarted(s)' <=> Unstarted(s) BY <1>4, <1>6, <3>2
      <4> QED BY <1>1, <2>1, <4>1 DEF ThreadInv, ToStart, MainWoke
    <3> QED BY <3>1, <3>2
  <2>3. ASSUME NEW p \in T, p < use - 1, InRange(p, s)
        PROVE  Unstarted(s)' <=> ~Woke(p, s)'
    <3>1. Unstarted(s) <=> ~Woke(p, s) BY <2>1, <2>3 DEF ThreadInv
    <3>2. CASE s = u
      <4>1. p = t BY <1>2, <1>3, <2>3, <3>2, OneWaker
      <4> QED BY <1>5, <1>9, <3>2, <4>1
    <3>3. CASE s # u
      <4>1. Unstarted(s)' <=> Unstarted(s) BY <1>4, <1>6, <3>3
      <4>2. Woke(p, s)' <=> Woke(p, s) BY <1>8, <1>10, <2>3, <3>3
      <4> QED BY <3>1, <4>1, <4>2
    <3> QED BY <3>2, <3>3
  <2>4. (\A p \in T : p < use - 1 /\ InRange(p, s) => (Unstarted(s) <=> ~Woke(p, s)))'
    BY <1>1, <2>3 DEF InRange
  <2>5. (wpc[s] \in {"wake", "wnotify"} => wake[s][1] <= wakeIdx[s] /\ wakeIdx[s] < WakeEnd(s))'
    BY <1>1, <2>1 DEF ThreadInv, WakeEnd
  <2>6. (Parked(s) \/ Unstarted(s) \/ Signalled(s) \/ Working(s))'
    BY <1>4, <1>5, <1>6, <2>1 DEF ThreadInv
  <2> QED BY <1>1, <2>1, <2>2, <2>4, <2>5, <2>6 DEF ThreadInv
<1>12. ASSUME NEW s \in T, Parked(s) PROVE Parked(s)' BY <1>4, <1>5, <1>6, <1>12
<1> QED BY <1>1, <1>2, <1>7, <1>11, <1>12, BatchFrame

LEMMA NotifyPeerKeeps ==
    ASSUME IInv, Types', NEW t \in T, WorkerNotifyPeer(t)
    PROVE  IInv'
<1> USE DEF IInv, Types
<1>1. /\ wpc[t] = "wnotify" /\ wakeIdx' = [wakeIdx EXCEPT ![t] = @ + 1]
      /\ NotifyOne(wakeIdx[t], [wpc EXCEPT ![t] = IF wakeIdx[t] + 1 < WakeEnd(t) THEN "wake"
                                                                             ELSE "run"], mpc)
      /\ waitForWork' = waitForWork /\ jobComplete' = jobComplete /\ workloads' = workloads
      /\ info' = info /\ wake' = wake /\ numThreads' = numThreads /\ wakeFanout' = wakeFanout
      /\ midx' = midx /\ op' = op /\ use' = use
  BY DEF WorkerNotifyPeer
<1>2. InBatch /\ mpc # "set" /\ t < use - 1 /\ ThreadInv(t) /\ Working(t)
  BY <1>1, ActiveThread
<1>3. /\ wpc'[t] = IF wakeIdx[t] + 1 < WakeEnd(t) THEN "wake" ELSE "run"
      /\ wakeIdx'[t] = wakeIdx[t] + 1
      /\ \A s \in T : s # t =>
           wpc'[s] = wpc[s] \/ (wpc[s] = "blocked" /\ wpc'[s] = "lock")
      /\ \A s \in T : s # t => wakeIdx'[s] = wakeIdx[s]
      /\ mpc' = mpc \/ {mpc, mpc'} \subseteq {"wait", "blocked"}
  <2> DEFINE next == IF wakeIdx[t] + 1 < WakeEnd(t) THEN "wake" ELSE "run"
             pcs == [wpc EXCEPT ![t] = next]
  <2>1. next \in {"wake", "run"} OBVIOUS
  <2> HIDE DEF next
  <2>2. pcs[t] = next /\ \A s \in T : s # t => pcs[s] = wpc[s] OBVIOUS
  <2>3. NotifyOne(wakeIdx[t], pcs, mpc) BY <1>1 DEF next
  <2>4. pcs \in [T -> WorkerPCs] BY <2>1
  <2> HIDE DEF pcs
  <2>5. \A s \in T : wpc'[s] = pcs[s] \/ (pcs[s] = "blocked" /\ wpc'[s] = "lock")
    BY <2>3, <2>4 DEF NotifyOne
  <2>6. wpc'[t] = next BY <2>1, <2>2, <2>5
  <2>7. mpc' = mpc \/ {mpc, mpc'} \subseteq {"wait", "blocked"} BY <2>3 DEF NotifyOne
  <2>8. wakeIdx'[t] = wakeIdx[t] + 1 /\ \A s \in T : s # t => wakeIdx'[s] = wakeIdx[s]
    BY <1>1
  <2>9. \A s \in T : s # t =>
           wpc'[s] = wpc[s] \/ (wpc[s] = "blocked" /\ wpc'[s] = "lock")
    BY <2>2, <2>5
  <2>10. wpc'[t] = IF wakeIdx[t] + 1 < WakeEnd(t) THEN "wake" ELSE "run"
    BY <2>6 DEF next
  <2> QED BY <2>7, <2>8, <2>9, <2>10
<1>4. /\ wakeIdx[t] \in Nat /\ wake[t][1] \in Nat /\ wake[t][2] \in Nat /\ info[t] = use
      /\ use \in Nat /\ wake[t][1] <= wakeIdx[t] /\ wakeIdx[t] < WakeEnd(t)
  BY <1>1, <1>2, ThreadsAssumption DEF ThreadInv
<1>5. Working(t)' /\ ~Unstarted(t)' /\ ~Unstarted(t) /\ ~Parked(t) /\ ~Parked(t)'
  BY <1>1, <1>2, <1>3 DEF Working, Unstarted, Parked, Sleeping
<1>6. ASSUME NEW s \in T, s # t
      PROVE  /\ Parked(s)' <=> Parked(s)
             /\ Unstarted(s)' <=> Unstarted(s)
             /\ Signalled(s)' <=> Signalled(s)
             /\ Working(s)' <=> Working(s)
             /\ (s \in Pool)' <=> s \in Pool
  BY <1>1, <1>3, <1>6, OthersSame
<1>7. ASSUME NEW s \in T PROVE (s \in Pool)' <=> s \in Pool
  <2>1. t \in Pool /\ (t \in Pool)' BY <1>2, <1>5 DEF Working, Pool
  <2> QED BY <1>6, <2>1
<1>8. ASSUME NEW s \in T, s < use - 1, InRange(t, s) PROVE Woke(t, s)' <=> Woke(t, s)
  <2>1. s \in Int BY ThreadsAssumption DEF T
  <2>2. Woke(t, s) <=> s <= wakeIdx[t] BY <1>1, <1>5 DEF Woke
  <2>3. CASE wakeIdx[t] + 1 < WakeEnd(t)
    <3>1. Woke(t, s)' <=> s < wakeIdx[t] + 1 BY <1>3, <1>5, <2>3 DEF Woke
    <3> QED BY <1>4, <2>1, <2>2, <3>1
  <2>4. CASE ~(wakeIdx[t] + 1 < WakeEnd(t))
    <3>1. Woke(t, s)' BY <1>3, <2>4 DEF Woke
    <3>2. s < wake[t][2] BY <1>8 DEF InRange
    <3>3. s < WakeEnd(t) /\ WakeEnd(t) \in Int
      BY <1>4, <1>8, <2>1, <3>2 DEF WakeEnd, Smaller
    <3>4. s <= wakeIdx[t] BY <1>4, <2>1, <2>4, <3>3
    <3> QED BY <2>2, <3>1, <3>4
  <2> QED BY <2>3, <2>4
<1>9. ASSUME NEW p \in T, p # t, NEW s \in T PROVE Woke(p, s)' <=> Woke(p, s)
  <2>1. wakeIdx'[p] = wakeIdx[p] /\ (Parked(p)' <=> Parked(p)) BY <1>3, <1>6, <1>9
  <2>2. wpc'[p] = wpc[p] \/ (wpc[p] = "blocked" /\ wpc'[p] = "lock") BY <1>3, <1>9
  <2> QED BY <2>1, <2>2 DEF Woke
<1>10. ASSUME NEW s \in T, s < use - 1 PROVE ThreadInv(s)'
  <2>1. ThreadInv(s) BY <1>2, <1>10 DEF StartedInv
  <2>2. Unstarted(s)' <=> Unstarted(s) BY <1>5, <1>6
  <2>3. MainWoke(s)' <=> MainWoke(s) BY <1>1, <1>3 DEF MainWoke
  <2>4. (s < ToStart => (Unstarted(s) <=> ~MainWoke(s)))'
    BY <1>1, <2>1, <2>2, <2>3 DEF ThreadInv, ToStart
  <2>5. ASSUME NEW p \in T, p < use - 1, InRange(p, s)
        PROVE  Unstarted(s)' <=> ~Woke(p, s)'
    <3>1. Unstarted(s) <=> ~Woke(p, s) BY <2>1, <2>5 DEF ThreadInv
    <3>2. Woke(p, s)' <=> Woke(p, s) BY <1>8, <1>9, <1>10, <2>5
    <3> QED BY <2>2, <3>1, <3>2
  <2>6. (\A p \in T : p < use - 1 /\ InRange(p, s) => (Unstarted(s) <=> ~Woke(p, s)))'
    BY <1>1, <2>5 DEF InRange
  <2>7. (wpc[s] \in {"wake", "wnotify"} => wake[s][1] <= wakeIdx[s] /\ wakeIdx[s] < WakeEnd(s))'
    <3>1. CASE s = t
      <4>1. WakeEnd(t)' = WakeEnd(t) BY <1>1 DEF WakeEnd
      <4>2. wake[t][1] <= wakeIdx[t] + 1 BY <1>4
      <4> QED BY <1>1, <1>3, <3>1, <4>1, <4>2
    <3>2. CASE s # t
      <4>1. wakeIdx'[s] = wakeIdx[s] /\ WakeEnd(s)' = WakeEnd(s) BY <1>1, <1>3, <3>2 DEF WakeEnd
      <4>2. wpc'[s] \in {"wake", "wnotify"} => wpc'[s] = wpc[s] BY <1>3, <3>2
      <4> QED BY <1>1, <2>1, <4>1, <4>2 DEF ThreadInv
    <3> QED BY <3>1, <3>2
  <2>8. (Parked(s) \/ Unstarted(s) \/ Signalled(s) \/ Working(s))'
    BY <1>5, <1>6, <2>1 DEF ThreadInv
  <2> QED BY <1>1, <2>1, <2>4, <2>6, <2>7, <2>8 DEF ThreadInv
<1>11. ASSUME NEW s \in T, Parked(s) PROVE Parked(s)' BY <1>5, <1>6, <1>11
<1> QED BY <1>1, <1>2, <1>3, <1>7, <1>10, <1>11, BatchFrame

(* A job is taken either in a batch or to end a thread that is destroyed.  *)
LEMMA TakeJobKeeps ==
    ASSUME IInv, Types', NEW t \in T, WorkerTakeJob(t)
    PROVE  IInv'
<1> USE DEF IInv, Types
<1>1. /\ wpc[t] = "lock" /\ waitForWork[t] /\ t \in Pool
      /\ jobComplete' = jobComplete /\ workloads' = workloads /\ info' = info /\ wake' = wake
      /\ numThreads' = numThreads /\ wakeFanout' = wakeFanout /\ mpc' = mpc /\ midx' = midx
      /\ op' = op /\ use' = use
      /\ waitForWork' = [waitForWork EXCEPT ![t] = FALSE]
  BY DEF WorkerTakeJob, callVars, Pool
<1>2. CASE InBatch /\ mpc # "set" BY <1>2, TakeJobInBatch
<1>3. CASE ~(InBatch /\ mpc # "set")
  <2>1. ~Parked(t) /\ ~Unstarted(t) BY <1>1 DEF Parked, Unstarted
  <2>2. mpc \in {"knotify", "join"} /\ t = midx /\ ~workloads[t]
    BY <1>1, <1>3, <2>1, ThreadParts
  <2>3. wpc' = [wpc EXCEPT ![t] = "exited"]
    BY <2>2 DEF WorkerTakeJob
  <2>4. ASSUME NEW s \in T, s # t
        PROVE  (Parked(s)' <=> Parked(s)) /\ ((s \in Pool)' <=> s \in Pool)
    <3>1. wpc'[s] = wpc[s] /\ waitForWork'[s] = waitForWork[s] BY <1>1, <2>3, <2>4
    <3> QED BY <1>1, <3>1, OthersSame
  <2>5. ASSUME NEW s \in T PROVE (s \in Pool)' <=> s \in Pool
    <3>1. (t \in Pool)' BY <2>3 DEF Pool
    <3> QED BY <1>1, <2>4, <3>1
  <2>6. SettingInv' /\ StartedInv' /\ WaitingInv' /\ BatchInv' /\ IdleInv'
    BY <1>1, <2>2 DEF SettingInv, StartedInv, WaitingInv, BatchInv, IdleInv, InBatch
  <2>7. InKill /\ KillInv BY <2>2 DEF InKill
  <2>8. \E k \in 0..numThreads-1 :
          /\ k <= midx
          /\ \A s \in T : s < k => s \in Pool'
          /\ \A s \in T : s >= k /\ s < midx => s \notin Pool'
    BY <2>5, <2>7 DEF KillInv
  <2>9. \A s, r \in T : midx <= s /\ s <= r /\ r \in Pool' => s \in Pool'
    BY <2>5, <2>7 DEF KillInv
  <2>10. \A s \in Pool' : s # midx => Parked(s)'
    <3>1. \A s \in Pool' : s \in T BY DEF Pool
    <3> QED BY <2>2, <2>4, <2>5, <2>7, <3>1 DEF KillInv
  <2>11. midx \in Pool' /\ ~workloads'[midx] /\ wpc'[midx] = "exited"
    BY <1>1, <2>2, <2>3, <2>5 DEF Pool
  <2>12. KillInv'
    BY <1>1, <2>2, <2>7, <2>8, <2>9, <2>10, <2>11 DEF KillInv
  <2> QED BY <2>6, <2>12
<1> QED BY <1>2, <1>3

LEMMA WorkerKeeps ==
    ASSUME IInv, NEW t \in T, Worker(t) \/ WorkerSpurious(t)
    PROVE  IInv'
<1>1. Types' BY WorkerType DEF IInv
<1>2. CASE WorkerSleep(t) \/ WorkerSpurious(t) \/ WorkerNotify(t) \/ WorkerProcess(t)
  BY <1>1, <1>2, QuietWorker, Quiet
<1>3. CASE WorkerTakeJob(t) BY <1>1, <1>3, TakeJobKeeps
<1>4. CASE WorkerStartPeer(t) BY <1>1, <1>4, StartPeerKeeps
<1>5. CASE WorkerNotifyPeer(t) BY <1>1, <1>5, NotifyPeerKeeps
<1>6. CASE WorkerFinish(t) BY <1>1, <1>6, FinishKeeps
<1> QED BY <1>2, <1>3, <1>4, <1>5, <1>6 DEF Worker

(* The tree that auto_switch_mode builds, unless Fanout is forced.         *)
LEMMA SwitchShape ==
    ASSUME ForcedMode # "Fanout", NEW k \in Nat \ {0}, NEW pool,
           \A t \in T : t < k - 1 => t \in pool, AutoSwitchMode(k, pool)
    PROVE  \/ wakeFanout' = 0 /\ \A t \in T : wake'[t] = <<0, 0>>
           \/ /\ wakeFanout' >= 2 /\ wakeFanout' <= k
              /\ \A t \in T : t < k - 1 => wake'[t] = FanoutRange(k, wakeFanout', t)
<1> DEFINE f == IF FanoutFor(k) THEN ActualWakeFanout(k) ELSE 0
<1>1. wakeFanout' = f
      /\ wake' = [t \in T |-> IF t \notin pool \/ f = 0 THEN <<0, 0>> ELSE FanoutRange(k, f, t)]
  BY DEF AutoSwitchMode
<1>2. CASE FanoutFor(k)
  <2>1. k >= 2 BY <1>2, ModeAssumption DEF FanoutFor
  <2>2. f >= 2 /\ f <= k
    BY <1>2, <2>1, ModeAssumption DEF ActualWakeFanout, Larger, Smaller
  <2> HIDE DEF f
  <2>3. f # 0 BY <2>2
  <2> QED BY <1>1, <2>2, <2>3
<1>3. CASE ~FanoutFor(k)
  <2>1. f = 0 BY <1>3
  <2> HIDE DEF f
  <2> QED BY <1>1, <2>1
<1> QED BY <1>2, <1>3

LEMMA RunKeeps ==
    ASSUME ForcedMode # "Fanout", IInv, Types', NEW k \in 1..MaxWorkloads, RunWorkloads(k)
    PROVE  IInv'
<1> USE DEF IInv, Types
<1>1. /\ mpc = "idle" /\ mpc' = "set" /\ midx' = 0 /\ op' = "run"
      /\ use' = Smaller(numThreads, k) /\ AutoSwitchMode(Smaller(numThreads, k), Pool)
      /\ wpc' = wpc /\ waitForWork' = waitForWork /\ jobComplete' = jobComplete
      /\ workloads' = workloads /\ info' = info /\ wakeIdx' = wakeIdx
      /\ numThreads' = numThreads
  BY DEF RunWorkloads
<1>2. use' \in Nat \ {0} /\ use' <= numThreads BY <1>1, ThreadsAssumption DEF Smaller
<1>3. PoolIs(numThreads) /\ \A t \in Pool : Parked(t) BY <1>1 DEF IdleInv
<1>4. \A t \in T : (Parked(t)' <=> Parked(t)) /\ ((t \in Pool)' <=> t \in Pool)
  BY <1>1 DEF Parked, Sleeping, Pool
<1>5. \A t \in T : t \in Nat BY ThreadsAssumption DEF T
<1>6. \A t \in T : t < use' - 1 => t \in Pool /\ t < numThreads - 1
  BY <1>2, <1>3, <1>5 DEF PoolIs
<1>7. TreeShape'
  BY <1>1, <1>2, <1>6, SwitchShape DEF TreeShape
<1>8. PoolIs(numThreads)' BY <1>1, <1>3, <1>4 DEF PoolIs
<1>9. BatchInv'
  BY <1>1, <1>2, <1>3, <1>4, <1>7, <1>8 DEF BatchInv, PoolIs
<1>10. SettingInv'
  BY <1>1, <1>2, <1>3, <1>4, <1>5, <1>6 DEF SettingInv
<1>11. StartedInv' /\ WaitingInv' /\ KillInv' /\ IdleInv'
  BY <1>1 DEF StartedInv, WaitingInv, KillInv, IdleInv, InKill
<1> QED BY <1>9, <1>10, <1>11

LEMMA SetWorkloadKeeps ==
    ASSUME IInv, Types', SetWorkload
    PROVE  IInv'
<1> USE DEF IInv, Types
<1>1. /\ mpc = "set" /\ mpc' = "set" /\ midx < use - 1 /\ midx' = midx + 1
      /\ workloads' = [workloads EXCEPT ![midx] = TRUE]
      /\ info' = [info EXCEPT ![midx] = use]
      /\ wpc' = wpc /\ waitForWork' = waitForWork /\ jobComplete' = jobComplete
      /\ wake' = wake /\ numThreads' = numThreads /\ wakeFanout' = wakeFanout
      /\ op' = op /\ use' = use
  BY DEF SetWorkload
<1>2. use \in Nat /\ midx \in Nat /\ \A t \in T : t \in Nat BY ThreadsAssumption DEF T
<1>3. BatchInv /\ SettingInv /\ InBatch BY <1>1 DEF InBatch
<1>4. midx \in T BY <1>1, <1>2, <1>3, ThreadsAssumption DEF T, BatchInv
<1>5. Parked(midx)
  BY <1>1, <1>2, <1>3, <1>4 DEF SettingInv
<1>6. ASSUME NEW t \in T, t = midx PROVE Unstarted(t)' /\ info'[t] = use
  <2>1. workloads'[t] /\ info'[t] = use BY <1>1, <1>6
  <2>2. wpc'[t] \in {"lock", "blocked", "notify"}
    BY <1>1, <1>5, <1>6 DEF Parked, Sleeping
  <2>3. jobComplete'[t] /\ ~waitForWork'[t] BY <1>1, <1>5, <1>6 DEF Parked
  <2> QED BY <2>1, <2>2, <2>3 DEF Unstarted, Pool
<1>7. ASSUME NEW t \in T, t # midx
      PROVE  /\ Parked(t)' <=> Parked(t)
             /\ Unstarted(t)' <=> Unstarted(t)
             /\ info'[t] = info[t]
  <2>1. workloads'[t] = workloads[t] /\ info'[t] = info[t] BY <1>1, <1>7
  <2> QED BY <1>1, <2>1, OthersSame
<1>8. \A t \in T : (t \in Pool)' <=> t \in Pool BY <1>1 DEF Pool
<1>9. SettingInv'
  <2>1. ASSUME NEW t \in T, t < midx + 1 PROVE Unstarted(t)' /\ info'[t] = use
    BY <1>1, <1>2, <1>3, <1>6, <1>7, <2>1 DEF SettingInv
  <2>2. ASSUME NEW t \in T, t >= midx + 1, t < use - 1 PROVE Parked(t)'
    BY <1>1, <1>2, <1>3, <1>7, <2>2 DEF SettingInv
  <2> QED BY <1>1, <1>2, <2>1, <2>2 DEF SettingInv
<1>10. BatchInv'
  <2>1. ASSUME NEW t \in T, t >= use - 1, t < numThreads - 1 PROVE Parked(t)'
    BY <1>1, <1>2, <1>3, <1>7, <2>1 DEF BatchInv
  <2> QED BY <1>1, <1>3, <1>8, <2>1 DEF BatchInv, PoolIs, TreeShape
<1>11. StartedInv' /\ WaitingInv' /\ KillInv' /\ IdleInv'
  BY <1>1 DEF StartedInv, WaitingInv, KillInv, IdleInv, InKill
<1> QED BY <1>9, <1>10, <1>11

(* Nothing has been started when main begins to start threads.             *)
LEMMA WorkloadsSetKeeps ==
    ASSUME IInv, Types', WorkloadsSet
    PROVE  IInv'
<1> USE DEF IInv, Types
<1>1. /\ mpc = "set" /\ mpc' = "start" /\ midx = use - 1 /\ midx' = 0
      /\ wpc' = wpc /\ waitForWork' = waitForWork /\ jobComplete' = jobComplete
      /\ workloads' = workloads /\ info' = info /\ wake' = wake /\ wakeIdx' = wakeIdx
      /\ numThreads' = numThreads /\ wakeFanout' = wakeFanout /\ op' = op /\ use' = use
  BY DEF WorkloadsSet, threadVars
<1>2. use \in Nat /\ midx \in Nat /\ \A t \in T : t \in Nat BY ThreadsAssumption DEF T
<1>3. BatchInv /\ SettingInv /\ InBatch BY <1>1 DEF InBatch
<1>4. \A t \in T : /\ Parked(t)' <=> Parked(t)
                   /\ Unstarted(t)' <=> Unstarted(t)
                   /\ (t \in Pool)' <=> t \in Pool
  BY <1>1, OthersSame
<1>5. ASSUME NEW t \in T, t < use - 1 PROVE ThreadInv(t)'
  <2>1. Unstarted(t)' /\ info'[t] = use BY <1>1, <1>3, <1>4, <1>5 DEF SettingInv
  <2>2. ~MainWoke(t)' BY <1>1, <1>2 DEF MainWoke
  <2>3. ASSUME NEW p \in T, p < use - 1 PROVE ~Woke(p, t)'
    <3>1. Unstarted(p)' BY <1>1, <1>3, <1>4, <2>3 DEF SettingInv
    <3> QED BY <3>1 DEF Woke, Unstarted, Parked
  <2>4. wpc'[t] \notin {"wake", "wnotify"} BY <2>1 DEF Unstarted
  <2> QED BY <1>1, <2>1, <2>2, <2>3, <2>4 DEF ThreadInv
<1>6. StartedInv' BY <1>1, <1>5 DEF StartedInv
<1>7. WaitingInv'
  <2>1. TreeShape /\ use >= 1 BY <1>3 DEF BatchInv
  <2>2. ToStart' = ToStart BY <1>1 DEF ToStart
  <2>3. 0 <= ToStart BY <1>2, <2>1 DEF TreeShape, ToStart
  <2> QED BY <1>1, <2>2, <2>3 DEF WaitingInv
<1>8. BatchInv' BY <1>1, <1>3, <1>4 DEF BatchInv, PoolIs, TreeShape
<1>9. SettingInv' /\ KillInv' /\ IdleInv'
  BY <1>1 DEF SettingInv, KillInv, IdleInv, InKill
<1> QED BY <1>6, <1>7, <1>8, <1>9

(* Main starts a thread: it was unstarted, and main is its only waker.     *)
LEMMA MainStartKeeps ==
    ASSUME IInv, Types', MainStart
    PROVE  IInv'
<1> USE DEF IInv, Types
<1>1. /\ mpc = "start" /\ mpc' = "notify" /\ midx < ToStart /\ midx \in Pool /\ midx' = midx
      /\ waitForWork' = [waitForWork EXCEPT ![midx] = TRUE]
      /\ jobComplete' = [jobComplete EXCEPT ![midx] = FALSE]
      /\ wpc' = wpc /\ workloads' = workloads /\ info' = info /\ wake' = wake
      /\ wakeIdx' = wakeIdx /\ numThreads' = numThreads /\ wakeFanout' = wakeFanout
      /\ op' = op /\ use' = use
  BY DEF MainStart, SetStarted
<1>2. use \in Nat /\ midx \in Nat /\ midx \in T /\ \A t \in T : t \in Nat
  BY <1>1, ThreadsAssumption DEF T, Pool
<1>3. InBatch /\ mpc # "set" /\ BatchInv /\ TreeShape BY <1>1 DEF InBatch, BatchInv
<1>4. ToStart \in Int /\ ToStart <= use - 1
  BY <1>2, <1>3 DEF TreeShape, ToStart
<1>5. midx < use - 1 BY <1>1, <1>2, <1>4
<1>6. Unstarted(midx)
  <2>1. ThreadInv(midx) BY <1>2, <1>3, <1>5 DEF StartedInv
  <2>2. ~MainWoke(midx) BY <1>1, <1>2 DEF MainWoke
  <2> QED BY <1>1, <2>1, <2>2 DEF ThreadInv
<1>7. ASSUME NEW s \in T, s = midx
      PROVE  Signalled(s)' /\ ~Unstarted(s)' /\ ~Parked(s) /\ ~Parked(s)'
  BY <1>1, <1>6, <1>7 DEF Signalled, Unstarted, Parked, Sleeping
<1>8. ASSUME NEW s \in T, s # midx
      PROVE  /\ Parked(s)' <=> Parked(s)
             /\ Unstarted(s)' <=> Unstarted(s)
             /\ Signalled(s)' <=> Signalled(s)
             /\ Working(s)' <=> Working(s)
  <2>1. waitForWork'[s] = waitForWork[s] /\ jobComplete'[s] = jobComplete[s] BY <1>1, <1>8
  <2> QED BY <1>1, <2>1, OthersSame
<1>9. \A s \in T : (s \in Pool)' <=> s \in Pool BY <1>1 DEF Pool
<1>10. ASSUME NEW p \in T, NEW s \in T PROVE Woke(p, s)' <=> Woke(p, s)
  <2>1. Parked(p)' <=> Parked(p) BY <1>7, <1>8
  <2> QED BY <1>1, <2>1 DEF Woke
<1>11. ASSUME NEW s \in T, s < use - 1 PROVE ThreadInv(s)'
  <2>1. ThreadInv(s) BY <1>3, <1>11 DEF StartedInv
  <2>2. (s < ToStart => (Unstarted(s) <=> ~MainWoke(s)))'
    <3>1. CASE s = midx
      <4>1. MainWoke(s)' BY <1>1, <1>2, <3>1 DEF MainWoke
      <4> QED BY <1>1, <1>7, <3>1, <4>1
    <3>2. CASE s # midx
      <4>1. MainWoke(s)' <=> MainWoke(s) BY <1>1, <1>2, <3>2 DEF MainWoke
      <4> QED BY <1>1, <1>8, <2>1, <3>2, <4>1 DEF ThreadInv, ToStart
    <3> QED BY <3>1, <3>2
  <2>3. ASSUME NEW p \in T, p < use - 1, InRange(p, s)
        PROVE  Unstarted(s)' <=> ~Woke(p, s)'
    <3>1. s # midx BY <1>1, <1>3, <2>3, MainOrWaker
    <3>2. Unstarted(s) <=> ~Woke(p, s) BY <2>1, <2>3 DEF ThreadInv
    <3> QED BY <1>8, <1>10, <3>1, <3>2
  <2>4. (\A p \in T : p < use - 1 /\ InRange(p, s) => (Unstarted(s) <=> ~Woke(p, s)))'
    BY <1>1, <2>3 DEF InRange
  <2>5. (wpc[s] \in {"wake", "wnotify"} => wake[s][1] <= wakeIdx[s] /\ wakeIdx[s] < WakeEnd(s))'
    BY <1>1, <2>1 DEF ThreadInv, WakeEnd
  <2>6. (Parked(s) \/ Unstarted(s) \/ Signalled(s) \/ Working(s))'
    BY <1>7, <1>8, <2>1 DEF ThreadInv
  <2> QED BY <1>1, <2>1, <2>2, <2>4, <2>5, <2>6 DEF ThreadInv
<1>12. StartedInv' BY <1>1, <1>11 DEF StartedInv
<1>13. WaitingInv' BY <1>1 DEF WaitingInv, ToStart
<1>14. BatchInv'
  <2>1. ASSUME NEW s \in T, s >= use - 1, s < numThreads - 1 PROVE Parked(s)'
    BY <1>2, <1>3, <1>5, <1>8, <2>1 DEF BatchInv
  <2> QED BY <1>1, <1>3, <1>9, <2>1 DEF BatchInv, PoolIs, TreeShape
<1>15. SettingInv' /\ KillInv' /\ IdleInv'
  BY <1>1 DEF SettingInv, KillInv, IdleInv, InKill
<1> QED BY <1>12, <1>13, <1>14, <1>15

(* A step of main inside a batch that touches no thread, but may wake one. *)
LEMMA MainFrame ==
    ASSUME IInv, Types', InBatch, mpc # "set", InBatch', mpc' # "set",
           \A s \in T : wpc'[s] = wpc[s] \/ (wpc[s] = "blocked" /\ wpc'[s] = "lock"),
           UNCHANGED <<waitForWork, jobComplete, workloads, info, wake, wakeIdx,
                       numThreads, wakeFanout, op, use>>,
           \A t \in T : t < ToStart => (MainWoke(t)' <=> MainWoke(t)),
           WaitingInv'
    PROVE  IInv'
<1> USE DEF IInv, Types
<1>1. ASSUME NEW s \in T
      PROVE  /\ Parked(s)' <=> Parked(s)
             /\ Unstarted(s)' <=> Unstarted(s)
             /\ Signalled(s)' <=> Signalled(s)
             /\ Working(s)' <=> Working(s)
             /\ (s \in Pool)' <=> s \in Pool
  BY OthersSame
<1>2. ASSUME NEW p \in T, NEW s \in T PROVE Woke(p, s)' <=> Woke(p, s)
  BY <1>1 DEF Woke
<1>3. ASSUME NEW s \in T, s < use - 1 PROVE ThreadInv(s)'
  <2>1. ThreadInv(s) BY <1>3 DEF StartedInv
  <2>2. (s < ToStart => (Unstarted(s) <=> ~MainWoke(s)))'
    BY <1>1, <2>1 DEF ThreadInv, ToStart
  <2>3. (\A p \in T : p < use - 1 /\ InRange(p, s) => (Unstarted(s) <=> ~Woke(p, s)))'
    BY <1>1, <1>2, <2>1 DEF InRange, ThreadInv
  <2>4. (wpc[s] \in {"wake", "wnotify"} => wake[s][1] <= wakeIdx[s] /\ wakeIdx[s] < WakeEnd(s))'
    BY <2>1 DEF ThreadInv, WakeEnd
  <2>5. (Parked(s) \/ Unstarted(s) \/ Signalled(s) \/ Working(s))'
    BY <1>1, <2>1 DEF ThreadInv
  <2> QED BY <2>1, <2>2, <2>3, <2>4, <2>5 DEF ThreadInv
<1>4. StartedInv' BY <1>3 DEF StartedInv
<1>5. BatchInv' BY <1>1 DEF BatchInv, PoolIs, TreeShape
<1>6. SettingInv' /\ KillInv' /\ IdleInv'
  BY DEF SettingInv, KillInv, IdleInv, InKill, InBatch
<1> QED BY <1>4, <1>5, <1>6

LEMMA MainNotifyKeeps ==
    ASSUME IInv, Types', MainNotify
    PROVE  IInv'
<1> USE DEF IInv, Types
<1>1. /\ mpc = "notify" /\ mpc' = "start" /\ midx' = midx + 1
      /\ \A s \in T : wpc'[s] = wpc[s] \/ (wpc[s] = "blocked" /\ wpc'[s] = "lock")
      /\ waitForWork' = waitForWork /\ jobComplete' = jobComplete /\ workloads' = workloads
      /\ info' = info /\ wake' = wake /\ wakeIdx' = wakeIdx /\ numThreads' = numThreads
      /\ wakeFanout' = wakeFanout /\ op' = op /\ use' = use
  BY DEF MainNotify, NotifyOne
<1>2. midx \in Nat /\ \A t \in T : t \in Nat BY ThreadsAssumption DEF T
<1>3. \A t \in T : MainWoke(t)' <=> MainWoke(t) BY <1>1, <1>2 DEF MainWoke
<1>4. midx < ToStart /\ ToStart \in Int BY <1>1, ThreadsAssumption DEF WaitingInv, ToStart
<1>5. WaitingInv' BY <1>1, <1>2, <1>4 DEF WaitingInv, ToStart
<1> QED BY <1>1, <1>3, <1>5, MainFrame DEF InBatch

LEMMA MainStartedKeeps ==
    ASSUME IInv, Types', MainStarted
    PROVE  IInv'
<1> USE DEF IInv, Types
<1>1. /\ mpc = "start" /\ mpc' = "run" /\ midx' = midx /\ midx >= ToStart
      /\ wpc' = wpc /\ waitForWork' = waitForWork /\ jobComplete' = jobComplete
      /\ workloads' = workloads /\ info' = info /\ wake' = wake /\ wakeIdx' = wakeIdx
      /\ numThreads' = numThreads /\ wakeFanout' = wakeFanout /\ op' = op /\ use' = use
  BY DEF MainStarted, threadVars
<1>2. midx \in Nat /\ \A t \in T : t \in Nat BY ThreadsAssumption DEF T
<1>3. ToStart \in Int BY ThreadsAssumption DEF ToStart
<1>4. \A t \in T : t < ToStart => (MainWoke(t)' <=> MainWoke(t))
  BY <1>1, <1>2, <1>3 DEF MainWoke
<1>5. WaitingInv' BY <1>1 DEF WaitingInv
<1> QED BY <1>1, <1>4, <1>5, MainFrame DEF InBatch

LEMMA MainProcessKeeps ==
    ASSUME IInv, Types', MainProcess
    PROVE  IInv'
<1> USE DEF IInv, Types
<1>1. /\ mpc = "run" /\ (mpc' = "run" \/ (mpc' = "wait" /\ midx' = 0))
      /\ wpc' = wpc /\ waitForWork' = waitForWork /\ jobComplete' = jobComplete
      /\ workloads' = workloads /\ info' = info /\ wake' = wake /\ wakeIdx' = wakeIdx
      /\ numThreads' = numThreads /\ wakeFanout' = wakeFanout /\ op' = op /\ use' = use
  BY DEF MainProcess, threadVars
<1>2. \A t \in T : t \in Nat BY ThreadsAssumption DEF T
<1>3. \A t \in T : MainWoke(t)' <=> MainWoke(t) BY <1>1 DEF MainWoke
<1>4. use >= 1 /\ use \in Nat BY <1>1, ThreadsAssumption DEF BatchInv, InBatch
<1>5. WaitingInv' BY <1>1, <1>2, <1>4 DEF WaitingInv
<1> QED BY <1>1, <1>3, <1>5, MainFrame DEF InBatch

(* The heart of the matter: a thread that looks complete to main when it   *)
(* waits for it has been started, because its waker comes before it.       *)
LEMMA MainWaitedKeeps ==
    ASSUME IInv, Types', MainWaited
    PROVE  IInv'
<1> USE DEF IInv, Types
<1>1. /\ mpc = "wait" /\ mpc' = "wait" /\ midx < use - 1 /\ midx' = midx + 1
      /\ jobComplete[midx]
      /\ wpc' = wpc /\ waitForWork' = waitForWork /\ jobComplete' = jobComplete
      /\ workloads' = workloads /\ info' = info /\ wake' = wake /\ wakeIdx' = wakeIdx
      /\ numThreads' = numThreads /\ wakeFanout' = wakeFanout /\ op' = op /\ use' = use
  BY DEF MainWaited, threadVars
<1>2. use \in Nat /\ midx \in Nat /\ \A t \in T : t \in Nat BY ThreadsAssumption DEF T
<1>3. BatchInv /\ TreeShape /\ InBatch BY <1>1 DEF InBatch, BatchInv
<1>4. midx \in T BY <1>1, <1>2, <1>3, ThreadsAssumption DEF T, BatchInv
<1>5. ThreadInv(midx) BY <1>1, <1>3, <1>4 DEF StartedInv
<1>6. ~Unstarted(midx)
  <2>1. CASE midx < ToStart
    BY <1>1, <1>5, <2>1 DEF ThreadInv, MainWoke
  <2>2. CASE ~(midx < ToStart)
    <3>1. PICK p \in T : p < midx /\ InRange(p, midx)
      BY <1>1, <1>3, <1>4, <2>2, SomeWaker
    <3>2. p < use - 1 BY <1>1, <1>2, <3>1
    <3>3. Parked(p) BY <1>1, <3>1 DEF WaitingInv
    <3> QED BY <1>5, <3>1, <3>2, <3>3 DEF ThreadInv, Woke
  <2> QED BY <2>1, <2>2
<1>7. Parked(midx) BY <1>1, <1>5, <1>6 DEF ThreadInv, Signalled, Working
<1>8. ASSUME NEW t \in T, t < midx + 1 PROVE Parked(t)'
  <2>1. CASE t = midx BY <1>1, <1>7, <2>1 DEF Parked, Sleeping
  <2>2. CASE t # midx
    <3>1. t \in Nat /\ midx \in Nat BY <1>2
    <3>2. t < midx BY <1>8, <2>2, <3>1
    <3>3. Parked(t) BY <1>1, <3>2 DEF WaitingInv
    <3> QED BY <1>1, <3>3 DEF Parked, Sleeping
  <2> QED BY <2>1, <2>2
<1>9. WaitingInv' BY <1>1, <1>2, <1>8 DEF WaitingInv
<1>10. \A t \in T : MainWoke(t)' <=> MainWoke(t) BY <1>1 DEF MainWoke
<1> QED BY <1>1, <1>9, <1>10, MainFrame DEF InBatch

LEMMA ReturnKeeps ==
    ASSUME IInv, Types', Return
    PROVE  IInv'
<1> USE DEF IInv, Types
<1>1. /\ mpc = "wait" /\ mpc' = "idle" /\ midx = use - 1
      /\ wpc' = wpc /\ waitForWork' = waitForWork /\ jobComplete' = jobComplete
      /\ workloads' = workloads /\ numThreads' = numThreads
  BY DEF Return, threadVars
<1>2. use \in Nat /\ \A t \in T : t \in Nat BY ThreadsAssumption DEF T
<1>3. PoolIs(numThreads) /\ BatchInv /\ InBatch BY <1>1 DEF InBatch, BatchInv
<1>4. ASSUME NEW t \in Pool PROVE Parked(t)'
  <2>1. t \in T /\ t < numThreads - 1 BY <1>3 DEF PoolIs, Pool
  <2>2. CASE t < use - 1 BY <1>1, <2>1, <2>2 DEF WaitingInv, Parked, Sleeping
  <2>3. CASE ~(t < use - 1)
    <3>1. \A s \in T : s >= use - 1 /\ s < numThreads - 1 => Parked(s) BY <1>3 DEF BatchInv
    <3>2. t >= use - 1 BY <1>2, <2>1, <2>3
    <3>3. Parked(t) BY <2>1, <3>1, <3>2
    <3> QED BY <1>1, <3>3 DEF Parked, Sleeping
  <2> QED BY <2>2, <2>3
<1>5. Pool' = Pool BY <1>1 DEF Pool
<1>6. IdleInv' BY <1>1, <1>3, <1>4, <1>5 DEF IdleInv, PoolIs
<1>7. SettingInv' /\ StartedInv' /\ WaitingInv' /\ BatchInv' /\ KillInv'
  BY <1>1 DEF SettingInv, StartedInv, WaitingInv, BatchInv, KillInv, InKill, InBatch
<1> QED BY <1>6, <1>7

(* Operations that only begin.                                             *)
LEMMA ResizeKeeps ==
    ASSUME IInv, Types', NEW newOp \in {"resize", "destroy"}, NEW num \in 1..MaxThreads,
           NEW keep \in 0..num-1, Resize(newOp, num, keep)
    PROVE  IInv'
<1> USE DEF IInv, Types
<1>1. /\ mpc = "idle" /\ mpc' = "kill" /\ op' = newOp /\ numThreads' = num /\ midx' = keep
      /\ wpc' = wpc /\ waitForWork' = waitForWork /\ jobComplete' = jobComplete
      /\ workloads' = workloads
  BY DEF Resize, threadVars
<1>2. \A t \in T : t \in Nat BY ThreadsAssumption DEF T
<1>3. PoolIs(numThreads) /\ \A t \in Pool : Parked(t) BY <1>1 DEF IdleInv
<1>4. Pool' = Pool /\ \A t \in T : Parked(t)' <=> Parked(t) BY <1>1 DEF Pool, Parked, Sleeping
<1>5. \A t \in Pool : t \in T BY DEF Pool
<1>6. num \in Int /\ keep \in Int /\ numThreads \in Int BY ThreadsAssumption
<1>7. \A t, u \in T : keep <= t /\ t <= u /\ u \in Pool => t \in Pool
  BY <1>2, <1>3, <1>6 DEF PoolIs
<1>8. \E k \in 0..num-1 :
        /\ k <= keep
        /\ \A t \in T : t < k => t \in Pool
        /\ \A t \in T : t >= k /\ t < keep => t \notin Pool
  <2>1. CASE keep <= numThreads - 1
    <3>1. \A t \in T : t < keep => t \in Pool BY <1>2, <1>3, <1>6, <2>1 DEF PoolIs
    <3>2. \A t \in T : t >= keep /\ t < keep => t \notin Pool BY <1>2, <1>6
    <3> WITNESS keep \in 0..num-1
    <3> QED BY <1>6, <3>1, <3>2
  <2>2. CASE ~(keep <= numThreads - 1)
    <3>1. \A t \in T : t < numThreads - 1 => t \in Pool BY <1>3 DEF PoolIs
    <3>2. \A t \in T : t >= numThreads - 1 => t \notin Pool BY <1>2, <1>3, <1>6 DEF PoolIs
    <3>3. numThreads - 1 \in 0..num-1 /\ numThreads - 1 <= keep BY <1>6, <2>2
    <3> WITNESS numThreads - 1 \in 0..num-1
    <3> QED BY <3>1, <3>2, <3>3
  <2> QED BY <2>1, <2>2
<1>9. KillInv'
  <2>1. \A t \in Pool' : Parked(t)' BY <1>3, <1>4, <1>5
  <2> QED BY <1>1, <1>4, <1>7, <1>8, <2>1 DEF KillInv
<1>10. SettingInv' /\ StartedInv' /\ WaitingInv' /\ BatchInv' /\ IdleInv'
  BY <1>1 DEF SettingInv, StartedInv, WaitingInv, BatchInv, IdleInv, InBatch
<1> QED BY <1>9, <1>10

LEMMA OperationKeeps ==
    ASSUME ForcedMode # "Fanout", IInv, Operation
    PROVE  IInv'
<1> USE DEF IInv
<1>1. Types' BY OperationType
<1>2. ASSUME NEW k \in 1..MaxWorkloads, RunWorkloads(k) PROVE IInv'
  BY <1>1, <1>2, RunKeeps
<1>3. CASE RunNoWorkloads
  <2>1. /\ mpc = "idle" /\ mpc' = "idle" /\ numThreads' = numThreads
        /\ wpc' = wpc /\ waitForWork' = waitForWork /\ jobComplete' = jobComplete
        /\ workloads' = workloads
    BY <1>3 DEF RunNoWorkloads, threadVars
  <2>2. Pool' = Pool /\ \A t \in T : Parked(t)' <=> Parked(t)
    BY <2>1 DEF Pool, Parked, Sleeping
  <2>3. \A t \in Pool : t \in T BY DEF Pool
  <2>4. IdleInv' BY <2>1, <2>2, <2>3 DEF IdleInv, PoolIs
  <2>5. SettingInv' /\ StartedInv' /\ WaitingInv' /\ BatchInv' /\ KillInv'
    BY <2>1 DEF SettingInv, StartedInv, WaitingInv, BatchInv, KillInv, InBatch, InKill
  <2> QED BY <1>1, <2>4, <2>5
<1>4. ASSUME NEW req \in 0..MaxThreads, SetNumThreads(req) \/ SetNumThreadsWithAffinity(req)
      PROVE  IInv'
  <2> DEFINE num == IF req = 0 THEN ThreadHint ELSE req
  <2>1. num \in 1..MaxThreads /\ num - 1 \in 0..num-1 /\ 0 \in 0..num-1
    BY ThreadsAssumption
  <2>2. Resize("resize", num, num - 1) \/ Resize("resize", num, 0)
    BY <1>4 DEF SetNumThreads, SetNumThreadsWithAffinity
  <2> HIDE DEF num
  <2> QED BY <1>1, <2>1, <2>2, ResizeKeeps
<1>5. CASE Destroy
  <2>1. numThreads \in 1..MaxThreads /\ 0 \in 0..numThreads-1 BY ThreadsAssumption DEF Types
  <2> QED BY <1>1, <1>5, <2>1, ResizeKeeps DEF Destroy
<1> QED BY <1>2, <1>3, <1>4, <1>5 DEF Operation

(* Destroying threads: all but the one being destroyed stay parked.        *)
LEMMA KillStartKeeps ==
    ASSUME IInv, Types', KillStart
    PROVE  IInv'
<1> USE DEF IInv, Types
<1>1. /\ mpc = "kill" /\ mpc' = "knotify" /\ midx \in Pool /\ midx' = midx
      /\ waitForWork' = [waitForWork EXCEPT ![midx] = TRUE]
      /\ jobComplete' = [jobComplete EXCEPT ![midx] = FALSE]
      /\ workloads' = [workloads EXCEPT ![midx] = FALSE]
      /\ wpc' = wpc /\ numThreads' = numThreads /\ op' = op
  BY DEF KillStart, SetStarted
<1>2. midx \in T /\ Pool' = Pool /\ \A t \in Pool : t \in T BY <1>1 DEF Pool
<1>3. KillInv /\ InKill BY <1>1 DEF InKill
<1>4. ASSUME NEW t \in Pool, t # midx PROVE Parked(t)'
  <2>1. Parked(t) BY <1>3, <1>4 DEF KillInv
  <2>2. /\ waitForWork'[t] = waitForWork[t] /\ jobComplete'[t] = jobComplete[t]
        /\ workloads'[t] = workloads[t]
    BY <1>1, <1>2, <1>4
  <2> QED BY <1>1, <2>1, <2>2 DEF Parked, Sleeping
<1>5. Parked(midx) BY <1>1, <1>3 DEF KillInv
<1>6. ASSUME NEW t \in T, t = midx PROVE ~workloads'[t] /\ waitForWork'[t] /\ Sleeping(t)'
  BY <1>1, <1>5, <1>6 DEF Parked, Sleeping
<1>7. ~workloads'[midx'] /\ waitForWork'[midx'] /\ Sleeping(midx)'
  BY <1>1, <1>2, <1>6
<1>8. KillInv'
  BY <1>1, <1>2, <1>3, <1>4, <1>7 DEF KillInv
<1>9. SettingInv' /\ StartedInv' /\ WaitingInv' /\ BatchInv' /\ IdleInv'
  BY <1>1 DEF SettingInv, StartedInv, WaitingInv, BatchInv, IdleInv, InBatch
<1> QED BY <1>8, <1>9

LEMMA KillNotifyKeeps ==
    ASSUME IInv, Types', KillNotify
    PROVE  IInv'
<1> USE DEF IInv, Types
<1>1. /\ mpc = "knotify" /\ mpc' = "join" /\ midx' = midx
      /\ \A s \in T : wpc'[s] = wpc[s] \/ (wpc[s] = "blocked" /\ wpc'[s] = "lock")
      /\ waitForWork' = waitForWork /\ jobComplete' = jobComplete /\ workloads' = workloads
      /\ numThreads' = numThreads /\ op' = op
  BY DEF KillNotify, NotifyOne
<1>2. ASSUME NEW s \in T PROVE (Parked(s)' <=> Parked(s)) /\ ((s \in Pool)' <=> s \in Pool)
  BY <1>1, OthersSame
<1>3. Pool' = Pool /\ \A t \in Pool : t \in T BY <1>2 DEF Pool
<1>4. KillInv /\ InKill BY <1>1 DEF InKill
<1>5. midx \in T /\ midx \in Pool BY <1>1, <1>3, <1>4 DEF KillInv
<1>6. wpc'[midx] = "exited" \/ (Sleeping(midx)' /\ waitForWork'[midx])
  BY <1>1, <1>4, <1>5 DEF KillInv, Sleeping
<1>7. KillInv'
  BY <1>1, <1>2, <1>3, <1>4, <1>6 DEF KillInv
<1>8. SettingInv' /\ StartedInv' /\ WaitingInv' /\ BatchInv' /\ IdleInv'
  BY <1>1 DEF SettingInv, StartedInv, WaitingInv, BatchInv, IdleInv, InBatch
<1> QED BY <1>7, <1>8

LEMMA KillJoinKeeps ==
    ASSUME IInv, Types', KillJoin
    PROVE  IInv'
<1> USE DEF IInv, Types
<1>1. /\ mpc = "join" /\ mpc' = "kill" /\ midx' = midx + 1
      /\ wpc' = [wpc EXCEPT ![midx] = "none"]
      /\ waitForWork' = waitForWork /\ jobComplete' = jobComplete /\ workloads' = workloads
      /\ numThreads' = numThreads /\ op' = op
  BY DEF KillJoin
<1>2. \A t \in T : t \in Nat BY ThreadsAssumption DEF T
<1>3. KillInv /\ InKill BY <1>1 DEF InKill
<1>4. midx \in Pool /\ midx \in T /\ \A t \in Pool : t \in T BY <1>1, <1>3 DEF KillInv, Pool
<1>5. Pool' = Pool \ {midx} BY <1>1, <1>4 DEF Pool
<1>6. ASSUME NEW t \in Pool' PROVE Parked(t)'
  <2>1. t \in T /\ t # midx /\ t \in Pool BY <1>4, <1>5
  <2>2. Parked(t) BY <1>3, <2>1 DEF KillInv
  <2>3. wpc'[t] = wpc[t] BY <1>1, <2>1
  <2> QED BY <1>1, <2>2, <2>3 DEF Parked, Sleeping
<1>7. \E k \in 0..numThreads-1 :
        /\ k <= midx + 1
        /\ \A t \in T : t < k => t \in Pool'
        /\ \A t \in T : t >= k /\ t < midx + 1 => t \notin Pool'
  <2>1. PICK k \in 0..numThreads-1 :
          /\ k <= midx
          /\ \A t \in T : t < k => t \in Pool
          /\ \A t \in T : t >= k /\ t < midx => t \notin Pool
    BY <1>3 DEF KillInv
  <2>2. k \in Int /\ midx \in Int BY ThreadsAssumption
  <2>3. \A t \in T : t < k => t \in Pool' BY <1>2, <1>5, <2>1, <2>2
  <2>4. ASSUME NEW t \in T, t >= k, t < midx + 1 PROVE t \notin Pool'
    <3>1. t \in Nat BY <1>2
    <3>2. t = midx \/ t < midx BY <2>2, <2>4, <3>1
    <3> QED BY <1>5, <2>1, <2>4, <3>2
  <2>5. k <= midx + 1 BY <2>1, <2>2
  <2> QED BY <2>3, <2>4, <2>5
<1>8. \A t, u \in T : midx + 1 <= t /\ t <= u /\ u \in Pool' => t \in Pool'
  <2>1. \A t, u \in T : midx <= t /\ t <= u /\ u \in Pool => t \in Pool BY <1>3 DEF KillInv
  <2> QED BY <1>2, <1>4, <1>5, <2>1
<1>9. KillInv'
  BY <1>1, <1>3, <1>6, <1>7, <1>8 DEF KillInv
<1>10. SettingInv' /\ StartedInv' /\ WaitingInv' /\ BatchInv' /\ IdleInv'
  BY <1>1 DEF SettingInv, StartedInv, WaitingInv, BatchInv, IdleInv, InBatch
<1> QED BY <1>9, <1>10

(* After the last node has been destroyed: none are left from midx on, so  *)
(* the pool is the part that was kept and the new nodes complete it.       *)
LEMMA ResizedKeeps ==
    ASSUME IInv, Types', Resized
    PROVE  IInv'
<1> USE DEF IInv, Types
<1> DEFINE new == 0..numThreads-2 \ Pool
<1>1. /\ mpc = "kill" /\ mpc' = "idle" /\ midx \notin Pool /\ numThreads' = numThreads
      /\ FreshThread(new)
  BY DEF Resized
<1>2. \A t \in T : t \in Nat BY ThreadsAssumption DEF T
<1>3. KillInv /\ InKill /\ midx \in Nat /\ numThreads \in Int
  BY <1>1, ThreadsAssumption DEF InKill
<1>4. PICK k \in 0..numThreads-1 :
        /\ k <= midx
        /\ \A t \in T : t < k => t \in Pool
        /\ \A t \in T : t >= k /\ t < midx => t \notin Pool
  BY <1>3 DEF KillInv
<1>5. ASSUME NEW t \in T, t >= midx PROVE t \notin Pool
  <2>1. midx \in T BY <1>2, <1>3, <1>5, ThreadsAssumption DEF T
  <2> QED BY <1>1, <1>2, <1>3, <1>5, <2>1 DEF KillInv
<1>6. ASSUME NEW t \in Pool PROVE t \in T /\ t < numThreads - 1 /\ Parked(t)
  <2>1. t \in T BY DEF Pool
  <2>2. t < k BY SMTT(20), <1>2, <1>3, <1>4, <1>5, <2>1
  <2> QED BY <1>1, <1>2, <1>3, <1>4, <2>1, <2>2 DEF KillInv
<1>7. ASSUME NEW t \in T PROVE (t \in Pool)' <=> t < numThreads - 1
  <2>1. CASE t \in new BY <1>1, <1>2, <1>3, <2>1 DEF FreshThread, Pool
  <2>2. CASE t \notin new
    <3>1. wpc'[t] = wpc[t] BY <1>1, <2>2 DEF FreshThread
    <3>2. (t \in Pool)' <=> t \in Pool BY <3>1 DEF Pool
    <3> QED BY <1>2, <1>3, <1>6, <2>2, <3>2
  <2> QED BY <2>1, <2>2
<1>8. ASSUME NEW t \in T, (t \in Pool)' PROVE Parked(t)'
  <2>1. CASE t \in new
    <3>1. wpc'[t] = "lock" /\ ~waitForWork'[t] /\ jobComplete'[t] /\ ~workloads'[t]
      BY <1>1, <2>1 DEF FreshThread
    <3> QED BY <3>1 DEF Parked, Sleeping
  <2>2. CASE t \notin new
    <3>1. wpc'[t] = wpc[t] BY <1>1, <2>2 DEF FreshThread
    <3>2. t \in Pool BY <1>8, <3>1 DEF Pool
    <3>3. Parked(t) BY <1>6, <3>2
    <3>4. (waitForWork'[t] <=> waitForWork[t]) /\ (jobComplete'[t] <=> jobComplete[t])
          /\ (workloads'[t] <=> workloads[t])
      BY <1>1, <2>2 DEF FreshThread
    <3> QED BY <3>1, <3>3, <3>4 DEF Parked, Sleeping
  <2> QED BY <2>1, <2>2
<1>9. IdleInv'
  <2>1. PoolIs(numThreads)' BY <1>1, <1>7 DEF PoolIs
  <2>2. \A t \in Pool' : t \in T BY DEF Pool
  <2> QED BY <1>1, <1>8, <2>1, <2>2 DEF IdleInv
<1>10. SettingInv' /\ StartedInv' /\ WaitingInv' /\ BatchInv' /\ KillInv'
  BY <1>1 DEF SettingInv, StartedInv, WaitingInv, BatchInv, KillInv, InBatch, InKill
<1> QED BY <1>9, <1>10

LEMMA DestroyedKeeps ==
    ASSUME IInv, Types', Destroyed
    PROVE  IInv'
<1> USE DEF IInv, Types
<1>1. /\ mpc = "kill" /\ mpc' = "gone" /\ op = "destroy" /\ op' = op
      /\ wpc' = wpc /\ waitForWork' = waitForWork /\ jobComplete' = jobComplete
      /\ workloads' = workloads
  BY DEF Destroyed, threadVars
<1>2. Pool' = Pool /\ \A t \in T : Parked(t)' <=> Parked(t)
  BY <1>1 DEF Pool, Parked, Sleeping
<1>3. \A t \in Pool : t \in T /\ Parked(t) BY <1>1 DEF KillInv, InKill, Pool
<1>4. IdleInv' BY <1>1, <1>2, <1>3 DEF IdleInv
<1>5. SettingInv' /\ StartedInv' /\ WaitingInv' /\ BatchInv' /\ KillInv'
  BY <1>1 DEF SettingInv, StartedInv, WaitingInv, BatchInv, KillInv, InBatch, InKill
<1> QED BY <1>4, <1>5

LEMMA MainKeeps ==
    ASSUME IInv, Main \/ MainSpurious
    PROVE  IInv'
<1>1. Types' BY MainType DEF IInv
<1>2. CASE MainSleep
  <2>1. QuietStep BY <1>2 DEF MainSleep, QuietStep, threadVars
  <2> QED BY <1>1, <2>1, Quiet
<1>3. CASE MainSpurious
  <2>1. QuietStep BY <1>3 DEF MainSpurious, QuietStep, threadVars
  <2> QED BY <1>1, <2>1, Quiet
<1>4. CASE MainStartPastEnd
  <2>1. mpc = "start" /\ midx < ToStart /\ midx \notin Pool BY <1>4 DEF MainStartPastEnd
  <2>2. BatchInv /\ TreeShape /\ use \in Nat /\ midx \in Nat /\ numThreads \in Int
    BY <2>1, ThreadsAssumption DEF IInv, BatchInv, InBatch, Types
  <2>3. ToStart <= use - 1 /\ ToStart \in Int BY <2>2 DEF TreeShape, ToStart, IInv, Types
  <2>4. midx < numThreads - 1 /\ midx \in T
    BY <2>1, <2>2, <2>3, ThreadsAssumption DEF BatchInv, InBatch, T, IInv, Types
  <2> QED BY <2>1, <2>2, <2>4 DEF BatchInv, InBatch, PoolIs
<1> QED BY <1>1, <1>2, <1>3, <1>4, SetWorkloadKeeps, WorkloadsSetKeeps, MainStartKeeps,
           MainNotifyKeeps, MainStartedKeeps, MainProcessKeeps, MainWaitedKeeps, ReturnKeeps,
           KillStartKeeps, KillNotifyKeeps, KillJoinKeeps, ResizedKeeps, DestroyedKeeps
        DEF Main

LEMMA IInvInit == Init => IInv
<1> SUFFICES ASSUME Init PROVE IInv OBVIOUS
<1>1. Types BY TypeInit
<1>2. mpc = "idle" /\ numThreads = ThreadHint BY DEF Init
<1>3. \A t \in T : (t \in Pool <=> t < ThreadHint - 1) /\ (t \in Pool => Parked(t))
  BY DEF Init, Pool, Parked, Sleeping
<1>4. IdleInv
  <2>1. \A t \in Pool : t \in T BY DEF Pool
  <2> QED BY <1>2, <1>3, <2>1 DEF IdleInv, PoolIs
<1>5. SettingInv /\ StartedInv /\ WaitingInv /\ BatchInv /\ KillInv
  BY <1>2 DEF SettingInv, StartedInv, WaitingInv, BatchInv, KillInv, InBatch, InKill
<1> QED BY <1>1, <1>4, <1>5 DEF IInv

LEMMA IInvStep ==
    ASSUME ForcedMode # "Fanout"
    PROVE  IInv /\ [Next]_vars => IInv'
<1> SUFFICES ASSUME IInv, [Next]_vars PROVE IInv' OBVIOUS
<1>1. CASE UNCHANGED vars
  <2>1. QuietStep BY <1>1 DEF QuietStep, vars, threadVars, callVars
  <2>2. Types' BY <1>1, TypeStep DEF IInv
  <2> QED BY <2>1, <2>2, Quiet
<1>2. CASE Next
  BY <1>1, <1>2, OperationKeeps, MainKeeps, WorkerKeeps DEF Next, Spurious, Finished
<1> QED BY <1>1, <1>2

LEMMA Invariance ==
    ASSUME ForcedMode # "Fanout"
    PROVE  Spec => []IInv
<1>1. Init => IInv BY IInvInit
<1>2. IInv /\ [Next]_vars => IInv' BY IInvStep
<1> QED BY <1>1, <1>2, PTL DEF Spec

-----------------------------------------------------------------------------
(* When a call has returned, no worker is left with a job, with a start it *)
(* has not seen, or with a pointer to the caller's batch and feeder: main  *)
(* waits in the order of the list, and a thread's waker comes before it.   *)
THEOREM QuiescentReturn ==
    ASSUME ForcedMode # "Fanout"
    PROVE  Spec => []ReturnQuiescent
<1>1. IInv => ReturnQuiescent
  BY DEF IInv, IdleInv, Parked, Sleeping, ReturnQuiescent
<1>2. Spec => []IInv BY Invariance
<1> QED BY <1>1, <1>2, PTL

(* Whoever calls start() on a thread finds it in the pool, in use, loaded  *)
(* with its workload and not started yet: the wake-up tree starts every    *)
(* thread at most once, for every fanout and number of threads.            *)
THEOREM StartsAreUnstarted ==
    ASSUME ForcedMode # "Fanout"
    PROVE  Spec => []StartsUnstarted
<1>1. ASSUME IInv PROVE StartsUnstarted
  <2>1. ASSUME mpc = "start", midx < ToStart PROVE Unstarted(midx)
    <3>1. BatchInv /\ TreeShape /\ InBatch /\ use \in Nat /\ midx \in Nat
      BY <1>1, <2>1, ThreadsAssumption DEF IInv, BatchInv, InBatch, Types
    <3>2. ToStart <= use - 1 /\ ToStart \in Int
      BY <1>1, <3>1 DEF TreeShape, ToStart, IInv, Types
    <3>3. midx < use - 1 /\ midx \in T
      BY <1>1, <2>1, <3>1, <3>2, ThreadsAssumption DEF BatchInv, T, IInv, Types
    <3>4. ThreadInv(midx) BY <1>1, <2>1, <3>1, <3>3 DEF IInv, StartedInv
    <3>5. ~MainWoke(midx) BY <2>1, <3>1 DEF MainWoke
    <3> QED BY <2>1, <3>4, <3>5 DEF ThreadInv
  <2>2. \A t \in T : wpc[t] = "wake" => Unstarted(wakeIdx[t])
    BY <1>1, PeerIsUnstarted
  <2> QED BY <2>1, <2>2 DEF StartsUnstarted
<1>2. Spec => []IInv BY Invariance
<1> QED BY <1>1, <1>2, PTL

-----------------------------------------------------------------------------
(***************************************************************************)
(* What becomes of a batch of workloads, for every number of threads and   *)
(* size of batch: no workload is executed twice, the caller is told what   *)
(* happened, and no wake-up is lost.  Every workload that has not begun is *)
(* claimed by one thread, by the caller, or is still with the feeder.      *)
(***************************************************************************)

(* Thread t has a workload it will execute: the one with its own index,    *)
(* and later the one it was given by the feeder.                           *)
Busy(t) == wpc[t] \in {"wake", "wnotify", "run"}

Loaded(t) == t < use - 1 /\ (mpc = "set" \/ Unstarted(t) \/ Signalled(t))

Has(t)  == Loaded(t) \/ Busy(t)
Mine(t) == IF Busy(t) THEN cur[t] ELSE t

(* The same of the caller, and whether it is through with its part.        *)
MainHas     == mpc \in {"set", "start", "notify", "run"}
MainMine    == IF mpc = "run" THEN mcur ELSE use - 1
MainThrough == mpc \in {"wait", "blocked"}

Waited(t) == MainThrough /\ t < midx

(* The threads and the caller together.                                    *)
Caller == -1
Who    == T \union {Caller}

Claims(i)  == IF i = Caller THEN MainHas ELSE Has(i)
Claimed(i) == IF i = Caller THEN MainMine ELSE Mine(i)
Through(i) == IF i = Caller THEN MainThrough ELSE i < use - 1 /\ ~Has(i)
ExcOf(i)   == IF i = Caller THEN mexc ELSE exc[i]
Seen(i)    == i # Caller /\ Waited(i)

(* A workload that was handed out and has not begun.                       *)
Fresh(w) == w \in DOMAIN outcome /\ w < feeder /\ outcome[w] = "pending"

ClaimInv ==
    /\ use <= Size /\ use <= feeder
    /\ \A i \in Who : Claims(i) => Fresh(Claimed(i))
    /\ \A i, j \in Who : i # j /\ Claims(i) /\ Claims(j) => Claimed(i) # Claimed(j)
    /\ \A w \in DOMAIN outcome : w >= feeder => outcome[w] = "pending"

(* Nothing is forgotten: a workload that has not begun is claimed or with  *)
(* the feeder, and whoever is through with his part without an exception   *)
(* has found the feeder empty.                                             *)
PendingInv ==
    /\ \A w \in DOMAIN outcome : outcome[w] = "pending" =>
          w >= feeder \/ \E i \in Who : Claims(i) /\ Claimed(i) = w
    /\ \A i \in Who : Through(i) /\ ExcOf(i) = "none" => feeder >= Size

(* Exceptions are where the caller will look for them, and of this batch.  *)
RaisedInv ==
    /\ \A w \in DOMAIN outcome : outcome[w] \in {"error", "system"} =>
          \E i \in Who : Through(i) /\ ExcOf(i) # "none" /\ ~Seen(i)
    /\ \A i \in Who : Through(i) /\ ExcOf(i) # "none" => Raised(ExcOf(i))
    /\ MainHas => mexc = "none"

BInv ==
    /\ AtMostOnce /\ ResultAgrees
    /\ InBatch => ClaimInv /\ PendingInv /\ RaisedInv

(* Nobody begins a workload with an exception at hand.                     *)
ExcInv == \A t \in T : Busy(t) => exc[t] = "none"

-----------------------------------------------------------------------------
LEMMA SizeFacts ==
    ASSUME OutcomeOK
    PROVE  Size \in Nat /\ DOMAIN outcome = 0..Size-1
<1>1. PICK k \in 0..MaxWorkloads : DOMAIN outcome = 0..k-1 BY DEF OutcomeOK
<1>2. k \in Nat BY ThreadsAssumption
<1>3. Cardinality(0..k-1) = k BY <1>2, FS_Interval
<1> QED BY <1>1, <1>2, <1>3 DEF Size

(* A step that changes neither who has which workload nor what is known of *)
(* exceptions.                                                             *)
Frame ==
    /\ InBatch /\ InBatch'
    /\ use' = use /\ feeder' = feeder /\ outcome' = outcome /\ mexc' = mexc
    /\ \A t \in T : /\ Has(t)' <=> Has(t)
                    /\ Has(t) => Mine(t)' = Mine(t)
                    /\ ~Has(t) => exc'[t] = exc[t]
                    /\ Waited(t)' <=> Waited(t)
    /\ MainHas' <=> MainHas
    /\ MainHas => MainMine' = MainMine
    /\ MainThrough' <=> MainThrough

LEMMA FrameKeeps ==
    ASSUME BInv, Frame
    PROVE  BInv'
<1>1. Size' = Size /\ DOMAIN outcome' = DOMAIN outcome BY DEF Size, Frame
<1>2. AtMostOnce' BY DEF AtMostOnce, BInv, Frame
<1>3. ASSUME NEW i \in Who
      PROVE  /\ Claims(i)' <=> Claims(i)
             /\ Claims(i) => Claimed(i)' = Claimed(i)
             /\ Through(i)' <=> Through(i)
             /\ Through(i) => ExcOf(i)' = ExcOf(i)
             /\ Seen(i)' <=> Seen(i)
  BY DEF Frame, Who, Claims, Claimed, Through, ExcOf, Seen
<1>4. \A w : Fresh(w)' <=> Fresh(w) BY DEF Fresh, Frame
<1>5. ClaimInv /\ PendingInv /\ RaisedInv BY DEF Frame, BInv
<1>6. ClaimInv'
  <2>1. \A i \in Who : Claims(i)' => Fresh(Claimed(i)') BY <1>3, <1>4, <1>5 DEF ClaimInv
  <2>2. \A i \in Who : Claims(i)' => Fresh(Claimed(i))' BY <2>1 DEF Fresh, Frame
  <2> QED BY <1>1, <1>3, <1>5, <2>2 DEF ClaimInv, Frame
<1>7. PendingInv' BY <1>1, <1>3, <1>5 DEF PendingInv, Frame
<1>8. RaisedInv'
  <2>1. \A i \in Who : Through(i)' /\ ExcOf(i)' # "none" => Raised(ExcOf(i)')
    BY <1>3, <1>5 DEF RaisedInv
  <2>2. \A i \in Who : Through(i)' /\ ExcOf(i)' # "none" => Raised(ExcOf(i))'
    BY <2>1 DEF Raised, Frame
  <2> QED BY <1>3, <1>5, <2>2 DEF RaisedInv, Frame
<1>9. ResultAgrees' BY DEF ResultAgrees, InBatch, Frame
<1> QED BY <1>2, <1>6, <1>7, <1>8, <1>9 DEF BInv

(* Outside a batch only the record of the last one matters.                *)
LEMMA OutsideKeeps ==
    ASSUME BInv, ~InBatch', outcome' = outcome, mpc' = "idle" /\ op' = "run" => mpc = "idle" /\ op = "run",
           result' = result \/ ~(mpc' = "idle" /\ op' = "run")
    PROVE  BInv'
<1>1. AtMostOnce' BY DEF BInv, AtMostOnce
<1>2. ResultAgrees' BY DEF BInv, ResultAgrees, Raised
<1> QED BY <1>1, <1>2 DEF BInv

-----------------------------------------------------------------------------
(* Steps that change nothing of this.                                      *)

LEMMA HasSame ==
    ASSUME NEW s \in T, waitForWork'[s] = waitForWork[s],
           \/ wpc'[s] = wpc[s]
           \/ wpc[s] = "blocked" /\ wpc'[s] = "lock",
           jobComplete'[s] = jobComplete[s], workloads'[s] = workloads[s],
           cur'[s] = cur[s], use' = use, mpc' = "set" <=> mpc = "set"
    PROVE  (Has(s)' <=> Has(s)) /\ Mine(s)' = Mine(s)
<1>1. (Unstarted(s)' <=> Unstarted(s)) /\ (Signalled(s)' <=> Signalled(s)) BY OthersSame
<1>2. Busy(s)' <=> Busy(s) BY DEF Busy
<1> QED BY <1>1, <1>2 DEF Has, Mine, Loaded

LEMMA MainSame ==
    ASSUME mpc' = mpc \/ (mpc \in {"wait", "blocked"} /\ mpc' \in {"wait", "blocked"}),
           midx' = midx, use' = use, mcur' = mcur
    PROVE  /\ (MainHas' <=> MainHas) /\ MainMine' = MainMine /\ (MainThrough' <=> MainThrough)
           /\ \A t \in T : Waited(t)' <=> Waited(t)
           /\ mpc' = "set" <=> mpc = "set"
           /\ InBatch' <=> InBatch
BY DEF MainHas, MainMine, MainThrough, Waited, InBatch

(* A step of worker t inside a batch, when its own share is the same after *)
(* it.                                                                     *)
LEMMA WorkerFrame ==
    ASSUME InBatch, NEW t \in T,
           mpc' = mpc \/ (mpc \in {"wait", "blocked"} /\ mpc' \in {"wait", "blocked"}),
           UNCHANGED <<midx, use, mcur, feeder, outcome, mexc>>,
           \A s \in T : s # t => /\ Has(s)' <=> Has(s)
                                 /\ Has(s) => Mine(s)' = Mine(s)
                                 /\ exc'[s] = exc[s],
           Has(t)' <=> Has(t), Has(t) => Mine(t)' = Mine(t), ~Has(t) => exc'[t] = exc[t]
    PROVE  Frame
<1>1. /\ (MainHas' <=> MainHas) /\ MainMine' = MainMine /\ (MainThrough' <=> MainThrough)
      /\ \A s \in T : Waited(s)' <=> Waited(s)
      /\ InBatch' <=> InBatch
  BY MainSame
<1>2. \A s \in T : /\ Has(s)' <=> Has(s)
                   /\ Has(s) => Mine(s)' = Mine(s)
                   /\ ~Has(s) => exc'[s] = exc[s]
  OBVIOUS
<1> QED BY <1>1, <1>2 DEF Frame

LEMMA SleeperFrame ==
    ASSUME IInv, InBatch, NEW t \in T, WorkerSleep(t) \/ WorkerSpurious(t) \/ WorkerNotify(t)
    PROVE  Frame
<1> USE DEF IInv, Types
<1>1. /\ waitForWork' = waitForWork /\ jobComplete' = jobComplete /\ workloads' = workloads
      /\ cur' = cur /\ exc' = exc
      /\ midx' = midx /\ use' = use /\ mcur' = mcur /\ feeder' = feeder /\ outcome' = outcome
      /\ mexc' = mexc
      /\ wpc[t] \in {"lock", "blocked", "notify"} /\ wpc'[t] \in {"lock", "blocked"}
      /\ \A s \in T : s # t => wpc'[s] = wpc[s]
      /\ mpc' = mpc \/ (mpc = "blocked" /\ mpc' = "wait")
  BY DEF WorkerSleep, WorkerSpurious, WorkerNotify, NotifyOne, callVars
<1>2. mpc' = "set" <=> mpc = "set" BY <1>1
<1>3. ASSUME NEW s \in T, s # t
      PROVE  (Has(s)' <=> Has(s)) /\ Mine(s)' = Mine(s) /\ exc'[s] = exc[s]
  BY <1>1, <1>2, <1>3, HasSame
<1>4. (Has(t)' <=> Has(t)) /\ Mine(t)' = Mine(t)
  BY <1>1, <1>2 DEF Has, Mine, Loaded, Busy, Unstarted, Signalled, Sleeping, Pool
<1> QED BY <1>1, <1>3, <1>4, WorkerFrame

LEMMA TakeJobFrame ==
    ASSUME IInv, InBatch, NEW t \in T, WorkerTakeJob(t)
    PROVE  Frame
<1> USE DEF IInv, Types
<1>1. /\ jobComplete' = jobComplete /\ workloads' = workloads
      /\ midx' = midx /\ use' = use /\ mcur' = mcur /\ feeder' = feeder /\ outcome' = outcome
      /\ mexc' = mexc /\ mpc' = mpc
      /\ wpc[t] = "lock" /\ waitForWork[t] /\ t \in Pool
      /\ \A s \in T : s # t => /\ wpc'[s] = wpc[s] /\ cur'[s] = cur[s] /\ exc'[s] = exc[s]
                               /\ waitForWork'[s] = waitForWork[s]
  BY DEF WorkerTakeJob, callVars, Pool
<1>2. t < use - 1 /\ mpc # "set" /\ Signalled(t)
  <2>1. ~Parked(t) /\ ~Unstarted(t) /\ ~Working(t)
    BY <1>1 DEF Parked, Unstarted, Working
  <2>2. ~(mpc \in {"knotify", "join"}) BY DEF InBatch
  <2> QED BY <1>1, <2>1, <2>2, ThreadParts DEF ThreadInv
<1>3. wpc'[t] \in {"wake", "run"} /\ cur'[t] = t
  BY <1>2 DEF WorkerTakeJob, Signalled
<1>4. Has(t) /\ Has(t)' /\ Mine(t)' = t /\ Mine(t) = t
  BY <1>1, <1>2, <1>3 DEF Has, Mine, Loaded, Busy
<1>5. ASSUME NEW s \in T, s # t
      PROVE  (Has(s)' <=> Has(s)) /\ Mine(s)' = Mine(s) /\ exc'[s] = exc[s]
  BY <1>1, <1>5, HasSame
<1> QED BY <1>1, <1>4, <1>5, WorkerFrame

LEMMA StartPeerFrame ==
    ASSUME IInv, NEW t \in T, WorkerStartPeer(t)
    PROVE  Frame
<1> USE DEF IInv, Types
<1> SUFFICES ASSUME NEW u \in T, u = wakeIdx[t] PROVE Frame
  BY PeerIsUnstarted DEF WorkerStartPeer
<1>1. /\ wpc[t] = "wake" /\ wpc' = [wpc EXCEPT ![t] = "wnotify"]
      /\ waitForWork' = [waitForWork EXCEPT ![u] = TRUE]
      /\ jobComplete' = [jobComplete EXCEPT ![u] = FALSE]
      /\ workloads' = workloads /\ cur' = cur /\ exc' = exc
      /\ midx' = midx /\ use' = use /\ mcur' = mcur /\ feeder' = feeder /\ outcome' = outcome
      /\ mexc' = mexc /\ mpc' = mpc
  BY DEF WorkerStartPeer, SetStarted, callVars
<1>2. InBatch /\ mpc # "set" /\ u < use - 1 /\ u # t /\ Unstarted(u) BY <1>1, PeerIsUnstarted
<1>3. Has(t) /\ Has(t)' /\ Mine(t)' = Mine(t) BY <1>1 DEF Has, Mine, Busy
<1>4. Has(u) /\ Has(u)' /\ Mine(u)' = Mine(u)
  <2>1. wpc'[u] = wpc[u] /\ wpc[u] \in {"lock", "blocked", "notify"} BY <1>1, <1>2 DEF Unstarted
  <2>2. Signalled(u)' BY <1>1, <1>2, <2>1 DEF Signalled, Unstarted, Sleeping
  <2> QED BY <1>1, <1>2, <2>1, <2>2 DEF Has, Mine, Loaded, Busy
<1>5. ASSUME NEW s \in T, s # t, s # u
      PROVE  (Has(s)' <=> Has(s)) /\ Mine(s)' = Mine(s)
  <2>1. /\ wpc'[s] = wpc[s] /\ waitForWork'[s] = waitForWork[s] /\ jobComplete'[s] = jobComplete[s]
    BY <1>1, <1>5
  <2> QED BY <1>1, <2>1, HasSame
<1> QED BY <1>1, <1>2, <1>3, <1>4, <1>5, WorkerFrame

LEMMA NotifyPeerFrame ==
    ASSUME IInv, NEW t \in T, WorkerNotifyPeer(t)
    PROVE  Frame
<1> USE DEF IInv, Types
<1>1. /\ waitForWork' = waitForWork /\ jobComplete' = jobComplete /\ workloads' = workloads
      /\ cur' = cur /\ exc' = exc
      /\ midx' = midx /\ use' = use /\ mcur' = mcur /\ feeder' = feeder /\ outcome' = outcome
      /\ mexc' = mexc
      /\ wpc[t] = "wnotify"
      /\ mpc' = mpc \/ (mpc = "blocked" /\ mpc' = "wait")
  BY DEF WorkerNotifyPeer, NotifyOne
<1>2. /\ wpc'[t] \in {"wake", "run"}
      /\ \A s \in T : s # t => wpc'[s] = wpc[s] \/ (wpc[s] = "blocked" /\ wpc'[s] = "lock")
  BY <1>1 DEF WorkerNotifyPeer, NotifyOne
<1>3. InBatch BY <1>1, ActiveThread
<1>4. mpc' = "set" <=> mpc = "set" BY <1>1
<1>5. ASSUME NEW s \in T, s # t
      PROVE  (Has(s)' <=> Has(s)) /\ Mine(s)' = Mine(s) /\ exc'[s] = exc[s]
  BY <1>1, <1>2, <1>4, <1>5, HasSame
<1>6. Has(t) /\ Has(t)' /\ Mine(t)' = Mine(t) BY <1>1, <1>2 DEF Has, Mine, Busy
<1> QED BY <1>1, <1>3, <1>5, <1>6, WorkerFrame

LEMMA FinishFrame ==
    ASSUME IInv, NEW t \in T, WorkerFinish(t)
    PROVE  Frame
<1> USE DEF IInv, Types
<1>1. /\ waitForWork' = waitForWork /\ exc' = exc
      /\ midx' = midx /\ use' = use /\ mcur' = mcur /\ feeder' = feeder /\ outcome' = outcome
      /\ mexc' = mexc /\ mpc' = mpc
      /\ wpc[t] = "fin" /\ wpc'[t] = "notify" /\ ~workloads'[t]
      /\ \A s \in T : s # t => /\ wpc'[s] = wpc[s] /\ cur'[s] = cur[s]
                               /\ jobComplete'[s] = jobComplete[s] /\ workloads'[s] = workloads[s]
  BY DEF WorkerFinish, callVars
<1>2. InBatch /\ mpc # "set" BY <1>1, ActiveThread
<1>3. ~Has(t) /\ ~Has(t)'
  BY <1>1, <1>2 DEF Has, Loaded, Busy, Unstarted, Signalled, Sleeping
<1>4. ASSUME NEW s \in T, s # t
      PROVE  (Has(s)' <=> Has(s)) /\ Mine(s)' = Mine(s) /\ exc'[s] = exc[s]
  BY <1>1, <1>4, HasSame
<1> QED BY <1>1, <1>2, <1>3, <1>4, WorkerFrame

(* The caller prepares, starts and waits for its threads.                  *)
LEMMA SettingFrame ==
    ASSUME IInv, SetWorkload \/ WorkloadsSet
    PROVE  Frame
<1> USE DEF IInv, Types
<1>1. /\ wpc' = wpc /\ waitForWork' = waitForWork /\ jobComplete' = jobComplete
      /\ exc' = exc /\ cur' = cur /\ use' = use /\ feeder' = feeder
      /\ outcome' = outcome /\ mexc' = mexc
      /\ mpc = "set" /\ mpc' \in {"set", "start"}
  BY DEF SetWorkload, WorkloadsSet, threadVars
<1>2. \A t \in T : ~Busy(t) /\ ~Busy(t)'
  <2>1. \A t \in T : ~Busy(t) BY <1>1, ActiveThread DEF Busy
  <2> QED BY <1>1, <2>1 DEF Busy
<1>3. ASSUME NEW t \in T, mpc' = "start" PROVE t < use - 1 => Unstarted(t)'
  <2>1. midx = use - 1 /\ workloads' = workloads
    BY <1>1, <1>3 DEF SetWorkload, WorkloadsSet, threadVars
  <2>2. t < use - 1 => Unstarted(t) BY <1>1, <2>1 DEF SettingInv
  <2> QED BY <1>1, <2>1, <2>2 DEF Unstarted, Pool
<1>4. \A t \in T : (Has(t) <=> t < use - 1) /\ (Has(t)' <=> t < use - 1)
  BY <1>1, <1>2, <1>3 DEF Has, Loaded
<1>5. \A t \in T : Mine(t) = t /\ Mine(t)' = t BY <1>2 DEF Mine
<1>6. /\ InBatch /\ InBatch' /\ MainHas /\ MainHas' /\ MainMine' = MainMine
      /\ ~MainThrough /\ ~MainThrough' /\ \A t \in T : ~Waited(t) /\ ~Waited(t)'
  BY <1>1 DEF InBatch, MainHas, MainMine, MainThrough, Waited
<1> QED BY <1>1, <1>4, <1>5, <1>6 DEF Frame

LEMMA MainStartFrame ==
    ASSUME IInv, NEW u \in T, u = midx, MainStart
    PROVE  Frame
<1> USE DEF IInv, Types
<1>1. /\ wpc' = wpc /\ waitForWork' = [waitForWork EXCEPT ![u] = TRUE]
      /\ jobComplete' = [jobComplete EXCEPT ![u] = FALSE]
      /\ workloads' = workloads /\ exc' = exc /\ cur' = cur
      /\ use' = use /\ feeder' = feeder /\ outcome' = outcome /\ mexc' = mexc
      /\ mpc = "start" /\ mpc' = "notify" /\ u < ToStart
  BY DEF MainStart, SetStarted
<1>2. use \in Nat /\ u \in Nat BY ThreadsAssumption
<1>3. InBatch /\ mpc # "set" /\ BatchInv /\ TreeShape BY <1>1 DEF InBatch, BatchInv
<1>4. ToStart \in Int /\ ToStart <= use - 1 BY <1>2, <1>3 DEF TreeShape, ToStart
<1>5. u < use - 1 BY <1>1, <1>2, <1>4
<1>6. Unstarted(u)
  <2>1. ThreadInv(u) BY <1>3, <1>5 DEF StartedInv
  <2>2. ~MainWoke(u) BY <1>1, <1>2 DEF MainWoke
  <2> QED BY <1>1, <2>1, <2>2 DEF ThreadInv
<1>7. Has(u) /\ Has(u)' /\ Mine(u)' = Mine(u)
  <2>1. wpc'[u] = wpc[u] /\ wpc[u] \in {"lock", "blocked", "notify"} BY <1>1, <1>6 DEF Unstarted
  <2>2. Signalled(u)' BY <1>1, <1>6, <2>1 DEF Signalled, Unstarted, Sleeping
  <2> QED BY <1>1, <1>3, <1>5, <1>6, <2>1, <2>2 DEF Has, Mine, Loaded, Busy
<1>8. ASSUME NEW s \in T, s # u PROVE (Has(s)' <=> Has(s)) /\ Mine(s)' = Mine(s)
  <2>1. waitForWork'[s] = waitForWork[s] /\ jobComplete'[s] = jobComplete[s] BY <1>1, <1>8
  <2> QED BY <1>1, <2>1, HasSame
<1>9. /\ InBatch' /\ MainHas /\ MainHas' /\ MainMine' = MainMine
      /\ ~MainThrough /\ ~MainThrough' /\ \A t \in T : ~Waited(t) /\ ~Waited(t)'
  BY <1>1 DEF InBatch, MainHas, MainMine, MainThrough, Waited
<1> QED BY <1>1, <1>3, <1>7, <1>8, <1>9 DEF Frame

LEMMA MainQuietFrame ==
    ASSUME IInv, MainNotify \/ MainStarted \/ MainSleep \/ MainSpurious
    PROVE  Frame
<1> USE DEF IInv, Types
<1>1. /\ waitForWork' = waitForWork /\ jobComplete' = jobComplete /\ workloads' = workloads
      /\ exc' = exc /\ cur' = cur /\ use' = use /\ feeder' = feeder
      /\ outcome' = outcome /\ mexc' = mexc
      /\ \A s \in T : wpc'[s] = wpc[s] \/ (wpc[s] = "blocked" /\ wpc'[s] = "lock")
      /\ \/ mpc = "notify" /\ mpc' = "start"
         \/ mpc = "start" /\ mpc' = "run" /\ mcur' = use - 1
         \/ mpc \in {"wait", "blocked"} /\ mpc' \in {"wait", "blocked"} /\ midx' = midx
  BY DEF MainNotify, NotifyOne, MainStarted, MainSleep, MainSpurious, threadVars
<1>2. mpc' = "set" <=> mpc = "set" BY <1>1
<1>3. \A s \in T : (Has(s)' <=> Has(s)) /\ Mine(s)' = Mine(s)
  BY <1>1, <1>2, HasSame
<1>4. /\ InBatch /\ InBatch' /\ (MainHas' <=> MainHas) /\ (MainHas => MainMine' = MainMine)
      /\ (MainThrough' <=> MainThrough) /\ \A t \in T : Waited(t)' <=> Waited(t)
  BY <1>1 DEF InBatch, MainHas, MainMine, MainThrough, Waited
<1> QED BY <1>1, <1>3, <1>4 DEF Frame


-----------------------------------------------------------------------------
(* Steps in which somebody executes a workload.                            *)

(* Nothing changes for anybody but i.                                      *)
OthersKeep(i) ==
    \A j \in Who : j # i => /\ Claims(j)' <=> Claims(j)
                            /\ Claims(j) => Claimed(j)' = Claimed(j)
                            /\ Through(j)' <=> Through(j)
                            /\ Through(j) => ExcOf(j)' = ExcOf(j)
                            /\ Seen(j)' <=> Seen(j)

(* i executes w, with the outcome o, and is given another workload, finds  *)
(* none, or gives up.                                                      *)
Executes(i, w, o) ==
    /\ InBatch /\ InBatch' /\ use' = use
    /\ Claims(i) /\ ~Through(i) /\ w = Claimed(i)
    /\ outcome' = [outcome EXCEPT ![w] = o]
    /\ OthersKeep(i)
    /\ MainHas' => mexc' = "none"
    /\ ~Seen(i)'
    /\ \/ /\ o = "done" /\ feeder' = feeder + 1 /\ feeder < Size
          /\ Claims(i)' /\ Claimed(i)' = feeder /\ ~Through(i)'
       \/ /\ o = "done" /\ feeder' = feeder + 1 /\ feeder >= Size
          /\ ~Claims(i)' /\ Through(i)' /\ ExcOf(i)' = "none"
       \/ /\ o \in {"error", "system"} /\ feeder' = feeder
          /\ ~Claims(i)' /\ Through(i)' /\ ExcOf(i)' = o

LEMMA ExecutesKeeps ==
    ASSUME BInv, Types, Types', NEW i \in Who, NEW w, NEW o, Executes(i, w, o)
    PROVE  BInv'
<1>1. ClaimInv /\ PendingInv /\ RaisedInv /\ AtMostOnce BY DEF BInv, Executes
<1>2. Fresh(w) BY <1>1 DEF ClaimInv, Executes
<1>3. /\ w \in DOMAIN outcome /\ outcome[w] = "pending" /\ w < feeder
      /\ DOMAIN outcome' = DOMAIN outcome /\ outcome'[w] = o
      /\ \A x \in DOMAIN outcome : x # w => outcome'[x] = outcome[x]
  BY <1>2 DEF Fresh, Executes
<1>4. /\ Size' = Size /\ Size \in Nat /\ DOMAIN outcome = 0..Size-1
      /\ feeder \in Nat /\ feeder' \in Nat /\ feeder' >= feeder /\ use \in Nat
      /\ o \in {"done", "error", "system"}
  <2>1. Size' = Size BY <1>3 DEF Size
  <2>2. OutcomeOK /\ feeder \in Nat /\ use \in Nat BY ThreadsAssumption DEF Types
  <2> QED BY <2>1, <2>2, SizeFacts DEF Executes
<1>5. ASSUME NEW j \in Who, j # i
      PROVE  /\ Claims(j)' <=> Claims(j)
             /\ Claims(j) => Claimed(j)' = Claimed(j)
             /\ Through(j)' <=> Through(j)
             /\ Through(j) => ExcOf(j)' = ExcOf(j)
             /\ Seen(j)' <=> Seen(j)
  BY <1>5 DEF Executes, OthersKeep
<1>6. AtMostOnce' BY <1>1, <1>3, <1>4 DEF AtMostOnce
<1>7. ASSUME NEW j \in Who, Claims(j)' PROVE Fresh(Claimed(j))'
  <2>1. CASE j = i
    <3>1. /\ feeder' = feeder + 1 /\ feeder < Size /\ Claimed(j)' = feeder
      BY <1>7, <2>1 DEF Executes
    <3>2. feeder \in DOMAIN outcome /\ outcome[feeder] = "pending" /\ feeder # w
      BY <1>1, <1>3, <1>4, <3>1 DEF ClaimInv
    <3> QED BY <1>3, <1>4, <3>1, <3>2 DEF Fresh
  <2>2. CASE j # i
    <3>1. Claims(j) /\ Claimed(j)' = Claimed(j) BY <1>5, <1>7, <2>2
    <3>2. Fresh(Claimed(j)) /\ Claimed(j) # w BY <1>1, <2>2, <3>1 DEF ClaimInv, Executes
    <3>3. /\ Claimed(j) \in DOMAIN outcome' /\ outcome'[Claimed(j)] = "pending"
          /\ Claimed(j) < feeder'
      BY <1>3, <1>4, <3>2 DEF Fresh
    <3> QED BY <3>1, <3>3 DEF Fresh
  <2> QED BY <2>1, <2>2
<1>8. ASSUME NEW j \in Who, NEW k \in Who, j # k, Claims(j)', Claims(k)'
      PROVE  Claimed(j)' # Claimed(k)'
  <2>1. ASSUME NEW x \in Who, x # i, Claims(x)' PROVE Claimed(x)' = Claimed(x) /\ Claimed(x) < feeder
    BY <1>1, <1>5, <2>1 DEF ClaimInv, Fresh
  <2>2. Claims(i)' => Claimed(i)' = feeder BY DEF Executes
  <2>3. CASE j # i /\ k # i BY <1>1, <1>5, <1>8, <2>3 DEF ClaimInv
  <2>4. CASE j = i BY <1>4, <1>8, <2>1, <2>2, <2>4
  <2>5. CASE k = i BY <1>4, <1>8, <2>1, <2>2, <2>5
  <2> QED BY <2>3, <2>4, <2>5
<1>9. ClaimInv'
  <2>1. use' <= Size' /\ use' <= feeder' BY <1>1, <1>4 DEF ClaimInv, Executes
  <2>2. \A x \in DOMAIN outcome' : x >= feeder' => outcome'[x] = "pending"
    BY <1>1, <1>3, <1>4 DEF ClaimInv
  <2> QED BY <1>7, <1>8, <2>1, <2>2 DEF ClaimInv
<1>10. PendingInv'
  <2>1. ASSUME NEW x \in DOMAIN outcome', outcome'[x] = "pending", x < feeder'
        PROVE  \E j \in Who : Claims(j)' /\ Claimed(j)' = x
    <3>1. x # w /\ outcome[x] = "pending" /\ x \in DOMAIN outcome BY <1>3, <1>4, <2>1
    <3>2. CASE x < feeder
      <4>1. PICK j \in Who : Claims(j) /\ Claimed(j) = x
        BY <1>1, <1>4, <3>1, <3>2 DEF PendingInv
      <4>2. j # i BY <3>1, <4>1 DEF Executes
      <4> QED BY <1>5, <4>1, <4>2
    <3>3. CASE x >= feeder
      <4>1. x \in Nat /\ x < Size BY <1>4, <3>1
      <4>2. feeder' = feeder + 1 BY <1>4, <2>1, <3>3, <4>1 DEF Executes
      <4>3. x = feeder /\ feeder < Size BY <1>4, <2>1, <3>3, <4>1, <4>2
      <4>4. Claims(i)' /\ Claimed(i)' = feeder BY <1>4, <4>2, <4>3 DEF Executes
      <4> QED BY <4>3, <4>4
    <3> QED BY <1>4, <3>1, <3>2, <3>3
  <2>2. ASSUME NEW j \in Who, Through(j)', ExcOf(j)' = "none" PROVE feeder' >= Size'
    <3>1. CASE j = i BY <1>4, <2>2, <3>1 DEF Executes
    <3>2. CASE j # i BY <1>1, <1>4, <1>5, <2>2, <3>2 DEF PendingInv
    <3> QED BY <3>1, <3>2
  <2>3. \A x \in DOMAIN outcome' : x >= feeder' \/ x < feeder' BY <1>3, <1>4
  <2> QED BY <2>1, <2>2, <2>3 DEF PendingInv
<1>11. RaisedInv'
  <2>1. ASSUME NEW x \in DOMAIN outcome', outcome'[x] \in {"error", "system"}
        PROVE  \E j \in Who : Through(j)' /\ ExcOf(j)' # "none" /\ ~Seen(j)'
    <3>1. CASE x = w
      <4>1. o \in {"error", "system"} BY <1>3, <2>1, <3>1
      <4>2. Through(i)' /\ ExcOf(i)' = o /\ ~Seen(i)' BY <4>1 DEF Executes
      <4> QED BY <4>1, <4>2
    <3>2. CASE x # w
      <4>1. PICK j \in Who : Through(j) /\ ExcOf(j) # "none" /\ ~Seen(j)
        BY <1>1, <1>3, <2>1, <3>2 DEF RaisedInv
      <4>2. j # i BY <4>1 DEF Executes
      <4> QED BY <1>5, <4>1, <4>2
    <3> QED BY <3>1, <3>2
  <2>2. ASSUME NEW j \in Who, Through(j)', ExcOf(j)' # "none" PROVE Raised(ExcOf(j))'
    <3>1. CASE j = i
      <4>1. ExcOf(j)' = o BY <2>2, <3>1 DEF Executes
      <4> QED BY <1>3, <4>1 DEF Raised
    <3>2. CASE j # i
      <4>1. ExcOf(j)' = ExcOf(j) /\ ExcOf(j) # "none" /\ Through(j) BY <1>5, <2>2, <3>2
      <4>2. PICK x \in DOMAIN outcome : outcome[x] = ExcOf(j)
        BY <1>1, <4>1 DEF RaisedInv, Raised
      <4>3. ExcOf(j) # "pending"
        BY <4>1 DEF ExcOf, Types, Exceptions, Who, Caller
      <4>4. outcome'[x] = ExcOf(j) BY <1>3, <4>2, <4>3
      <4> QED BY <1>3, <4>1, <4>2, <4>4 DEF Raised
    <3> QED BY <3>1, <3>2
  <2> QED BY <2>1, <2>2 DEF RaisedInv, Executes
<1>12. ResultAgrees' BY DEF ResultAgrees, InBatch, Executes
<1> QED BY <1>6, <1>9, <1>10, <1>11, <1>12 DEF BInv, Executes

LEMMA RecordFresh ==
    ASSUME NEW w, NEW o, Fresh(w), Record(w, o)
    PROVE  outcome' = [outcome EXCEPT ![w] = o]
BY DEF Fresh, Record

LEMMA WhoFacts ==
    /\ Caller \in Who /\ Caller \notin T
    /\ \A j \in Who : j # Caller => j \in T
    /\ \A t \in T : t \in Who /\ t # Caller /\ t \in Nat
BY ThreadsAssumption DEF Who, Caller, T

(* What all the outcomes of a worker's workload have in common.            *)
LEMMA ProcessFacts ==
    ASSUME IInv, BInv, NEW t \in T, WorkerProcess(t)
    PROVE  /\ InBatch /\ InBatch' /\ use' = use
           /\ Claims(t) /\ ~Through(t) /\ cur[t] = Claimed(t) /\ Fresh(cur[t])
           /\ OthersKeep(t)
           /\ MainHas' => mexc' = "none"
           /\ ~Seen(t)'
           /\ t < use - 1 /\ mpc' # "set"
<1> USE DEF IInv, Types
<1>1. /\ waitForWork' = waitForWork /\ jobComplete' = jobComplete /\ workloads' = workloads
      /\ mpc' = mpc /\ midx' = midx /\ use' = use /\ mcur' = mcur /\ mexc' = mexc
      /\ wpc[t] = "run"
      /\ \A s \in T : s # t => wpc'[s] = wpc[s] /\ cur'[s] = cur[s] /\ exc'[s] = exc[s]
  BY DEF WorkerProcess, callVars
<1>2. InBatch /\ mpc # "set" /\ t < use - 1 BY <1>1, ActiveThread
<1>3. Busy(t) /\ Has(t) /\ Mine(t) = cur[t] BY <1>1 DEF Busy, Has, Mine
<1>4. Claims(t) /\ Claimed(t) = cur[t] /\ ~Through(t)
  BY <1>3, WhoFacts DEF Claims, Claimed, Through
<1>5. ClaimInv /\ RaisedInv BY <1>2 DEF BInv
<1>6. Fresh(cur[t])
  <2>1. Fresh(Claimed(t)) BY <1>4, <1>5, WhoFacts DEF ClaimInv
  <2> QED BY <1>4, <2>1
<1>7. /\ (MainHas' <=> MainHas) /\ MainMine' = MainMine /\ (MainThrough' <=> MainThrough)
      /\ \A s \in T : Waited(s)' <=> Waited(s)
      /\ mpc' = "set" <=> mpc = "set"
      /\ InBatch' <=> InBatch
  BY <1>1, MainSame
<1>8. ASSUME NEW j \in Who, j # t
      PROVE  /\ Claims(j)' <=> Claims(j)
             /\ Claims(j) => Claimed(j)' = Claimed(j)
             /\ Through(j)' <=> Through(j)
             /\ Through(j) => ExcOf(j)' = ExcOf(j)
             /\ Seen(j)' <=> Seen(j)
  <2>1. CASE j = Caller
    BY <1>1, <1>7, <2>1 DEF Claims, Claimed, Through, ExcOf, Seen
  <2>2. CASE j # Caller
    <3>1. j \in T BY <2>2, WhoFacts
    <3>2. wpc'[j] = wpc[j] /\ cur'[j] = cur[j] /\ exc'[j] = exc[j] BY <1>1, <1>8, <3>1
    <3>3. waitForWork'[j] = waitForWork[j] /\ jobComplete'[j] = jobComplete[j]
          /\ workloads'[j] = workloads[j]
      BY <1>1
    <3>4. (Has(j)' <=> Has(j)) /\ Mine(j)' = Mine(j)
      BY <1>1, <1>7, <3>1, <3>2, <3>3, HasSame
    <3> QED BY <1>1, <1>7, <2>2, <3>1, <3>2, <3>4 DEF Claims, Claimed, Through, ExcOf, Seen
  <2> QED BY <2>1, <2>2
<1>9. OthersKeep(t) BY <1>8 DEF OthersKeep
<1>10. ~Seen(t)'
  <2>1. ~Parked(t) BY <1>1 DEF Parked, Sleeping
  <2>2. ~Waited(t) BY <2>1 DEF Waited, MainThrough, WaitingInv
  <2> QED BY <1>7, <2>2 DEF Seen
<1>11. MainHas' => mexc' = "none" BY <1>1, <1>5, <1>7 DEF RaisedInv
<1> QED BY <1>1, <1>2, <1>4, <1>6, <1>7, <1>9, <1>10, <1>11

LEMMA FinIsThrough ==
    ASSUME Types, NEW t \in T, wpc'[t] = "fin", t < use' - 1, mpc' # "set"
    PROVE  ~Claims(t)' /\ Through(t)' /\ ExcOf(t)' = exc'[t]
<1>1. ~Has(t)' BY DEF Has, Loaded, Busy, Unstarted, Signalled, Sleeping
<1> QED BY <1>1, WhoFacts DEF Claims, Through, ExcOf

LEMMA WorkerProcessKeeps ==
    ASSUME IInv, Types', BInv, ExcInv, NEW t \in T, WorkerProcess(t)
    PROVE  BInv'
<1> USE DEF IInv
<1>0. Types OBVIOUS
<1>1. /\ InBatch /\ InBatch' /\ use' = use
      /\ Claims(t) /\ ~Through(t) /\ cur[t] = Claimed(t) /\ Fresh(cur[t])
      /\ OthersKeep(t)
      /\ MainHas' => mexc' = "none"
      /\ ~Seen(t)'
      /\ t < use - 1 /\ mpc' # "set"
  BY ProcessFacts
<1>2. wpc[t] = "run" /\ exc[t] = "none" /\ t \in Who /\ feeder \in Nat /\ Size \in Nat
  BY WhoFacts, SizeFacts DEF WorkerProcess, ExcInv, Busy, Types
<1>3. CASE Record(cur[t], "done") /\ feeder' = feeder + 1 /\ feeder < Size
           /\ cur' = [cur EXCEPT ![t] = feeder] /\ wpc' = wpc
  <2>1. outcome' = [outcome EXCEPT ![cur[t]] = "done"] BY <1>1, <1>3, RecordFresh
  <2>2. Busy(t)' /\ cur'[t] = feeder BY <1>2, <1>3 DEF Busy, Types
  <2>3. Claims(t)' /\ Claimed(t)' = feeder /\ ~Through(t)'
    BY <2>2, WhoFacts DEF Claims, Claimed, Through, Has, Mine
  <2>4. Executes(t, cur[t], "done") BY <1>1, <1>3, <2>1, <2>3 DEF Executes
  <2> QED BY <1>0, <1>2, <2>4, ExecutesKeeps
<1>4. CASE Record(cur[t], "done") /\ feeder' = feeder + 1 /\ ~(feeder < Size)
           /\ wpc' = [wpc EXCEPT ![t] = "fin"] /\ exc' = exc
  <2>1. outcome' = [outcome EXCEPT ![cur[t]] = "done"] BY <1>1, <1>4, RecordFresh
  <2>2. wpc'[t] = "fin" BY <1>4 DEF Types
  <2>3. ~Claims(t)' /\ Through(t)' /\ ExcOf(t)' = "none"
    BY <1>0, <1>1, <1>2, <1>4, <2>2, FinIsThrough
  <2>4. feeder >= Size BY <1>2, <1>4
  <2>5. Executes(t, cur[t], "done") BY <1>1, <1>4, <2>1, <2>3, <2>4 DEF Executes
  <2> QED BY <1>0, <1>2, <2>5, ExecutesKeeps
<1>5. ASSUME NEW e \in Failures, Record(cur[t], e), exc' = [exc EXCEPT ![t] = e],
             wpc' = [wpc EXCEPT ![t] = "fin"], feeder' = feeder
      PROVE  BInv'
  <2>1. outcome' = [outcome EXCEPT ![cur[t]] = e] BY <1>1, <1>5, RecordFresh
  <2>2. wpc'[t] = "fin" /\ exc'[t] = e /\ e \in {"error", "system"}
    BY <1>5, ModeAssumption DEF Types
  <2>3. ~Claims(t)' /\ Through(t)' /\ ExcOf(t)' = e
    BY <1>0, <1>1, <2>2, FinIsThrough
  <2>4. Executes(t, cur[t], e) BY <1>1, <1>5, <2>1, <2>2, <2>3 DEF Executes
  <2> QED BY <1>0, <1>2, <2>4, ExecutesKeeps
<1> QED BY <1>3, <1>4, <1>5 DEF WorkerProcess

LEMMA MainProcessFacts ==
    ASSUME IInv, BInv, MainProcess
    PROVE  /\ InBatch /\ InBatch' /\ use' = use
           /\ Claims(Caller) /\ ~Through(Caller) /\ mcur = Claimed(Caller) /\ Fresh(mcur)
           /\ OthersKeep(Caller)
           /\ ~Seen(Caller)'
<1> USE DEF IInv, Types
<1>1. /\ waitForWork' = waitForWork /\ jobComplete' = jobComplete /\ workloads' = workloads
      /\ use' = use /\ wpc' = wpc /\ cur' = cur /\ exc' = exc
      /\ mpc = "run" /\ (mpc' = "run" \/ (mpc' = "wait" /\ midx' = 0))
  BY DEF MainProcess, threadVars
<1>2. InBatch /\ InBatch' BY <1>1 DEF InBatch
<1>3. Claims(Caller) /\ ~Through(Caller) /\ mcur = Claimed(Caller)
  BY <1>1 DEF Claims, Through, Claimed, MainHas, MainThrough, MainMine
<1>4. Fresh(mcur)
  <2>1. Fresh(Claimed(Caller)) BY <1>2, <1>3, WhoFacts DEF BInv, ClaimInv
  <2> QED BY <1>3, <2>1
<1>5. ASSUME NEW j \in Who, j # Caller
      PROVE  /\ Claims(j)' <=> Claims(j)
             /\ Claims(j) => Claimed(j)' = Claimed(j)
             /\ Through(j)' <=> Through(j)
             /\ Through(j) => ExcOf(j)' = ExcOf(j)
             /\ Seen(j)' <=> Seen(j)
  <2>1. j \in T /\ j \in Nat BY <1>5, WhoFacts
  <2>2. mpc' = "set" <=> mpc = "set" BY <1>1
  <2>3. (Has(j)' <=> Has(j)) /\ Mine(j)' = Mine(j) BY <1>1, <2>1, <2>2, HasSame
  <2>4. ~Waited(j) /\ ~Waited(j)' BY <1>1, <2>1 DEF Waited, MainThrough
  <2> QED BY <1>1, <1>5, <2>3, <2>4 DEF Claims, Claimed, Through, ExcOf, Seen
<1>6. OthersKeep(Caller) BY <1>5 DEF OthersKeep
<1>7. ~Seen(Caller)' BY DEF Seen
<1> QED BY <1>1, <1>2, <1>3, <1>4, <1>6, <1>7

LEMMA MainProcessBatch ==
    ASSUME IInv, Types', BInv, MainProcess
    PROVE  BInv'
<1> USE DEF IInv
<1>0. Types OBVIOUS
<1>1. /\ InBatch /\ InBatch' /\ use' = use
      /\ Claims(Caller) /\ ~Through(Caller) /\ mcur = Claimed(Caller) /\ Fresh(mcur)
      /\ OthersKeep(Caller)
      /\ ~Seen(Caller)'
  BY MainProcessFacts
<1>2. mpc = "run" /\ mexc = "none" /\ Caller \in Who /\ feeder \in Nat /\ Size \in Nat
  BY <1>1, WhoFacts, SizeFacts DEF MainProcess, BInv, RaisedInv, MainHas, Types
<1>3. CASE Record(mcur, "done") /\ feeder' = feeder + 1 /\ feeder < Size
           /\ mcur' = feeder /\ mpc' = mpc /\ mexc' = mexc
  <2>1. outcome' = [outcome EXCEPT ![mcur] = "done"] BY <1>1, <1>3, RecordFresh
  <2>2. Claims(Caller)' /\ Claimed(Caller)' = feeder /\ ~Through(Caller)'
    BY <1>2, <1>3 DEF Claims, Claimed, Through, MainHas, MainMine, MainThrough
  <2>3. Executes(Caller, mcur, "done") BY <1>1, <1>2, <1>3, <2>1, <2>2 DEF Executes
  <2> QED BY <1>0, <1>2, <2>3, ExecutesKeeps
<1>4. CASE Record(mcur, "done") /\ feeder' = feeder + 1 /\ ~(feeder < Size)
           /\ mpc' = "wait" /\ mexc' = mexc
  <2>1. outcome' = [outcome EXCEPT ![mcur] = "done"] BY <1>1, <1>4, RecordFresh
  <2>2. ~Claims(Caller)' /\ Through(Caller)' /\ ExcOf(Caller)' = "none" /\ ~MainHas'
    BY <1>2, <1>4 DEF Claims, Through, ExcOf, MainHas, MainThrough
  <2>3. feeder >= Size BY <1>2, <1>4
  <2>4. Executes(Caller, mcur, "done") BY <1>1, <1>2, <1>4, <2>1, <2>2, <2>3 DEF Executes
  <2> QED BY <1>0, <1>2, <2>4, ExecutesKeeps
<1>5. ASSUME NEW e \in Failures, Record(mcur, e), mexc' = e, mpc' = "wait", feeder' = feeder
      PROVE  BInv'
  <2>1. outcome' = [outcome EXCEPT ![mcur] = e] BY <1>1, <1>5, RecordFresh
  <2>2. ~Claims(Caller)' /\ Through(Caller)' /\ ExcOf(Caller)' = e /\ ~MainHas'
        /\ e \in {"error", "system"}
    BY <1>5, ModeAssumption DEF Claims, Through, ExcOf, MainHas, MainThrough
  <2>3. Executes(Caller, mcur, e) BY <1>1, <1>5, <2>1, <2>2 DEF Executes
  <2> QED BY <1>0, <1>2, <2>3, ExecutesKeeps
<1> QED BY <1>3, <1>4, <1>5 DEF MainProcess

-----------------------------------------------------------------------------
(* The caller takes over what thread u raised.                             *)
LEMMA MainWaitedBatch ==
    ASSUME IInv, IInv', BInv, NEW u \in T, u = midx, MainWaited
    PROVE  BInv'
<1> USE DEF IInv, Types
<1>1. /\ waitForWork' = waitForWork /\ jobComplete' = jobComplete /\ workloads' = workloads
      /\ use' = use /\ wpc' = wpc /\ cur' = cur /\ exc' = exc /\ mcur' = mcur
      /\ feeder' = feeder /\ outcome' = outcome
      /\ mpc = "wait" /\ mpc' = "wait" /\ u < use - 1 /\ midx' = u + 1
      /\ mexc' = IF exc[u] # "none" THEN exc[u] ELSE mexc
  BY DEF MainWaited, threadVars
<1>2. u \in Nat /\ \A t \in T : t \in Nat BY WhoFacts
<1>3. Through(u)
  <2>1. Parked(u)' BY <1>1, <1>2 DEF WaitingInv
  <2>2. wpc[u] \in {"lock", "blocked", "notify"} /\ ~workloads[u]
    BY <1>1, <2>1 DEF Parked, Sleeping
  <2> QED BY <1>1, <2>2, WhoFacts DEF Through, Has, Loaded, Busy, Unstarted, Signalled
<1>4. InBatch /\ InBatch' /\ ~MainHas' /\ MainThrough /\ MainThrough'
  BY <1>1 DEF InBatch, MainHas, MainThrough
<1>5. ASSUME NEW j \in Who
      PROVE  /\ Claims(j)' <=> Claims(j)
             /\ Claims(j) => Claimed(j)' = Claimed(j)
             /\ Through(j)' <=> Through(j)
             /\ j # Caller => ExcOf(j)' = ExcOf(j)
             /\ j # u => (Seen(j)' <=> Seen(j))
  <2>1. CASE j = Caller
    BY <1>1, <1>4, <2>1 DEF Claims, Claimed, Through, Seen, MainHas
  <2>2. CASE j # Caller
    <3>1. j \in T /\ j \in Nat BY <2>2, WhoFacts
    <3>2. (Has(j)' <=> Has(j)) /\ Mine(j)' = Mine(j) BY <1>1, <3>1, HasSame
    <3>3. j # u => (Waited(j)' <=> Waited(j)) BY <1>1, <1>2, <1>4, <3>1 DEF Waited
    <3> QED BY <1>1, <2>2, <3>2, <3>3 DEF Claims, Claimed, Through, ExcOf, Seen
  <2> QED BY <2>1, <2>2
<1>6. ClaimInv /\ PendingInv /\ RaisedInv BY <1>4 DEF BInv
<1>7. Size' = Size /\ DOMAIN outcome' = DOMAIN outcome BY <1>1 DEF Size
<1>8. ClaimInv'
  <2>1. \A j \in Who : Claims(j)' => Fresh(Claimed(j)') BY <1>5, <1>6 DEF ClaimInv
  <2>2. \A j \in Who : Claims(j)' => Fresh(Claimed(j))' BY <1>1, <2>1 DEF Fresh
  <2> QED BY <1>1, <1>5, <1>6, <1>7, <2>2 DEF ClaimInv
<1>9. PendingInv'
  <2>1. ASSUME NEW j \in Who, Through(j)', ExcOf(j)' = "none" PROVE feeder >= Size
    <3>1. ExcOf(j) = "none" BY <1>1, <1>5, <2>1 DEF ExcOf
    <3> QED BY <1>5, <1>6, <2>1, <3>1 DEF PendingInv
  <2> QED BY <1>1, <1>5, <1>6, <1>7, <2>1 DEF PendingInv
<1>10. Through(Caller) /\ Through(Caller)' /\ ~Seen(Caller)' /\ ExcOf(Caller)' = mexc'
       /\ ExcOf(Caller) = mexc /\ ExcOf(u) = exc[u] /\ Caller \in Who /\ u \in Who
  BY <1>4, WhoFacts DEF Through, Seen, ExcOf
<1>11. RaisedInv'
  <2>1. ASSUME NEW x \in DOMAIN outcome', outcome'[x] \in {"error", "system"}
        PROVE  \E j \in Who : Through(j)' /\ ExcOf(j)' # "none" /\ ~Seen(j)'
    <3>1. PICK j \in Who : Through(j) /\ ExcOf(j) # "none" /\ ~Seen(j)
      BY <1>1, <1>6, <2>1 DEF RaisedInv
    <3>2. CASE j = u \/ j = Caller
      <4>1. mexc' # "none" BY <1>1, <1>10, <3>1, <3>2
      <4> QED BY <1>10, <4>1
    <3>3. CASE j # u /\ j # Caller BY <1>5, <3>1, <3>3
    <3> QED BY <3>2, <3>3
  <2>2. ASSUME NEW j \in Who, Through(j)', ExcOf(j)' # "none" PROVE Raised(ExcOf(j)')
    <3>1. CASE j = Caller
      <4>1. CASE mexc' = mexc BY <1>6, <1>10, <2>2, <3>1, <4>1 DEF RaisedInv
      <4>2. CASE mexc' = exc[u] BY <1>3, <1>6, <1>10, <2>2, <3>1, <4>2 DEF RaisedInv
      <4> QED BY <1>1, <4>1, <4>2
    <3>2. CASE j # Caller BY <1>5, <1>6, <2>2, <3>2 DEF RaisedInv
    <3> QED BY <3>1, <3>2
  <2>3. \A j \in Who : Through(j)' /\ ExcOf(j)' # "none" => Raised(ExcOf(j))'
    BY <1>1, <2>2 DEF Raised
  <2> QED BY <1>4, <2>1, <2>3 DEF RaisedInv
<1>12. AtMostOnce' BY <1>1 DEF AtMostOnce, BInv
<1>13. ResultAgrees' BY <1>1 DEF ResultAgrees
<1> QED BY <1>8, <1>9, <1>11, <1>12, <1>13 DEF BInv

(* What the caller is told.                                                *)
LEMMA ReturnBatch ==
    ASSUME IInv, BInv, Return
    PROVE  BInv'
<1> USE DEF IInv, Types
<1>1. /\ mpc = "wait" /\ mpc' = "idle" /\ midx = use - 1 /\ outcome' = outcome
      /\ result' = CASE mexc = "none"   -> "ok"
                     [] mexc = "error"  -> "throw"
                     [] mexc = "system" -> "swallowed"
  BY DEF Return
<1>2. InBatch /\ ~InBatch' /\ MainThrough /\ ~MainHas
  BY <1>1 DEF InBatch, MainThrough, MainHas
<1>3. PendingInv /\ RaisedInv /\ AtMostOnce BY <1>2 DEF BInv
<1>4. use \in Nat /\ \A t \in T : t \in Nat BY WhoFacts, ThreadsAssumption
<1>5. ASSUME NEW i \in Who PROVE ~Claims(i)
  <2>1. CASE i = Caller BY <1>2, <2>1 DEF Claims
  <2>2. CASE i # Caller
    <3>1. i \in T BY <2>2, WhoFacts
    <3>2. i < use - 1 => Parked(i) BY <1>1, <3>1 DEF WaitingInv
    <3>3. ~Busy(i)
      <4>1. ASSUME Busy(i) PROVE FALSE
        <5>1. i < use - 1 BY <3>1, <4>1, ActiveThread DEF Busy
        <5> QED BY <3>2, <4>1, <5>1 DEF Busy, Parked, Sleeping
      <4> QED BY <4>1
    <3>4. ~Loaded(i) BY <1>1, <3>2 DEF Loaded, Parked, Unstarted, Signalled
    <3> QED BY <2>2, <3>3, <3>4 DEF Claims, Has
  <2> QED BY <2>1, <2>2
<1>6. ASSUME NEW x \in DOMAIN outcome, outcome[x] \in {"error", "system"} PROVE mexc # "none"
  <2>1. PICK i \in Who : Through(i) /\ ExcOf(i) # "none" /\ ~Seen(i)
    BY <1>3, <1>6 DEF RaisedInv
  <2>2. i = Caller
    <3>1. ASSUME i # Caller PROVE FALSE
      <4>1. i < use - 1 BY <2>1, <3>1 DEF Through
      <4> QED BY <1>1, <1>2, <2>1, <3>1, <4>1 DEF Seen, Waited
    <3> QED BY <3>1
  <2> QED BY <2>1, <2>2 DEF ExcOf
<1>7. mexc # "none" => Raised(mexc)
  BY <1>2, <1>3, WhoFacts DEF RaisedInv, Through, ExcOf
<1>8. mexc = "none" => \A x \in DOMAIN outcome : outcome[x] # "pending"
  <2> SUFFICES ASSUME mexc = "none", NEW x \in DOMAIN outcome, outcome[x] = "pending"
               PROVE  FALSE
    OBVIOUS
  <2>1. feeder >= Size BY <1>2, <1>3, WhoFacts DEF PendingInv, Through, ExcOf
  <2>2. x >= feeder BY <1>3, <1>5 DEF PendingInv
  <2>3. x \in 0..Size-1 /\ Size \in Nat /\ feeder \in Nat BY SizeFacts
  <2> QED BY <2>1, <2>2, <2>3
<1>9. \A x \in DOMAIN outcome : outcome[x] \in {"pending", "done", "error", "system"}
  BY <1>3 DEF AtMostOnce, OutcomeOK
<1>14. /\ mexc = "none" \/ mexc = "error" \/ mexc = "system"
       /\ mexc = "none" => result' = "ok"
       /\ mexc = "error" => result' = "throw"
       /\ mexc = "system" => result' = "swallowed"
  <2>1. mexc = "none" \/ mexc = "error" \/ mexc = "system" BY DEF Exceptions
  <2>2. CASE mexc = "none" BY <1>1, <2>2
  <2>3. CASE mexc = "error" BY <1>1, <2>3
  <2>4. CASE mexc = "system" BY <1>1, <2>4
  <2> QED BY <2>1, <2>2, <2>3, <2>4
<1>10. result' = "ok" <=> \A x \in DOMAIN outcome : outcome[x] = "done"
  <2>1. result' = "ok" <=> mexc = "none" BY <1>14
  <2>2. mexc = "none" => \A x \in DOMAIN outcome : outcome[x] = "done" BY <1>6, <1>8, <1>9
  <2>3. mexc # "none" => \E x \in DOMAIN outcome : outcome[x] # "done"
    BY <1>7, <1>14 DEF Raised
  <2> QED BY <2>1, <2>2, <2>3
<1>11. /\ result' \in {"ok", "throw", "swallowed"}
       /\ result' = "throw" => Raised("error")
       /\ result' = "swallowed" => Raised("system")
  BY <1>7, <1>14
<1>12. ResultAgrees' BY <1>1, <1>10, <1>11 DEF ResultAgrees, Raised
<1>13. AtMostOnce' BY <1>1, <1>3 DEF AtMostOnce
<1> QED BY <1>2, <1>12, <1>13 DEF BInv

-----------------------------------------------------------------------------
(* A new batch: the first workloads go to the threads and to the caller.   *)
LEMMA RunBatch ==
    ASSUME IInv, Types', BInv, NEW k \in 1..MaxWorkloads, RunWorkloads(k)
    PROVE  BInv'
<1> USE DEF IInv, Types
<1>1. /\ mpc = "idle" /\ mpc' = "set"
      /\ use' = Smaller(numThreads, k) /\ feeder' = use'
      /\ outcome' = [w \in 0..k-1 |-> "pending"]
      /\ wpc' = wpc /\ mexc' = "none"
  BY DEF RunWorkloads
<1>2. /\ k \in Nat /\ use' \in Nat /\ use' >= 1 /\ use' <= k /\ use' <= MaxThreads
      /\ MaxThreads \in Nat
  BY <1>1, ThreadsAssumption DEF Smaller
<1>3. Size' = k /\ DOMAIN outcome' = 0..k-1 /\ \A w \in 0..k-1 : outcome'[w] = "pending"
  <2>1. DOMAIN outcome' = 0..k-1 /\ \A w \in 0..k-1 : outcome'[w] = "pending" BY <1>1
  <2>2. Cardinality(0..k-1) = k BY <1>2, FS_Interval
  <2>3. Size' = Cardinality(DOMAIN outcome') BY DEF Size
  <2> QED BY <2>1, <2>2, <2>3
<1>4. \A t \in T : ~Busy(t)'
  <2>1. \A t \in T : ~Busy(t) BY <1>1, ActiveThread DEF Busy, InBatch
  <2> QED BY <1>1, <2>1 DEF Busy
<1>5. MainHas' /\ ~MainThrough' BY <1>1 DEF MainHas, MainThrough
<1>6. \A t \in T : (Has(t)' <=> t < use' - 1) /\ Mine(t)' = t
  BY <1>1, <1>4 DEF Has, Mine, Loaded
<1>7. MainMine' = use' - 1 BY <1>1 DEF MainMine
<1>8. ASSUME NEW i \in Who, Claims(i)'
      PROVE  /\ Claimed(i)' \in 0..k-1 /\ Claimed(i)' < use'
             /\ i = Caller => Claimed(i)' = use' - 1
             /\ i # Caller => Claimed(i)' = i /\ i < use' - 1
  <2> DEFINE u == use'
  <2>0. u \in Nat /\ u >= 1 /\ u <= k BY <1>2
  <2> HIDE DEF u
  <2>1. CASE i = Caller
    <3>1. Claimed(i)' = u - 1 BY <1>7, <2>1 DEF Claimed, u
    <3>2. u - 1 \in 0..k-1 /\ u - 1 < u BY <1>2, <2>0
    <3> QED BY <2>1, <3>1, <3>2 DEF u
  <2>2. CASE i # Caller
    <3>1. i \in T /\ i \in Nat BY <2>2, WhoFacts
    <3>2. Claimed(i)' = i /\ i < u - 1 BY <1>6, <1>8, <2>2, <3>1 DEF Claimed, Claims, u
    <3>3. i \in 0..k-1 /\ i < u BY <1>2, <2>0, <3>1, <3>2
    <3> QED BY <2>2, <3>2, <3>3 DEF u
  <2> QED BY <2>1, <2>2
<1>9. ClaimInv'
  <2>1. ASSUME NEW i \in Who, Claims(i)' PROVE Fresh(Claimed(i))'
    <3>1. Claimed(i)' \in DOMAIN outcome' /\ Claimed(i)' < feeder'
          /\ outcome'[Claimed(i)'] = "pending"
      BY <1>1, <1>3, <1>8, <2>1
    <3> QED BY <3>1 DEF Fresh
  <2>2. ASSUME NEW i \in Who, NEW j \in Who, i # j, Claims(i)', Claims(j)'
        PROVE  Claimed(i)' # Claimed(j)'
    <3>1. i # Caller => i \in Nat BY WhoFacts
    <3>2. j # Caller => j \in Nat BY WhoFacts
    <3>3. CASE i = Caller BY <1>2, <1>8, <2>2, <3>2, <3>3
    <3>4. CASE j = Caller BY <1>2, <1>8, <2>2, <3>1, <3>4
    <3>5. CASE i # Caller /\ j # Caller BY <1>8, <2>2, <3>5
    <3> QED BY <3>3, <3>4, <3>5
  <2> QED BY <1>1, <1>2, <1>3, <2>1, <2>2 DEF ClaimInv
<1>10. ASSUME NEW i \in Who PROVE ~Through(i)'
  BY <1>5, <1>6, WhoFacts DEF Through
<1>11. PendingInv'
  <2>1. ASSUME NEW w \in 0..k-1, ~(w >= feeder') PROVE \E i \in Who : Claims(i)' /\ Claimed(i)' = w
    <3>1. w \in Nat /\ w <= use' - 1 BY <1>1, <1>2, <2>1
    <3>2. CASE w = use' - 1 BY <1>5, <1>7, <3>2, WhoFacts DEF Claims, Claimed
    <3>3. CASE w # use' - 1
      <4>1. w < use' - 1 /\ w \in T
        <5> DEFINE u == use'
        <5>1. u \in Nat /\ u <= MaxThreads /\ w \in Nat /\ w <= u - 1 /\ w # u - 1
              /\ MaxThreads \in Nat
          BY <1>2, <3>1, <3>3
        <5> HIDE DEF u
        <5>2. w < u - 1 /\ w \in 0..MaxThreads-2 BY <5>1
        <5> QED BY <5>2 DEF T, u
      <4>2. w \in Who /\ w # Caller BY <4>1, WhoFacts
      <4>3. Has(w)' /\ Mine(w)' = w BY <1>6, <4>1
      <4>4. Claims(w)' /\ Claimed(w)' = w BY <4>2, <4>3 DEF Claims, Claimed
      <4> QED BY <4>2, <4>4
    <3> QED BY <3>2, <3>3
  <2> QED BY <1>3, <1>10, <2>1 DEF PendingInv
<1>12. RaisedInv' BY <1>1, <1>3, <1>10 DEF RaisedInv
<1>13. AtMostOnce' BY <1>3 DEF AtMostOnce
<1>14. ResultAgrees' BY <1>1 DEF ResultAgrees
<1> QED BY <1>9, <1>11, <1>12, <1>13, <1>14 DEF BInv

(* Operations that end or forget a batch, and ~Thread.                     *)
LEMMA NoBatchKeeps ==
    ASSUME BInv, RunNoWorkloads
    PROVE  BInv'
<1>1. outcome' = NoWork /\ result' = "ok" /\ mpc' = "idle"
  BY DEF RunNoWorkloads
<1>2. AtMostOnce' /\ ResultAgrees' BY <1>1 DEF AtMostOnce, ResultAgrees, NoWork, Raised
<1> QED BY <1>1, <1>2 DEF BInv, InBatch

LEMMA ResizeBatch ==
    ASSUME BInv, NEW newOp, NEW num, NEW keep, Resize(newOp, num, keep)
    PROVE  BInv'
<1>1. outcome' = NoWork /\ mpc' = "kill" BY DEF Resize
<1>2. AtMostOnce' /\ ResultAgrees' BY <1>1 DEF AtMostOnce, ResultAgrees, NoWork
<1> QED BY <1>1, <1>2 DEF BInv, InBatch

LEMMA KillBatch ==
    ASSUME IInv, BInv, KillStart \/ KillNotify \/ KillJoin \/ Resized \/ Destroyed
    PROVE  BInv'
<1>1. outcome' = outcome /\ op' = op
  BY DEF KillStart, KillNotify, KillJoin, Resized, Destroyed
<1>2. mpc \in {"kill", "knotify", "join"} /\ mpc' \in {"kill", "knotify", "join", "idle", "gone"}
  BY DEF KillStart, KillNotify, NotifyOne, KillJoin, Resized, Destroyed
<1>3. op \in {"resize", "destroy"} BY <1>2 DEF IInv, KillInv, InKill
<1>4. ~InBatch' BY <1>2 DEF InBatch
<1> QED BY <1>1, <1>3, <1>4, OutsideKeeps

LEMMA OperationBatch ==
    ASSUME IInv, Types', BInv, Operation
    PROVE  BInv'
<1>1. ASSUME NEW req \in 0..MaxThreads, SetNumThreads(req) \/ SetNumThreadsWithAffinity(req)
      PROVE  BInv'
  BY <1>1, ResizeBatch DEF SetNumThreads, SetNumThreadsWithAffinity
<1>2. CASE Destroy BY <1>2, ResizeBatch DEF Destroy
<1> QED BY <1>1, <1>2, RunBatch, NoBatchKeeps DEF Operation

LEMMA MainBatch ==
    ASSUME IInv, IInv', BInv, Main \/ MainSpurious
    PROVE  BInv'
<1>1. Types' BY DEF IInv
<1>2. CASE SetWorkload \/ WorkloadsSet BY <1>2, SettingFrame, FrameKeeps
<1>3. CASE MainStart
  <2>1. midx \in T BY <1>3 DEF MainStart, Pool
  <2> QED BY <1>3, <2>1, MainStartFrame, FrameKeeps
<1>4. CASE MainNotify \/ MainStarted \/ MainSleep \/ MainSpurious
  BY <1>4, MainQuietFrame, FrameKeeps
<1>5. CASE MainStartPastEnd BY <1>5 DEF MainStartPastEnd, IInv, IdleInv
<1>6. CASE MainProcess BY <1>1, <1>6, MainProcessBatch
<1>7. CASE MainWaited
  <2>1. midx \in T
    BY <1>7, ThreadsAssumption DEF MainWaited, IInv, Types, T
  <2> QED BY <1>7, <2>1, MainWaitedBatch
<1>8. CASE Return BY <1>8, ReturnBatch
<1>9. CASE KillStart \/ KillNotify \/ KillJoin \/ Resized \/ Destroyed BY <1>9, KillBatch
<1> QED BY <1>2, <1>3, <1>4, <1>5, <1>6, <1>7, <1>8, <1>9 DEF Main

LEMMA WorkerBatch ==
    ASSUME IInv, IInv', BInv, ExcInv, NEW t \in T, Worker(t) \/ WorkerSpurious(t)
    PROVE  BInv'
<1>1. Types' BY DEF IInv
<1>2. CASE WorkerStartPeer(t) BY <1>2, StartPeerFrame, FrameKeeps
<1>3. CASE WorkerNotifyPeer(t) BY <1>3, NotifyPeerFrame, FrameKeeps
<1>4. CASE WorkerFinish(t) BY <1>4, FinishFrame, FrameKeeps
<1>5. CASE WorkerProcess(t) BY <1>1, <1>5, WorkerProcessKeeps
<1>6. CASE InBatch /\ (WorkerSleep(t) \/ WorkerSpurious(t) \/ WorkerNotify(t))
  BY <1>6, SleeperFrame, FrameKeeps
<1>7. CASE InBatch /\ WorkerTakeJob(t) BY <1>7, TakeJobFrame, FrameKeeps
<1>8. CASE /\ ~InBatch
           /\ WorkerSleep(t) \/ WorkerSpurious(t) \/ WorkerNotify(t) \/ WorkerTakeJob(t)
  <2>1. outcome' = outcome /\ op' = op /\ result' = result
    BY <1>8 DEF WorkerSleep, WorkerSpurious, WorkerNotify, WorkerTakeJob, callVars
  <2>2. mpc' = mpc
    BY <1>8 DEF WorkerSleep, WorkerSpurious, WorkerNotify, WorkerTakeJob, NotifyOne, callVars,
                InBatch
  <2>3. ~InBatch' BY <1>8, <2>2 DEF InBatch
  <2> QED BY <2>1, <2>2, <2>3, OutsideKeeps
<1> QED BY <1>2, <1>3, <1>4, <1>5, <1>6, <1>7, <1>8 DEF Worker

LEMMA StutterBatch ==
    ASSUME BInv, UNCHANGED vars
    PROVE  BInv'
<1> USE DEF vars, threadVars, callVars
<1>1. InBatch' <=> InBatch BY DEF InBatch
<1>2. AtMostOnce' /\ ResultAgrees' BY DEF BInv, AtMostOnce, ResultAgrees, Raised
<1>3. CASE InBatch
  <2>1. mpc' = mpc /\ midx' = midx /\ use' = use /\ mcur' = mcur BY DEF vars
  <2>2. /\ (MainHas' <=> MainHas) /\ MainMine' = MainMine /\ (MainThrough' <=> MainThrough)
        /\ \A s \in T : Waited(s)' <=> Waited(s)
        /\ mpc' = "set" <=> mpc = "set"
    BY <2>1, MainSame
  <2>3. \A s \in T : (Has(s)' <=> Has(s)) /\ Mine(s)' = Mine(s) BY HasSame
  <2>4. Frame BY <1>1, <1>3, <2>2, <2>3 DEF Frame
  <2> QED BY <2>4, FrameKeeps
<1>4. CASE ~InBatch BY <1>1, <1>2, <1>4 DEF BInv
<1> QED BY <1>3, <1>4

(* A worker begins each job without an exception, and stops at the first.  *)
LEMMA ExcStep ==
    ASSUME Types, ExcInv, [Next]_vars
    PROVE  ExcInv'
<1> USE DEF Types, ExcInv, Busy
<1>1. CASE UNCHANGED vars BY <1>1 DEF vars, threadVars
<1>2. ASSUME exc' = exc, \A t \in T : Busy(t)' => Busy(t) PROVE ExcInv' BY <1>2
<1>3. CASE Operation
  BY <1>2, <1>3 DEF Operation, RunWorkloads, RunNoWorkloads, SetNumThreads,
                    SetNumThreadsWithAffinity, Destroy, Resize, threadVars
<1>4. CASE \/ SetWorkload \/ WorkloadsSet \/ MainStart \/ MainStarted \/ MainStartPastEnd
           \/ MainProcess \/ MainSleep \/ MainWaited \/ Return \/ MainSpurious
  <2>1. exc' = exc /\ wpc' = wpc
    BY <1>4 DEF SetWorkload, WorkloadsSet, MainStart, MainStarted, MainStartPastEnd,
                MainProcess, MainSleep, MainWaited, Return, MainSpurious, threadVars
  <2> QED BY <1>2, <2>1
<1>5. CASE KillStart \/ Destroyed BY <1>2, <1>5 DEF KillStart, Destroyed, threadVars
<1>6. CASE MainNotify \/ KillNotify BY <1>2, <1>6 DEF MainNotify, KillNotify, NotifyOne
<1>7. CASE KillJoin BY <1>2, <1>7 DEF KillJoin
<1>8. CASE Resized BY <1>8 DEF Resized, FreshThread
<1>9. ASSUME NEW t \in T, Worker(t) \/ WorkerSpurious(t) PROVE ExcInv'
  <2>1. CASE WorkerSleep(t) \/ WorkerSpurious(t) BY <1>2, <2>1 DEF WorkerSleep, WorkerSpurious
  <2>2. CASE WorkerTakeJob(t) BY <2>2 DEF WorkerTakeJob
  <2>3. CASE WorkerStartPeer(t) BY <1>2, <2>3 DEF WorkerStartPeer
  <2>4. CASE WorkerNotifyPeer(t) BY <1>2, <2>4 DEF WorkerNotifyPeer, NotifyOne
  <2>5. CASE WorkerProcess(t) BY <2>5 DEF WorkerProcess
  <2>6. CASE WorkerFinish(t) BY <1>2, <2>6 DEF WorkerFinish
  <2>7. CASE WorkerNotify(t) BY <1>2, <2>7 DEF WorkerNotify, NotifyOne
  <2> QED BY <1>9, <2>1, <2>2, <2>3, <2>4, <2>5, <2>6, <2>7 DEF Worker
<1> QED BY <1>1, <1>3, <1>4, <1>5, <1>6, <1>7, <1>8, <1>9 DEF Next, Main, Spurious, Finished

LEMMA BatchInit == Init => IInv /\ ExcInv /\ BInv
<1> SUFFICES ASSUME Init PROVE IInv /\ ExcInv /\ BInv OBVIOUS
<1>1. IInv BY IInvInit
<1>2. ExcInv BY DEF Init, ExcInv
<1>3. mpc = "idle" /\ op = "none" /\ outcome = NoWork BY DEF Init
<1>4. AtMostOnce /\ ResultAgrees /\ ~InBatch
  BY <1>3 DEF AtMostOnce, ResultAgrees, InBatch, NoWork
<1> QED BY <1>1, <1>2, <1>4 DEF BInv

LEMMA BatchStep ==
    ASSUME ForcedMode # "Fanout"
    PROVE  IInv /\ ExcInv /\ BInv /\ [Next]_vars => (IInv /\ ExcInv /\ BInv)'
<1> SUFFICES ASSUME IInv, ExcInv, BInv, [Next]_vars PROVE (IInv /\ ExcInv /\ BInv)' OBVIOUS
<1>1. IInv' BY IInvStep
<1>2. ExcInv' BY ExcStep DEF IInv
<1>3. BInv'
  <2>1. CASE UNCHANGED vars BY <2>1, StutterBatch
  <2>2. Types' BY <1>1 DEF IInv
  <2>3. CASE Next
    BY <1>1, <2>1, <2>2, <2>3, OperationBatch, MainBatch, WorkerBatch DEF Next, Spurious, Finished
  <2> QED BY <2>1, <2>3
<1> QED BY <1>1, <1>2, <1>3

LEMMA BatchInvariance ==
    ASSUME ForcedMode # "Fanout"
    PROVE  Spec => []BInv
<1>1. Init => IInv /\ ExcInv /\ BInv BY BatchInit
<1>2. IInv /\ ExcInv /\ BInv /\ [Next]_vars => (IInv /\ ExcInv /\ BInv)' BY BatchStep
<1> QED BY <1>1, <1>2, PTL DEF Spec

(* No two threads execute the same workload, however the feeder, the       *)
(* threads and the caller interleave: whoever has a workload that has not  *)
(* begun is the only one to have it, and what the feeder still has nobody  *)
(* does.                                                                   *)
THEOREM NoWorkloadTwice ==
    ASSUME ForcedMode # "Fanout"
    PROVE  Spec => []AtMostOnce
<1>1. BInv => AtMostOnce BY DEF BInv
<1> QED BY <1>1, BatchInvariance, PTL

(* No index runs past its container: the iterators of the caller and of    *)
(* the workers stay on nodes of _threads, also while a resize destroys and *)
(* adds nodes between batches, and the index of the workload a thread      *)
(* begins is one of this batch, whether it is its own or the feeder's.     *)
THEOREM TypeCorrect ==
    ASSUME ForcedMode # "Fanout"
    PROVE  Spec => []TypeOK
<1>1. ASSUME IInv, BInv PROVE TypeOK
  <2> USE DEF IInv, Types
  <2>1. /\ use \in Int /\ midx \in Nat /\ numThreads \in Int
        /\ MaxThreads \in Int /\ numThreads <= MaxThreads /\ ToStart \in Int
    BY <1>1, ThreadsAssumption DEF ToStart
  <2>2. ASSUME InBatch, midx < use - 1 PROVE midx \in Pool
    <3>1. use <= numThreads /\ PoolIs(numThreads) BY <1>1, <2>2 DEF BatchInv
    <3>2. midx \in T BY <2>1, <2>2, <3>1 DEF T
    <3> QED BY <2>1, <2>2, <3>1, <3>2 DEF PoolIs
  <2>3. InBatch => ToStart <= use - 1 BY <1>1, <2>1 DEF BatchInv, TreeShape, ToStart
  <2>4. mpc \in {"set", "wait", "blocked"} /\ midx < use - 1 => midx \in Pool
    BY <2>2 DEF InBatch
  <2>5. mpc = "start" /\ midx < ToStart => midx \in Pool
    BY <2>1, <2>2, <2>3 DEF InBatch
  <2>6. mpc \in {"notify", "knotify", "join"} => midx \in Pool
    <3>1. mpc = "notify" => midx \in Pool
      BY <1>1, <2>1, <2>2, <2>3 DEF InBatch, WaitingInv
    <3>2. mpc \in {"knotify", "join"} => midx \in Pool BY <1>1 DEF KillInv, InKill
    <3> QED BY <3>1, <3>2
  <2>7. mpc = "run" => mcur \in DOMAIN outcome
    <3> SUFFICES ASSUME mpc = "run" PROVE mcur \in DOMAIN outcome OBVIOUS
    <3>1. ClaimInv BY <1>1 DEF BInv, InBatch
    <3>2. Claims(Caller) /\ Claimed(Caller) = mcur
      BY DEF Claims, Claimed, MainHas, MainMine
    <3>3. Fresh(Claimed(Caller)) BY <3>1, <3>2, WhoFacts DEF ClaimInv
    <3> QED BY <3>2, <3>3 DEF Fresh
  <2>8. ASSUME NEW t \in T, wpc[t] \in {"wake", "wnotify"} PROVE wakeIdx[t] \in Pool
    <3>1. InBatch /\ ThreadInv(t) BY <1>1, <2>8, ActiveThread
    <3>2. /\ wakeIdx[t] \in Nat /\ wake[t][2] \in Nat /\ info[t] \in Nat
          /\ info[t] = use /\ wakeIdx[t] < WakeEnd(t)
      BY <1>1, <2>8, <3>1 DEF ThreadInv
    <3>3. wakeIdx[t] < use - 1 BY <3>2 DEF WakeEnd, Smaller
    <3>4. use <= numThreads /\ PoolIs(numThreads) BY <1>1, <3>1 DEF BatchInv
    <3>5. wakeIdx[t] \in T BY <2>1, <3>2, <3>3, <3>4 DEF T
    <3> QED BY <2>1, <3>2, <3>3, <3>4, <3>5 DEF PoolIs
  <2>9. ASSUME NEW t \in T, wpc[t] = "run" PROVE cur[t] \in DOMAIN outcome
    <3>1. ClaimInv BY <1>1, <2>9, ActiveThread DEF BInv
    <3>2. t \in Who /\ t # Caller BY WhoFacts
    <3>3. Claims(t) /\ Claimed(t) = cur[t]
      BY <2>9, <3>2 DEF Claims, Claimed, Has, Mine, Busy
    <3>4. Fresh(Claimed(t)) BY <3>1, <3>2, <3>3 DEF ClaimInv
    <3> QED BY <3>3, <3>4 DEF Fresh
  <2>10. IndexesInBounds BY <2>4, <2>5, <2>6, <2>7, <2>8, <2>9 DEF IndexesInBounds
  <2> QED BY <1>1, <2>10 DEF TypeOK
<1>2. Init => IInv /\ ExcInv /\ BInv BY BatchInit
<1>3. IInv /\ ExcInv /\ BInv /\ [Next]_vars => (IInv /\ ExcInv /\ BInv)' BY BatchStep
<1> QED BY <1>1, <1>2, <1>3, PTL DEF Spec

(* While the caller waits, its last_exception is that of the last thread   *)
(* it has waited for that raised, and a thread it has waited for keeps its *)
(* exception until its next job.                                           *)
LastInv ==
    /\ MainThrough => \A t \in T : LastRaiser(t, midx) => mexc = exc[t]
    /\ LastExceptionWins

(* A worker that the caller is not waiting for any more has no job.        *)
LEMMA WaitedKeepsExc ==
    ASSUME IInv, NEW t \in T, Worker(t) \/ WorkerSpurious(t), NEW u \in T, Parked(u)
    PROVE  exc'[u] = exc[u]
<1> USE DEF IInv, Types
<1>1. CASE WorkerTakeJob(t) BY <1>1 DEF WorkerTakeJob, Parked
<1>2. CASE WorkerProcess(t) BY <1>2 DEF WorkerProcess, Parked, Sleeping
<1>3. CASE \/ WorkerSleep(t) \/ WorkerSpurious(t) \/ WorkerStartPeer(t)
           \/ WorkerNotifyPeer(t) \/ WorkerFinish(t) \/ WorkerNotify(t)
  BY <1>3 DEF WorkerSleep, WorkerSpurious, WorkerStartPeer, WorkerNotifyPeer, WorkerFinish,
              WorkerNotify
<1> QED BY <1>1, <1>2, <1>3 DEF Worker

LEMMA LastOfWorker ==
    ASSUME IInv, LastInv, NEW t \in T, Worker(t) \/ WorkerSpurious(t)
    PROVE  LastInv'
<1> USE DEF IInv, Types
<1>1. /\ midx' = midx /\ use' = use /\ op' = op /\ result' = result /\ mexc' = mexc
      /\ mpc' = mpc \/ (mpc = "blocked" /\ mpc' = "wait")
  BY DEF Worker, WorkerSleep, WorkerTakeJob, WorkerSpurious, WorkerStartPeer, WorkerNotifyPeer,
         WorkerProcess, WorkerFinish, WorkerNotify, NotifyOne, callVars
<1>2. use - 1 \in Int /\ midx \in Int BY ThreadsAssumption
<1>3. ASSUME MainThrough' PROVE \A u \in T : LastRaiser(u, midx)' => mexc' = exc'[u]
  <2>1. MainThrough BY <1>1, <1>3 DEF MainThrough
  <2>2. \A u \in T : u < midx => Parked(u) BY <2>1 DEF WaitingInv, MainThrough
  <2>3. \A u \in T : u < midx => exc'[u] = exc[u] BY <2>2, WaitedKeepsExc
  <2>4. \A u \in T : /\ LastRaiser(u, midx)' <=> LastRaiser(u, midx)
                     /\ LastRaiser(u, midx) => exc'[u] = exc[u]
    BY <1>1, <1>2, <2>3 DEF LastRaiser
  <2> QED BY <1>1, <2>1, <2>4 DEF LastInv
<1>4. ASSUME mpc' = "idle", op' = "run", NEW u \in T, LastRaiser(u, use - 1)'
      PROVE  result' = IF exc'[u] = "error" THEN "throw" ELSE "swallowed"
  <2>1. mpc = "idle" /\ op = "run" BY <1>1, <1>4
  <2>2. \A v \in T : wpc[v] # "none" => Parked(v) BY <2>1 DEF IdleInv, Pool
  <2>3. ASSUME NEW v \in T PROVE exc'[v] = exc[v]
    <3>1. CASE v = t
      <4>1. wpc[t] # "none"
        BY DEF Worker, WorkerSleep, WorkerTakeJob, WorkerSpurious, WorkerStartPeer,
               WorkerNotifyPeer, WorkerProcess, WorkerFinish, WorkerNotify
      <4> QED BY <2>2, <3>1, <4>1, WaitedKeepsExc
    <3>2. CASE v # t
      BY <3>2 DEF Worker, WorkerSleep, WorkerTakeJob, WorkerSpurious, WorkerStartPeer,
                  WorkerNotifyPeer, WorkerProcess, WorkerFinish, WorkerNotify
    <3> QED BY <3>1, <3>2
  <2>4. LastRaiser(u, use - 1) BY <1>1, <1>4, <2>3 DEF LastRaiser
  <2> QED BY <1>1, <2>1, <2>3, <2>4 DEF LastInv, LastExceptionWins
<1>5. LastExceptionWins' BY <1>4 DEF LastExceptionWins
<1> QED BY <1>1, <1>3, <1>5 DEF LastInv, LastRaiser

(* The caller takes over what thread u raised, or keeps what it has.       *)
LEMMA LastOfWaited ==
    ASSUME IInv, LastInv, NEW u \in T, u = midx, MainWaited
    PROVE  LastInv'
<1> USE DEF IInv, Types
<1>1. /\ mpc = "wait" /\ mpc' = "wait" /\ midx' = u + 1 /\ exc' = exc
      /\ mexc' = IF exc[u] # "none" THEN exc[u] ELSE mexc
  BY DEF MainWaited, threadVars
<1>2. \A t \in T : t \in Nat BY WhoFacts
<1>3. ASSUME NEW t \in T, LastRaiser(t, u + 1) PROVE mexc' = exc[t]
  <2>1. t < u + 1 /\ exc[t] # "none" /\ \A v \in T : t < v /\ v < u + 1 => exc[v] = "none"
    BY <1>3 DEF LastRaiser
  <2>2. CASE t = u BY <1>1, <2>1, <2>2
  <2>3. CASE t # u
    <3>1. t < u /\ exc[u] = "none" BY <1>2, <2>1, <2>3
    <3>2. LastRaiser(t, u) BY <1>2, <2>1, <3>1 DEF LastRaiser
    <3>3. mexc = exc[t] BY <1>1, <3>2 DEF LastInv, MainThrough
    <3> QED BY <1>1, <3>1, <3>3
  <2> QED BY <2>2, <2>3
<1>4. \A t \in T : LastRaiser(t, midx)' => mexc' = exc'[t] BY <1>1, <1>3 DEF LastRaiser
<1>5. LastExceptionWins' BY <1>1 DEF LastExceptionWins
<1> QED BY <1>4, <1>5 DEF LastInv

(* What the caller returns with is what it found last.                     *)
LEMMA LastOfReturn ==
    ASSUME IInv, LastInv, Return
    PROVE  LastInv'
<1> USE DEF IInv, Types
<1>1. /\ mpc = "wait" /\ mpc' = "idle" /\ midx = use - 1 /\ use' = use /\ exc' = exc
      /\ result' = CASE mexc = "none"   -> "ok"
                     [] mexc = "error"  -> "throw"
                     [] mexc = "system" -> "swallowed"
  BY DEF Return, threadVars
<1>2. ASSUME NEW t \in T, LastRaiser(t, use - 1)'
      PROVE  result' = IF exc[t] = "error" THEN "throw" ELSE "swallowed"
  <2>1. LastRaiser(t, midx) BY <1>1, <1>2 DEF LastRaiser
  <2>2. mexc = exc[t] /\ exc[t] # "none" BY <1>1, <2>1 DEF LastInv, MainThrough, LastRaiser
  <2>3. CASE exc[t] = "error" BY <1>1, <2>2, <2>3
  <2>4. CASE exc[t] = "system" BY <1>1, <2>2, <2>4
  <2> QED BY <2>2, <2>3, <2>4 DEF Exceptions
<1>3. LastExceptionWins' BY <1>1, <1>2 DEF LastExceptionWins
<1> QED BY <1>1, <1>3 DEF LastInv, MainThrough

LEMMA LastOfMain ==
    ASSUME IInv, LastInv, Main \/ MainSpurious
    PROVE  LastInv'
<1> USE DEF IInv, Types
<1>1. CASE MainSleep \/ MainSpurious
  <2>1. /\ MainThrough /\ mpc' \in {"wait", "blocked"}
        /\ exc' = exc /\ mexc' = mexc /\ midx' = midx
    BY <1>1 DEF MainSleep, MainSpurious, threadVars, MainThrough
  <2>2. \A t \in T : LastRaiser(t, midx)' => mexc' = exc'[t]
    BY <2>1 DEF LastInv, LastRaiser
  <2> QED BY <2>1, <2>2 DEF LastInv, LastExceptionWins
<1>2. CASE MainProcess
  <2>1. mpc' = "run" \/ (mpc' = "wait" /\ midx' = 0) BY <1>2 DEF MainProcess
  <2>2. \A t \in T : ~(t < 0) BY WhoFacts
  <2>3. mpc' = "wait" => \A t \in T : ~LastRaiser(t, midx)' BY <2>1, <2>2 DEF LastRaiser
  <2> QED BY <2>1, <2>3 DEF LastInv, LastExceptionWins, MainThrough
<1>3. CASE MainWaited
  <2>1. midx \in T
    BY <1>3, ThreadsAssumption DEF MainWaited, T
  <2> QED BY <1>3, <2>1, LastOfWaited
<1>4. CASE Return BY <1>4, LastOfReturn
<1>5. CASE MainNotify BY <1>5 DEF MainNotify, NotifyOne, LastInv, MainThrough, LastExceptionWins
<1>6. CASE SetWorkload \/ WorkloadsSet \/ MainStart \/ MainStarted \/ MainStartPastEnd
  BY <1>6 DEF SetWorkload, WorkloadsSet, MainStart, MainStarted, MainStartPastEnd, LastInv,
              MainThrough, LastExceptionWins
<1>7. CASE KillStart \/ KillNotify \/ KillJoin \/ Resized \/ Destroyed
  <2>1. mpc' \in {"kill", "knotify", "join", "idle", "gone"} /\ op' = op /\ InKill
    BY <1>7 DEF KillStart, KillNotify, NotifyOne, KillJoin, Resized, Destroyed, InKill
  <2>2. op' # "run" BY <2>1 DEF KillInv
  <2> QED BY <2>1, <2>2 DEF LastInv, MainThrough, LastExceptionWins
<1> QED BY <1>1, <1>2, <1>3, <1>4, <1>5, <1>6, <1>7 DEF Main

LEMMA LastOfOperation ==
    ASSUME IInv, LastInv, Operation
    PROVE  LastInv'
<1>1. CASE RunNoWorkloads
  <2>1. mpc' = "idle" /\ use' = 0 BY <1>1 DEF RunNoWorkloads
  <2>2. \A t \in T : ~(t < 0 - 1) BY WhoFacts
  <2>3. \A t \in T : ~LastRaiser(t, use - 1)' BY <2>1, <2>2 DEF LastRaiser
  <2> QED BY <2>1, <2>3 DEF LastInv, MainThrough, LastExceptionWins
<1>2. CASE mpc' \in {"set", "kill"} BY <1>2 DEF LastInv, MainThrough, LastExceptionWins
<1> QED BY <1>1, <1>2 DEF Operation, RunWorkloads, SetNumThreads, SetNumThreadsWithAffinity,
                          Destroy, Resize

LEMMA LastStep ==
    ASSUME IInv, LastInv, [Next]_vars
    PROVE  LastInv'
<1>1. CASE UNCHANGED vars
  <2>1. mpc' = mpc /\ midx' = midx /\ mexc' = mexc /\ exc' = exc /\ op' = op /\ use' = use
        /\ result' = result
    BY <1>1 DEF vars, threadVars, callVars
  <2> QED BY <2>1 DEF LastInv, LastExceptionWins, LastRaiser, MainThrough
<1> QED BY <1>1, LastOfOperation, LastOfMain, LastOfWorker DEF Next, Spurious, Finished

(* How a call of run_workloads ends is the truth about its batch: well     *)
(* exactly when everything was executed, and otherwise with the exception  *)
(* of the last thread of the list that raised, which hides the others.     *)
THEOREM CallersLearn ==
    ASSUME ForcedMode # "Fanout"
    PROVE  Spec => []ReturnTellsTruth
<1>1. Init => IInv /\ LastInv
  <2> SUFFICES ASSUME Init PROVE IInv /\ LastInv OBVIOUS
  <2>1. IInv BY IInvInit
  <2>2. mpc = "idle" /\ op = "none" BY DEF Init
  <2> QED BY <2>1, <2>2 DEF LastInv, MainThrough, LastExceptionWins
<1>2. IInv /\ LastInv /\ [Next]_vars => (IInv /\ LastInv)' BY IInvStep, LastStep
<1>3. BInv /\ LastInv => ReturnTellsTruth BY DEF BInv, LastInv, ReturnTellsTruth
<1> QED BY <1>1, <1>2, <1>3, BatchInvariance, PTL DEF Spec

-----------------------------------------------------------------------------
(* Wake-ups.                                                               *)

(* Somebody has given u work and is about to notify it.                    *)
Rescued(u) == \/ mpc \in {"notify", "knotify"} /\ midx = u
              \/ \E t \in T : wpc[t] = "wnotify" /\ wakeIdx[t] = u

SleepersInv == \A u \in T : wpc[u] = "blocked" /\ waitForWork[u] => Rescued(u)

CallerInv   == mpc = "blocked" =>
                 /\ midx \in T
                 /\ \A c \in T : c = midx /\ jobComplete[c] => wpc[c] = "notify"

(* The caller does not sleep on the variable of a thread that a worker is  *)
(* about to notify: it is past that worker only when it has finished.      *)
LEMMA CallerElsewhere ==
    ASSUME IInv, NEW t \in T, wpc[t] = "wnotify"
    PROVE  wakeIdx[t] \in T /\ ~(mpc = "blocked" /\ midx = wakeIdx[t])
<1> USE DEF IInv, Types
<1>1. InBatch /\ mpc # "set" /\ t < use - 1 /\ ThreadInv(t) /\ Working(t) BY ActiveThread
<1>2. /\ t \in Nat /\ use \in Nat /\ wakeIdx[t] \in Nat /\ info[t] = use
      /\ wake[t][1] \in Nat /\ wake[t][2] \in Nat
      /\ wake[t][1] <= wakeIdx[t] /\ wakeIdx[t] < WakeEnd(t)
  BY SMTT(20), <1>1, ThreadsAssumption DEF ThreadInv, T
<1>3. wakeIdx[t] < wake[t][2] /\ wakeIdx[t] < use - 1 BY SMTT(20), <1>2 DEF WakeEnd, Smaller
<1>4. wake[t][1] > t
  <2>1. TreeShape BY <1>1 DEF BatchInv
  <2>2. CASE wakeFanout = 0
    <3>1. wake[t] = <<0, 0>> BY <2>1, <2>2 DEF TreeShape
    <3> QED BY <1>2, <1>3, <3>1
  <2>3. CASE wakeFanout # 0
    <3> DEFINE f == wakeFanout
    <3>1. f \in Nat /\ f >= 2 /\ wake[t] = FanoutRange(use, f, t)
      BY <1>1, <2>1, <2>3 DEF TreeShape
    <3> HIDE DEF f
    <3>2. wake[t][1] = (t + 1) * f - 1 /\ (t + 1) * f \in Int
      BY <1>1, <1>2, <3>1, RangeBounds
    <3>3. 2 * (t + 1) <= f * (t + 1) BY <1>2, <3>1, ProductMonotone
    <3>4. f * (t + 1) = (t + 1) * f BY <1>2, <3>1
    <3> QED BY <1>2, <3>2, <3>3, <3>4
  <2> QED BY <2>2, <2>3
<1>5. ASSUME mpc = "blocked", midx = wakeIdx[t] PROVE FALSE
  <2>1. t < midx BY <1>2, <1>4, <1>5
  <2>2. Parked(t) BY <1>5, <2>1 DEF WaitingInv
  <2> QED BY <2>2 DEF Parked, Sleeping
<1>6. wakeIdx[t] \in T
  <2>1. use <= MaxThreads /\ MaxThreads \in Nat BY ThreadsAssumption
  <2> QED BY <1>2, <1>3, <2>1 DEF T
<1> QED BY <1>5, <1>6

(* A notify_one on u leaves nobody asleep who waits for u's work, and the  *)
(* others where they are.                                                  *)
LEMMA NotifyWakes ==
    ASSUME NEW u \in T, NEW pcs \in [T -> WorkerPCs], NEW m, Types,
           ~(m = "blocked" /\ midx = u), NotifyOne(u, pcs, m)
    PROVE  /\ wpc'[u] # "blocked" /\ mpc' = m
           /\ pcs[u] # "blocked" => wpc'[u] = pcs[u]
           /\ \A s \in T : s # u => wpc'[s] = pcs[s]
BY DEF NotifyOne

(* A step that gives nobody work, puts nobody to sleep who has any, and    *)
(* leaves those who are about to notify where they are.                    *)
LEMMA SleepersKeep ==
    ASSUME SleepersInv,
           \A u \in T : wpc'[u] = "blocked" /\ waitForWork'[u] =>
                           /\ wpc[u] = "blocked" /\ waitForWork[u]
                           /\ Rescued(u) => Rescued(u)'
    PROVE  SleepersInv'
BY DEF SleepersInv

(* A step that leaves the caller asleep completes no job but by a worker   *)
(* that will notify, and takes no worker out of its notify.                *)
LEMMA CallerKeeps ==
    ASSUME CallerInv,
           mpc' = "blocked" =>
              /\ mpc = "blocked" /\ midx' = midx
              /\ \A c \in T : c = midx =>
                    /\ jobComplete'[c] => jobComplete[c] \/ wpc'[c] = "notify"
                    /\ wpc[c] = "notify" => wpc'[c] = "notify"
    PROVE  CallerInv'
<1> SUFFICES ASSUME mpc' = "blocked"
             PROVE  midx' \in T /\ \A c \in T : c = midx' /\ jobComplete'[c] => wpc'[c] = "notify"
  BY DEF CallerInv
<1> QED BY DEF CallerInv

LEMMA WakeWorker ==
    ASSUME IInv, SleepersInv, CallerInv, NEW t \in T, Worker(t) \/ WorkerSpurious(t)
    PROVE  SleepersInv' /\ CallerInv'
<1> USE DEF IInv, Types
<1>0. Types OBVIOUS
<1>1. CASE WorkerSleep(t) \/ WorkerSpurious(t) \/ WorkerTakeJob(t) \/ WorkerProcess(t)
  <2>1. /\ mpc' = mpc /\ midx' = midx /\ jobComplete' = jobComplete
        /\ \A s \in T : s # t => /\ wpc'[s] = wpc[s] /\ waitForWork'[s] = waitForWork[s]
                                 /\ wakeIdx'[s] = wakeIdx[s]
        /\ wpc[t] \notin {"wnotify", "notify"}
    BY <1>1 DEF WorkerSleep, WorkerSpurious, WorkerTakeJob, WorkerProcess, callVars
  <2>2. ~(wpc'[t] = "blocked" /\ waitForWork'[t])
    BY <1>1 DEF WorkerSleep, WorkerSpurious, WorkerTakeJob, WorkerProcess
  <2>3. \A u \in T : Rescued(u) => Rescued(u)' BY <2>1 DEF Rescued
  <2>4. SleepersInv' BY <2>1, <2>2, <2>3, SleepersKeep
  <2>5. CallerInv' BY <2>1, CallerKeeps
  <2> QED BY <2>4, <2>5
<1>2. CASE WorkerStartPeer(t)
  <2> SUFFICES ASSUME NEW u \in T, u = wakeIdx[t] PROVE SleepersInv' /\ CallerInv'
    BY <1>2, PeerIsUnstarted DEF WorkerStartPeer
  <2>1. /\ mpc' = mpc /\ midx' = midx /\ wakeIdx' = wakeIdx
        /\ waitForWork' = [waitForWork EXCEPT ![u] = TRUE]
        /\ jobComplete' = [jobComplete EXCEPT ![u] = FALSE]
        /\ wpc[t] = "wake" /\ wpc' = [wpc EXCEPT ![t] = "wnotify"]
    BY <1>2 DEF WorkerStartPeer, SetStarted, callVars
  <2>2. Rescued(u)' BY <2>1 DEF Rescued
  <2>3. \A s \in T : Rescued(s) => Rescued(s)' BY <2>1 DEF Rescued
  <2>4. SleepersInv' BY <2>1, <2>2, <2>3 DEF SleepersInv
  <2>5. CallerInv' BY <2>1, CallerKeeps
  <2> QED BY <2>4, <2>5
<1>3. CASE WorkerNotifyPeer(t)
  <2> DEFINE pcs == [wpc EXCEPT ![t] = IF wakeIdx[t] + 1 < WakeEnd(t) THEN "wake" ELSE "run"]
  <2>1. wpc[t] = "wnotify" /\ NotifyOne(wakeIdx[t], pcs, mpc)
        /\ waitForWork' = waitForWork /\ jobComplete' = jobComplete /\ midx' = midx
        /\ \A s \in T : s # t => wakeIdx'[s] = wakeIdx[s]
    BY <1>3 DEF WorkerNotifyPeer
  <2>2. pcs \in [T -> WorkerPCs] /\ pcs[t] \in {"wake", "run"} /\ \A s \in T : s # t => pcs[s] = wpc[s]
    BY DEF WorkerPCs
  <2> HIDE DEF pcs
  <2> SUFFICES ASSUME NEW u \in T, u = wakeIdx[t] PROVE SleepersInv' /\ CallerInv'
    BY <2>1, CallerElsewhere
  <2>3. ~(mpc = "blocked" /\ midx = u) BY <2>1, CallerElsewhere
  <2>4. /\ wpc'[u] # "blocked" /\ mpc' = mpc
        /\ pcs[u] # "blocked" => wpc'[u] = pcs[u]
        /\ \A s \in T : s # u => wpc'[s] = pcs[s]
    BY <1>0, <2>1, <2>2, <2>3, NotifyWakes
  <2>5. ASSUME NEW s \in T, s # u, Rescued(s) PROVE Rescued(s)'
    <3>1. CASE mpc \in {"notify", "knotify"} /\ midx = s BY <2>1, <2>4, <3>1 DEF Rescued
    <3>2. ASSUME NEW q \in T, wpc[q] = "wnotify", wakeIdx[q] = s PROVE Rescued(s)'
      <4>1. q # t BY <2>5, <3>2
      <4>2. pcs[q] = "wnotify" BY <2>2, <3>2, <4>1
      <4>3. wpc'[q] = "wnotify" BY <2>4, <4>2
      <4> QED BY <2>1, <3>2, <4>1, <4>3 DEF Rescued
    <3> QED BY <2>5, <3>1, <3>2 DEF Rescued
  <2>6. ASSUME NEW s \in T, wpc'[s] = "blocked", waitForWork'[s]
        PROVE  wpc[s] = "blocked" /\ waitForWork[s] /\ (Rescued(s) => Rescued(s)')
    <3>1. s # u BY <2>4, <2>6
    <3>2. pcs[s] = "blocked" BY <2>4, <2>6, <3>1
    <3> QED BY <2>1, <2>2, <2>5, <2>6, <3>1, <3>2
  <2>7. SleepersInv' BY <2>6, SleepersKeep
  <2>8. ASSUME NEW c \in T, wpc[c] = "notify" PROVE wpc'[c] = "notify"
    <3>1. c # t BY <2>1, <2>8
    <3> QED BY <2>2, <2>4, <2>8, <3>1
  <2>9. CallerInv' BY <2>1, <2>4, <2>8, CallerKeeps
  <2> QED BY <2>7, <2>9
<1>4. CASE WorkerFinish(t)
  <2>1. /\ mpc' = mpc /\ midx' = midx /\ waitForWork' = waitForWork
        /\ wpc[t] = "fin" /\ wpc'[t] = "notify" /\ jobComplete'[t]
        /\ \A s \in T : s # t => /\ wpc'[s] = wpc[s] /\ jobComplete'[s] = jobComplete[s]
                                 /\ wakeIdx'[s] = wakeIdx[s]
    BY <1>4 DEF WorkerFinish, callVars
  <2>2. \A u \in T : Rescued(u) => Rescued(u)' BY <2>1 DEF Rescued
  <2>3. SleepersInv' BY <2>1, <2>2, SleepersKeep
  <2>4. CallerInv' BY <2>1, CallerKeeps
  <2> QED BY <2>3, <2>4
<1>5. CASE WorkerNotify(t)
  <2> DEFINE pcs == [wpc EXCEPT ![t] = "lock"]
  <2>1. wpc[t] = "notify" /\ NotifyOne(t, pcs, mpc)
        /\ waitForWork' = waitForWork /\ jobComplete' = jobComplete /\ midx' = midx
        /\ wakeIdx' = wakeIdx
    BY <1>5 DEF WorkerNotify
  <2>2. pcs \in [T -> WorkerPCs] /\ pcs[t] = "lock" /\ \A s \in T : s # t => pcs[s] = wpc[s]
    BY DEF WorkerPCs
  <2> HIDE DEF pcs
  <2>3. wpc' = pcs /\ (mpc = "blocked" /\ midx = t => mpc' = "wait")
        /\ (~(mpc = "blocked" /\ midx = t) => mpc' = mpc)
    BY <2>1, <2>2 DEF NotifyOne
  <2>4. \A u \in T : Rescued(u) => Rescued(u)' BY <2>1, <2>2, <2>3 DEF Rescued
  <2>5. \A s \in T : wpc'[s] = "blocked" => wpc[s] = "blocked" BY <2>2, <2>3
  <2>6. SleepersInv' BY <2>1, <2>4, <2>5, SleepersKeep
  <2>7. CallerInv' BY <2>1, <2>2, <2>3, CallerKeeps
  <2> QED BY <2>6, <2>7
<1> QED BY <1>1, <1>2, <1>3, <1>4, <1>5 DEF Worker

(* The steps of the caller that notify nobody and do not go to sleep.      *)
LEMMA WakeQuiet ==
    ASSUME SleepersInv,
           mpc' # "blocked", mpc \notin {"notify", "knotify"},
           wakeIdx' = wakeIdx,
           \A s \in T : /\ wpc[s] = "wnotify" => wpc'[s] = "wnotify"
                        /\ wpc'[s] = "blocked" => wpc[s] = "blocked"
                        /\ waitForWork'[s] => waitForWork[s]
    PROVE  SleepersInv' /\ CallerInv'
<1>1. \A u \in T : Rescued(u) => Rescued(u)' BY DEF Rescued
<1>2. SleepersInv' BY <1>1, SleepersKeep
<1> QED BY <1>2 DEF CallerInv

(* The two places where the caller starts a thread, and its notify_one.    *)
LEMMA WakeStart ==
    ASSUME Types, SleepersInv, MainStart \/ KillStart
    PROVE  SleepersInv' /\ CallerInv'
<1> USE DEF Types
<1> SUFFICES ASSUME NEW u \in T, u = midx PROVE SleepersInv' /\ CallerInv'
  BY DEF MainStart, KillStart, Pool
<1>1. /\ waitForWork' = [waitForWork EXCEPT ![u] = TRUE]
      /\ mpc \notin {"notify", "knotify"} /\ mpc' \in {"notify", "knotify"}
      /\ midx' = midx /\ wpc' = wpc /\ wakeIdx' = wakeIdx
  BY DEF MainStart, KillStart, SetStarted
<1>2. Rescued(u)' BY <1>1 DEF Rescued
<1>3. \A s \in T : Rescued(s) => Rescued(s)' BY <1>1 DEF Rescued
<1>4. SleepersInv' BY <1>1, <1>2, <1>3 DEF SleepersInv
<1> QED BY <1>1, <1>4 DEF CallerInv

LEMMA WakeNotify ==
    ASSUME IInv, SleepersInv, MainNotify \/ KillNotify
    PROVE  SleepersInv' /\ CallerInv'
<1> USE DEF IInv, Types
<1>0. Types OBVIOUS
<1>1. midx \in T
  <2>1. CASE MainNotify
    <3>1. BatchInv /\ TreeShape /\ InBatch /\ use \in Nat /\ midx \in Nat /\ MaxThreads \in Nat
          /\ use <= MaxThreads /\ mpc = "notify"
      BY <2>1, ThreadsAssumption DEF MainNotify, BatchInv, InBatch
    <3>2. ToStart <= use - 1 /\ ToStart \in Int BY <3>1 DEF TreeShape, ToStart
    <3>3. midx < ToStart BY <3>1 DEF WaitingInv
    <3> QED BY <3>1, <3>2, <3>3 DEF T
  <2>2. CASE KillNotify BY <2>2 DEF KillNotify, KillInv, InKill, Pool
  <2> QED BY <2>1, <2>2
<1> SUFFICES ASSUME NEW u \in T, u = midx PROVE SleepersInv' /\ CallerInv'
  BY <1>1
<1>2. /\ NotifyOne(u, wpc, "start") \/ NotifyOne(u, wpc, "join")
      /\ waitForWork' = waitForWork /\ wakeIdx' = wakeIdx
  BY DEF MainNotify, KillNotify
<1>3. /\ wpc'[u] # "blocked" /\ mpc' \in {"start", "join"}
      /\ wpc[u] # "blocked" => wpc'[u] = wpc[u]
      /\ \A s \in T : s # u => wpc'[s] = wpc[s]
  BY <1>0, <1>2, NotifyWakes
<1>4. ASSUME NEW s \in T, s # u, Rescued(s) PROVE Rescued(s)'
  <2>1. PICK q \in T : wpc[q] = "wnotify" /\ wakeIdx[q] = s BY <1>4 DEF Rescued
  <2>2. wpc'[q] = "wnotify" BY <1>3, <2>1
  <2> QED BY <1>2, <2>1, <2>2 DEF Rescued
<1>5. \A s \in T : wpc'[s] = "blocked" => s # u /\ wpc[s] = "blocked" BY <1>3
<1>6. SleepersInv' BY <1>2, <1>4, <1>5, SleepersKeep
<1> QED BY <1>3, <1>6 DEF CallerInv

LEMMA WakeSleep ==
    ASSUME Types, SleepersInv, MainSleep \/ MainSpurious
    PROVE  SleepersInv' /\ CallerInv'
<1> USE DEF Types
<1>1. /\ mpc \in {"wait", "blocked"} /\ mpc' \in {"wait", "blocked"} /\ midx' = midx
      /\ wpc' = wpc /\ wakeIdx' = wakeIdx /\ waitForWork' = waitForWork
      /\ jobComplete' = jobComplete
  BY DEF MainSleep, MainSpurious, threadVars
<1>2. \A u \in T : Rescued(u) => Rescued(u)' BY <1>1 DEF Rescued
<1>3. SleepersInv' BY <1>1, <1>2, SleepersKeep
<1>4. mpc' = "blocked" => midx \in T /\ ~jobComplete[midx]
  BY ThreadsAssumption DEF MainSleep, MainSpurious, T
<1> QED BY <1>1, <1>3, <1>4 DEF CallerInv

LEMMA WakeMain ==
    ASSUME IInv, SleepersInv, Main \/ MainSpurious \/ Operation
    PROVE  SleepersInv' /\ CallerInv'
<1>0. Types BY DEF IInv
<1>1. CASE MainStart \/ KillStart BY <1>0, <1>1, WakeStart
<1>2. CASE MainNotify \/ KillNotify BY <1>2, WakeNotify
<1>3. CASE MainSleep \/ MainSpurious BY <1>0, <1>3, WakeSleep
<1>4. CASE \/ SetWorkload \/ WorkloadsSet \/ MainStarted \/ MainStartPastEnd
           \/ MainProcess \/ MainWaited \/ Return \/ Destroyed
  <2>1. /\ mpc \notin {"notify", "knotify"} /\ mpc' # "blocked"
        /\ wpc' = wpc /\ waitForWork' = waitForWork /\ wakeIdx' = wakeIdx
    BY <1>4 DEF SetWorkload, WorkloadsSet, MainStarted, MainStartPastEnd, MainProcess,
                MainWaited, Return, Destroyed, threadVars
  <2> QED BY <2>1, WakeQuiet
<1>5. CASE Operation
  <2>1. /\ mpc \notin {"notify", "knotify"} /\ mpc' # "blocked"
        /\ wpc' = wpc /\ waitForWork' = waitForWork /\ wakeIdx' = wakeIdx
    BY <1>5 DEF Operation, RunWorkloads, RunNoWorkloads, SetNumThreads,
                SetNumThreadsWithAffinity, Destroy, Resize, threadVars
  <2> QED BY <2>1, WakeQuiet
<1>6. CASE KillJoin
  <2>1. /\ mpc \notin {"notify", "knotify"} /\ mpc' # "blocked"
        /\ waitForWork' = waitForWork /\ wakeIdx' = wakeIdx
        /\ \A s \in T : /\ wpc[s] = "wnotify" => wpc'[s] = "wnotify"
                        /\ wpc'[s] = "blocked" => wpc[s] = "blocked"
    BY <1>0, <1>6 DEF KillJoin, Types
  <2> QED BY <2>1, WakeQuiet
<1>7. CASE Resized
  <2>1. /\ mpc \notin {"notify", "knotify"} /\ mpc' # "blocked" /\ wakeIdx' = wakeIdx
        /\ \A s \in T : /\ wpc[s] = "wnotify" => wpc'[s] = "wnotify"
                        /\ wpc'[s] = "blocked" => wpc[s] = "blocked"
                        /\ waitForWork'[s] => waitForWork[s]
    BY <1>0, <1>7 DEF Resized, FreshThread, Pool
  <2> QED BY <2>1, WakeQuiet
<1> QED BY <1>1, <1>2, <1>3, <1>4, <1>5, <1>6, <1>7 DEF Main

LEMMA WakeStutter ==
    ASSUME SleepersInv, CallerInv, UNCHANGED vars
    PROVE  SleepersInv' /\ CallerInv'
BY DEF SleepersInv, CallerInv, Rescued, vars, threadVars, callVars

LEMMA WakeInvariance ==
    ASSUME ForcedMode # "Fanout"
    PROVE  Spec => [](IInv /\ SleepersInv /\ CallerInv)
<1>1. Init => IInv /\ SleepersInv /\ CallerInv
  <2>1. Init => IInv BY IInvInit
  <2> QED BY <2>1 DEF Init, SleepersInv, CallerInv
<1>2. IInv /\ SleepersInv /\ CallerInv /\ [Next]_vars => (IInv /\ SleepersInv /\ CallerInv)'
  <2> SUFFICES ASSUME IInv, SleepersInv, CallerInv, [Next]_vars
               PROVE  (IInv /\ SleepersInv /\ CallerInv)'
    OBVIOUS
  <2>1. IInv' BY IInvStep
  <2>2. CASE UNCHANGED vars BY <2>1, <2>2, WakeStutter
  <2>3. CASE Next
    BY <2>1, <2>2, <2>3, WakeMain, WakeWorker DEF Next, Spurious, Finished
  <2> QED BY <2>2, <2>3
<1> QED BY <1>1, <1>2, PTL DEF Spec

(* A worker and the caller sleep on one condition variable, and notify_one *)
(* wakes one of them: no wake-up is lost all the same.  Whoever sleeps     *)
(* with his condition true is about to be notified, and the caller never   *)
(* sleeps where it could take the call.                                    *)
THEOREM NoWakeUpIsLost ==
    ASSUME ForcedMode # "Fanout"
    PROVE  Spec => []NoLostWakeup
<1>1. ASSUME IInv, SleepersInv, CallerInv PROVE NoLostWakeup
  <2>1. ASSUME NEW u \in T, wpc[u] = "blocked", waitForWork[u]
        PROVE  Rescued(u) /\ ~(mpc = "blocked" /\ midx = u)
    <3>1. Rescued(u) BY <1>1, <2>1 DEF SleepersInv
    <3>2. ASSUME mpc = "blocked", midx = u PROVE FALSE
      <4>1. PICK t \in T : wpc[t] = "wnotify" /\ wakeIdx[t] = u BY <3>1, <3>2 DEF Rescued
      <4> QED BY <1>1, <3>2, <4>1, CallerElsewhere
    <3> QED BY <3>1, <3>2
  <2>2. mpc = "blocked" /\ jobComplete[midx] => wpc[midx] = "notify"
    BY <1>1 DEF CallerInv
  <2> QED BY <2>1, <2>2 DEF NoLostWakeup, Rescued
<1>2. Spec => [](IInv /\ SleepersInv /\ CallerInv) BY WakeInvariance
<1> QED BY <1>1, <1>2, PTL
-----------------------------------------------------------------------------
(* Refinement of WorkloadBatch.                                            *)

(* A batch is only ever being served for a call of run_workloads.          *)
OpInv == InBatch => op = "run"

BatchResult == IF op = "run" THEN result ELSE IF op = "none" THEN "none" ELSE "ok"

(* A step that a caller of run_workloads cannot see.                       *)
Unseen == UNCHANGED <<InBatch, outcome, BatchResult>>

LEMMA UnseenImplements ==
    ASSUME Unseen
    PROVE  UNCHANGED Batch!batchVars
BY DEF Unseen, Batch!batchVars, InBatch, BatchResult

LEMMA WorkerImplements ==
    ASSUME IInv, BInv, OpInv, NEW t \in T, Worker(t) \/ WorkerSpurious(t)
    PROVE  [Batch!BatchNext]_(Batch!batchVars) /\ OpInv'
<1>1. op' = op /\ result' = result
  BY DEF Worker, WorkerSleep, WorkerTakeJob, WorkerSpurious, WorkerStartPeer, WorkerNotifyPeer,
         WorkerProcess, WorkerFinish, WorkerNotify, callVars
<1>2. InBatch' = InBatch
  BY DEF Worker, WorkerSleep, WorkerTakeJob, WorkerSpurious, WorkerStartPeer, WorkerNotifyPeer,
         WorkerProcess, WorkerFinish, WorkerNotify, callVars, NotifyOne, InBatch
<1>3. OpInv' BY <1>1, <1>2 DEF OpInv
<1>4. CASE ~WorkerProcess(t)
  <2>1. outcome' = outcome
    BY <1>4 DEF Worker, WorkerSleep, WorkerTakeJob, WorkerSpurious, WorkerStartPeer,
         WorkerNotifyPeer, WorkerFinish, WorkerNotify
  <2> QED BY <1>1, <1>2, <1>3, <2>1, UnseenImplements DEF Unseen, BatchResult
<1>5. CASE WorkerProcess(t)
  <2>1. PICK o \in Failures \union {"done"} : Record(cur[t], o) BY <1>5 DEF WorkerProcess
  <2>2. InBatch /\ Fresh(cur[t]) BY <1>5, ProcessFacts
  <2>3. outcome' = [outcome EXCEPT ![cur[t]] = o] BY <2>1, <2>2, RecordFresh
  <2>4. Batch!Execute(cur[t], o)
    BY <1>1, <1>2, <2>2, <2>3 DEF Batch!Execute, Fresh, InBatch
  <2>5. Batch!BatchNext BY <2>2, <2>4 DEF Batch!BatchNext, Fresh
  <2> QED BY <1>3, <2>5
<1> QED BY <1>4, <1>5

LEMMA OperationImplements ==
    ASSUME OpInv, Operation
    PROVE  Batch!BatchNext /\ OpInv'
<1>1. mpc = "idle" /\ ~InBatch BY DEF Operation, RunWorkloads, RunNoWorkloads, SetNumThreads,
        SetNumThreadsWithAffinity, Destroy, Resize, InBatch
<1>2. ASSUME NEW k \in 1..MaxWorkloads, RunWorkloads(k) PROVE Batch!BatchNext /\ OpInv'
  <2>1. /\ mpc' = "set" /\ op' = "run" /\ result' = "none"
        /\ outcome' = [w \in 0..k-1 |-> "pending"]
    BY <1>2 DEF RunWorkloads
  <2>2. Batch!Submit(k) BY <1>1, <2>1 DEF Batch!Submit
  <2> QED BY <2>1, <2>2 DEF Batch!BatchNext, OpInv
<1>3. CASE RunNoWorkloads
  <2>1. mpc' = "idle" /\ op' = "run" /\ result' = "ok" /\ outcome' = NoWork
    BY <1>1, <1>3 DEF RunNoWorkloads
  <2>2. Batch!SubmitNothing BY <1>1, <2>1 DEF Batch!SubmitNothing, NoWork
  <2> QED BY <2>1, <2>2 DEF Batch!BatchNext, OpInv
<1>4. CASE \E req \in 0..MaxThreads : SetNumThreads(req) \/ SetNumThreadsWithAffinity(req) \/ Destroy
  <2>1. mpc' = "kill" /\ op' \in {"resize", "destroy"} /\ outcome' = NoWork
    BY <1>4 DEF SetNumThreads, SetNumThreadsWithAffinity, Destroy, Resize
  <2>2. Batch!SubmitNothing BY <1>1, <2>1 DEF Batch!SubmitNothing, NoWork
  <2> QED BY <2>1, <2>2 DEF Batch!BatchNext, OpInv, InBatch
<1>5. CASE Destroy
  <2>1. mpc' = "kill" /\ op' = "destroy" /\ outcome' = NoWork BY <1>5 DEF Destroy, Resize
  <2>2. Batch!SubmitNothing BY <1>1, <2>1 DEF Batch!SubmitNothing, NoWork
  <2> QED BY <2>1, <2>2 DEF Batch!BatchNext, OpInv, InBatch
<1> QED BY <1>2, <1>3, <1>4, <1>5 DEF Operation

LEMMA ReturnImplements ==
    ASSUME IInv, BInv, BInv', OpInv, Return
    PROVE  Batch!BatchNext
<1> USE DEF IInv, Types
<1>1. /\ mpc = "wait" /\ mpc' = "idle" /\ op' = op /\ outcome' = outcome
      /\ result' = CASE mexc = "none"   -> "ok"
                     [] mexc = "error"  -> "throw"
                     [] mexc = "system" -> "swallowed"
  BY DEF Return
<1>2. InBatch /\ op = "run" /\ MainThrough BY <1>1 DEF InBatch, OpInv, MainThrough
<1>3. mexc # "none" => Raised(mexc)
  BY <1>2, WhoFacts DEF BInv, RaisedInv, Through, ExcOf
<1>4. result' = "ok" => \A w \in DOMAIN outcome : outcome[w] = "done"
  BY <1>1, <1>2 DEF BInv, ResultAgrees
<1>5. \/ result' = "ok"
      \/ result' = "throw" /\ Raised("error")
      \/ result' = "swallowed" /\ Raised("system")
  <2>1. mexc = "none" \/ mexc = "error" \/ mexc = "system" BY DEF Exceptions
  <2>2. CASE mexc = "none" BY <1>1, <2>2
  <2>3. CASE mexc = "error" BY <1>1, <1>3, <2>3
  <2>4. CASE mexc = "system" BY <1>1, <1>3, <2>4
  <2> QED BY <2>1, <2>2, <2>3, <2>4
<1>6. Batch!Return
  <2>1. BatchResult' = result' BY <1>1, <1>2 DEF BatchResult
  <2>2. InBatch /\ InBatch' = FALSE BY <1>1 DEF InBatch
  <2>3. (Raised("error") <=> Batch!Raised("error")) /\ (Raised("system") <=> Batch!Raised("system"))
    BY DEF Raised, Batch!Raised
  <2>4. \/ BatchResult' = "ok"        /\ \A w \in DOMAIN outcome : outcome[w] = "done"
        \/ BatchResult' = "throw"     /\ Batch!Raised("error")
        \/ BatchResult' = "swallowed" /\ Batch!Raised("system")
    BY <1>4, <1>5, <2>1, <2>3
  <2> HIDE DEF IInv, Types
  <2> QED BY ONLY <1>1, <2>2, <2>4 DEF Batch!Return, BatchResult, InBatch
<1> QED BY <1>6 DEF Batch!BatchNext

LEMMA MainImplements ==
    ASSUME IInv, IInv', BInv, BInv', OpInv, Main \/ MainSpurious
    PROVE  [Batch!BatchNext]_(Batch!batchVars) /\ OpInv'
<1>1. CASE MainProcess
  <2>1. PICK o \in Failures \union {"done"} : Record(mcur, o) BY <1>1 DEF MainProcess
  <2>2. InBatch /\ InBatch' /\ Fresh(mcur) BY <1>1, MainProcessFacts
  <2>3. outcome' = [outcome EXCEPT ![mcur] = o] BY <2>1, <2>2, RecordFresh
  <2>4. op' = op /\ result' = result BY <1>1 DEF MainProcess
  <2>5. Batch!Execute(mcur, o)
    BY <2>2, <2>3, <2>4 DEF Batch!Execute, Fresh, InBatch
  <2> QED BY <2>2, <2>4, <2>5 DEF Batch!BatchNext, Fresh, OpInv
<1>2. CASE Return
  <2>1. OpInv' BY <1>2 DEF Return, OpInv, InBatch
  <2> QED BY <1>2, <2>1, ReturnImplements
<1>3. CASE \/ SetWorkload \/ WorkloadsSet \/ MainStart \/ MainNotify \/ MainStarted
           \/ MainSleep \/ MainWaited \/ MainSpurious
  <2>1. InBatch /\ InBatch' /\ op' = op /\ result' = result /\ outcome' = outcome
    BY <1>3 DEF SetWorkload, WorkloadsSet, MainStart, MainNotify, MainStarted, MainSleep,
                MainWaited, MainSpurious, NotifyOne, InBatch
  <2> QED BY <2>1, UnseenImplements DEF Unseen, BatchResult, OpInv
<1>4. CASE KillStart \/ KillNotify \/ KillJoin \/ Resized \/ Destroyed
  <2>1. ~InBatch /\ ~InBatch' /\ InKill /\ op' = op /\ outcome' = outcome
    BY <1>4 DEF KillStart, KillNotify, KillJoin, Resized, Destroyed, NotifyOne, InBatch, InKill
  <2>2. op \in {"resize", "destroy"} BY <2>1 DEF IInv, KillInv
  <2>3. BatchResult' = BatchResult BY <2>1, <2>2 DEF BatchResult
  <2>4. InBatch' = InBatch BY <2>1 DEF InBatch
  <2>5. OpInv' BY <2>1 DEF OpInv
  <2> QED BY <2>1, <2>3, <2>4, <2>5, UnseenImplements DEF Unseen
<1>5. CASE MainStartPastEnd BY <1>5 DEF MainStartPastEnd, IInv, IdleInv
<1> QED BY <1>1, <1>2, <1>3, <1>4, <1>5 DEF Main

LEMMA StepImplements ==
    ASSUME ForcedMode # "Fanout"
    PROVE  /\ IInv /\ ExcInv /\ BInv /\ OpInv /\ [Next]_vars
           => [Batch!BatchNext]_(Batch!batchVars) /\ (IInv /\ ExcInv /\ BInv /\ OpInv)'
<1> SUFFICES ASSUME IInv, ExcInv, BInv, OpInv, [Next]_vars
             PROVE  [Batch!BatchNext]_(Batch!batchVars) /\ (IInv /\ ExcInv /\ BInv /\ OpInv)'
  OBVIOUS
<1>1. IInv' /\ ExcInv' /\ BInv' BY BatchStep
<1>2. CASE Operation BY <1>1, <1>2, OperationImplements
<1>3. CASE Main \/ MainSpurious BY <1>1, <1>3, MainImplements
<1>4. ASSUME NEW t \in T, Worker(t) \/ WorkerSpurious(t)
      PROVE  [Batch!BatchNext]_(Batch!batchVars) /\ OpInv'
  BY <1>4, WorkerImplements
<1>5. CASE UNCHANGED vars
  <2>1. InBatch' = InBatch /\ op' = op /\ result' = result /\ outcome' = outcome
    BY <1>5 DEF vars, callVars, InBatch
  <2> QED BY <1>1, <2>1, UnseenImplements DEF Unseen, BatchResult, OpInv
<1> QED BY <1>1, <1>2, <1>3, <1>4, <1>5 DEF Next, Spurious, Finished

(* To its callers the thread pool is the module WorkloadBatch: batches one *)
(* at a time, each workload at most once while the call lasts, and a       *)
(* result that agrees with what the workloads did.                         *)
THEOREM PoolImplementsBatch ==
    ASSUME ForcedMode # "Fanout"
    PROVE  Spec => ImplementsBatch
<1>1. Init => Batch!BatchInit /\ IInv /\ ExcInv /\ BInv /\ OpInv
  <2>1. Init => Batch!BatchInit /\ OpInv BY DEF Init, Batch!BatchInit, OpInv, InBatch, NoWork
  <2> QED BY <2>1, BatchInit
<1>2. /\ IInv /\ ExcInv /\ BInv /\ OpInv /\ [Next]_vars
      => [Batch!BatchNext]_(Batch!batchVars) /\ (IInv /\ ExcInv /\ BInv /\ OpInv)'
  BY StepImplements
<1> QED BY <1>1, <1>2, PTL DEF Spec, ImplementsBatch, Batch!BatchSpec
=============================================================================
