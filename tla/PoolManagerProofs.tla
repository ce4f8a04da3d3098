------------------------- MODULE PoolManagerProofs -------------------------
(***************************************************************************)
(* Theorems about the pool manager, for any finite set of threads and any  *)
(* number of pools.  The semaphore and the list of free pools are changed  *)
(* at different times and under different locks; the invariant counts the  *)
(* threads that are between the two.                                       *)
(***************************************************************************)
EXTENDS PoolManager, FiniteSetTheorems, TLAPS

In(pcs) == {t \in Threads : pc[t] \in pcs}

(* Threads that have a unit of the semaphore and no pool yet, or that gave *)
(* a pool back and not yet the unit.                                       *)
Owing == In({"take", "signal"})

(* Threads that will look at the semaphore, or make a sleeper look at it.  *)
Alert == In({"wait", "notify"})

Distinct == \A i, j \in DOMAIN free : free[i] = free[j] => i = j

HeldInv ==
    /\ occupied = {pool[t] : t \in In({"held"})}
    /\ \A t \in Threads : pc[t] = "held" => pool[t] \in Pools
    /\ \A t, u \in Threads : pc[t] = "held" /\ pc[u] = "held" /\ pool[t] = pool[u] => t = u
    /\ \A t \in Threads, i \in DOMAIN free : pc[t] = "held" => free[i] # pool[t]

MutexInv == \A t \in Threads : pc[t] \in {"signal", "notify"} => mtx = t

CountInv ==
    \/ sem \in Nat /\ Len(free) = sem + Cardinality(Owing)
    \/ /\ sem = -1 /\ free = <<>> /\ occupied = {}
       /\ \A t \in Threads : pc[t] \in {"idle", "check", "failed"}

WakeInv == Asleep # {} => sem <= Cardinality(Alert)

IInv == TypeOK /\ Distinct /\ HeldInv /\ MutexInv /\ CountInv /\ WakeInv
-----------------------------------------------------------------------------
LEMMA SmallSets ==
    ASSUME NEW S \in SUBSET Threads
    PROVE  /\ IsFiniteSet(S) /\ Cardinality(S) \in Nat
           /\ \A t \in S : Cardinality(S) >= 1 /\ Cardinality(S \ {t}) = Cardinality(S) - 1
           /\ \A t \in Threads \ S : Cardinality(S \union {t}) = Cardinality(S) + 1
<1>1. IsFiniteSet(S) /\ Cardinality(S) \in Nat
  BY FS_Subset, FS_CardinalityType, PoolManagerAssumption
<1>2. ASSUME NEW t \in S
      PROVE  Cardinality(S) >= 1 /\ Cardinality(S \ {t}) = Cardinality(S) - 1
  <2>1. Cardinality(S) # 0 BY <1>1, FS_EmptySet
  <2>2. Cardinality(S \ {t}) = Cardinality(S) - 1 BY <1>1, FS_RemoveElement
  <2> QED BY <1>1, <2>1, <2>2
<1>3. ASSUME NEW t \in Threads \ S
      PROVE  Cardinality(S \union {t}) = Cardinality(S) + 1
  BY <1>1, FS_AddElement
<1> QED BY <1>1, <1>2, <1>3

(* t is done and wakes u.                                                  *)
LEMMA NotifyMoves ==
    ASSUME pc \in [Threads -> PCs], NEW t \in Threads, NEW u \in Threads,
           pc[t] = "notify", pc[u] = "asleep",
           pc' = [pc EXCEPT ![u] = "wait", ![t] = "idle"]
    PROVE  /\ Owing' = Owing
           /\ Alert' = (Alert \ {t}) \union {u}
           /\ t \in Alert /\ u \notin Alert
BY DEF In, Owing, Alert
-----------------------------------------------------------------------------
(* Types *)

LEMMA TypeInit == Init => TypeOK
BY DEF Init, TypeOK, PCs

LEMMA TypeStep == TypeOK /\ HeldInv /\ [Next]_vars => TypeOK'
<1> SUFFICES ASSUME TypeOK, HeldInv, [Next]_vars PROVE TypeOK' OBVIOUS
<1> USE DEF TypeOK, PCs
<1>1. CASE UNCHANGED vars
  BY <1>1 DEF vars
<1>2. ASSUME NEW t \in Threads, Acquire(t) \/ CheckOccupied(t) \/ Fail(t) PROVE TypeOK'
  BY <1>2 DEF Acquire, CheckOccupied, Fail
<1>3. ASSUME NEW t \in Threads, SemWait(t) PROVE TypeOK'
  BY <1>3 DEF SemWait
<1>4. ASSUME NEW t \in Threads, Spurious(t) PROVE TypeOK'
  BY <1>4 DEF Spurious
<1>5. ASSUME NEW t \in Threads, TakePool(t) PROVE TypeOK'
  <2>1. Head(free) \in Pools /\ Tail(free) \in Seq(Pools) BY <1>5 DEF TakePool
  <2> QED BY <1>5, <2>1 DEF TakePool
<1>6. ASSUME NEW t \in Threads, Release(t) PROVE TypeOK'
  <2>1. pool[t] \in Pools BY <1>6 DEF Release, HeldInv
  <2>2. <<pool[t]>> \o free \in Seq(Pools) BY <2>1
  <2> QED BY <1>6, <2>2 DEF Release
<1>7. ASSUME NEW t \in Threads, Signal(t) PROVE TypeOK'
  BY <1>7 DEF Signal
<1>8. ASSUME NEW t \in Threads, Notify(t) PROVE TypeOK'
  BY <1>8 DEF Notify, Asleep
<1>9. ASSUME NEW p \in Pools, RegisterPool(p) PROVE TypeOK'
  <2>1. <<p>> \o free \in Seq(Pools) /\ Len(free) \in Nat OBVIOUS
  <2> QED BY <1>9, <2>1 DEF RegisterPool
<1>10. CASE ReleasePool
  <2>1. Tail(free) \in Seq(Pools) /\ Len(free) - 1 \in Nat BY <1>10 DEF ReleasePool
  <2> QED BY <1>10, <2>1 DEF ReleasePool
<1>11. CASE ClearPools
  BY <1>11 DEF ClearPools
<1> QED BY <1>1, <1>2, <1>3, <1>4, <1>5, <1>6, <1>7, <1>8, <1>9, <1>10, <1>11
        DEF Next, Configure, Thread

-----------------------------------------------------------------------------
(* Every pool is on the free list once or held by one thread.              *)

LEMMA ListStep == TypeOK /\ Distinct /\ HeldInv /\ MutexInv /\ [Next]_vars
                    => Distinct' /\ HeldInv' /\ MutexInv'
<1> SUFFICES ASSUME TypeOK, Distinct, HeldInv, MutexInv, [Next]_vars
             PROVE  Distinct' /\ HeldInv' /\ MutexInv'
  OBVIOUS
<1> USE DEF Distinct, HeldInv, MutexInv, In
<1>1. CASE UNCHANGED vars
  BY <1>1 DEF vars
<1>2. ASSUME NEW t \in Threads,
             \/ Acquire(t) \/ CheckOccupied(t) \/ Fail(t)
             \/ SemWait(t) \/ Spurious(t) \/ Signal(t) \/ Notify(t)
      PROVE  Distinct' /\ HeldInv' /\ MutexInv'
  <2>1. \A u \in Threads : /\ pc'[u] = "held" <=> pc[u] = "held"
                           /\ pc[u] = "held" => pool'[u] = pool[u]
    BY <1>2 DEF Acquire, CheckOccupied, Fail, SemWait, Spurious, Signal, Notify, Asleep, TypeOK
  <2>2. UNCHANGED <<free, occupied>>
    BY <1>2 DEF Acquire, CheckOccupied, Fail, SemWait, Spurious, Signal, Notify
  <2>3. MutexInv'
    BY <1>2 DEF Acquire, CheckOccupied, Fail, SemWait, Spurious, Signal, Notify, Asleep, TypeOK
  <2> QED BY <2>1, <2>2, <2>3
<1>3. ASSUME NEW t \in Threads, TakePool(t) PROVE Distinct' /\ HeldInv' /\ MutexInv'
  <2>1. /\ free # <<>> /\ free' = Tail(free) /\ Len(free) \in Nat \ {0}
        /\ free \in Seq(Pools) /\ Head(free) \in Pools /\ Head(free) = free[1]
    BY <1>3 DEF TakePool, TypeOK
  <2>2. /\ Len(free') = Len(free) - 1
        /\ \A i \in DOMAIN free' : free'[i] = free[i+1] /\ i + 1 \in DOMAIN free /\ i + 1 # 1
    BY <2>1
  <2>3. /\ pc' = [pc EXCEPT ![t] = "held"] /\ pool' = [pool EXCEPT ![t] = free[1]]
        /\ occupied' = occupied \union {free[1]} /\ pc[t] = "take" /\ mtx' = mtx
    BY <1>3, <2>1 DEF TakePool
  <2>4. 1 \in DOMAIN free BY <2>1
  <2>5. Distinct' BY <2>1, <2>2 DEF TypeOK
  <2>6. MutexInv' BY <2>3 DEF TypeOK
  <2>7. occupied' = {pool[u] : u \in In({"held"})}' BY <2>3 DEF TypeOK
  <2>8. \A u, v \in Threads : pc'[u] = "held" /\ pc'[v] = "held" /\ pool'[u] = pool'[v] => u = v
    BY <2>3, <2>4 DEF TypeOK
  <2>9. \A u \in Threads, i \in DOMAIN free' : pc'[u] = "held" => free'[i] # pool'[u]
    BY <2>2, <2>3, <2>4 DEF TypeOK
  <2>10. \A u \in Threads : pc'[u] = "held" => pool'[u] \in Pools
    BY <2>1, <2>3 DEF TypeOK
  <2> QED BY <2>5, <2>6, <2>7, <2>8, <2>9, <2>10
<1>4. ASSUME NEW t \in Threads, Release(t) PROVE Distinct' /\ HeldInv' /\ MutexInv'
  <2>1. /\ pc[t] = "held" /\ mtx = NoThread /\ mtx' = t /\ free' = <<pool[t]>> \o free
        /\ occupied' = occupied \ {pool[t]} /\ pc' = [pc EXCEPT ![t] = "signal"] /\ pool' = pool
    BY <1>4 DEF Release
  <2>2. /\ Len(free') = Len(free) + 1 /\ Len(free) \in Nat /\ free'[1] = pool[t]
        /\ \A i \in DOMAIN free' : i # 1 => free'[i] = free[i-1] /\ i - 1 \in DOMAIN free
    BY <2>1 DEF TypeOK
  <2>3. Distinct' BY <2>1, <2>2 DEF TypeOK
  <2>4. MutexInv' BY <2>1, PoolManagerAssumption DEF TypeOK
  <2>5. occupied' = {pool[u] : u \in In({"held"})}' BY <2>1 DEF TypeOK
  <2>6. \A u \in Threads, i \in DOMAIN free' : pc'[u] = "held" => free'[i] # pool'[u]
    BY <2>1, <2>2 DEF TypeOK
  <2> QED BY <2>1, <2>3, <2>4, <2>5, <2>6 DEF TypeOK
<1>5. ASSUME NEW p \in Pools, RegisterPool(p) PROVE Distinct' /\ HeldInv' /\ MutexInv'
  <2>1. /\ free' = <<p>> \o free /\ \A i \in DOMAIN free : free[i] # p
        /\ UNCHANGED <<occupied, mtx, pc, pool>> /\ \A t \in Threads : pc[t] = "idle"
    BY <1>5 DEF RegisterPool, Quiet
  <2>2. /\ Len(free') = Len(free) + 1 /\ Len(free) \in Nat /\ free'[1] = p
        /\ \A i \in DOMAIN free' : i # 1 => free'[i] = free[i-1] /\ i - 1 \in DOMAIN free
    BY <2>1 DEF TypeOK
  <2>3. Distinct' BY <2>1, <2>2 DEF TypeOK
  <2> QED BY <2>1, <2>3
<1>6. CASE ReleasePool
  <2>1. /\ free # <<>> /\ free' = Tail(free) /\ free \in Seq(Pools)
        /\ UNCHANGED <<occupied, mtx, pc, pool>> /\ \A t \in Threads : pc[t] = "idle"
    BY <1>6 DEF ReleasePool, Quiet, TypeOK
  <2>2. \A i \in DOMAIN free' : free'[i] = free[i+1] /\ i + 1 \in DOMAIN free /\ i \in Nat
    BY <2>1
  <2>3. Distinct' BY <2>2
  <2> QED BY <2>1, <2>3
<1>7. CASE ClearPools
  BY <1>7 DEF ClearPools, Quiet
<1> QED BY <1>1, <1>2, <1>3, <1>4, <1>5, <1>6, <1>7 DEF Next, Configure, Thread
-----------------------------------------------------------------------------
(* The units of the semaphore and the pools on the list, counted.          *)

LEMMA CountStep == IInv /\ [Next]_vars => CountInv'
<1> SUFFICES ASSUME IInv, [Next]_vars PROVE CountInv' OBVIOUS
<1>0. TypeOK /\ CountInv BY DEF IInv
<1>1. CASE UNCHANGED vars
  BY <1>0, <1>1 DEF vars, CountInv, Quiet, Owing, In
<1>2. ASSUME NEW t \in Threads, pc[t] \notin {"idle", "check", "failed"}
      PROVE  /\ sem \in Nat /\ Len(free) \in Nat /\ Len(free) = sem + Cardinality(Owing)
             /\ Owing \in SUBSET Threads /\ Cardinality(Owing) \in Nat
  BY <1>0, <1>2, SmallSets DEF CountInv, Quiet, TypeOK, Owing, In
<1>3. ASSUME NEW t \in Threads, Acquire(t) \/ CheckOccupied(t) \/ Fail(t) PROVE CountInv'
  <2>1. /\ pc[t] \in {"idle", "check", "failed"} /\ UNCHANGED <<free, occupied, sem>>
        /\ \/ /\ pc' = [pc EXCEPT ![t] = "wait"]
              /\ free # <<>> \/ occupied # {}
           \/ \E to \in {"idle", "check", "failed"} : pc' = [pc EXCEPT ![t] = to]
    BY <1>3 DEF Acquire, CheckOccupied, Fail
  <2>2. Owing' = Owing BY <1>0, <2>1 DEF Owing, In, TypeOK
  <2>3. CASE sem \in Nat /\ Len(free) = sem + Cardinality(Owing)
    BY <2>1, <2>2, <2>3 DEF CountInv
  <2>4. CASE /\ sem = -1 /\ free = <<>> /\ occupied = {}
             /\ \A u \in Threads : pc[u] \in {"idle", "check", "failed"}
    BY <1>0, <2>1, <2>4 DEF CountInv, TypeOK
  <2> QED BY <1>0, <2>3, <2>4 DEF CountInv
<1>4. ASSUME NEW t \in Threads, SemWait(t) PROVE CountInv'
  <2>1. CASE sem > 0 /\ sem' = sem - 1 /\ pc' = [pc EXCEPT ![t] = "take"]
    <3>1. pc[t] = "wait" /\ free' = free BY <1>4 DEF SemWait
    <3>2. Owing' = Owing \union {t} /\ t \notin Owing
      BY <1>0, <2>1, <3>1 DEF Owing, In, TypeOK
    <3>3. Cardinality(Owing') = Cardinality(Owing) + 1 BY <1>2, <3>1, <3>2, SmallSets
    <3> QED BY <1>2, <2>1, <3>1, <3>3 DEF CountInv
  <2>2. CASE sem' = sem /\ pc' = [pc EXCEPT ![t] = "asleep"]
    <3>1. pc[t] = "wait" /\ free' = free BY <1>4 DEF SemWait
    <3>2. Owing' = Owing BY <1>0, <2>2, <3>1 DEF Owing, In, TypeOK
    <3> QED BY <1>2, <2>2, <3>1, <3>2 DEF CountInv
  <2> QED BY <1>4, <2>1, <2>2 DEF SemWait
<1>5. ASSUME NEW t \in Threads, Spurious(t) PROVE CountInv'
  <2>1. pc[t] = "asleep" /\ pc' = [pc EXCEPT ![t] = "wait"] /\ UNCHANGED <<free, sem>>
    BY <1>5 DEF Spurious
  <2>2. Owing' = Owing BY <1>0, <2>1 DEF Owing, In, TypeOK
  <2> QED BY <1>2, <2>1, <2>2 DEF CountInv
<1>6. ASSUME NEW t \in Threads, TakePool(t) PROVE CountInv'
  <2>1. /\ pc[t] = "take" /\ pc' = [pc EXCEPT ![t] = "held"] /\ sem' = sem
        /\ free # <<>> /\ free' = Tail(free)
    BY <1>6 DEF TakePool
  <2>2. Owing' = Owing \ {t} /\ t \in Owing BY <1>0, <2>1 DEF Owing, In, TypeOK
  <2>3. Cardinality(Owing') = Cardinality(Owing) - 1 BY <1>2, <2>1, <2>2, SmallSets
  <2>4. Len(free') = Len(free) - 1 BY <1>0, <2>1 DEF TypeOK
  <2> QED BY <1>2, <2>1, <2>3, <2>4 DEF CountInv
<1>7. ASSUME NEW t \in Threads, Release(t) PROVE CountInv'
  <2>1. /\ pc[t] = "held" /\ pc' = [pc EXCEPT ![t] = "signal"] /\ sem' = sem
        /\ free' = <<pool[t]>> \o free
    BY <1>7 DEF Release
  <2>2. Owing' = Owing \union {t} /\ t \notin Owing BY <1>0, <2>1 DEF Owing, In, TypeOK
  <2>3. Cardinality(Owing') = Cardinality(Owing) + 1 BY <1>2, <2>1, <2>2, SmallSets
  <2>4. Len(free') = Len(free) + 1 BY <1>0, <2>1 DEF TypeOK
  <2>5. /\ sem \in Nat /\ Len(free) \in Nat /\ Cardinality(Owing) \in Nat
        /\ Len(free) = sem + Cardinality(Owing)
    BY <1>2, <2>1
  <2> QED BY <2>1, <2>3, <2>4, <2>5 DEF CountInv
<1>8. ASSUME NEW t \in Threads, Signal(t) PROVE CountInv'
  <2>1. /\ pc[t] = "signal" /\ pc' = [pc EXCEPT ![t] = "notify"] /\ sem' = sem + 1 /\ free' = free
    BY <1>8 DEF Signal
  <2>2. Owing' = Owing \ {t} /\ t \in Owing BY <1>0, <2>1 DEF Owing, In, TypeOK
  <2>3. Cardinality(Owing') = Cardinality(Owing) - 1 BY <1>2, <2>1, <2>2, SmallSets
  <2> QED BY <1>2, <2>1, <2>3 DEF CountInv
<1>9. ASSUME NEW t \in Threads, Notify(t) PROVE CountInv'
  <2>1. pc[t] = "notify" /\ UNCHANGED <<free, sem>> BY <1>9 DEF Notify
  <2>2. Owing' = Owing
    <3>1. ASSUME NEW u \in Asleep, pc' = [pc EXCEPT ![u] = "wait", ![t] = "idle"]
          PROVE  Owing' = Owing
      BY <1>0, <2>1, <3>1, NotifyMoves DEF Asleep, TypeOK
    <3>2. CASE pc' = [pc EXCEPT ![t] = "idle"]
      BY <1>0, <2>1, <3>2 DEF Owing, In, TypeOK
    <3> QED BY <1>9, <3>1, <3>2 DEF Notify
  <2> QED BY <1>2, <2>1, <2>2 DEF CountInv
<1>10. ASSUME Quiet, UNCHANGED pc PROVE Cardinality(Owing') = 0
  <2>1. Owing' = {} BY <1>10 DEF Quiet, Owing, In
  <2> QED BY <2>1, FS_EmptySet
<1>11. ASSUME NEW p \in Pools, RegisterPool(p) PROVE CountInv'
  <2>1. Len(free') = Len(free) + 1 /\ Len(free) \in Nat
    BY <1>0, <1>11 DEF RegisterPool, TypeOK
  <2> QED BY <1>10, <1>11, <2>1 DEF RegisterPool, CountInv
<1>12. CASE ReleasePool
  <2>1. Len(free') = Len(free) - 1 /\ Len(free) \in Nat \ {0}
    BY <1>0, <1>12 DEF ReleasePool, TypeOK
  <2> QED BY <1>10, <1>12, <2>1 DEF ReleasePool, CountInv
<1>13. CASE ClearPools
  BY <1>13 DEF ClearPools, CountInv, Quiet
<1> QED BY <1>1, <1>3, <1>4, <1>5, <1>6, <1>7, <1>8, <1>9, <1>11, <1>12, <1>13
        DEF Next, Configure, Thread

LEMMA WakeStep == IInv /\ [Next]_vars => WakeInv'
<1> SUFFICES ASSUME IInv, [Next]_vars, Asleep' # {} PROVE sem' <= Cardinality(Alert')
  BY DEF WakeInv
<1>0. TypeOK /\ WakeInv BY DEF IInv
<1>1. /\ Alert \in SUBSET Threads /\ Cardinality(Alert) \in Nat
      /\ Alert' \in SUBSET Threads /\ Cardinality(Alert') \in Nat
  BY SmallSets DEF Alert, In
<1>2. CASE UNCHANGED vars
  BY <1>0, <1>2 DEF vars, WakeInv, Asleep, Alert, In
<1>3. ASSUME NEW t \in Threads,
             Acquire(t) \/ CheckOccupied(t) \/ Fail(t) \/ Spurious(t)
      PROVE  sem' <= Cardinality(Alert')
  <2>1. /\ pc[t] \in {"idle", "check", "failed", "asleep"} /\ sem' = sem
        /\ \E to \in {"wait", "idle", "check", "failed"} : pc' = [pc EXCEPT ![t] = to]
    BY <1>3 DEF Acquire, CheckOccupied, Fail, Spurious
  <2>2. Asleep # {} BY <1>0, <2>1 DEF Asleep, TypeOK
  <2>3. CASE pc' = [pc EXCEPT ![t] = "wait"]
    <3>1. Alert' = Alert \union {t} /\ t \notin Alert
      BY <1>0, <2>1, <2>3 DEF Alert, In, TypeOK
    <3>2. Cardinality(Alert') = Cardinality(Alert) + 1 BY <1>1, <3>1, SmallSets
    <3> QED BY <1>0, <1>1, <2>1, <2>2, <3>2 DEF WakeInv, TypeOK
  <2>4. CASE \E to \in {"idle", "check", "failed"} : pc' = [pc EXCEPT ![t] = to]
    <3>1. Alert' = Alert BY <1>0, <2>1, <2>4 DEF Alert, In, TypeOK
    <3> QED BY <1>0, <2>1, <2>2, <3>1 DEF WakeInv
  <2> QED BY <2>1, <2>3, <2>4
<1>4. ASSUME NEW t \in Threads, SemWait(t) PROVE sem' <= Cardinality(Alert')
  <2>1. CASE sem > 0 /\ sem' = sem - 1 /\ pc' = [pc EXCEPT ![t] = "take"]
    <3>1. pc[t] = "wait" BY <1>4 DEF SemWait
    <3>2. Alert' = Alert \ {t} /\ t \in Alert BY <1>0, <2>1, <3>1 DEF Alert, In, TypeOK
    <3>3. Cardinality(Alert') = Cardinality(Alert) - 1 BY <1>1, <3>2, SmallSets
    <3>4. Asleep # {} BY <1>0, <2>1 DEF Asleep, TypeOK
    <3> QED BY <1>0, <1>1, <2>1, <3>3, <3>4 DEF WakeInv, TypeOK
  <2>2. CASE sem = 0 /\ sem' = sem
    BY <1>1, <2>2
  <2> QED BY <1>4, <2>1, <2>2 DEF SemWait
<1>5. ASSUME NEW t \in Threads, TakePool(t) \/ Release(t) PROVE sem' <= Cardinality(Alert')
  <2>1. /\ pc[t] \in {"take", "held"} /\ sem' = sem
        /\ pc' = [pc EXCEPT ![t] = "held"] \/ pc' = [pc EXCEPT ![t] = "signal"]
    BY <1>5 DEF TakePool, Release
  <2>2. Alert' = Alert BY <1>0, <2>1 DEF Alert, In, TypeOK
  <2>3. Asleep # {} BY <1>0, <2>1 DEF Asleep, TypeOK
  <2> QED BY <1>0, <2>1, <2>2, <2>3 DEF WakeInv
<1>6. ASSUME NEW t \in Threads, Signal(t) PROVE sem' <= Cardinality(Alert')
  <2>1. pc[t] = "signal" /\ pc' = [pc EXCEPT ![t] = "notify"] /\ sem' = sem + 1
    BY <1>6 DEF Signal
  <2>2. Alert' = Alert \union {t} /\ t \notin Alert BY <1>0, <2>1 DEF Alert, In, TypeOK
  <2>3. Cardinality(Alert') = Cardinality(Alert) + 1 BY <1>1, <2>2, SmallSets
  <2>4. Asleep # {} BY <1>0, <2>1 DEF Asleep, TypeOK
  <2> QED BY <1>0, <1>1, <2>1, <2>3, <2>4 DEF WakeInv, TypeOK
<1>7. ASSUME NEW t \in Threads, Notify(t) PROVE sem' <= Cardinality(Alert')
  <2>1. pc[t] = "notify" /\ sem' = sem BY <1>7 DEF Notify
  <2>2. Asleep # {}
    <3>1. CASE Asleep = {} /\ pc' = [pc EXCEPT ![t] = "idle"]
      BY <1>0, <3>1 DEF Asleep, TypeOK
    <3> QED BY <1>7, <3>1 DEF Notify
  <2>3. PICK u \in Asleep : pc' = [pc EXCEPT ![u] = "wait", ![t] = "idle"]
    BY <1>7, <2>2 DEF Notify
  <2>4. Alert' = (Alert \ {t}) \union {u} /\ t \in Alert /\ u \notin Alert
    BY <1>0, <2>1, <2>3, NotifyMoves DEF Asleep, TypeOK
  <2>5. Cardinality(Alert \ {t}) = Cardinality(Alert) - 1 BY <1>1, <2>4, SmallSets
  <2>6. Cardinality(Alert') = Cardinality(Alert \ {t}) + 1
    BY <1>1, <2>3, <2>4, SmallSets DEF Asleep
  <2> QED BY <1>0, <1>1, <2>1, <2>2, <2>5, <2>6 DEF WakeInv
<1>8. ASSUME Quiet, UNCHANGED pc PROVE FALSE
  BY <1>8 DEF Quiet, Asleep
<1> QED BY <1>2, <1>3, <1>4, <1>5, <1>6, <1>7, <1>8
        DEF Next, Configure, Thread, RegisterPool, ReleasePool, ClearPools

-----------------------------------------------------------------------------
LEMMA IInvInit == Init => IInv
<1> SUFFICES ASSUME Init PROVE IInv OBVIOUS
<1>1. TypeOK BY TypeInit
<1>2. Distinct /\ HeldInv /\ MutexInv /\ CountInv /\ WakeInv
  BY DEF Init, Distinct, HeldInv, MutexInv, CountInv, WakeInv, Quiet, In, Asleep
<1> QED BY <1>1, <1>2 DEF IInv

LEMMA Invariance == Spec => []IInv
<1>1. IInv /\ [Next]_vars => IInv'
  BY TypeStep, ListStep, CountStep, WakeStep DEF IInv
<1> QED BY <1>1, IInvInit, PTL DEF Spec

(* The lists, the semaphore, the mutex and the program counters keep their *)
(* types.                                                                  *)
THEOREM TypeCorrect == Spec => []TypeOK
<1>1. IInv => TypeOK BY DEF IInv
<1> QED BY <1>1, Invariance, PTL

(* Whoever got past the semaphore in lock_pool finds a pool on the list:   *)
(* the assertion of PoolManager.cpp:44 never fails.                        *)
THEOREM PassesFindPools == Spec => []PassFindsPool
<1>1. IInv => PassFindsPool
  <2> SUFFICES ASSUME IInv, NEW t \in Threads, pc[t] = "take" PROVE free # <<>>
    BY DEF PassFindsPool
  <2>1. Owing \in SUBSET Threads /\ t \in Owing BY DEF Owing, In
  <2>2. Cardinality(Owing) \in Nat /\ Cardinality(Owing) >= 1 BY <2>1, SmallSets
  <2>3. sem \in Nat /\ Len(free) = sem + Cardinality(Owing)
    BY DEF IInv, CountInv, Quiet
  <2> QED BY <2>2, <2>3
<1> QED BY <1>1, Invariance, PTL

(* No pool has two users, and unlock_pool finds the pool it is given.      *)
THEOREM PoolsNeverShared == Spec => []PoolsApart
<1>1. IInv => PoolsApart
  BY DEF IInv, HeldInv, PoolsApart, In
<1> QED BY <1>1, Invariance, PTL

(* No thread sleeps in lock_pool while a pool is there for it, unless it   *)
(* is about to be woken or another thread is about to take the pool.       *)
THEOREM NoWakeupLost == Spec => []NoLostWakeup
<1>1. IInv => NoLostWakeup
  <2> SUFFICES ASSUME IInv, Asleep # {}, sem > 0
               PROVE  \E t \in Threads : pc[t] \in {"notify", "wait"}
    BY DEF NoLostWakeup
  <2>1. Alert \in SUBSET Threads /\ Cardinality(Alert) \in Nat BY SmallSets DEF Alert, In
  <2>2. sem <= Cardinality(Alert) /\ sem \in Int BY DEF IInv, WakeInv, TypeOK
  <2>3. Alert # {} BY <2>1, <2>2, FS_EmptySet
  <2> QED BY <2>3 DEF Alert, In
<1> QED BY <1>1, Invariance, PTL
-----------------------------------------------------------------------------
(* The pool manager implements PoolAllocation                              *)

Elements(s) == {s[i] : i \in DOMAIN s}

FreePools == Elements(free)
Held == [t \in Threads |-> IF pc[t] = "held" THEN pool[t] ELSE NoPool]
Wanting == {t \in Threads : pc[t] \in {"wait", "asleep", "take"}}

LEMMA HeadOff ==
    ASSUME NEW S, NEW s \in Seq(S), s # <<>>,
           \A i, j \in DOMAIN s : s[i] = s[j] => i = j
    PROVE  /\ Head(s) \in S /\ Head(s) \in Elements(s)
           /\ Elements(Tail(s)) = Elements(s) \ {Head(s)}
<1>1. /\ Len(s) \in Nat \ {0} /\ DOMAIN s = 1..Len(s) /\ Head(s) = s[1]
      /\ DOMAIN Tail(s) = 1..(Len(s) - 1)
      /\ \A i \in 1..(Len(s) - 1) : Tail(s)[i] = s[i + 1]
  OBVIOUS
<1>2. Head(s) \in S /\ Head(s) \in {s[i] : i \in DOMAIN s} BY <1>1
<1>3. ASSUME NEW i \in DOMAIN Tail(s)
      PROVE  Tail(s)[i] \in {s[j] : j \in DOMAIN s} \ {Head(s)}
  BY <1>1
<1>4. ASSUME NEW i \in DOMAIN s, s[i] # Head(s)
      PROVE  \E j \in DOMAIN Tail(s) : Tail(s)[j] = s[i]
  <2>1. i - 1 \in DOMAIN Tail(s) /\ Tail(s)[i - 1] = s[i] BY <1>1, <1>4
  <2> QED BY <2>1
<1> QED BY <1>2, <1>3, <1>4 DEF Elements

LEMMA HeadOn ==
    ASSUME NEW S, NEW s \in Seq(S), NEW x \in S
    PROVE  Elements(<<x>> \o s) = Elements(s) \union {x}
<1> DEFINE r == <<x>> \o s
<1>1. /\ Len(s) \in Nat /\ DOMAIN s = 1..Len(s) /\ DOMAIN r = 1..(Len(s) + 1)
      /\ r[1] = x /\ \A i \in 1..Len(s) : r[i + 1] = s[i]
  OBVIOUS
<1> HIDE DEF r
<1>2. ASSUME NEW i \in DOMAIN r PROVE r[i] \in {s[j] : j \in DOMAIN s} \union {x}
  <2>1. CASE i = 1 BY <1>1, <2>1
  <2>2. CASE i # 1
    <3>1. i - 1 \in 1..Len(s) /\ r[(i - 1) + 1] = s[i - 1] BY <1>1, <2>2
    <3> QED BY <1>1, <2>2, <3>1
  <2> QED BY <2>1, <2>2
<1>3. ASSUME NEW j \in DOMAIN s PROVE s[j] \in {r[i] : i \in DOMAIN r}
  <2>1. j + 1 \in DOMAIN r /\ r[j + 1] = s[j] BY <1>1
  <2> QED BY <2>1
<1>4. x \in {r[i] : i \in DOMAIN r} BY <1>1
<1>5. {r[i] : i \in DOMAIN r} = {s[j] : j \in DOMAIN s} \union {x} BY <1>2, <1>3, <1>4
<1> QED BY <1>5 DEF r, Elements

LEMMA StepImplements == IInv /\ [Next]_vars
                          => [Allocation!AllocNext]_(Allocation!allocVars)
<1> SUFFICES ASSUME IInv, [Next]_vars
             PROVE  Allocation!AllocNext \/ UNCHANGED <<FreePools, Held, Wanting>>
  BY DEF Allocation!allocVars, FreePools, Elements, Held, Wanting
<1> DEFINE Done == Allocation!AllocNext \/ UNCHANGED <<FreePools, Held, Wanting>>
<1>0. /\ TypeOK /\ Distinct /\ HeldInv /\ NoPool \notin Pools
      /\ Allocation!InUse = {t \in Threads : pc[t] = "held"}
  <2>1. \A t \in Threads : pc[t] = "held" => pool[t] # NoPool
    BY PoolManagerAssumption DEF IInv, HeldInv
  <2> QED BY <2>1, PoolManagerAssumption DEF IInv, Allocation!InUse
<1>1. ASSUME UNCHANGED vars PROVE Done
  BY <1>1 DEF vars, FreePools, Held, Wanting
<1>2. ASSUME NEW t \in Threads, Acquire(t) \/ CheckOccupied(t),
             pc' = [pc EXCEPT ![t] = "wait"]
      PROVE  Allocation!Want(t)
  <2>1. /\ pc[t] \in {"idle", "check"} /\ UNCHANGED <<free, pool>>
        /\ pc'[t] = "wait"
    BY <1>0, <1>2 DEF Acquire, CheckOccupied, TypeOK
  <2>2. free # <<>> \/ occupied # {}
    BY <1>0, <1>2, <2>1 DEF Acquire, CheckOccupied, TypeOK
  <2>3. FreePools # {} \/ Allocation!InUse # {}
    <3>1. CASE free # <<>>
      <4>1. 1 \in DOMAIN free BY <1>0, <3>1 DEF TypeOK
      <4> QED BY <4>1 DEF FreePools, Elements
    <3>2. CASE occupied # {} BY <1>0, <3>2 DEF HeldInv, In
    <3> QED BY <2>2, <3>1, <3>2
  <2>4. Held' = Held /\ Held[t] = NoPool /\ t \notin Wanting /\ FreePools' = FreePools
    BY <1>0, <1>2, <2>1 DEF Held, Wanting, FreePools, TypeOK
  <2>5. Wanting' = Wanting \union {t} BY <1>0, <1>2, <2>1 DEF Wanting, TypeOK
  <2> QED BY <2>3, <2>4, <2>5 DEF Allocation!Want, FreePools, Elements, Held, Wanting
<1>11. ASSUME NEW t \in Threads, Acquire(t) \/ CheckOccupied(t) \/ Fail(t),
              pc' # [pc EXCEPT ![t] = "wait"]
       PROVE  Done
  <2>1. /\ pc[t] \in {"idle", "check", "failed"} /\ UNCHANGED <<free, pool>>
        /\ \E to \in {"idle", "check", "failed"} : pc' = [pc EXCEPT ![t] = to]
    BY <1>11 DEF Acquire, CheckOccupied, Fail
  <2>2. Held' = Held /\ Wanting' = Wanting /\ FreePools' = FreePools
    BY <1>0, <2>1 DEF Held, Wanting, FreePools, TypeOK
  <2> QED BY <2>2
<1>3. ASSUME NEW t \in Threads, SemWait(t) \/ Spurious(t) PROVE Done
  <2>1. /\ pc[t] \in {"wait", "asleep"} /\ UNCHANGED <<free, pool>>
        /\ \E to \in {"wait", "asleep", "take"} : pc' = [pc EXCEPT ![t] = to]
    BY <1>3 DEF SemWait, Spurious
  <2>2. Held' = Held /\ Wanting' = Wanting /\ FreePools' = FreePools
    BY <1>0, <2>1 DEF Held, Wanting, FreePools, TypeOK
  <2> QED BY <2>2
<1>4. ASSUME NEW t \in Threads, TakePool(t) PROVE Allocation!Grant(t)
  <2>1. /\ pc[t] = "take" /\ pc' = [pc EXCEPT ![t] = "held"] /\ free # <<>>
        /\ free' = Tail(free) /\ pool' = [pool EXCEPT ![t] = Head(free)]
    BY <1>4 DEF TakePool
  <2>2. Head(free) \in FreePools /\ FreePools' = FreePools \ {Head(free)}
    BY <1>0, <2>1, HeadOff DEF FreePools, Distinct, TypeOK
  <2>3. Held' = [Held EXCEPT ![t] = Head(free)]
    BY <1>0, <2>1 DEF Held, TypeOK
  <2>4. t \in Wanting /\ Wanting' = Wanting \ {t}
    BY <1>0, <2>1 DEF Wanting, TypeOK
  <2> QED BY <2>2, <2>3, <2>4 DEF Allocation!Grant, FreePools, Elements, Held, Wanting
<1>5. ASSUME NEW t \in Threads, Release(t) PROVE Allocation!GiveBack(t)
  <2>1. /\ pc[t] = "held" /\ pc' = [pc EXCEPT ![t] = "signal"] /\ pool' = pool
        /\ free' = <<pool[t]>> \o free
    BY <1>5 DEF Release
  <2>2. FreePools' = FreePools \union {Held[t]} /\ t \in Allocation!InUse
    <3>1. pool[t] \in Pools BY <1>0, <2>1 DEF HeldInv
    <3> QED BY <1>0, <2>1, <3>1, HeadOn DEF FreePools, Held, TypeOK
  <2>3. Held' = [Held EXCEPT ![t] = NoPool] /\ Wanting' = Wanting
    BY <1>0, <2>1 DEF Held, Wanting, TypeOK
  <2> QED BY <2>2, <2>3 DEF Allocation!GiveBack, FreePools, Elements, Held, Wanting
<1>6. ASSUME NEW t \in Threads, Signal(t) \/ Notify(t) PROVE Done
  <2>1. /\ UNCHANGED free
        /\ \A u \in Threads : /\ pc'[u] = "held" <=> pc[u] = "held"
                              /\ pc[u] = "held" => pool'[u] = pool[u]
                              /\ pc'[u] \in {"wait", "asleep", "take"}
                                   <=> pc[u] \in {"wait", "asleep", "take"}
    BY <1>0, <1>6 DEF Signal, Notify, Asleep, TypeOK
  <2>2. Held' = Held /\ Wanting' = Wanting /\ FreePools' = FreePools
    BY <2>1 DEF Held, Wanting, FreePools
  <2> QED BY <2>2
<1>7. ASSUME Quiet, UNCHANGED <<pc, pool>>
      PROVE  Allocation!AtRest /\ Held' = Held /\ Wanting' = Wanting
  BY <1>0, <1>7 DEF Quiet, Allocation!AtRest, Held, Wanting
<1>8. ASSUME NEW p \in Pools, RegisterPool(p) PROVE Allocation!Add(p)
  <2>1. Quiet /\ UNCHANGED <<pc, pool>> /\ free' = <<p>> \o free /\ p \notin FreePools
    BY <1>8 DEF RegisterPool, FreePools, Elements
  <2>2. FreePools' = FreePools \union {p}
    BY <1>0, <2>1, HeadOn DEF FreePools, TypeOK
  <2> QED BY <1>7, <2>1, <2>2 DEF Allocation!Add, FreePools, Elements, Held, Wanting
<1>9. ASSUME ReleasePool PROVE \E p \in Pools : Allocation!Withdraw({p})
  <2>1. Quiet /\ UNCHANGED <<pc, pool>> /\ free # <<>> /\ free' = Tail(free)
    BY <1>9 DEF ReleasePool
  <2>2. Head(free) \in Pools /\ FreePools' = FreePools \ {Head(free)}
    BY <1>0, <2>1, HeadOff DEF FreePools, Distinct, TypeOK
  <2> QED BY <1>7, <2>1, <2>2 DEF Allocation!Withdraw, FreePools, Elements, Held, Wanting
<1>10. ASSUME ClearPools PROVE Allocation!Withdraw(Pools)
  <2>1. Quiet /\ UNCHANGED <<pc, pool>> /\ free' = <<>> BY <1>10 DEF ClearPools
  <2>2. FreePools' = {} /\ FreePools \subseteq Pools
    BY <1>0, <2>1 DEF FreePools, Elements, TypeOK
  <2> QED BY <1>7, <2>1, <2>2 DEF Allocation!Withdraw, FreePools, Elements, Held, Wanting
<1>12. ASSUME NEW t \in Threads, Acquire(t) \/ CheckOccupied(t) \/ Fail(t) PROVE Done
  <2>1. CASE pc' = [pc EXCEPT ![t] = "wait"] /\ ~Fail(t)
    BY <1>2, <1>12, <2>1 DEF Allocation!AllocNext
  <2>2. CASE Fail(t)
    <3>1. pc'[t] = "idle" BY <1>0, <2>2 DEF Fail, TypeOK
    <3>2. pc' # [pc EXCEPT ![t] = "wait"] BY <1>0, <3>1 DEF TypeOK
    <3> QED BY <1>11, <2>2, <3>2
  <2> QED BY <1>11, <1>12, <2>1, <2>2
<1> QED BY <1>1, <1>3, <1>4, <1>5, <1>6, <1>8, <1>9, <1>10, <1>12
        DEF Next, Configure, Thread, Allocation!AllocNext

(* The semaphore, the mutex and the list together do what PoolAllocation   *)
(* says of lock_pool and unlock_pool: a pool for one client at a time.     *)
THEOREM ManagerImplementsAllocation == Spec => ImplementsAllocation
<1>1. Init => Allocation!AllocInit
  BY DEF Init, Allocation!AllocInit
<1> QED BY <1>1, StepImplements, Invariance, PTL
        DEF Spec, ImplementsAllocation, Allocation!AllocSpec
=============================================================================
