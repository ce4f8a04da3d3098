---------------------------- MODULE PoolManager ----------------------------
(***************************************************************************)
(* The pools of a memory manager, shared by threads that run functions:    *)
(* PoolManager, its Semaphore, and the acquire and release of the          *)
(* MemoryGroup that each thread runs.  A thread runs one group at a time.  *)
(*                                                                         *)
(* Pools are registered, released and cleared while no thread is between   *)
(* acquire and release: the code asserts that all pools are free, and the  *)
(* documentation asks for one thread that configures.                      *)
(***************************************************************************)
EXTENDS Integers, Sequences, FiniteSets

CONSTANTS Threads, Pools, NoThread, NoPool

ASSUME PoolManagerAssumption ==
    /\ IsFiniteSet(Threads) /\ NoThread \notin Threads
    /\ IsFiniteSet(Pools) /\ NoPool \notin Pools

VARIABLES
    free,       \* _free_pools
    occupied,   \* _occupied_pools, whose order nothing depends on
    sem,        \* _sem->_value, or -1 when _sem is null
    mtx,        \* the thread that holds _mtx from one step to the next
    pc,         \* where each thread is
    pool        \* MemoryGroup::_pool of the group that the thread runs

vars == <<free, occupied, sem, mtx, pc, pool>>

Quiet == occupied = {} /\ \A t \in Threads : pc[t] = "idle"

Asleep == {t \in Threads : pc[t] = "asleep"}
-----------------------------------------------------------------------------
(* MemoryGroup::acquire of a group with mappings calls lock_pool.  In a    *)
(* build with assertions it first reads the two lists, one after the other *)
(* and without _mtx; in one without, there must be pools.                  *)
Acquire(t) ==
    /\ pc[t] = "idle"
    /\ \/ /\ free # <<>> \/ occupied # {}
          /\ pc' = [pc EXCEPT ![t] = "wait"]
       \/ /\ free = <<>>
          /\ pc' = [pc EXCEPT ![t] = "check"]
    /\ UNCHANGED <<free, occupied, sem, mtx, pool>>

CheckOccupied(t) ==
    /\ pc[t] = "check"
    /\ \/ occupied # {} /\ pc' = [pc EXCEPT ![t] = "wait"]
       \/ occupied = {} /\ pc' = [pc EXCEPT ![t] = "failed"]
    /\ UNCHANGED <<free, occupied, sem, mtx, pool>>

(* The assertion throws; the group has no pool.                            *)
Fail(t) ==
    /\ pc[t] = "failed"
    /\ pc' = [pc EXCEPT ![t] = "idle"]
    /\ UNCHANGED <<free, occupied, sem, mtx, pool>>

(* Semaphore::wait, under the semaphore's own mutex.                       *)
SemWait(t) ==
    /\ pc[t] = "wait"
    /\ \/ sem > 0 /\ sem' = sem - 1 /\ pc' = [pc EXCEPT ![t] = "take"]
       \/ sem = 0 /\ pc' = [pc EXCEPT ![t] = "asleep"] /\ UNCHANGED sem
    /\ UNCHANGED <<free, occupied, mtx, pool>>

Spurious(t) ==
    /\ pc[t] = "asleep"
    /\ pc' = [pc EXCEPT ![t] = "wait"]
    /\ UNCHANGED <<free, occupied, sem, mtx, pool>>

(* Mutant: the pool is not taken off the list.                             *)
TakePool_Keeps(t) ==
    /\ pc[t] = "take" /\ mtx = NoThread /\ free # <<>>
    /\ occupied' = occupied \union {Head(free)}
    /\ pool' = [pool EXCEPT ![t] = Head(free)]
    /\ pc' = [pc EXCEPT ![t] = "held"]
    /\ UNCHANGED <<free, sem, mtx>>

(* The rest of lock_pool, under _mtx.                                      *)
TakePool(t) ==
    /\ pc[t] = "take" /\ mtx = NoThread /\ free # <<>>
    /\ free' = Tail(free)
    /\ occupied' = occupied \union {Head(free)}
    /\ pool' = [pool EXCEPT ![t] = Head(free)]
    /\ pc' = [pc EXCEPT ![t] = "held"]
    /\ UNCHANGED <<sem, mtx>>

(* MemoryGroup::release calls unlock_pool, which takes _mtx, ...           *)
Release(t) ==
    /\ pc[t] = "held" /\ mtx = NoThread
    /\ mtx' = t
    /\ free' = <<pool[t]>> \o free
    /\ occupied' = occupied \ {pool[t]}
    /\ pc' = [pc EXCEPT ![t] = "signal"]
    /\ UNCHANGED <<sem, pool>>

(* ... increments the semaphore, ...                                       *)
Signal(t) ==
    /\ pc[t] = "signal"
    /\ sem' = sem + 1
    /\ pc' = [pc EXCEPT ![t] = "notify"]
    /\ UNCHANGED <<free, occupied, mtx, pool>>

(* Mutant: nobody is notified.                                             *)
Notify_Skipped(t) ==
    /\ pc[t] = "notify"
    /\ pc' = [pc EXCEPT ![t] = "idle"]
    /\ mtx' = NoThread /\ pool' = [pool EXCEPT ![t] = NoPool]
    /\ UNCHANGED <<free, occupied, sem>>

(* ... and, the semaphore's mutex released but not _mtx, wakes one sleeper. *)
Notify(t) ==
    /\ pc[t] = "notify"
    /\ \/ \E u \in Asleep : pc' = [pc EXCEPT ![u] = "wait", ![t] = "idle"]
       \/ Asleep = {} /\ pc' = [pc EXCEPT ![t] = "idle"]
    /\ mtx' = NoThread
    /\ pool' = [pool EXCEPT ![t] = NoPool]
    /\ UNCHANGED <<free, occupied, sem>>

(* Mutant: the semaphore counts one pool too many.                         *)
RegisterPool_OneMore(p) ==
    /\ Quiet /\ \A i \in DOMAIN free : free[i] # p
    /\ free' = <<p>> \o free
    /\ sem' = Len(free) + 2
    /\ UNCHANGED <<occupied, mtx, pc, pool>>

(* Each registration makes a new semaphore.                                *)
RegisterPool(p) ==
    /\ Quiet /\ \A i \in DOMAIN free : free[i] # p
    /\ free' = <<p>> \o free
    /\ sem' = Len(free) + 1
    /\ UNCHANGED <<occupied, mtx, pc, pool>>

ReleasePool ==
    /\ Quiet /\ free # <<>>
    /\ free' = Tail(free)
    /\ sem' = Len(free) - 1
    /\ UNCHANGED <<occupied, mtx, pc, pool>>

ClearPools ==
    /\ Quiet
    /\ free' = <<>> /\ sem' = -1
    /\ UNCHANGED <<occupied, mtx, pc, pool>>
-----------------------------------------------------------------------------
Init ==
    /\ free = <<>> /\ occupied = {} /\ sem = -1 /\ mtx = NoThread
    /\ pc = [t \in Threads |-> "idle"]
    /\ pool = [t \in Threads |-> NoPool]

Thread(t) == CheckOccupied(t) \/ Fail(t) \/ SemWait(t) \/ TakePool(t)
             \/ Release(t) \/ Signal(t) \/ Notify(t)

Configure == ReleasePool \/ ClearPools \/ \E p \in Pools : RegisterPool(p)

Next == Configure \/ \E t \in Threads : Acquire(t) \/ Thread(t) \/ Spurious(t)

Spec == Init /\ [][Next]_vars

(* A thread inside lock_pool or unlock_pool keeps running, and a function  *)
(* that holds a pool ends and releases it (MemoryGroupResourceScope).      *)
FairSpec == Spec /\ \A t \in Threads : WF_vars(Thread(t))
-----------------------------------------------------------------------------
(* Properties *)

PCs == {"idle", "check", "failed", "wait", "asleep", "take", "held", "signal", "notify"}

(* The types of the variables, proved in PoolManagerProofs.                *)
TypeOK ==
    /\ free \in Seq(Pools) /\ occupied \subseteq Pools
    /\ sem \in Nat \union {-1}
    /\ mtx \in Threads \union {NoThread}
    /\ pc \in [Threads -> PCs]
    /\ pool \in [Threads -> Pools \union {NoPool}]

(* The assertion of lock_pool, "Empty pool must exist as semaphore has     *)
(* been signalled": whoever got past the semaphore finds a free pool, even *)
(* though the semaphore and the list are not changed together.             *)
PassFindsPool == \A t \in Threads : pc[t] = "take" => free # <<>>

(* No pool is used by two threads, a pool in use is not on the free list,  *)
(* and unlock_pool finds the pool it is given ("Pool to be unlocked        *)
(* couldn't be found!").                                                   *)
PoolsApart ==
    \A t \in Threads : pc[t] = "held" =>
        /\ pool[t] \in occupied
        /\ \A i \in DOMAIN free : free[i] # pool[t]
        /\ \A u \in Threads : pc[u] = "held" /\ pool[u] = pool[t] => u = t

(* A thread does not sleep on a semaphore that has a unit to spare unless  *)
(* another one is about to notify it or to look at the semaphore itself.   *)
NoLostWakeup ==
    Asleep # {} /\ sem > 0 => \E t \in Threads : pc[t] \in {"notify", "wait"}

(* lock_pool raises "Haven't setup any pools!" only when that is so: in     *)
(* library.dox, "memory acquisition/release are thread safe".              *)
RaisesOnlyWithoutPools ==
    \A t \in Threads : pc[t] = "failed" => free = <<>> /\ occupied = {}

(* As long as somebody waits in lock_pool pools keep being handed out.     *)
Waiting == \E t \in Threads : pc[t] \in {"wait", "asleep", "take"}

PoolsKeepMoving ==
    []<>~Waiting \/ []<><<\E t \in Threads : TakePool(t)>>_vars

(* The pool manager keeps the promise of PoolAllocation.                   *)
Allocation == INSTANCE PoolAllocation
    WITH Clients <- Threads,
         free    <- {free[i] : i \in DOMAIN free},
         held    <- [t \in Threads |-> IF pc[t] = "held" THEN pool[t] ELSE NoPool],
         wanting <- {t \in Threads : pc[t] \in {"wait", "asleep", "take"}}

ImplementsAllocation == Allocation!AllocSpec
=============================================================================
