--------------------------- MODULE MemoryManager ---------------------------
(***************************************************************************)
(* Functions that share memory: MemoryManagerOnDemand with a lifetime      *)
(* manager (LifetimeManager) and a pool manager, of which only the promise *)
(* is used (PoolAllocation, which PoolManager is shown to implement), the  *)
(* MemoryGroup of each function, and the TensorAllocator of each tensor.   *)
(*                                                                         *)
(* Configuration is over when the manager is populated, and begins again   *)
(* when it is cleared (IMemoryGroup.h: "Manager must not be finalized").   *)
(* After that each group is acquired and released by a thread of its own.  *)
(***************************************************************************)
EXTENDS LifetimeManager

CONSTANTS Pools, NoPool

ASSUME PoolsAssumption == NoPool \notin Pools

VARIABLES free, held, wanting,   \* of PoolAllocation; held[g] is MemoryGroup::_pool
          step,                  \* where the thread that runs each group is
          poolInfo,              \* the info that the pools were created with
          group,                 \* _associated_memory_group of each tensor
          memory                 \* the region its _memory points to

pool_mgr == INSTANCE PoolAllocation WITH Clients <- Groups

poolVars == <<free, held, wanting>>

vars == <<lifetimeVars, poolVars, step, poolInfo, group, memory>>

NoMemory  == [pool |-> NoPool, at |-> -1]
OwnMemory == [pool |-> NoPool, at |-> 0]     \* a region of the tensor's own

NoPools == free = {} /\ pool_mgr!InUse = {} /\ wanting = {}
-----------------------------------------------------------------------------
(* Configuration *)

(* MemoryGroup::manage *)
ManageObject(g, o) ==
    /\ NoPools
    /\ group[o] \in {NoGroup, g} /\ memory[o] = NoMemory
    /\ Manage(g, o)
    /\ group' = [group EXCEPT ![o] = g]
    /\ UNCHANGED <<poolVars, step, poolInfo, memory>>

(* TensorAllocator::allocate of a tensor that is managed, and of one that  *)
(* is not.                                                                 *)
AllocateManaged(o, size, alignment) ==
    /\ group[o] # NoGroup
    /\ FinalizeMemory(o, size, alignment)
    /\ UNCHANGED <<poolVars, step, poolInfo, group, memory>>

(* allocate or import_memory; the latter refuses managed tensors.          *)
AllocateOwn(o) ==
    /\ group[o] = NoGroup /\ memory[o] = NoMemory
    /\ memory' = [memory EXCEPT ![o] = OwnMemory]
    /\ UNCHANGED <<lifetimeVars, poolVars, step, poolInfo, group>>

FreeOwn(o) ==
    /\ group[o] = NoGroup /\ memory[o] = OwnMemory
    /\ memory' = [memory EXCEPT ![o] = NoMemory]
    /\ UNCHANGED <<lifetimeVars, poolVars, step, poolInfo, group>>

(* Mutant: pools are made while some tensors are not finalized.            *)
Populate_Early(pools) ==
    /\ NoPools
    /\ pools # {}
    /\ free' = pools
    /\ poolInfo' = info
    /\ UNCHANGED <<lifetimeVars, held, wanting, step, group, memory>>

(* MemoryManagerOnDemand::populate: a pool and its duplicates.             *)
Populate(pools) ==
    /\ are_all_finalized /\ NoPools
    /\ pools # {}
    /\ free' = pools
    /\ poolInfo' = info
    /\ UNCHANGED <<lifetimeVars, held, wanting, step, group, memory>>

Clear ==
    /\ free # {} /\ \A g \in Groups : step[g] = "idle"
    /\ pool_mgr!Withdraw(Pools)
    /\ UNCHANGED <<lifetimeVars, step, poolInfo, group, memory>>

(* ILifetimeManager::release_group, of a group that nobody runs.           *)
Release_group(g) ==
    /\ NoPools /\ ReleaseGroup(g)
    /\ UNCHANGED <<poolVars, step, poolInfo, group, memory>>

-----------------------------------------------------------------------------
(* Execution *)

(* Where pool p has the memory of o.                                       *)
Region(g, o, p) == [pool |-> p, at |-> mappings[g][o]]

(* MemoryGroup::acquire: a group with no mappings gets no pool.  No group  *)
(* runs before the configuration is over.                                  *)
AcquireNothing(g) ==
    /\ step[g] = "idle" /\ Mapped(g) = {} /\ ~NoPools
    /\ step' = [step EXCEPT ![g] = "running"]
    /\ UNCHANGED <<lifetimeVars, poolVars, poolInfo, group, memory>>

Acquire(g) ==
    /\ step[g] = "idle" /\ Mapped(g) # {}
    /\ pool_mgr!Want(g)
    /\ step' = [step EXCEPT ![g] = "locking"]
    /\ UNCHANGED <<lifetimeVars, poolInfo, group, memory>>

Lock(g) ==
    /\ pool_mgr!Grant(g)
    /\ step' = [step EXCEPT ![g] = "locked"]
    /\ UNCHANGED <<lifetimeVars, poolInfo, group, memory>>

(* IMemoryPool::acquire sets the region of every handle.                   *)
Map(g) ==
    /\ step[g] = "locked"
    /\ memory' = [o \in Objects |-> IF o \in Mapped(g) THEN Region(g, o, held[g]) ELSE memory[o]]
    /\ step' = [step EXCEPT ![g] = "running"]
    /\ UNCHANGED <<lifetimeVars, poolVars, poolInfo, group>>

(* Mutant: the pool is unlocked but the handles keep their regions.        *)
Unmap_Keeps(g) ==
    /\ step[g] = "running" /\ g \in pool_mgr!InUse
    /\ step' = [step EXCEPT ![g] = "unmapped"]
    /\ UNCHANGED <<lifetimeVars, poolVars, poolInfo, group, memory>>

(* MemoryGroup::release: IMemoryPool::release, then unlock_pool.           *)
Unmap(g) ==
    /\ step[g] = "running" /\ g \in pool_mgr!InUse
    /\ memory' = [o \in Objects |-> IF o \in Mapped(g) THEN NoMemory ELSE memory[o]]
    /\ step' = [step EXCEPT ![g] = "unmapped"]
    /\ UNCHANGED <<lifetimeVars, poolVars, poolInfo, group>>

Unlock(g) ==
    /\ step[g] = "unmapped"
    /\ pool_mgr!GiveBack(g)
    /\ step' = [step EXCEPT ![g] = "idle"]
    /\ UNCHANGED <<lifetimeVars, poolInfo, group, memory>>

ReleaseNothing(g) ==
    /\ step[g] = "running" /\ g \notin pool_mgr!InUse
    /\ step' = [step EXCEPT ![g] = "idle"]
    /\ UNCHANGED <<lifetimeVars, poolVars, poolInfo, group, memory>>
-----------------------------------------------------------------------------
Init ==
    /\ LifetimeInit /\ pool_mgr!AllocInit
    /\ step = [g \in Groups |-> "idle"]
    /\ poolInfo = info
    /\ group = [o \in Objects |-> NoGroup]
    /\ memory = [o \in Objects |-> NoMemory]

Configure ==
    \/ \E g \in Groups : Release_group(g) \/ \E o \in Objects : ManageObject(g, o)
    \/ \E o \in Objects : \/ \E r \in Requests : AllocateManaged(o, r[1], r[2])
                          \/ AllocateOwn(o) \/ FreeOwn(o)
    \/ \E pools \in SUBSET Pools : Populate(pools)
    \/ Clear

Run(g) == AcquireNothing(g) \/ Acquire(g) \/ Lock(g) \/ Map(g) \/ Unmap(g) \/ Unlock(g)
          \/ ReleaseNothing(g)

Next == Configure \/ \E g \in Groups : Run(g)

Spec == Init /\ [][Next]_vars
-----------------------------------------------------------------------------
(* Properties *)

InPool(o) == memory[o].pool # NoPool

(* Two tensors that are backed by the same memory belong to one group and  *)
(* were never alive together: whoever runs, with however many pools, the   *)
(* contents of a tensor that is still needed are not overwritten.          *)
SharesOnlyDead ==
    \A o, p \in Objects : o # p /\ InPool(o) /\ memory[o].pool = memory[p].pool =>
        \E g \in Groups : /\ {o, p} \subseteq Mapped(g)
                          /\ {o, p} \in together => Apart(g, o, p)

(* The pools were created from the sizes known then: while a group runs    *)
(* each of its tensors has memory, which is inside its pool and aligned.   *)
BackedWhileRunning ==
    \A g \in Groups : step[g] = "running" => \A o \in Mapped(g) :
        /\ memory[o] = Region(g, o, held[g])
        /\ FitsIn(poolInfo, g, o)

(* No tensor keeps a pointer into a pool that its group does not hold.     *)
NoDanglingMemory ==
    \A o \in Objects : InPool(o) =>
        \E g \in Groups : o \in Mapped(g) /\ held[g] = memory[o].pool
=============================================================================
