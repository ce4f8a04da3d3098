--------------------------- MODULE PoolAllocation ---------------------------
(***************************************************************************)
(* What IPoolManager promises whoever asks it for memory, with no          *)
(* semaphore and no mutex: lock_pool ends with a pool that nobody else has *)
(* until unlock_pool gives it back, and pools come and go only while       *)
(* nobody has or wants one.                                                *)
(***************************************************************************)
CONSTANTS Clients,   \* whoever locks pools, one pool each
          Pools,     \* the pools that may be registered
          NoPool     \* a null IMemoryPool *

VARIABLES free,      \* the pools that can be locked
          held,      \* held[c]: the pool that client c has locked
          wanting    \* the clients inside lock_pool

allocVars == <<free, held, wanting>>

InUse == {c \in Clients : held[c] # NoPool}

(* Nobody may be inside lock_pool or hold a pool when pools are changed.   *)
AtRest == InUse = {} /\ wanting = {}

Want(c) ==
    /\ held[c] = NoPool /\ c \notin wanting
    /\ free # {} \/ InUse # {}
    /\ wanting' = wanting \union {c}
    /\ UNCHANGED <<free, held>>

Grant(c) ==
    /\ c \in wanting
    /\ \E p \in free : held' = [held EXCEPT ![c] = p] /\ free' = free \ {p}
    /\ wanting' = wanting \ {c}

GiveBack(c) ==
    /\ c \in InUse
    /\ free' = free \union {held[c]}
    /\ held' = [held EXCEPT ![c] = NoPool]
    /\ UNCHANGED wanting

Add(p) ==
    /\ AtRest /\ p \notin free
    /\ free' = free \union {p}
    /\ UNCHANGED <<held, wanting>>

Withdraw(gone) ==
    /\ AtRest
    /\ free' = free \ gone
    /\ UNCHANGED <<held, wanting>>

AllocInit == free = {} /\ held = [c \in Clients |-> NoPool] /\ wanting = {}

AllocNext == \/ \E c \in Clients : Want(c) \/ Grant(c) \/ GiveBack(c)
             \/ \E p \in Pools : Add(p) \/ Withdraw({p})
             \/ Withdraw(Pools)

AllocSpec == AllocInit /\ [][AllocNext]_allocVars
=============================================================================
