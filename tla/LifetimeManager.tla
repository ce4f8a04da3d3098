-------------------------- MODULE LifetimeManager --------------------------
(***************************************************************************)
(* The lifetimes of the objects that functions manage, and the memory they *)
(* are mapped to: ISimpleLifetimeManager with BlobLifetimeManager or       *)
(* OffsetLifetimeManager, called through MemoryGroup::manage and           *)
(* MemoryGroup::finalize_memory.                                           *)
(*                                                                         *)
(* An object has one memory handle for ever, so that a mapping of handles  *)
(* is written here as a mapping of objects.                                *)
(***************************************************************************)
EXTENDS Integers, Sequences, SequencesExt, FiniteSets

CONSTANTS Objects, Groups, NoObject, NoGroup,
          Requests,            \* the <<size, alignment>> that objects ask for
          MappingTypes         \* which of the two managers may be used

ASSUME LifetimeAssumption ==
    /\ NoObject \notin Objects /\ NoGroup \notin Groups
    /\ Requests \subseteq Nat \X Nat
    /\ MappingTypes \subseteq {"BLOBS", "OFFSETS"}

(* Alignments are powers of two: the larger one suits both.                *)
ASSUME AlignmentAssumption ==
    \A r, s \in Requests : r[2] # 0 /\ s[2] >= r[2] => s[2] % r[2] = 0

VARIABLES
    mappingType,    \* mapping_type(), which never changes
    activeGroup,    \* _active_group
    elements,       \* _active_elements
    freeBlobs,      \* _free_blobs
    occupiedBlobs,  \* _occupied_blobs
    finalized,      \* _finalized_groups, with what each object asked for
    mappings,       \* MemoryGroup::_mappings of each group
    info,           \* _blobs (BLOBS) or _blob (OFFSETS)
    together        \* history: the pairs of objects once alive together

lifetimeVars == <<mappingType, activeGroup, elements, freeBlobs, occupiedBlobs, finalized, mappings, info, together>>
-----------------------------------------------------------------------------
Nothing == [x \in {} |-> x]

(* The std::map f after g's entries are inserted: insert() keeps what f    *)
(* has.                                                                    *)
Inserted(f, g) == [x \in DOMAIN f \union DOMAIN g |-> IF x \in DOMAIN f THEN f[x] ELSE g[x]]

Larger(a, b) == IF a < b THEN b ELSE a

Element(size, alignment, status) == [size |-> size, alignment |-> alignment, status |-> status]
BlobInfo(size, alignment, owners) == [size |-> size, alignment |-> alignment, owners |-> owners]

Alive == {o \in DOMAIN elements : ~elements[o].status}

are_all_finalized == Alive = {}

-----------------------------------------------------------------------------
(* BlobLifetimeManager::update_blobs_and_mappings *)

(* std::list::sort, largest first, is stable: how many blobs go before     *)
(* the k-th one, and the list in that order.                               *)
Rank(blobs, k) ==
    Cardinality({j \in DOMAIN blobs : \/ blobs[j].size > blobs[k].size
                                      \/ blobs[j].size = blobs[k].size /\ j < k})

BySize(blobs) ==
    [r \in DOMAIN blobs |-> blobs[CHOOSE k \in DOMAIN blobs : Rank(blobs, k) = r - 1]]

(* Mutant: the sizes of the groups before are forgotten.                   *)
Both_Last(a, b) == b

(* A BlobInfo that suits both.                                             *)
Both(a, b) == BlobInfo(Larger(a.size, b.size), Larger(a.alignment, b.alignment),
                       Larger(a.owners, b.owners))

(* The k-th BlobInfo of a vector that resize() has made long enough.       *)
At(s, k) == IF k \in DOMAIN s THEN s[k] ELSE BlobInfo(0, 0, 1)

BlobSizes(blobs) ==
    LET groupSizes == [k \in DOMAIN blobs |->
                          BlobInfo(blobs[k].size, blobs[k].alignment, Cardinality(blobs[k].bound))]
    IN  [k \in 1..Larger(Len(info), Len(blobs)) |-> Both(At(info, k), At(groupSizes, k))]

-----------------------------------------------------------------------------
(* OffsetLifetimeManager::update_blobs_and_mappings *)

(* Mutant: no padding up to the alignment.                                 *)
AlignOffset_None(offset, alignment) == offset

AlignOffset(offset, alignment) ==
    IF alignment = 0 \/ offset % alignment = 0 THEN offset
    ELSE offset + (alignment - (offset % alignment))

(* The _blob once the free blobs are counted.                              *)
OffsetSize(blobs) ==
    LET Alignment == FoldLeft(LAMBDA a, b : Larger(a, b.alignment), info.alignment, blobs)
        Sum       == FoldLeft(LAMBDA a, b : a + b.size, 0, blobs)
    IN  BlobInfo(Larger(info.size, Sum + (Len(blobs) * Alignment)), Alignment,
                 Larger(info.owners, Len(blobs)))

(* The offset of each blob.                                                *)
OffsetOf(blobs, alignment) ==
    LET offset[k \in 1..Len(blobs) + 1] ==
            IF k = 1 THEN 0 ELSE AlignOffset(offset[k-1] + blobs[k-1].size, alignment)
    IN  offset

-----------------------------------------------------------------------------
(* update_blobs_and_mappings of either manager: the info it arrives at,    *)
(* and an index or an offset for each object bound to a blob.              *)
Update(blobs) ==
    LET new   == IF mappingType = "BLOBS" THEN BlobSizes(BySize(blobs)) ELSE OffsetSize(blobs)
        Place(k) == IF mappingType = "BLOBS" THEN Rank(blobs, k)
                                             ELSE OffsetOf(blobs, new.alignment)[k]
    IN  [info  |-> new,
         place |-> [o \in UNION {blobs[k].bound : k \in DOMAIN blobs} |->
                       Place(CHOOSE k \in DOMAIN blobs : o \in blobs[k].bound)]]

-----------------------------------------------------------------------------
(* Mutant: a free blob is taken over but does not get its new object.      *)
StartBlob_KeepsId(o) ==
    LET new == [id |-> o, size |-> 0, alignment |-> 0, bound |-> {o}]
    IN  /\ occupiedBlobs' = <<IF freeBlobs = <<>> THEN new ELSE Head(freeBlobs)>> \o occupiedBlobs
        /\ freeBlobs' = IF freeBlobs = <<>> THEN <<>> ELSE Tail(freeBlobs)

(* A blob for an object whose lifetime starts: a free one if there is any. *)
StartBlob(o) ==
    \/ /\ freeBlobs = <<>>
       /\ occupiedBlobs' = <<[id |-> o, size |-> 0, alignment |-> 0, bound |-> {o}]>> \o occupiedBlobs
       /\ UNCHANGED freeBlobs
    \/ /\ freeBlobs # <<>>
       /\ occupiedBlobs' = <<[Head(freeBlobs) EXCEPT !.id = o]>> \o occupiedBlobs
       /\ freeBlobs' = Tail(freeBlobs)

(* MemoryGroup::manage: register_group, which does nothing while another   *)
(* group is active, then start_lifetime.  An object has one lifetime until *)
(* its group is released.                                                  *)
Manage(g, o) ==
    /\ o \notin DOMAIN elements
    /\ \A h \in Groups : o \notin DOMAIN mappings[h]
    /\ activeGroup' = IF activeGroup = NoGroup THEN g ELSE activeGroup
    /\ StartBlob(o)
    /\ elements' = Inserted(elements, [x \in {o} |-> Element(0, 0, FALSE)])
    /\ together' = together \union {{o, p} : p \in Alive}
    /\ UNCHANGED <<mappingType, finalized, mappings, info>>

(* Mutant: the first occupied blob is freed, whoever lives in it.          *)
BlobOf_First(o) == 1

(* The occupied blob that end_lifetime finds for o.                        *)
BlobOf(o) == SelectInSeq(occupiedBlobs, LAMBDA b : b.id = o)

(* That blob when it is free again.                                        *)
EndedBlob(o, size, alignment) ==
    LET b == occupiedBlobs[BlobOf(o)]
    IN  [id        |-> NoObject,
         size      |-> Larger(b.size, size),
         alignment |-> Larger(b.alignment, alignment),
         bound     |-> b.bound \union {o}]

(* MemoryGroup::finalize_memory: end_lifetime.  The last object alive ends *)
(* the configuration of the active group, whoever the object belongs to.   *)
FinalizeMemory(o, size, alignment) ==
    LET ended  == [elements EXCEPT ![o] = Element(size, alignment, TRUE)]
        blobs  == <<EndedBlob(o, size, alignment)>> \o freeBlobs
        update == Update(blobs)
    IN  /\ o \in Alive
        /\ occupiedBlobs' = RemoveAt(occupiedBlobs, BlobOf(o))
        /\ \/ /\ Alive # {o}
              /\ elements' = ended /\ freeBlobs' = blobs
              /\ UNCHANGED <<activeGroup, finalized, mappings, info>>
           \/ /\ Alive = {o}
              /\ info' = update.info
              /\ mappings' = [mappings EXCEPT ![activeGroup] = Inserted(update.place, @)]
              /\ finalized' = [finalized EXCEPT ![activeGroup] = Inserted(@, ended)]
              /\ elements' = Nothing /\ freeBlobs' = <<>> /\ activeGroup' = NoGroup
        /\ UNCHANGED <<mappingType, together>>

(* release_group: only groups that were finalized lose their mappings.     *)
ReleaseGroup(g) ==
    /\ finalized[g] # Nothing
    /\ finalized' = [finalized EXCEPT ![g] = Nothing]
    /\ mappings' = [mappings EXCEPT ![g] = Nothing]
    /\ together' = {pair \in together : pair \intersect DOMAIN mappings[g] = {}}
    /\ UNCHANGED <<mappingType, activeGroup, elements, freeBlobs, occupiedBlobs, info>>

LifetimeInit ==
    /\ mappingType \in MappingTypes
    /\ activeGroup = NoGroup /\ elements = Nothing
    /\ freeBlobs = <<>> /\ occupiedBlobs = <<>>
    /\ finalized = [g \in Groups |-> Nothing]
    /\ mappings = [g \in Groups |-> Nothing]
    /\ info = IF mappingType = "BLOBS" THEN <<>> ELSE BlobInfo(0, 0, 1)
    /\ together = {}

LifetimeNext ==
    \/ \E g \in Groups, o \in Objects : Manage(g, o)
    \/ \E o \in Objects, r \in Requests : FinalizeMemory(o, r[1], r[2])
    \/ \E g \in Groups : ReleaseGroup(g)

LifetimeSpec == LifetimeInit /\ [][LifetimeNext]_lifetimeVars
-----------------------------------------------------------------------------
(* Properties *)

Mapped(g) == DOMAIN mappings[g]

Suits(alignment, wanted) == wanted = 0 \/ alignment % wanted = 0

(* Do two objects of a group get memory that has no byte in common?        *)
Apart(g, o, p) ==
    LET at == mappings[g] IN
    IF mappingType = "BLOBS" THEN at[o] # at[p]
    ELSE \/ at[o] + finalized[g][o].size <= at[p]
         \/ at[p] + finalized[g][p].size <= at[o]

(* Objects that were alive at the same time, whichever groups they were    *)
(* given to, end in the mappings of one group and share no memory.         *)
AliveTogetherApart ==
    \A o, p \in Objects : o # p /\ {o, p} \in together => \A g \in Groups :
        /\ o \in Mapped(g) <=> p \in Mapped(g)
        /\ o \in Mapped(g) => Apart(g, o, p)

(* Memory made for the sizes in sizes holds object o of group g, at the    *)
(* alignment it asked for.                                                 *)
FitsIn(sizes, g, o) ==
    LET e  == finalized[g][o]
        at == mappings[g][o]
    IN  \/ /\ mappingType = "BLOBS"
           /\ at + 1 \in DOMAIN sizes
           /\ e.size <= sizes[at + 1].size
           /\ Suits(sizes[at + 1].alignment, e.alignment)
        \/ /\ mappingType = "OFFSETS"
           /\ at + e.size <= sizes.size
           /\ Suits(sizes.alignment, e.alignment) /\ Suits(at, e.alignment)

(* The blobs that a pool is created with hold every object of every group, *)
(* also of the groups finalized long ago.                                  *)
EverythingFits == \A g \in Groups : \A o \in Mapped(g) : FitsIn(info, g, o)

(* The assertions of end_lifetime: an object that is alive has a blob of   *)
(* its own, and when nobody is alive no blob is occupied and the manager   *)
(* is ready for another group.                                             *)
BlobsOfTheLiving ==
    /\ Len(occupiedBlobs) = Cardinality(Alive)
    /\ {occupiedBlobs[k].id : k \in DOMAIN occupiedBlobs} = Alive
    /\ Alive = {} => activeGroup = NoGroup /\ elements = Nothing /\ freeBlobs = <<>>
=============================================================================
