------------------------ MODULE MemoryManagerProofs ------------------------
(***************************************************************************)
(* Theorems about LifetimeManager and MemoryManager.                       *)
(*                                                                         *)
(* First the lifetime manager, for every set of objects, groups and        *)
(* requests, with blobs and with offsets: objects that are alive together  *)
(* share no memory, everything fits, and the living have blobs of their    *)
(* own.  Then functions that share pools of memory, for any number of      *)
(* tensors, groups and pools.  Every step of the memory manager is a step  *)
(* of its lifetime manager or none, so that LifetimeInv holds throughout;  *)
(* the rest of the invariant follows each thread through MemoryGroup's     *)
(* acquire and release.                                                    *)
(***************************************************************************)
EXTENDS MemoryManager, DataInduction, FiniteSetTheorems

(* A sequence without repetitions, and what is in it.                      *)
Elems(s) == {s[k] : k \in 1..Len(s)}
Distinct(s) == \A j, k \in 1..Len(s) : s[j] = s[k] => j = k

LEMMA PrependFacts ==
    ASSUME NEW S, NEW s \in Seq(S), NEW x \in S
    PROVE  /\ <<x>> \o s \in Seq(S)
           /\ Len(<<x>> \o s) = Len(s) + 1
           /\ Elems(<<x>> \o s) = {x} \union Elems(s)
           /\ Distinct(s) /\ x \notin Elems(s) => Distinct(<<x>> \o s)
<1> DEFINE t == <<x>> \o s
<1>1. /\ t \in Seq(S) /\ Len(t) = Len(s) + 1 /\ Len(s) \in Nat
      /\ t[1] = x
      /\ \A k \in 1..Len(s) : t[k + 1] = s[k]
  OBVIOUS
<1> HIDE DEF t
<1>2. \A k \in 1..Len(t) : k = 1 \/ (k - 1 \in 1..Len(s) /\ t[k] = s[k - 1])
  BY <1>1
<1>3. Elems(t) = {x} \union Elems(s)
  <2>1. ASSUME NEW y \in Elems(t) PROVE y \in {x} \union Elems(s)
    BY <1>1, <1>2 DEF Elems
  <2>2. ASSUME NEW y \in Elems(s) PROVE y \in Elems(t)
    <3>1. PICK k \in 1..Len(s) : y = s[k] BY DEF Elems
    <3>2. k + 1 \in 1..Len(t) /\ t[k + 1] = y BY <1>1, <3>1
    <3> QED BY <3>2 DEF Elems
  <2>3. x \in Elems(t)
    <3>1. 1 \in 1..Len(t) BY <1>1
    <3> QED BY <1>1, <3>1 DEF Elems
  <2> QED BY <2>1, <2>2, <2>3
<1>4. ASSUME Distinct(s), x \notin Elems(s) PROVE Distinct(t)
  <2> SUFFICES ASSUME NEW j \in 1..Len(t), NEW k \in 1..Len(t), t[j] = t[k] PROVE j = k
    BY DEF Distinct
  <2>1. \A i \in 1..Len(s) : s[i] # x BY <1>4 DEF Elems
  <2> QED BY <1>1, <1>2, <1>4, <2>1 DEF Distinct
<1> QED BY <1>1, <1>3, <1>4 DEF t

LEMMA TailFacts ==
    ASSUME NEW S, NEW s \in Seq(S), s # <<>>
    PROVE  /\ Tail(s) \in Seq(S) /\ Head(s) \in Elems(s) /\ Head(s) \in S
           /\ Elems(Tail(s)) \subseteq Elems(s)
           /\ Distinct(s) => Distinct(Tail(s)) /\ Elems(Tail(s)) = Elems(s) \ {Head(s)}
<1> DEFINE t == Tail(s)
<1>1. /\ t \in Seq(S) /\ Len(s) \in Nat \ {0} /\ Len(t) = Len(s) - 1 /\ Head(s) = s[1]
      /\ Head(s) \in S /\ \A k \in 1..Len(t) : t[k] = s[k + 1]
  OBVIOUS
<1> HIDE DEF t
<1>2. 1 \in 1..Len(s) /\ Head(s) \in Elems(s)
  <2>1. 1 \in 1..Len(s) BY <1>1
  <2> QED BY <1>1, <2>1 DEF Elems
<1>3. Elems(t) \subseteq Elems(s)
  <2> SUFFICES ASSUME NEW y \in Elems(t) PROVE y \in Elems(s) OBVIOUS
  <2>1. PICK k \in 1..Len(t) : y = t[k] BY DEF Elems
  <2>2. k + 1 \in 1..Len(s) /\ y = s[k + 1] BY <1>1, <2>1
  <2> QED BY <2>2 DEF Elems
<1>4. ASSUME Distinct(s) PROVE Distinct(t) /\ Elems(t) = Elems(s) \ {Head(s)}
  <2>1. Distinct(t)
    <3> SUFFICES ASSUME NEW j \in 1..Len(t), NEW k \in 1..Len(t), t[j] = t[k] PROVE j = k
      BY DEF Distinct
    <3> QED BY <1>1, <1>4 DEF Distinct
  <2>2. ASSUME NEW y \in Elems(s), y # Head(s) PROVE y \in Elems(t)
    <3>1. PICK k \in 1..Len(s) : y = s[k] BY DEF Elems
    <3>2. k # 1 BY <1>1, <2>2, <3>1
    <3>3. k - 1 \in 1..Len(t) /\ t[k - 1] = y BY <1>1, <3>1, <3>2
    <3> QED BY <3>3 DEF Elems
  <2>3. Head(s) \notin Elems(t)
    <3> SUFFICES ASSUME NEW k \in 1..Len(t), t[k] = Head(s) PROVE FALSE BY DEF Elems
    <3>1. s[k + 1] = s[1] /\ k + 1 \in 1..Len(s) /\ k + 1 # 1 BY <1>1
    <3> QED BY <1>2, <1>4, <3>1 DEF Distinct
  <2> QED BY <1>3, <2>1, <2>2, <2>3
<1> QED BY <1>1, <1>2, <1>3, <1>4 DEF t

LEMMA RemoveFacts ==
    ASSUME NEW S, NEW s \in Seq(S), NEW i \in 1..Len(s), Distinct(s)
    PROVE  /\ RemoveAt(s, i) \in Seq(S) /\ Len(RemoveAt(s, i)) = Len(s) - 1
           /\ Elems(RemoveAt(s, i)) = Elems(s) \ {s[i]}
           /\ Distinct(RemoveAt(s, i))
<1> DEFINE a == SubSeq(s, 1, i - 1)
           b == SubSeq(s, i + 1, Len(s))
           t == a \o b
<1>1. /\ a \in Seq(S) /\ Len(a) = i - 1
      /\ \A k \in 1..i-1 : a[k] = s[k]
  OBVIOUS
<1>2. /\ b \in Seq(S) /\ Len(b) = Len(s) - i
      /\ \A k \in 1..Len(s)-i : b[k] = s[i + k]
  OBVIOUS
<1> HIDE DEF a, b
<1>3. /\ t \in Seq(S) /\ Len(t) = Len(s) - 1 /\ Len(s) \in Nat
  <2>1. Len(s) \in Nat OBVIOUS
  <2>2. a \in Seq(S) /\ b \in Seq(S) BY <1>1, <1>2
  <2>3. t \in Seq(S) BY <2>2
  <2>4. Len(t) = Len(a) + Len(b) BY <2>2
  <2> QED BY <1>1, <1>2, <2>1, <2>3, <2>4
<1>4. \A k \in 1..Len(t) : t[k] = IF k < i THEN s[k] ELSE s[k + 1]
  <2> SUFFICES ASSUME NEW k \in 1..Len(t) PROVE t[k] = IF k < i THEN s[k] ELSE s[k + 1]
    OBVIOUS
  <2>1. t[k] = IF k <= Len(a) THEN a[k] ELSE b[k - Len(a)]
    BY <1>1, <1>2
  <2>2. CASE k < i
    <3>1. k \in 1..i-1 BY <2>2
    <3> QED BY <1>1, <2>1, <2>2, <3>1
  <2>3. CASE ~(k < i)
    <3>1. k - (i - 1) \in 1..Len(s)-i BY <1>3, <2>3
    <3>2. b[k - (i - 1)] = s[i + (k - (i - 1))] BY <1>2, <3>1
    <3>3. i + (k - (i - 1)) = k + 1 BY <1>3
    <3>4. ~(k <= Len(a)) /\ k - Len(a) = k - (i - 1) BY <1>1, <1>3, <2>3
    <3>5. t[k] = b[k - (i - 1)] BY <2>1, <3>4
    <3> QED BY <2>3, <3>2, <3>3, <3>5
  <2> QED BY <2>2, <2>3
<1> HIDE DEF t
<1>5. Distinct(t)
  <2> SUFFICES ASSUME NEW j \in 1..Len(t), NEW k \in 1..Len(t), t[j] = t[k] PROVE j = k
    BY DEF Distinct
  <2>1. j \in 1..Len(s) /\ j + 1 \in 1..Len(s) /\ k \in 1..Len(s) /\ k + 1 \in 1..Len(s) BY <1>3
  <2>2. (IF j < i THEN j ELSE j + 1) = (IF k < i THEN k ELSE k + 1)
    BY <1>4, <2>1 DEF Distinct
  <2> QED BY <2>1, <2>2
<1>6. ASSUME NEW y \in Elems(t) PROVE y \in Elems(s) \ {s[i]}
  <2>1. PICK k \in 1..Len(t) : y = t[k] BY <1>6 DEF Elems
  <2>2. PICK j \in 1..Len(s) : j # i /\ y = s[j]
    <3>1. k \in 1..Len(s) /\ k + 1 \in 1..Len(s) BY <1>3
    <3>2. CASE k < i BY <1>4, <2>1, <3>1, <3>2
    <3>3. CASE ~(k < i) BY <1>4, <2>1, <3>1, <3>3
    <3> QED BY <3>2, <3>3
  <2> QED BY <2>2 DEF Elems, Distinct
<1>7. ASSUME NEW y \in Elems(s), y # s[i] PROVE y \in Elems(t)
  <2>1. PICK j \in 1..Len(s) : y = s[j] BY <1>7 DEF Elems
  <2>2. CASE j < i
    <3>1. j \in 1..Len(t) /\ t[j] = y BY <1>3, <1>4, <2>1, <2>2
    <3> QED BY <3>1 DEF Elems
  <2>3. CASE ~(j < i)
    <3>1. j # i BY <1>7, <2>1
    <3>2. j - 1 \in 1..Len(t) /\ t[j - 1] = y BY <1>3, <1>4, <2>1, <2>3, <3>1
    <3> QED BY <3>2 DEF Elems
  <2> QED BY <2>2, <2>3
<1>8. RemoveAt(s, i) = t BY DEF RemoveAt, t, a, b
<1> QED BY <1>3, <1>5, <1>6, <1>7, <1>8

-----------------------------------------------------------------------------
(* The inductive invariant.                                                *)

Alignments == {0} \union {r[2] : r \in Requests}

Blob == [id : Objects \union {NoObject}, size : Nat, alignment : Alignments, bound : SUBSET Objects]

ElementRecord == [size : Nat, alignment : Alignments, status : BOOLEAN]

(* Who lives, or has lived, in a blob.                                     *)
Users(b) == b.bound \union ({b.id} \ {NoObject})

Living(els) == {o \in DOMAIN els : ~els[o].status}

LifetimeTypeOK ==
    /\ mappingType \in MappingTypes
    /\ activeGroup \in Groups \union {NoGroup}
    /\ DOMAIN elements \subseteq Objects /\ elements \in [DOMAIN elements -> ElementRecord]
    /\ freeBlobs \in Seq(Blob) /\ occupiedBlobs \in Seq(Blob)
    /\ mappings = [g \in Groups |-> mappings[g]] /\ finalized = [g \in Groups |-> finalized[g]]
    /\ \A g \in Groups : /\ Mapped(g) \subseteq Objects
                         /\ mappings[g] = [o \in Mapped(g) |-> mappings[g][o]]
                         /\ finalized[g] \in [Mapped(g) -> ElementRecord]

(* The free blobs F and the occupied blobs O of the elements els: every    *)
(* element uses one blob, an occupied one while it lives, and the blob is  *)
(* as large as all the elements that are through with it.                  *)
EachUsesOne(F, O, els) ==
    /\ \A b \in F : b.id = NoObject /\ b.bound # {}
    /\ \A b \in O : b.id \in Living(els)
    /\ \A b \in F \union O : b.bound \ {b.id} \subseteq DOMAIN els \ Living(els)
    /\ \A b, c \in F \union O : b # c => Users(b) \intersect Users(c) = {}
    /\ \A o \in DOMAIN els : \E b \in F \union O : o \in Users(b)

LargeEnough(b, els) ==
    \A o \in b.bound \ {b.id} : els[o].size <= b.size /\ els[o].alignment <= b.alignment

(* No two users of a blob have been alive together.                        *)
NotTogether(users, pairs) == \A o, p \in users : o # p => {o, p} \notin pairs

LEMMA UsersAreElements ==
    ASSUME NEW F \in SUBSET Blob, NEW O \in SUBSET Blob, NEW els, EachUsesOne(F, O, els),
           NEW d \in F \union O
    PROVE  Users(d) \subseteq DOMAIN els
<1>1. d.bound \ {d.id} \subseteq DOMAIN els BY DEF EachUsesOne
<1>2. CASE d \in F
  <2>1. d.id = NoObject /\ NoObject \notin d.bound
    BY <1>2, LifetimeAssumption DEF EachUsesOne, Blob
  <2> QED BY <1>1, <2>1 DEF Users
<1>3. CASE d \in O
  <2>1. d.id \in DOMAIN els BY <1>3 DEF EachUsesOne, Living
  <2> QED BY <1>1, <2>1 DEF Users
<1> QED BY <1>2, <1>3

(* What becomes of the elements when the life of o starts.                 *)
Starts(els, o, new) ==
    /\ DOMAIN new = DOMAIN els \union {o}
    /\ \A p \in DOMAIN els : new[p] = els[p]
    /\ new[o] = Element(0, 0, FALSE)

LEMMA NewElement ==
    ASSUME NEW els, NEW o, o \notin DOMAIN els, NEW new, Starts(els, o, new)
    PROVE  /\ DOMAIN new = DOMAIN els \union {o}
           /\ Living(new) = Living(els) \union {o}
           /\ DOMAIN new \ Living(new) = DOMAIN els \ Living(els)
<1>1. /\ DOMAIN new = DOMAIN els \union {o}
      /\ \A p \in DOMAIN els : new[p] = els[p]
      /\ new[o] = Element(0, 0, FALSE)
  BY DEF Starts
<1>2. ~new[o].status BY <1>1 DEF Element
<1>3. ASSUME NEW p \in DOMAIN new PROVE p \in Living(new) <=> p = o \/ p \in Living(els)
  BY <1>1, <1>2 DEF Living
<1>4. Living(new) \subseteq DOMAIN new /\ Living(els) \subseteq DOMAIN els BY DEF Living
<1> QED BY <1>1, <1>3, <1>4

BlobsOf(F, O, els) ==
    /\ F \in SUBSET Blob /\ O \in SUBSET Blob /\ DOMAIN els \subseteq Objects
    /\ EachUsesOne(F, O, els)

(* Blob c, once b, or nobody's, is that of o.                              *)
BlobTaken(b, c, o) == c \in Blob /\ c.id = o /\ c.bound = b.bound
BlobMade(c, o)     == c \in Blob /\ c.id = o /\ c.bound = {o}

AfterTake(F, O, els, b, c, o, new) ==
    /\ EachUsesOne(F \ {b}, O \union {c}, new)
    /\ c \notin O /\ Users(c) = b.bound \union {o} /\ c.bound \ {c.id} = b.bound
    /\ b.bound \subseteq DOMAIN els \ Living(els) /\ Users(b) = b.bound

AfterMake(F, O, c, o, new) ==
    /\ EachUsesOne(F, O \union {c}, new)
    /\ c \notin O /\ Users(c) = {o} /\ c.bound \ {c.id} = {}

(* A free blob gets a new object.                                          *)
LEMMA TakeBlob ==
    ASSUME NEW F, NEW O, NEW els, BlobsOf(F, O, els), NEW b, b \in F,
           NEW o, o \in Objects, o \notin DOMAIN els, NEW new, Starts(els, o, new),
           NEW c, BlobTaken(b, c, o)
    PROVE  AfterTake(F, O, els, b, c, o, new)
<1> USE DEF BlobsOf, BlobTaken
<1>1. DOMAIN new = DOMAIN els \union {o} BY DEF Starts
<1>2. Living(new) = Living(els) \union {o} /\ DOMAIN new \ Living(new) = DOMAIN els \ Living(els)
  <2>1. Living(new) = Living(els) \union {o} BY NewElement
  <2>2. DOMAIN new \ Living(new) = DOMAIN els \ Living(els) BY NewElement
  <2> QED BY <2>1, <2>2
<1>3. b \in Blob /\ b.id = NoObject /\ b.bound # {} /\ NoObject \notin b.bound
  BY LifetimeAssumption DEF EachUsesOne, Blob
<1>4. c.id = o /\ c.bound = b.bound OBVIOUS
<1>5. b.bound \subseteq DOMAIN els \ Living(els) /\ o \notin b.bound
  BY <1>3 DEF EachUsesOne
<1>6. c \notin O BY <1>4 DEF EachUsesOne, Living
<1>7. Users(c) = b.bound \union {o} /\ c.bound \ {c.id} = b.bound /\ Users(b) = b.bound
  BY <1>3, <1>4, <1>5, LifetimeAssumption DEF Users
<1>8. \A d \in F \union O : Users(d) \subseteq DOMAIN els BY UsersAreElements
<1>9. \A d \in F \ {b} : d.id = NoObject /\ d.bound # {} BY DEF EachUsesOne
<1>10. \A d \in O \union {c} : d.id \in Living(new) BY <1>2, <1>4 DEF EachUsesOne
<1>11. \A d \in (F \ {b}) \union (O \union {c}) : d.bound \ {d.id} \subseteq DOMAIN new \ Living(new)
  BY <1>2, <1>5, <1>7 DEF EachUsesOne
<1>12. \A d \in (F \ {b}) \union O : Users(d) \intersect Users(c) = {}
  <2> SUFFICES ASSUME NEW d \in (F \ {b}) \union O PROVE Users(d) \intersect Users(c) = {}
    OBVIOUS
  <2>1. d # b BY <1>3, LifetimeAssumption DEF EachUsesOne, Living
  <2>2. Users(d) \intersect Users(b) = {} BY <2>1 DEF EachUsesOne
  <2> QED BY <1>7, <1>8, <2>2
<1>13. \A d, e \in (F \ {b}) \union (O \union {c}) : d # e => Users(d) \intersect Users(e) = {}
  BY <1>12 DEF EachUsesOne
<1>14. ASSUME NEW p \in DOMAIN new
       PROVE  \E d \in (F \ {b}) \union (O \union {c}) : p \in Users(d)
  <2>1. CASE p = o BY <1>7, <2>1
  <2>2. CASE p # o
    <3>1. PICK d \in F \union O : p \in Users(d) BY <1>1, <2>2 DEF EachUsesOne
    <3> QED BY <1>7, <3>1
  <2> QED BY <2>1, <2>2
<1>15. EachUsesOne(F \ {b}, O \union {c}, new)
  BY <1>9, <1>10, <1>11, <1>13, <1>14 DEF EachUsesOne
<1> QED BY <1>5, <1>6, <1>7, <1>15 DEF AfterTake

(* A new object gets a blob of its own.                                    *)
LEMMA MakeBlob ==
    ASSUME NEW F, NEW O, NEW els, BlobsOf(F, O, els),
           NEW o, o \in Objects, o \notin DOMAIN els, NEW new, Starts(els, o, new),
           NEW c, BlobMade(c, o)
    PROVE  AfterMake(F, O, c, o, new)
<1> USE DEF BlobsOf, BlobMade
<1>1. DOMAIN new = DOMAIN els \union {o} BY DEF Starts
<1>2. Living(new) = Living(els) \union {o} /\ DOMAIN new \ Living(new) = DOMAIN els \ Living(els)
  <2>1. Living(new) = Living(els) \union {o} BY NewElement
  <2>2. DOMAIN new \ Living(new) = DOMAIN els \ Living(els) BY NewElement
  <2> QED BY <2>1, <2>2
<1>3. c.id = o /\ c.bound = {o} OBVIOUS
<1>4. c \notin O BY <1>3 DEF EachUsesOne, Living
<1>5. Users(c) = {o} /\ c.bound \ {c.id} = {} BY <1>3, LifetimeAssumption DEF Users
<1>6. \A d \in F \union O : Users(d) \subseteq DOMAIN els BY UsersAreElements
<1>7. \A d \in F : d.id = NoObject /\ d.bound # {} BY DEF EachUsesOne
<1>8. \A d \in O \union {c} : d.id \in Living(new) BY <1>2, <1>3 DEF EachUsesOne
<1>9. \A d \in F \union (O \union {c}) : d.bound \ {d.id} \subseteq DOMAIN new \ Living(new)
  BY <1>2, <1>5 DEF EachUsesOne
<1>10. \A d, e \in F \union (O \union {c}) : d # e => Users(d) \intersect Users(e) = {}
  <2>1. \A d \in F \union O : Users(d) \intersect Users(c) = {} BY <1>5, <1>6
  <2>2. \A d, e \in F \union O : d # e => Users(d) \intersect Users(e) = {} BY DEF EachUsesOne
  <2> QED BY <2>1, <2>2
<1>11. \A p \in DOMAIN new : \E d \in F \union (O \union {c}) : p \in Users(d)
  BY <1>1, <1>5 DEF EachUsesOne
<1>12. EachUsesOne(F, O \union {c}, new)
  BY <1>7, <1>8, <1>9, <1>10, <1>11 DEF EachUsesOne
<1> QED BY <1>4, <1>5, <1>12 DEF AfterMake

(* What becomes of the elements, and of blob b, when the life of o ends.   *)
Ends(els, o, size, alignment, new) ==
    /\ size \in Nat /\ alignment \in Alignments
    /\ new = [els EXCEPT ![o] = Element(size, alignment, TRUE)]

BlobEnded(b, e, o, size, alignment) ==
    e = [id |-> NoObject, size |-> Larger(b.size, size),
         alignment |-> Larger(b.alignment, alignment), bound |-> b.bound \union {o}]

AfterEnd(F, O, b, e, o, new) ==
    /\ EachUsesOne(F \union {e}, O \ {b}, new)
    /\ e \in Blob /\ e \notin F /\ Users(e) = Users(b) /\ LargeEnough(e, new)
    /\ e.bound = Users(e) /\ Living(new) = {d.id : d \in O \ {b}}
    /\ \A d \in F \union (O \ {b}) : o \notin Users(d)

(* An object ends and its blob is free.                                    *)
LEMMA EndBlob ==
    ASSUME NEW F, NEW O, NEW els, BlobsOf(F, O, els), els \in [DOMAIN els -> ElementRecord],
           NEW b, b \in O, NEW o, o = b.id, LargeEnough(b, els),
           NEW size, NEW alignment, NEW new, Ends(els, o, size, alignment, new),
           NEW e, BlobEnded(b, e, o, size, alignment)
    PROVE  AfterEnd(F, O, b, e, o, new)
<1> USE DEF BlobsOf, Ends, BlobEnded
<1>1. o \in Living(els) /\ b \in Blob /\ o \in Objects BY DEF EachUsesOne, Living
<1>2. /\ DOMAIN new = DOMAIN els /\ new[o] = Element(size, alignment, TRUE)
      /\ \A p \in DOMAIN els \ {o} : new[p] = els[p]
  BY <1>1 DEF Living
<1>3. Living(new) = Living(els) \ {o} BY <1>1, <1>2 DEF Living, Element
<1>4. e \in Blob /\ e.id = NoObject /\ e.bound = b.bound \union {o} /\ NoObject \notin e.bound
  <2>1. Larger(b.size, size) \in Nat /\ Larger(b.alignment, alignment) \in Alignments
    BY <1>1 DEF Blob, Larger
  <2>2. b.bound \union {o} \in SUBSET Objects BY <1>1 DEF Blob
  <2>3. e \in Blob BY <2>1, <2>2 DEF Blob
  <2>4. e.id = NoObject /\ e.bound = b.bound \union {o} OBVIOUS
  <2> QED BY <2>2, <2>3, <2>4, LifetimeAssumption
<1>5. Users(e) = Users(b) /\ o \in Users(b) BY <1>1, <1>4, LifetimeAssumption DEF Users
<1>6. b \notin F BY <1>1, LifetimeAssumption DEF EachUsesOne
<1>7. \A d \in F \union (O \ {b}) : Users(d) \intersect Users(b) = {}
  BY <1>6 DEF EachUsesOne
<1>8. \A d \in F \union (O \ {b}) : o \notin Users(d) BY <1>5, <1>7
<1>9. e \notin F BY <1>5, <1>8
<1>10. \A d \in F \union {e} : d.id = NoObject /\ d.bound # {} BY <1>4 DEF EachUsesOne
<1>11. \A d \in O \ {b} : d.id \in Living(new)
  <2> SUFFICES ASSUME NEW d \in O \ {b} PROVE d.id \in Living(new) OBVIOUS
  <2>1. d.id \in Living(els) /\ d.id \in Objects BY DEF EachUsesOne, Living
  <2>2. d.id \in Users(d) BY <2>1, LifetimeAssumption DEF Users
  <2> QED BY <1>3, <1>8, <2>1, <2>2
<1>12. \A d \in (F \union {e}) \union (O \ {b}) : d.bound \ {d.id} \subseteq DOMAIN new \ Living(new)
  <2>1. \A d \in F \union (O \ {b}) : d.bound \ {d.id} \subseteq DOMAIN new \ Living(new)
    BY <1>2, <1>3 DEF EachUsesOne
  <2>2. e.bound \ {e.id} \subseteq DOMAIN new \ Living(new)
    <3>1. b.bound \ {o} \subseteq DOMAIN els \ Living(els) BY DEF EachUsesOne
    <3> QED BY <1>1, <1>2, <1>3, <1>4, <3>1 DEF Living
  <2> QED BY <2>1, <2>2
<1>13. \A c, d \in (F \union {e}) \union (O \ {b}) : c # d => Users(c) \intersect Users(d) = {}
  BY <1>5, <1>7 DEF EachUsesOne
<1>14. \A p \in DOMAIN new : \E d \in (F \union {e}) \union (O \ {b}) : p \in Users(d)
  BY <1>2, <1>5 DEF EachUsesOne
<1>15. EachUsesOne(F \union {e}, O \ {b}, new)
  BY <1>10, <1>11, <1>12, <1>13, <1>14 DEF EachUsesOne
<1>16. LargeEnough(e, new)
  <2> SUFFICES ASSUME NEW p \in e.bound
               PROVE  new[p].size <= e.size /\ new[p].alignment <= e.alignment
    BY DEF LargeEnough
  <2>1. /\ e.size \in Nat /\ e.size >= b.size /\ e.size >= size /\ b.size \in Nat
        /\ e.alignment \in Nat /\ e.alignment >= b.alignment /\ e.alignment >= alignment
        /\ b.alignment \in Nat /\ alignment \in Nat
    BY <1>1, LifetimeAssumption DEF Larger, Blob, Alignments
  <2>2. CASE p = o BY <1>2, <2>1, <2>2 DEF Element
  <2>3. CASE p # o
    <3>1. p \in b.bound \ {o} BY <1>4, <2>3
    <3>2. p \in DOMAIN els /\ els[p].size <= b.size /\ els[p].alignment <= b.alignment
      BY <3>1 DEF LargeEnough, EachUsesOne
    <3>3. els[p].size \in Nat /\ els[p].alignment \in Nat
      BY <3>2, LifetimeAssumption DEF ElementRecord, Alignments
    <3> QED BY <1>2, <2>1, <2>3, <3>2, <3>3
  <2> QED BY <2>2, <2>3
<1>17. e.bound = Users(e) BY <1>4 DEF Users
<1>18. Living(new) = {d.id : d \in O \ {b}}
  <2>1. ASSUME NEW p \in Living(new) PROVE \E d \in O \ {b} : d.id = p
    <3>1. p \in DOMAIN new /\ p \in Living(new) BY DEF Living
    <3>2. PICK d \in (F \union {e}) \union (O \ {b}) : p \in Users(d) BY <1>14, <3>1
    <3>3. p \notin d.bound \ {d.id} BY <1>12, <3>1
    <3>4. p # NoObject BY <1>2, <3>1, LifetimeAssumption
    <3>5. p = d.id BY <3>2, <3>3 DEF Users
    <3>6. d \notin F \union {e} BY <1>10, <3>4, <3>5
    <3> QED BY <3>2, <3>5, <3>6
  <2> QED BY <1>11, <2>1
<1> QED BY <1>4, <1>5, <1>8, <1>9, <1>15, <1>16, <1>17, <1>18 DEF AfterEnd

-----------------------------------------------------------------------------
(* The order of the blobs.                                                 *)

LEMMA FunctionIsSeq ==
    ASSUME NEW n \in Nat, NEW S, NEW f \in [1..n -> S]
    PROVE  f \in Seq(S) /\ Len(f) = n
<1>1. f \in Seq(S) OBVIOUS
<1>2. DOMAIN f = 1..n /\ DOMAIN f = 1..Len(f) /\ Len(f) \in Nat BY <1>1
<1> QED BY <1>1, <1>2

Earlier(blobs, k) == {j \in DOMAIN blobs : \/ blobs[j].size > blobs[k].size
                                           \/ blobs[j].size = blobs[k].size /\ j < k}

LEMMA RankFacts ==
    ASSUME NEW blobs \in Seq(Blob)
    PROVE  /\ \A k \in 1..Len(blobs) : Rank(blobs, k) \in 0..Len(blobs)-1
           /\ \A j, k \in 1..Len(blobs) : Rank(blobs, j) = Rank(blobs, k) => j = k
<1> DEFINE n == Len(blobs)
<1>1. n \in Nat /\ DOMAIN blobs = 1..n OBVIOUS
<1>2. \A k \in 1..n : blobs[k].size \in Nat
  <2>1. \A k \in 1..n : blobs[k] \in Blob OBVIOUS
  <2> QED BY <2>1 DEF Blob
<1>3. IsFiniteSet(1..n) /\ Cardinality(1..n) = n
  <2>1. 1 \in Int /\ n \in Int BY <1>1
  <2>2. IsFiniteSet(1..n) /\ Cardinality(1..n) = IF 1 > n THEN 0 ELSE n - 1 + 1
    BY <2>1, FS_Interval
  <2> QED BY <1>1, <2>2
<1> HIDE DEF n
<1>4. ASSUME NEW k \in 1..n PROVE /\ Earlier(blobs, k) \subseteq (1..n) \ {k}
                                  /\ IsFiniteSet(Earlier(blobs, k))
                                  /\ Cardinality(Earlier(blobs, k)) \in 0..n-1
  <2>1. Earlier(blobs, k) \subseteq (1..n) \ {k} BY <1>1, <1>2 DEF Earlier
  <2>2. IsFiniteSet((1..n) \ {k}) /\ Cardinality((1..n) \ {k}) = n - 1
    BY <1>3, FS_RemoveElement
  <2>3. IsFiniteSet(Earlier(blobs, k)) /\ Cardinality(Earlier(blobs, k)) <= n - 1
    BY <2>1, <2>2, FS_Subset
  <2>4. Cardinality(Earlier(blobs, k)) \in Nat BY <2>3, FS_CardinalityType
  <2> QED BY <1>1, <2>1, <2>3, <2>4
<1>5. ASSUME NEW j \in 1..n, NEW k \in 1..n, j \in Earlier(blobs, k)
      PROVE  Cardinality(Earlier(blobs, j)) # Cardinality(Earlier(blobs, k))
  <2>1. Earlier(blobs, j) \subseteq Earlier(blobs, k) BY <1>1, <1>2, <1>5 DEF Earlier
  <2>2. j \notin Earlier(blobs, j) BY <1>4
  <2> QED BY <1>4, <1>5, <2>1, <2>2, FS_Subset
<1>6. \A j, k \in 1..n : j = k \/ j \in Earlier(blobs, k) \/ k \in Earlier(blobs, j)
  BY <1>1, <1>2 DEF Earlier
<1>7. \A k \in 1..n : Rank(blobs, k) = Cardinality(Earlier(blobs, k)) BY DEF Rank, Earlier
<1> QED BY <1>4, <1>5, <1>6, <1>7 DEF n

LEMMA BySizeFacts ==
    ASSUME NEW blobs \in Seq(Blob)
    PROVE  /\ BySize(blobs) \in Seq(Blob) /\ Len(BySize(blobs)) = Len(blobs)
           /\ \A k \in 1..Len(blobs) : BySize(blobs)[Rank(blobs, k) + 1] = blobs[k]
<1> DEFINE n == Len(blobs)
           rank == [k \in 1..n |-> Rank(blobs, k) + 1]
<1>1. n \in Nat /\ DOMAIN blobs = 1..n /\ \A k \in 1..n : blobs[k] \in Blob OBVIOUS
<1>2. /\ \A k \in 1..n : Rank(blobs, k) \in 0..n-1
      /\ \A j, k \in 1..n : Rank(blobs, j) = Rank(blobs, k) => j = k
  BY RankFacts
<1>3. IsFiniteSet(1..n)
  <2>1. 1 \in Int /\ n \in Int BY <1>1
  <2> QED BY <2>1, FS_Interval
<1>4. rank \in Injection(1..n, 1..n)
  <2>1. \A k \in 1..n : Rank(blobs, k) + 1 \in 1..n BY <1>1, <1>2
  <2>2. rank \in [1..n -> 1..n] BY <2>1
  <2>3. \A j, k \in 1..n : rank[j] = rank[k] => j = k BY <1>1, <1>2
  <2> HIDE DEF rank
  <2> QED BY <2>2, <2>3 DEF Injection, IsInjective
<1>5. rank \in Surjection(1..n, 1..n)
  <2> HIDE DEF rank
  <2> QED BY <1>3, <1>4, FS_Injection
<1>6. \A r \in 1..n : \E k \in 1..n : Rank(blobs, k) + 1 = r
  <2> SUFFICES ASSUME NEW r \in 1..n PROVE \E k \in 1..n : Rank(blobs, k) + 1 = r OBVIOUS
  <2>1. \E k \in 1..n : rank[k] = r
    <3> HIDE DEF rank
    <3> QED BY <1>5 DEF Surjection
  <2> QED BY <2>1
<1>7. ASSUME NEW r \in 1..n PROVE \E k \in 1..n : Rank(blobs, k) = r - 1
  <2>1. PICK k \in 1..n : Rank(blobs, k) + 1 = r BY <1>6
  <2>2. Rank(blobs, k) = r - 1 BY SMTT(20), <1>1, <1>2, <2>1
  <2> QED BY <2>2
<1>8. ASSUME NEW r \in 1..n
      PROVE  /\ (CHOOSE k \in DOMAIN blobs : Rank(blobs, k) = r - 1) \in 1..n
             /\ Rank(blobs, CHOOSE k \in DOMAIN blobs : Rank(blobs, k) = r - 1) = r - 1
  BY <1>1, <1>7
<1>9. BySize(blobs) \in [1..n -> Blob] BY <1>1, <1>8 DEF BySize
<1>10. BySize(blobs) \in Seq(Blob) /\ Len(BySize(blobs)) = n BY <1>1, <1>9, FunctionIsSeq
<1>11. ASSUME NEW k \in 1..n PROVE BySize(blobs)[Rank(blobs, k) + 1] = blobs[k]
  <2> DEFINE r == Rank(blobs, k) + 1
             c == CHOOSE i \in DOMAIN blobs : Rank(blobs, i) = r - 1
  <2>1. r \in 1..n /\ r - 1 = Rank(blobs, k) BY <1>1, <1>2
  <2>2. c \in 1..n /\ Rank(blobs, c) = r - 1 BY <1>8, <2>1
  <2>3. c = k BY <1>2, <2>1, <2>2
  <2>4. BySize(blobs)[r] = blobs[c] BY <1>1, <2>1 DEF BySize
  <2> QED BY <2>3, <2>4
<1> QED BY <1>10, <1>11

-----------------------------------------------------------------------------
(* update_blobs_and_mappings with blobs.                                   *)

Holds(a, b) == a.size >= b.size /\ a.alignment >= b.alignment

InfoOK(sizes) ==
    /\ Len(sizes) \in Nat /\ DOMAIN sizes = 1..Len(sizes)
    /\ \A k \in 1..Len(sizes) : sizes[k].size \in Nat /\ sizes[k].alignment \in Alignments

LEMMA BothHolds ==
    ASSUME NEW a, NEW b, a.size \in Nat, a.alignment \in Alignments,
           b.size \in Nat, b.alignment \in Alignments
    PROVE  /\ Both(a, b).size \in Nat /\ Both(a, b).alignment \in Alignments
           /\ Holds(Both(a, b), a) /\ Holds(Both(a, b), b)
<1>1. a.alignment \in Nat /\ b.alignment \in Nat BY LifetimeAssumption DEF Alignments
<1>2. /\ Both(a, b).size = Larger(a.size, b.size)
      /\ Both(a, b).alignment = Larger(a.alignment, b.alignment)
  BY DEF Both, BlobInfo
<1> QED BY <1>1, <1>2 DEF Larger, Holds

LEMMA BlobSizesFacts ==
    ASSUME InfoOK(info), NEW blobs \in Seq(Blob), NEW new, new = BlobSizes(blobs)
    PROVE  /\ InfoOK(new) /\ Len(new) >= Len(info) /\ Len(new) >= Len(blobs)
           /\ \A k \in 1..Len(info) : Holds(new[k], info[k])
           /\ \A k \in 1..Len(blobs) : Holds(new[k], blobs[k])
<1> DEFINE size == [k \in DOMAIN blobs |->
                       BlobInfo(blobs[k].size, blobs[k].alignment, Cardinality(blobs[k].bound))]
           n == Larger(Len(info), Len(blobs))
<1>1. /\ Len(blobs) \in Nat /\ DOMAIN blobs = 1..Len(blobs)
      /\ \A k \in 1..Len(blobs) : blobs[k] \in Blob
  OBVIOUS
<1>2. n \in Nat /\ n >= Len(info) /\ n >= Len(blobs) BY <1>1 DEF Larger, InfoOK
<1>3. DOMAIN size = 1..Len(blobs) BY <1>1
<1>4. ASSUME NEW k \in 1..Len(blobs)
      PROVE  /\ size[k].size = blobs[k].size /\ size[k].alignment = blobs[k].alignment
             /\ size[k].size \in Nat /\ size[k].alignment \in Alignments
  BY <1>1, <1>4 DEF BlobInfo, Blob
<1>5. ASSUME NEW k \in 1..n
      PROVE  /\ At(info, k).size \in Nat /\ At(info, k).alignment \in Alignments
             /\ At(size, k).size \in Nat /\ At(size, k).alignment \in Alignments
  <2> HIDE DEF size
  <2>1. At(info, k).size \in Nat /\ At(info, k).alignment \in Alignments
    BY DEF At, InfoOK, BlobInfo, Alignments
  <2>2. At(size, k).size \in Nat /\ At(size, k).alignment \in Alignments
    BY <1>3, <1>4 DEF At, BlobInfo, Alignments
  <2> QED BY <2>1, <2>2
<1>6. new = [k \in 1..n |-> Both(At(info, k), At(size, k))] BY <1>1 DEF BlobSizes
<1>7. Len(new) = n /\ DOMAIN new = 1..n
  <2> DEFINE S == {new[k] : k \in 1..n}
  <2>1. DOMAIN new = 1..n BY <1>6
  <2>2. new \in [1..n -> S]
    <3> HIDE DEF size, n
    <3> QED BY <1>6
  <2> HIDE DEF S, n
  <2> QED BY <1>2, <2>1, <2>2, FunctionIsSeq
<1> HIDE DEF size, n
<1>8. ASSUME NEW k \in 1..n
      PROVE  /\ new[k].size \in Nat /\ new[k].alignment \in Alignments
             /\ Holds(new[k], At(info, k)) /\ Holds(new[k], At(size, k))
  BY <1>5, <1>6, BothHolds
<1>9. InfoOK(new) BY <1>2, <1>7, <1>8 DEF InfoOK
<1>10. ASSUME NEW k \in 1..Len(info) PROVE Holds(new[k], info[k])
  <2>1. k \in 1..n BY <1>2 DEF InfoOK
  <2>2. At(info, k) = info[k] BY DEF At, InfoOK
  <2> QED BY <1>8, <2>1, <2>2
<1>11. ASSUME NEW k \in 1..Len(blobs) PROVE Holds(new[k], blobs[k])
  <2>1. k \in 1..n BY <1>1, <1>2
  <2>2. At(size, k) = size[k] BY <1>3 DEF At
  <2>3. Holds(new[k], size[k]) BY <1>8, <2>1, <2>2
  <2> QED BY <1>4, <2>3 DEF Holds
<1> QED BY <1>2, <1>7, <1>9, <1>10, <1>11

BoundApart(blobs) ==
    \A j, k \in 1..Len(blobs) : j # k => blobs[j].bound \intersect blobs[k].bound = {}

(* With blobs, each object gets the number of its blob, and that blob is   *)
(* as large as it has to be for this group and the ones before.            *)
LEMMA UpdateFacts ==
    ASSUME mappingType = "BLOBS", InfoOK(info), NEW blobs \in Seq(Blob), BoundApart(blobs),
           NEW u, u = Update(blobs)
    PROVE  /\ InfoOK(u.info) /\ Len(u.info) >= Len(info)
           /\ \A k \in 1..Len(info) : Holds(u.info[k], info[k])
           /\ \A k \in 1..Len(blobs) : \A o \in blobs[k].bound :
                 u.place[o] + 1 \in 1..Len(u.info) /\ Holds(u.info[u.place[o] + 1], blobs[k])
           /\ \A j, k \in 1..Len(blobs) : \A o \in blobs[j].bound, p \in blobs[k].bound :
                 u.place[o] = u.place[p] => j = k
<1>1. Len(blobs) \in Nat /\ DOMAIN blobs = 1..Len(blobs) OBVIOUS
<1>2. u.info = BlobSizes(BySize(blobs)) BY DEF Update
<1>3. BySize(blobs) \in Seq(Blob) /\ Len(BySize(blobs)) = Len(blobs) BY BySizeFacts
<1>4. /\ InfoOK(u.info) /\ Len(u.info) >= Len(info) /\ Len(u.info) >= Len(blobs)
      /\ \A k \in 1..Len(info) : Holds(u.info[k], info[k])
      /\ \A k \in 1..Len(blobs) : Holds(u.info[k], BySize(blobs)[k])
  BY <1>2, <1>3, BlobSizesFacts
<1>5. ASSUME NEW k \in 1..Len(blobs), NEW o \in blobs[k].bound PROVE u.place[o] = Rank(blobs, k)
  <2>1. o \in UNION {blobs[i].bound : i \in DOMAIN blobs} BY <1>1
  <2>2. (CHOOSE i \in DOMAIN blobs : o \in blobs[i].bound) = k BY <1>1, <1>5 DEF BoundApart
  <2>3. u.place[o] = Rank(blobs, CHOOSE i \in DOMAIN blobs : o \in blobs[i].bound)
    BY <2>1 DEF Update
  <2> QED BY <2>2, <2>3
<1>6. ASSUME NEW k \in 1..Len(blobs), NEW o \in blobs[k].bound
      PROVE  u.place[o] + 1 \in 1..Len(u.info) /\ Holds(u.info[u.place[o] + 1], blobs[k])
  <2>1. u.place[o] \in 0..Len(blobs)-1 /\ BySize(blobs)[u.place[o] + 1] = blobs[k]
    BY <1>5, <1>6, RankFacts, BySizeFacts
  <2>2. u.place[o] + 1 \in 1..Len(blobs) BY <1>1, <2>1
  <2>3. Len(u.info) \in Nat BY <1>4 DEF InfoOK
  <2> QED BY <1>1, <1>4, <2>1, <2>2, <2>3
<1>7. ASSUME NEW j \in 1..Len(blobs), NEW k \in 1..Len(blobs),
             NEW o \in blobs[j].bound, NEW p \in blobs[k].bound, u.place[o] = u.place[p]
      PROVE  j = k
  <2>1. Rank(blobs, j) = Rank(blobs, k) BY <1>5, <1>7
  <2> QED BY <2>1, RankFacts
<1> QED BY <1>4, <1>6, <1>7

-----------------------------------------------------------------------------
(* update_blobs_and_mappings with offsets.                                 *)

LEMMA AlignFacts ==
    ASSUME NEW x \in Nat, NEW a \in Nat
    PROVE  /\ AlignOffset(x, a) \in Nat
           /\ AlignOffset(x, a) >= x /\ AlignOffset(x, a) <= x + a
           /\ a # 0 => AlignOffset(x, a) % a = 0
<1>1. CASE a = 0 BY <1>1 DEF AlignOffset
<1>2. CASE a # 0
  <2>1. x % a \in Nat /\ x % a < a BY <1>2, DivMod
  <2>2. CASE x % a = 0 BY <1>2, <2>2 DEF AlignOffset
  <2>3. CASE x % a # 0
    <3>1. AlignOffset(x, a) = x + (a - (x % a)) BY <1>2, <2>3 DEF AlignOffset
    <3>2. AlignOffset(x, a) % a = 0 BY <1>2, <3>1, NextMultiple
    <3> QED BY <2>1, <3>1, <3>2
  <2> QED BY <2>2, <2>3
<1> QED BY <1>1, <1>2

(* The folds of OffsetSize and the offsets, step by step.                  *)
TotalStep(blobs)     == [x \in Nat \X (1..Len(blobs)) |-> x[1] + blobs[x[2]].size]
AlignmentStep(blobs) == [x \in Alignments \X (1..Len(blobs)) |-> Larger(x[1], blobs[x[2]].alignment)]
OffsetStep(blobs, a) == [x \in Nat \X (1..Len(blobs)) |-> AlignOffset(x[1] + blobs[x[2]].size, a)]

LEMMA TotalFacts ==
    ASSUME NEW blobs \in Seq(Blob)
    PROVE  \E f \in [0..Len(blobs) -> Nat] :
              /\ f[0] = 0 /\ \A k \in 1..Len(blobs) : f[k] = f[k - 1] + blobs[k].size
              /\ FoldLeft(LAMBDA a, b : a + b.size, 0, blobs) = f[Len(blobs)]
<1> DEFINE n == Len(blobs)
           Op == TotalStep(blobs)
<1>1. n \in Nat /\ DOMAIN blobs = 1..n /\ \A k \in 1..n : blobs[k].size \in Nat
  <2>1. n \in Nat /\ DOMAIN blobs = 1..n /\ \A k \in 1..n : blobs[k] \in Blob OBVIOUS
  <2> QED BY <2>1 DEF Blob
<1>2. Op \in [Nat \X (1..n) -> Nat] /\ \A x \in Nat, k \in 1..n : Op[<<x, k>>] = x + blobs[k].size
  BY <1>1 DEF TotalStep
<1> HIDE DEF n, Op
<1> DEFINE Eq(it) == it = [s \in SUBSET DOMAIN blobs |->
                             IF s = {} THEN 0 ELSE it[s \ {Max(s)}] + blobs[Max(s)].size]
           g == CHOOSE it : Eq(it)
<1>3. FoldLeft(LAMBDA a, b : a + b.size, 0, blobs) = g[DOMAIN blobs]
  BY Zenon DEF FoldLeft, MapThenFoldSet
<1>4. HasFold(n, Nat, 0, Op) BY <1>1, <1>2, FoldOfSet
<1>5. PICK it \in [SUBSET (1..n) -> Nat] : FoldsBy(it, 1..n, 0, Op) BY <1>4 DEF HasFold
<1>6. Eq(it)
  <2>1. ASSUME NEW s \in SUBSET (1..n)
        PROVE  it[s] = IF s = {} THEN 0 ELSE it[s \ {Max(s)}] + blobs[Max(s)].size
    <3>1. CASE s = {} BY <1>5, <3>1 DEF FoldsBy
    <3>2. CASE s # {}
      <4>1. Max(s) \in 1..n BY <1>1, <3>2, MaxOfSome
      <4>2. it[s \ {Max(s)}] \in Nat
        <5>1. s \ {Max(s)} \in SUBSET (1..n) OBVIOUS
        <5> QED BY <1>5, <5>1
      <4>3. it[s] = Op[<<it[s \ {Max(s)}], Max(s)>>] BY <1>5, <3>2 DEF FoldsBy
      <4> QED BY <1>2, <3>2, <4>1, <4>2, <4>3
    <3> QED BY <3>1, <3>2
  <2> QED BY <1>1, <1>5, <2>1
<1>7. Eq(g)
  <2> HIDE DEF Eq
  <2> QED BY <1>6
<1> HIDE DEF g
<1>8. g[{}] = 0 BY <1>1, <1>7
<1>9. ASSUME NEW k \in 1..n, g[1..k-1] \in Nat PROVE g[1..k] = Op[<<g[1..k-1], k>>]
  <2>1. 1..k \in SUBSET (1..n) /\ 1..k # {} /\ Max(1..k) = k /\ (1..k) \ {k} = 1..k-1
    BY <1>1, FirstNumbers
  <2>2. g[1..k] = g[(1..k) \ {Max(1..k)}] + blobs[Max(1..k)].size BY <1>1, <1>7, <2>1
  <2>3. Op[<<g[1..k-1], k>>] = g[1..k-1] + blobs[k].size BY <1>2, <1>9
  <2>4. g[1..k] = g[1..k-1] + blobs[k].size
    <3> HIDE DEF Op
    <3> QED BY <2>1, <2>2
  <2> QED BY <2>3, <2>4
<1> DEFINE f == OfPrefixes(g, n)
<1>10. f \in [0..n -> Nat] /\ Stepwise(f, n, 0, Op)
  <2>1. Folding(g, Nat, n, 0, Op) BY <1>2, <1>8, <1>9 DEF Folding
  <2> QED BY <1>1, <2>1, FoldStays
<1>11. f[n] = g[DOMAIN blobs] BY <1>1 DEF OfPrefixes
<1> HIDE DEF f
<1>12. ASSUME NEW k \in 1..n PROVE f[k] = f[k - 1] + blobs[k].size
  <2>1. k - 1 \in 0..n BY <1>1
  <2>2. f[k - 1] \in Nat BY <1>10, <2>1
  <2> QED BY <1>2, <1>10, <2>2 DEF Stepwise
<1>13. f[0] = 0 BY <1>10 DEF Stepwise
<1> QED BY <1>3, <1>10, <1>11, <1>12, <1>13 DEF n
LEMMA LargestFacts ==
    ASSUME NEW blobs \in Seq(Blob), NEW x0 \in Alignments
    PROVE  \E f \in [0..Len(blobs) -> Alignments] :
              /\ f[0] = x0 /\ \A k \in 1..Len(blobs) : f[k] = Larger(f[k - 1], blobs[k].alignment)
              /\ FoldLeft(LAMBDA a, b : Larger(a, b.alignment), x0, blobs) = f[Len(blobs)]
<1> DEFINE n == Len(blobs)
           Op == AlignmentStep(blobs)
<1>1. n \in Nat /\ DOMAIN blobs = 1..n /\ \A k \in 1..n : blobs[k].alignment \in Alignments
  <2>1. n \in Nat /\ DOMAIN blobs = 1..n /\ \A k \in 1..n : blobs[k] \in Blob OBVIOUS
  <2> QED BY <2>1 DEF Blob
<1>2. Op \in [Alignments \X (1..n) -> Alignments] /\ \A x \in Alignments, k \in 1..n : Op[<<x, k>>] = Larger(x, blobs[k].alignment)
  BY <1>1 DEF AlignmentStep, Larger
<1> HIDE DEF n, Op
<1> DEFINE Eq(it) == it = [s \in SUBSET DOMAIN blobs |->
                             IF s = {} THEN x0 ELSE Larger(it[s \ {Max(s)}], blobs[Max(s)].alignment)]
           g == CHOOSE it : Eq(it)
<1>3. FoldLeft(LAMBDA a, b : Larger(a, b.alignment), x0, blobs) = g[DOMAIN blobs]
  BY Zenon DEF FoldLeft, MapThenFoldSet
<1>4. HasFold(n, Alignments, x0, Op) BY <1>1, <1>2, FoldOfSet
<1>5. PICK it \in [SUBSET (1..n) -> Alignments] : FoldsBy(it, 1..n, x0, Op) BY <1>4 DEF HasFold
<1>6. Eq(it)
  <2>1. ASSUME NEW s \in SUBSET (1..n)
        PROVE  it[s] = IF s = {} THEN x0 ELSE Larger(it[s \ {Max(s)}], blobs[Max(s)].alignment)
    <3>1. CASE s = {} BY <1>5, <3>1 DEF FoldsBy
    <3>2. CASE s # {}
      <4>1. Max(s) \in 1..n BY <1>1, <3>2, MaxOfSome
      <4>2. it[s \ {Max(s)}] \in Alignments
        <5>1. s \ {Max(s)} \in SUBSET (1..n) OBVIOUS
        <5> QED BY <1>5, <5>1
      <4>3. it[s] = Op[<<it[s \ {Max(s)}], Max(s)>>] BY <1>5, <3>2 DEF FoldsBy
      <4> QED BY <1>2, <3>2, <4>1, <4>2, <4>3
    <3> QED BY <3>1, <3>2
  <2> QED BY <1>1, <1>5, <2>1
<1>7. Eq(g)
  <2> HIDE DEF Eq
  <2> QED BY <1>6
<1> HIDE DEF g
<1>8. g[{}] = x0 BY <1>1, <1>7
<1>9. ASSUME NEW k \in 1..n, g[1..k-1] \in Alignments PROVE g[1..k] = Op[<<g[1..k-1], k>>]
  <2>1. 1..k \in SUBSET (1..n) /\ 1..k # {} /\ Max(1..k) = k /\ (1..k) \ {k} = 1..k-1
    BY <1>1, FirstNumbers
  <2>2. g[1..k] = Larger(g[(1..k) \ {Max(1..k)}], blobs[Max(1..k)].alignment) BY <1>1, <1>7, <2>1
  <2>3. Op[<<g[1..k-1], k>>] = Larger(g[1..k-1], blobs[k].alignment) BY <1>2, <1>9
  <2>4. g[1..k] = Larger(g[1..k-1], blobs[k].alignment)
    <3> HIDE DEF Op
    <3> QED BY <2>1, <2>2
  <2> QED BY <2>3, <2>4
<1> DEFINE f == OfPrefixes(g, n)
<1>10. f \in [0..n -> Alignments] /\ Stepwise(f, n, x0, Op)
  <2>1. Folding(g, Alignments, n, x0, Op) BY <1>2, <1>8, <1>9 DEF Folding
  <2> QED BY <1>1, <2>1, FoldStays
<1>11. f[n] = g[DOMAIN blobs] BY <1>1 DEF OfPrefixes
<1> HIDE DEF f
<1>12. ASSUME NEW k \in 1..n PROVE f[k] = Larger(f[k - 1], blobs[k].alignment)
  <2>1. k - 1 \in 0..n BY <1>1
  <2>2. f[k - 1] \in Alignments BY <1>10, <2>1
  <2> QED BY <1>2, <1>10, <2>2 DEF Stepwise
<1>13. f[0] = x0 BY <1>10 DEF Stepwise
<1> QED BY <1>3, <1>10, <1>11, <1>12, <1>13 DEF n
LEMMA OffsetSteps ==
    ASSUME NEW blobs \in Seq(Blob), NEW a \in Nat
    PROVE  \E f \in [0..Len(blobs) -> Nat] :
              /\ f[0] = 0
              /\ \A k \in 1..Len(blobs) : /\ f[k] = AlignOffset(f[k - 1] + blobs[k].size, a)
                                        /\ OffsetOf(blobs, a)[k] = f[k - 1]
<1> DEFINE n == Len(blobs)
           Op == OffsetStep(blobs, a)
<1>1. n \in Nat /\ DOMAIN blobs = 1..n /\ \A k \in 1..n : blobs[k].size \in Nat
  <2>1. n \in Nat /\ DOMAIN blobs = 1..n /\ \A k \in 1..n : blobs[k] \in Blob OBVIOUS
  <2> QED BY <2>1 DEF Blob
<1>2. /\ Op \in [Nat \X (1..n) -> Nat]
      /\ \A x \in Nat, k \in 1..n : Op[<<x, k>>] = AlignOffset(x + blobs[k].size, a)
  <2>1. \A x \in Nat, k \in 1..n : AlignOffset(x + blobs[k].size, a) \in Nat
    <3> SUFFICES ASSUME NEW x \in Nat, NEW k \in 1..n PROVE AlignOffset(x + blobs[k].size, a) \in Nat
      OBVIOUS
    <3>1. x + blobs[k].size \in Nat BY <1>1
    <3> QED BY <3>1, AlignFacts
  <2> QED BY <2>1 DEF OffsetStep
<1> DEFINE Eq(it) == it = [k \in 1..n+1 |->
                             IF k = 1 THEN 0 ELSE AlignOffset(it[k - 1] + blobs[k - 1].size, a)]
           g == CHOOSE it : Eq(it)
<1>3. OffsetOf(blobs, a) = g BY Zenon DEF OffsetOf
<1> HIDE DEF n, Op
<1>4. PICK f \in [0..n -> Nat] : Stepwise(f, n, 0, Op) BY <1>1, <1>2, StepByStep
<1>5. f[0] = 0 /\ \A k \in 1..n : f[k] = AlignOffset(f[k - 1] + blobs[k].size, a)
  <2> SUFFICES ASSUME NEW k \in 1..n PROVE f[k] = AlignOffset(f[k - 1] + blobs[k].size, a)
    BY <1>4 DEF Stepwise
  <2>1. f[k - 1] \in Nat
    <3>1. k - 1 \in 0..n BY <1>1
    <3> QED BY <1>4, <3>1
  <2> QED BY <1>2, <1>4, <2>1 DEF Stepwise
<1>6. Eq([k \in 1..n+1 |-> f[k - 1]])
  <2> DEFINE h == [k \in 1..n+1 |-> f[k - 1]]
  <2>1. ASSUME NEW k \in 1..n+1
        PROVE  h[k] = IF k = 1 THEN 0 ELSE AlignOffset(h[k - 1] + blobs[k - 1].size, a)
    <3>1. CASE k = 1 BY <1>5, <3>1
    <3>2. CASE k # 1
      <4>1. k - 1 \in 1..n /\ k - 1 \in 1..n+1 /\ k \in 1..n+1 BY <1>1, <3>2
      <4>2. h[k] = f[k - 1] /\ h[k - 1] = f[(k - 1) - 1] BY <4>1
      <4>3. f[k - 1] = AlignOffset(f[(k - 1) - 1] + blobs[k - 1].size, a) BY <1>5, <4>1
      <4> HIDE DEF h
      <4> QED BY <3>2, <4>2, <4>3
    <3> QED BY <3>1, <3>2
  <2>2. h = [k \in 1..n+1 |-> h[k]] OBVIOUS
  <2> HIDE DEF h
  <2>3. h = [k \in 1..n+1 |-> IF k = 1 THEN 0 ELSE AlignOffset(h[k - 1] + blobs[k - 1].size, a)]
    BY <2>1, <2>2
  <2> QED BY <2>3 DEF h
<1>7. Eq(g)
  <2> HIDE DEF Eq
  <2> QED BY <1>6
<1> DEFINE Same == {m \in Nat : m < n => g[m + 1] = f[m]}
<1> HIDE DEF g
<1>8. 0 \in Same BY <1>1, <1>5, <1>7
<1>9. ASSUME NEW m \in Nat, m \in Same PROVE m + 1 \in Same
  <2> SUFFICES ASSUME m + 1 < n PROVE g[(m + 1) + 1] = f[m + 1] OBVIOUS
  <2>1. g[m + 1] = f[m] /\ (m + 1) + 1 \in 1..n+1 /\ m + 1 \in 1..n BY <1>1, <1>9
  <2>2. (m + 1) + 1 # 1 /\ ((m + 1) + 1) - 1 = m + 1 /\ (m + 1) - 1 = m OBVIOUS
  <2>3. g[(m + 1) + 1] = AlignOffset(g[m + 1] + blobs[m + 1].size, a) BY <1>7, <2>1, <2>2
  <2>4. f[m + 1] = AlignOffset(f[m] + blobs[m + 1].size, a) BY <1>5, <2>1, <2>2
  <2> QED BY <2>1, <2>3, <2>4
<1> HIDE DEF Same
<1>10. Nat \subseteq Same BY <1>8, <1>9, SetInduction
<1>11. ASSUME NEW k \in 1..n PROVE g[k] = f[k - 1]
  <2>1. k - 1 \in Nat /\ k - 1 < n /\ (k - 1) + 1 = k BY <1>1
  <2> QED BY <1>10, <2>1 DEF Same
<1> QED BY <1>3, <1>4, <1>5, <1>11 DEF n

LEMMA SuitsThrough ==
    ASSUME NEW x \in Nat, NEW a \in Alignments, NEW w \in Alignments, w <= a, Suits(x, a)
    PROVE  Suits(x, w)
<1> SUFFICES ASSUME w # 0 PROVE x % w = 0 BY DEF Suits
<1>1. a \in Nat \ {0} /\ w \in Nat \ {0} BY LifetimeAssumption DEF Alignments
<1>2. PICK r \in Requests : w = r[2] BY <1>1 DEF Alignments
<1>3. PICK t \in Requests : a = t[2] BY <1>1 DEF Alignments
<1>4. a % w = 0 BY <1>1, <1>2, <1>3, AlignmentAssumption
<1>5. x % a = 0 BY <1>1 DEF Suits
<1> QED BY <1>1, <1>4, <1>5, DividesThrough

(* The offsets start at multiples of the alignment, go up by at least the  *)
(* size of each blob, and end inside the sum of the sizes and one          *)
(* alignment for each blob.                                                *)
LEMMA OffsetFacts ==
    ASSUME NEW blobs \in Seq(Blob), NEW a \in Nat,
           NEW t \in [0..Len(blobs) -> Nat], NEW total, total = t[Len(blobs)],
           t[0] = 0, \A k \in 1..Len(blobs) : t[k] = t[k - 1] + blobs[k].size
    PROVE  /\ \A k \in 1..Len(blobs) :
                 /\ OffsetOf(blobs, a)[k] \in Nat /\ Suits(OffsetOf(blobs, a)[k], a)
                 /\ OffsetOf(blobs, a)[k] + blobs[k].size <= total + (Len(blobs) * a)
           /\ \A j, k \in 1..Len(blobs) : j < k =>
                 OffsetOf(blobs, a)[j] + blobs[j].size <= OffsetOf(blobs, a)[k]
<1> DEFINE n == Len(blobs)
           at == OffsetOf(blobs, a)
<1>1. n \in Nat /\ \A k \in 1..n : blobs[k].size \in Nat
  <2>1. n \in Nat /\ \A k \in 1..n : blobs[k] \in Blob OBVIOUS
  <2> QED BY <2>1 DEF Blob
<1>2. PICK f \in [0..n -> Nat] :
         /\ f[0] = 0
         /\ \A k \in 1..n : f[k] = AlignOffset(f[k - 1] + blobs[k].size, a) /\ at[k] = f[k - 1]
  BY OffsetSteps
<1>3. /\ t \in [0..n -> Nat] /\ t[0] = 0 /\ \A k \in 1..n : t[k] = t[k - 1] + blobs[k].size
      /\ total = t[n]
  OBVIOUS
<1> HIDE DEF at, n
<1>4. ASSUME NEW k \in 1..n
      PROVE  /\ k - 1 \in 0..n /\ f[k - 1] \in Nat /\ f[k] \in Nat /\ blobs[k].size \in Nat
             /\ f[k] >= f[k - 1] + blobs[k].size /\ f[k] <= f[k - 1] + blobs[k].size + a
             /\ Suits(f[k], a)
             /\ t[k - 1] \in Nat /\ t[k] = t[k - 1] + blobs[k].size
  <2>1. k - 1 \in 0..n /\ k \in 0..n /\ blobs[k].size \in Nat BY <1>1
  <2>2. f[k - 1] \in Nat /\ f[k - 1] + blobs[k].size \in Nat BY <1>2, <2>1
  <2> DEFINE x == f[k - 1] + blobs[k].size
  <2>3. f[k] = AlignOffset(x, a) BY <1>2
  <2>4. x \in Nat BY <2>2
  <2>5. AlignOffset(x, a) >= x /\ AlignOffset(x, a) <= x + a /\ Suits(AlignOffset(x, a), a)
    <3> HIDE DEF x
    <3> QED BY <2>4, AlignFacts DEF Suits
  <2>6. f[k] \in Nat /\ t[k - 1] \in Nat BY <1>2, <1>3, <2>1
  <2> QED BY <1>3, <2>1, <2>2, <2>3, <2>5, <2>6
<1>5. ASSUME NEW k \in 0..n PROVE f[k] <= t[k] + k * a /\ Suits(f[k], a)
  <2> DEFINE Good == {m \in Nat : m <= n => f[m] <= t[m] + m * a}
  <2>1. 0 \in Good BY <1>2, <1>3
  <2>2. ASSUME NEW m \in Nat, m \in Good PROVE m + 1 \in Good
    <3> SUFFICES ASSUME m + 1 <= n PROVE f[m + 1] <= t[m + 1] + (m + 1) * a OBVIOUS
    <3>1. m + 1 \in 1..n /\ (m + 1) - 1 = m /\ f[m] <= t[m] + m * a BY <1>1, <2>2
    <3>2. /\ f[m] \in Nat /\ f[m + 1] \in Nat /\ blobs[m + 1].size \in Nat
          /\ f[m + 1] <= f[m] + blobs[m + 1].size + a
          /\ t[m] \in Nat /\ t[m + 1] = t[m] + blobs[m + 1].size
      BY <1>4, <3>1
    <3>3. m * a \in Nat /\ (m + 1) * a = m * a + a
      <4>1. m * a \in Nat /\ (m + 1) * a = m * a + 1 * a /\ 1 * a = a BY ProductDistributes
      <4> QED BY <4>1
    <3>4. f[m + 1] <= t[m + 1] + (m * a + a)
      <4> DEFINE p == m * a
      <4>1. p \in Nat /\ f[m] <= t[m] + p BY <3>1, <3>3
      <4> HIDE DEF p
      <4>2. f[m + 1] <= t[m + 1] + (p + a) BY SMTT(20), <3>2, <4>1
      <4> QED BY <4>2 DEF p
    <3> QED BY <3>3, <3>4
  <2> HIDE DEF Good
  <2>3. Nat \subseteq Good BY <2>1, <2>2, SetInduction
  <2>4. f[k] <= t[k] + k * a BY <1>1, <2>3 DEF Good
  <2>5. Suits(f[k], a)
    <3>1. CASE k = 0
      <4>1. f[k] = 0 BY <1>2, <3>1
      <4>2. a # 0 => 0 % a = 0
        <5> SUFFICES ASSUME a # 0 PROVE 0 % a = 0 OBVIOUS
        <5>1. (0 * a) % a = 0 /\ 0 * a = 0 BY MultipleOf
        <5> QED BY <5>1
      <4> QED BY <4>1, <4>2 DEF Suits
    <3>2. CASE k # 0 BY <1>1, <1>4, <3>2
    <3> QED BY <3>1, <3>2
  <2> QED BY <2>4, <2>5
<1>6. ASSUME NEW j \in 0..n, NEW k \in 0..n, j <= k PROVE f[j] <= f[k] /\ t[j] <= t[k]
  <2> DEFINE Good == {m \in Nat : j <= m /\ m <= n => f[j] <= f[m] /\ t[j] <= t[m]}
  <2>0. f[j] \in Nat /\ t[j] \in Nat BY <1>2, <1>3
  <2>1. 0 \in Good
    <3>1. j <= 0 => j = 0 BY <1>1
    <3> QED BY <2>0, <3>1
  <2>2. ASSUME NEW m \in Nat, m \in Good PROVE m + 1 \in Good
    <3> SUFFICES ASSUME j <= m + 1, m + 1 <= n PROVE f[j] <= f[m + 1] /\ t[j] <= t[m + 1] OBVIOUS
    <3>1. m + 1 \in 1..n /\ (m + 1) - 1 = m BY <1>1
    <3>2. /\ f[m] \in Nat /\ f[m + 1] \in Nat /\ blobs[m + 1].size \in Nat
          /\ f[m + 1] >= f[m] + blobs[m + 1].size
          /\ t[m] \in Nat /\ t[m + 1] = t[m] + blobs[m + 1].size
      BY <1>4, <3>1
    <3>3. CASE j = m + 1 BY <2>0, <3>3
    <3>4. CASE j <= m
      <4>1. f[j] <= f[m] /\ t[j] <= t[m] BY <1>1, <2>2, <3>4
      <4> QED BY <2>0, <3>2, <4>1
    <3>5. j \in Nat BY <1>1
    <3> QED BY <3>3, <3>4, <3>5
  <2> HIDE DEF Good
  <2>3. Nat \subseteq Good BY <2>1, <2>2, SetInduction
  <2> QED BY <1>1, <1>6, <2>3 DEF Good
<1>7. ASSUME NEW k \in 1..n
      PROVE  /\ at[k] \in Nat /\ Suits(at[k], a)
             /\ at[k] + blobs[k].size <= total + (n * a)
  <2>1. at[k] = f[k - 1] /\ k - 1 \in 0..n /\ k \in 0..n BY <1>1, <1>2
  <2>2. f[k - 1] \in Nat /\ t[k - 1] \in Nat /\ t[k] = t[k - 1] + blobs[k].size
        /\ blobs[k].size \in Nat
    BY <1>4
  <2>3. f[k - 1] <= t[k - 1] + (k - 1) * a /\ Suits(f[k - 1], a) BY <1>5, <2>1
  <2>4. t[k] <= t[n] /\ t[n] \in Nat /\ t[k] \in Nat
    <3>1. n \in 0..n /\ k <= n BY <1>1
    <3> QED BY <1>3, <1>6, <2>1, <3>1
  <2>5. (k - 1) * a \in Nat /\ n * a \in Nat /\ (k - 1) * a <= n * a
    <3>1. k - 1 \in Nat /\ k - 1 <= n BY <1>1
    <3> QED BY <1>1, <3>1, ProductGrows
  <2> DEFINE p == (k - 1) * a
             q == n * a
  <2>6. p \in Nat /\ q \in Nat /\ p <= q /\ f[k - 1] <= t[k - 1] + p BY <2>3, <2>5
  <2> HIDE DEF p, q
  <2>7. f[k - 1] + blobs[k].size <= t[n] + q
    <3>1. \A x, y, z, v, w, c, d \in Nat :
             x <= y + c /\ z = y + v /\ z <= w /\ c <= d => x + v <= w + d
      OBVIOUS
    <3> QED BY <2>2, <2>4, <2>6, <3>1
  <2> QED BY <1>3, <2>1, <2>2, <2>3, <2>7 DEF q
<1>8. ASSUME NEW j \in 1..n, NEW k \in 1..n, j < k
      PROVE  at[j] + blobs[j].size <= at[k]
  <2>1. at[j] = f[j - 1] /\ at[k] = f[k - 1] BY <1>2
  <2>2. j \in 0..n /\ k - 1 \in 0..n /\ j <= k - 1 BY <1>1, <1>8
  <2>3. f[j] <= f[k - 1] BY <1>6, <2>2
  <2>4. f[j] \in Nat /\ f[k - 1] \in Nat /\ f[j - 1] \in Nat /\ blobs[j].size \in Nat
        /\ f[j] >= f[j - 1] + blobs[j].size
    BY <1>4
  <2> QED BY <2>1, <2>3, <2>4
<1> QED BY <1>7, <1>8 DEF n, at

OffsetInfoOK(i) == i.size \in Nat /\ i.alignment \in Alignments

(* With offsets, each object gets the offset of its blob; the memory of    *)
(* the blobs does not overlap, and all of it, with what was counted for    *)
(* the groups before, fits into the one blob.                              *)
LEMMA OffsetUpdateFacts ==
    ASSUME mappingType = "OFFSETS", OffsetInfoOK(info), NEW blobs \in Seq(Blob), BoundApart(blobs),
           NEW u, u = Update(blobs)
    PROVE  /\ OffsetInfoOK(u.info)
           /\ u.info.size >= info.size /\ u.info.alignment >= info.alignment
           /\ \A k \in 1..Len(blobs) :
                 /\ u.info.alignment >= blobs[k].alignment
                 /\ \A o \in blobs[k].bound :
                       /\ u.place[o] \in Nat /\ Suits(u.place[o], u.info.alignment)
                       /\ u.place[o] + blobs[k].size <= u.info.size
           /\ \A j, k \in 1..Len(blobs) : j < k =>
                 \A o \in blobs[j].bound, p \in blobs[k].bound :
                     u.place[o] + blobs[j].size <= u.place[p]
<1> DEFINE n == Len(blobs)
           A == FoldLeft(LAMBDA x, b : Larger(x, b.alignment), info.alignment, blobs)
           S == FoldLeft(LAMBDA x, b : x + b.size, 0, blobs)
<1>1. n \in Nat /\ DOMAIN blobs = 1..n /\ \A k \in 1..n : blobs[k] \in Blob OBVIOUS
<1>2. u.info.size = Larger(info.size, S + (n * A)) /\ u.info.alignment = A
  <2>1. u.info = OffsetSize(blobs) BY DEF Update
  <2>2. OffsetSize(blobs) = BlobInfo(Larger(info.size, S + (n * A)), A, Larger(info.owners, n))
    BY Zenon DEF OffsetSize
  <2> HIDE DEF A, S, n
  <2> QED BY <2>1, <2>2 DEF BlobInfo
<1>3. PICK t \in [0..n -> Nat] :
         t[0] = 0 /\ (\A k \in 1..n : t[k] = t[k - 1] + blobs[k].size) /\ S = t[n]
  BY TotalFacts, Zenon
<1>4. PICK m \in [0..n -> Alignments] :
         /\ m[0] = info.alignment /\ (\A k \in 1..n : m[k] = Larger(m[k - 1], blobs[k].alignment))
         /\ A = m[n]
  BY LargestFacts, Zenon DEF OffsetInfoOK
<1> HIDE DEF A, S
<1>5. S \in Nat /\ A \in Alignments /\ A \in Nat
  <2>1. n \in 0..n BY <1>1
  <2> QED BY <1>3, <1>4, <2>1, LifetimeAssumption DEF Alignments
<1>6. A >= info.alignment /\ \A k \in 1..n : A >= blobs[k].alignment
  <2> HIDE DEF n
  <2>1. ASSUME NEW k \in 1..n
        PROVE  /\ k - 1 \in 0..n /\ m[k - 1] \in Nat /\ m[k] \in Nat /\ blobs[k].alignment \in Nat
               /\ m[k] >= m[k - 1] /\ m[k] >= blobs[k].alignment
    <3>1. k - 1 \in 0..n /\ k \in 0..n BY <1>1
    <3>2. m[k - 1] \in Nat /\ m[k] \in Nat /\ blobs[k].alignment \in Nat
      <4>1. blobs[k].alignment \in Alignments BY <1>1 DEF Blob
      <4>2. m[k - 1] \in Alignments /\ m[k] \in Alignments BY <1>4, <3>1
      <4> QED BY SMTT(20), <4>1, <4>2, LifetimeAssumption DEF Alignments
    <3>3. m[k] = Larger(m[k - 1], blobs[k].alignment) BY <1>4
    <3> QED BY <3>1, <3>2, <3>3 DEF Larger
  <2>2. ASSUME NEW j \in 0..n PROVE m[j] <= m[n]
    <3> DEFINE Good == {i \in Nat : j <= i /\ i <= n => m[j] <= m[i]}
    <3>0. m[j] \in Nat /\ j \in Nat
      <4>1. m[j] \in Alignments BY <1>4
      <4> QED BY <1>1, <4>1, LifetimeAssumption DEF Alignments
    <3>1. 0 \in Good
      <4>1. j <= 0 => j = 0 BY <3>0
      <4> QED BY <3>0, <4>1
    <3>2. ASSUME NEW i \in Nat, i \in Good PROVE i + 1 \in Good
      <4> SUFFICES ASSUME j <= i + 1, i + 1 <= n PROVE m[j] <= m[i + 1] OBVIOUS
      <4>1. i + 1 \in 1..n /\ (i + 1) - 1 = i BY <1>1
      <4>2. m[i] \in Nat /\ m[i + 1] \in Nat /\ m[i + 1] >= m[i] BY <2>1, <4>1
      <4>3. CASE j = i + 1 BY <3>0, <4>3
      <4>4. CASE j <= i
        <5>1. m[j] <= m[i] BY <1>1, <3>2, <4>4
        <5> QED BY <3>0, <4>2, <5>1
      <4> QED BY <3>0, <4>3, <4>4
    <3> HIDE DEF Good
    <3>3. Nat \subseteq Good BY <3>1, <3>2, SetInduction
    <3> QED BY <1>1, <3>3 DEF Good
  <2>3. 0 \in 0..n /\ n \in 0..n /\ \A k \in 1..n : k \in 0..n BY <1>1
  <2>4. A >= info.alignment BY <1>4, <2>2, <2>3
  <2>5. ASSUME NEW k \in 1..n PROVE A >= blobs[k].alignment
    <3>1. m[k] <= A /\ m[k] >= blobs[k].alignment /\ m[k] \in Nat /\ blobs[k].alignment \in Nat
      BY <1>4, <2>1, <2>2, <2>3
    <3> QED BY <1>5, <3>1
  <2> QED BY <2>4, <2>5
<1>7. n * A \in Nat BY <1>1, <1>5
<1>8. /\ u.info.size \in Nat /\ u.info.alignment \in Alignments
      /\ u.info.size >= info.size /\ u.info.size >= S + (n * A)
  <2> DEFINE p == n * A
  <2>1. p \in Nat /\ u.info.size = Larger(info.size, S + p) /\ u.info.alignment = A BY <1>2, <1>7
  <2> HIDE DEF p
  <2>2. info.size \in Nat BY DEF OffsetInfoOK
  <2>3. u.info.size \in Nat /\ u.info.size >= info.size /\ u.info.size >= S + p
    BY <1>5, <2>1, <2>2 DEF Larger
  <2> QED BY <1>5, <2>1, <2>3 DEF p
<1> DEFINE at == OffsetOf(blobs, A)
<1>9. /\ \A k \in 1..n : /\ at[k] \in Nat /\ Suits(at[k], A)
                          /\ at[k] + blobs[k].size <= S + (n * A)
      /\ \A j, k \in 1..n : j < k => at[j] + blobs[j].size <= at[k]
  <2> QED BY <1>3, <1>5, OffsetFacts
<1>10. ASSUME NEW k \in 1..n, NEW o \in blobs[k].bound PROVE u.place[o] = at[k]
  <2>1. o \in UNION {blobs[i].bound : i \in DOMAIN blobs} BY <1>1
  <2>2. (CHOOSE i \in DOMAIN blobs : o \in blobs[i].bound) = k BY <1>1, <1>10 DEF BoundApart
  <2>3. u.place[o] = OffsetOf(blobs, u.info.alignment)[CHOOSE i \in DOMAIN blobs : o \in blobs[i].bound]
    BY <2>1 DEF Update
  <2> QED BY <1>2, <2>2, <2>3
<1> HIDE DEF at
<1>11. ASSUME NEW k \in 1..n, NEW o \in blobs[k].bound
       PROVE  /\ u.place[o] \in Nat /\ Suits(u.place[o], u.info.alignment)
              /\ u.place[o] + blobs[k].size <= u.info.size
  <2>1. u.place[o] = at[k] BY <1>10
  <2>2. at[k] \in Nat /\ Suits(at[k], A) /\ at[k] + blobs[k].size <= S + (n * A) BY <1>9
  <2>3. blobs[k].size \in Nat BY <1>1 DEF Blob
  <2>4. at[k] + blobs[k].size <= u.info.size
    <3> DEFINE p == n * A
    <3>1. p \in Nat /\ at[k] + blobs[k].size <= S + p /\ u.info.size >= S + p BY <1>7, <1>8, <2>2
    <3> HIDE DEF p
    <3> QED BY <1>5, <1>8, <2>2, <2>3, <3>1
  <2> QED BY <1>2, <2>1, <2>2, <2>4
<1>12. ASSUME NEW j \in 1..n, NEW k \in 1..n, j < k,
              NEW o \in blobs[j].bound, NEW p \in blobs[k].bound
       PROVE  u.place[o] + blobs[j].size <= u.place[p]
  BY <1>9, <1>10, <1>12
<1>13. \A k \in 1..n : u.info.alignment >= blobs[k].alignment BY <1>2, <1>6
<1>14. u.info.alignment >= info.alignment BY <1>2, <1>6
<1> QED BY <1>8, <1>11, <1>12, <1>13, <1>14 DEF OffsetInfoOK

LEMMA UpdateDomain ==
    ASSUME NEW blobs \in Seq(Blob)
    PROVE  DOMAIN Update(blobs).place = UNION {b.bound : b \in Elems(blobs)}
<1>1. DOMAIN blobs = 1..Len(blobs) OBVIOUS
<1>2. DOMAIN Update(blobs).place = UNION {blobs[k].bound : k \in 1..Len(blobs)} BY <1>1 DEF Update
<1>3. {blobs[k].bound : k \in 1..Len(blobs)} = {b.bound : b \in Elems(blobs)} BY DEF Elems
<1> QED BY <1>2, <1>3

(* The blobs in use are as many as the objects that live in them.          *)
LEMMA OneEach ==
    ASSUME NEW s \in Seq(Blob), Distinct(s), NEW L, {b.id : b \in Elems(s)} = L,
           \A b, c \in Elems(s) : b.id = c.id => b = c
    PROVE  Len(s) = Cardinality(L) /\ {s[k].id : k \in DOMAIN s} = L
<1> DEFINE f == [k \in 1..Len(s) |-> s[k].id]
<1>1. Len(s) \in Nat /\ DOMAIN s = 1..Len(s) OBVIOUS
<1>2. {s[k].id : k \in 1..Len(s)} = L BY DEF Elems
<1>3. f \in [1..Len(s) -> L] BY <1>2
<1>4. \A j, k \in 1..Len(s) : f[j] = f[k] => j = k BY DEF Distinct, Elems
<1>5. \A o \in L : \E k \in 1..Len(s) : f[k] = o BY <1>2
<1>6. f \in Bijection(1..Len(s), L)
  <2> HIDE DEF f
  <2> QED BY <1>3, <1>4, <1>5 DEF Bijection, Injection, Surjection, IsInjective
<1>7. ExistsBijection(1..Len(s), L) BY <1>6 DEF ExistsBijection
<1> QED BY <1>1, <1>2, <1>7, FS_CountingElements

-----------------------------------------------------------------------------
Free     == Elems(freeBlobs)
Occupied == Elems(occupiedBlobs)

BlobsInv ==
    /\ Distinct(freeBlobs) /\ Distinct(occupiedBlobs)
    /\ EachUsesOne(Free, Occupied, elements)
    /\ \A b \in Free \union Occupied : LargeEnough(b, elements) /\ NotTogether(Users(b), together)

(* The objects of the active group and of the finalized groups are         *)
(* different ones, and objects alive together are on one side.             *)
GroupsInv ==
    /\ activeGroup = NoGroup <=> DOMAIN elements = {}
    /\ DOMAIN elements # {} => Alive # {}
    /\ \A g \in Groups : DOMAIN elements \intersect Mapped(g) = {}
    /\ \A g, h \in Groups : g # h => Mapped(g) \intersect Mapped(h) = {}
    /\ \A x, y : {x, y} \in together =>
          {x, y} \subseteq DOMAIN elements \/ \E g \in Groups : {x, y} \subseteq Mapped(g)

(* The index of each object leads to a blob that holds it, and to another  *)
(* one than its neighbours have.                                           *)
BlobPlaces ==
    /\ InfoOK(info)
    /\ \A g \in Groups : \A o \in Mapped(g) :
          /\ mappings[g][o] + 1 \in 1..Len(info)
          /\ Holds(info[mappings[g][o] + 1], finalized[g][o])
    /\ \A g \in Groups : \A o, p \in Mapped(g) :
          o # p /\ {o, p} \in together => mappings[g][o] # mappings[g][p]

(* An object at offset at fits into the blob of info i.                    *)
Placed(at, e, i) ==
    /\ at \in Nat /\ at + e.size <= i.size
    /\ e.alignment <= i.alignment /\ Suits(at, e.alignment)

(* Objects of these sizes, at these offsets, have no byte in common.       *)
Disjoint(at, size, other, otherSize) == at + size <= other \/ other + otherSize <= at

(* The offset of each object leaves it enough of the one blob, at its      *)
(* alignment, and none of what its neighbours have.                        *)
OffsetPlaces ==
    /\ OffsetInfoOK(info)
    /\ \A g \in Groups : \A o \in Mapped(g) : Placed(mappings[g][o], finalized[g][o], info)
    /\ \A g \in Groups : \A o, p \in Mapped(g) : o # p /\ {o, p} \in together =>
          Disjoint(mappings[g][o], finalized[g][o].size, mappings[g][p], finalized[g][p].size)

PlacesInv ==
    /\ mappingType = "BLOBS" => BlobPlaces
    /\ mappingType = "OFFSETS" => OffsetPlaces

LifetimeInv == LifetimeTypeOK /\ BlobsInv /\ GroupsInv /\ PlacesInv

OneSide(x, y) == {x, y} \subseteq DOMAIN elements \/ \E g \in Groups : {x, y} \subseteq Mapped(g)

LEMMA OnOneSide ==
    ASSUME GroupsInv, NEW x, NEW y, {x, y} \in together
    PROVE  OneSide(x, y)
BY Zenon DEF GroupsInv, OneSide

LEMMA ElemsInBlob ==
    ASSUME LifetimeTypeOK
    PROVE  Free \in SUBSET Blob /\ Occupied \in SUBSET Blob
<1>1. \A k \in 1..Len(freeBlobs) : freeBlobs[k] \in Blob BY DEF LifetimeTypeOK
<1>2. \A k \in 1..Len(occupiedBlobs) : occupiedBlobs[k] \in Blob BY DEF LifetimeTypeOK
<1> QED BY <1>1, <1>2 DEF Free, Occupied, Elems

LEMMA EmptyElems ==
    ASSUME NEW S, NEW s \in Seq(S)
    PROVE  Elems(s) = {} <=> s = <<>>
<1>1. s # <<>> => 1 \in 1..Len(s) OBVIOUS
<1>2. Elems(<<>>) = {} BY DEF Elems
<1> QED BY <1>1, <1>2 DEF Elems

LEMMA LifetimeInitInv == LifetimeInit => LifetimeInv
<1> SUFFICES ASSUME LifetimeInit PROVE LifetimeInv OBVIOUS
<1>1. /\ activeGroup = NoGroup /\ DOMAIN elements = {} /\ elements = Nothing /\ together = {}
      /\ freeBlobs = <<>> /\ occupiedBlobs = <<>> /\ mappingType \in MappingTypes
      /\ mappings = [g \in Groups |-> Nothing] /\ finalized = [g \in Groups |-> Nothing]
  BY DEF LifetimeInit, Nothing
<1>2. \A g \in Groups : mappings[g] = Nothing /\ finalized[g] = Nothing /\ Mapped(g) = {}
  BY <1>1 DEF Mapped, Nothing
<1>3. LifetimeTypeOK
  <2>1. \A g \in Groups : /\ mappings[g] = [o \in Mapped(g) |-> mappings[g][o]]
                         /\ finalized[g] \in [Mapped(g) -> ElementRecord]
    BY <1>2 DEF Nothing
  <2>2. elements \in [DOMAIN elements -> ElementRecord] BY <1>1 DEF Nothing
  <2> QED BY <1>1, <1>2, <2>1, <2>2 DEF LifetimeTypeOK
<1>4. BlobsInv
  <2>1. Free = {} /\ Occupied = {} BY <1>1 DEF Free, Occupied, Elems
  <2>2. Distinct(<<>>) BY DEF Distinct
  <2> QED BY <1>1, <2>1, <2>2 DEF BlobsInv, EachUsesOne
<1>5. GroupsInv BY <1>1, <1>2 DEF GroupsInv
<1>6. PlacesInv
  <2>1. ASSUME mappingType = "BLOBS" PROVE BlobPlaces
    <3>1. info = <<>> BY <2>1 DEF LifetimeInit
    <3> QED BY <1>2, <3>1 DEF BlobPlaces, InfoOK
  <2>2. ASSUME mappingType = "OFFSETS" PROVE OffsetPlaces
    <3>1. info = BlobInfo(0, 0, 1) BY <2>2 DEF LifetimeInit
    <3>2. OffsetInfoOK(info) BY <3>1 DEF OffsetInfoOK, BlobInfo, Alignments
    <3> QED BY <1>2, <3>2 DEF OffsetPlaces
  <2> QED BY <2>1, <2>2 DEF PlacesInv
<1> QED BY <1>3, <1>4, <1>5, <1>6 DEF LifetimeInv

LEMMA ManageInv ==
    ASSUME LifetimeInv, NEW g \in Groups, NEW o \in Objects, Manage(g, o)
    PROVE  LifetimeInv'
<1>1. /\ o \notin DOMAIN elements /\ \A h \in Groups : o \notin Mapped(h)
      /\ activeGroup' = IF activeGroup = NoGroup THEN g ELSE activeGroup
      /\ StartBlob(o)
      /\ elements' = Inserted(elements, [x \in {o} |-> Element(0, 0, FALSE)])
      /\ together' = together \union {{o, p} : p \in Alive}
      /\ mappingType' = mappingType /\ finalized' = finalized /\ mappings' = mappings /\ info' = info
  BY DEF Manage, Mapped
<1>2. LifetimeTypeOK /\ BlobsInv /\ GroupsInv /\ PlacesInv BY DEF LifetimeInv
<1>3. Free \in SUBSET Blob /\ Occupied \in SUBSET Blob BY <1>2, ElemsInBlob
<1>4. /\ DOMAIN elements' = DOMAIN elements \union {o}
      /\ \A p \in DOMAIN elements : elements'[p] = elements[p]
      /\ Living(elements') = Living(elements) \union {o}
      /\ Starts(elements, o, elements')
  <2>1. Starts(elements, o, elements') BY <1>1 DEF Starts, Inserted
  <2>2. Living(elements') = Living(elements) \union {o} BY <1>1, <2>1, NewElement
  <2> QED BY <2>1, <2>2 DEF Starts
<1>5. Alive = Living(elements) /\ Alive' = Living(elements') BY DEF Alive, Living
<1>6. DOMAIN elements' \subseteq Objects /\ elements' \in [DOMAIN elements' -> ElementRecord]
  <2>1. elements'[o] \in ElementRecord BY <1>4 DEF Starts, Element, ElementRecord, Alignments
  <2>2. elements' = [p \in DOMAIN elements' |-> elements'[p]] BY <1>1 DEF Inserted
  <2> QED BY <1>2, <1>4, <2>1, <2>2 DEF LifetimeTypeOK
<1>7. PICK c \in Blob :
         /\ occupiedBlobs' = <<c>> \o occupiedBlobs /\ c \notin Occupied
         /\ freeBlobs' \in Seq(Blob) /\ Distinct(freeBlobs')
         /\ Elems(freeBlobs') \subseteq Free
         /\ EachUsesOne(Elems(freeBlobs'), Occupied \union {c}, elements')
         /\ LargeEnough(c, elements') /\ NotTogether(Users(c) \ {o}, together)
         /\ Users(c) \ {o} \subseteq DOMAIN elements \ Alive
  <2>1. CASE freeBlobs = <<>>
    <3> DEFINE c == [id |-> o, size |-> 0, alignment |-> 0, bound |-> {o}]
    <3>1. occupiedBlobs' = <<c>> \o occupiedBlobs /\ freeBlobs' = freeBlobs
      BY <1>1, <2>1 DEF StartBlob
    <3>2. /\ EachUsesOne(Free, Occupied \union {c}, elements')
          /\ c \in Blob /\ c \notin Occupied /\ Users(c) = {o} /\ c.bound \ {c.id} = {}
      <4>1. BlobMade(c, o) BY DEF BlobMade, Blob, Alignments
      <4> HIDE DEF c
      <4>2. BlobsOf(Free, Occupied, elements)
        BY <1>2, <1>3 DEF BlobsInv, LifetimeTypeOK, BlobsOf
      <4>3. AfterMake(Free, Occupied, c, o, elements') BY <1>1, <1>4, <4>1, <4>2, MakeBlob
      <4> QED BY <4>1, <4>3 DEF BlobMade, AfterMake
    <3> HIDE DEF c
    <3>3. freeBlobs \in Seq(Blob) /\ Distinct(freeBlobs) BY <1>2 DEF BlobsInv, LifetimeTypeOK
    <3>4. LargeEnough(c, elements') /\ NotTogether(Users(c) \ {o}, together)
      BY <3>2 DEF LargeEnough, NotTogether
    <3> QED BY <3>1, <3>2, <3>3, <3>4 DEF Free
  <2>2. CASE freeBlobs # <<>>
    <3> DEFINE b == Head(freeBlobs)
               c == [b EXCEPT !.id = o]
    <3>1. occupiedBlobs' = <<c>> \o occupiedBlobs /\ freeBlobs' = Tail(freeBlobs)
      BY <1>1, <2>2 DEF StartBlob
    <3>2. freeBlobs \in Seq(Blob) /\ Distinct(freeBlobs) BY <1>2 DEF BlobsInv, LifetimeTypeOK
    <3>3. /\ Tail(freeBlobs) \in Seq(Blob) /\ b \in Free /\ Distinct(Tail(freeBlobs))
          /\ Elems(Tail(freeBlobs)) = Free \ {b}
      BY <2>2, <3>2, TailFacts DEF Free
    <3>4. /\ EachUsesOne(Free \ {b}, Occupied \union {c}, elements')
          /\ c \in Blob /\ c \notin Occupied /\ Users(c) = b.bound \union {o}
          /\ c.bound \ {c.id} = b.bound
          /\ b.bound \subseteq DOMAIN elements \ Living(elements) /\ Users(b) = b.bound
      <4>1. BlobTaken(b, c, o) BY <1>3, <3>3 DEF BlobTaken, Blob
      <4> HIDE DEF b, c
      <4>2. BlobsOf(Free, Occupied, elements)
        BY <1>2, <1>3 DEF BlobsInv, LifetimeTypeOK, BlobsOf
      <4>3. AfterTake(Free, Occupied, elements, b, c, o, elements')
        BY <1>1, <1>4, <3>3, <4>1, <4>2, TakeBlob
      <4> QED BY <4>1, <4>3 DEF BlobTaken, AfterTake
    <3>5. b \in Blob /\ c.size = b.size /\ c.alignment = b.alignment BY <1>3, <3>3 DEF Blob
    <3> HIDE DEF b, c
    <3>6. LargeEnough(b, elements) /\ NotTogether(b.bound, together)
      BY <1>2, <3>3, <3>4 DEF BlobsInv
    <3>7. b.bound \ {b.id} = b.bound
      BY <1>2, <3>3, <3>5, LifetimeAssumption DEF BlobsInv, EachUsesOne, Blob
    <3>8. LargeEnough(c, elements') BY <1>4, <3>4, <3>5, <3>6, <3>7 DEF LargeEnough
    <3>9. Users(c) \ {o} = b.bound BY <1>1, <3>4
    <3> QED BY <1>5, <3>1, <3>3, <3>4, <3>6, <3>8, <3>9
  <2> QED BY <2>1, <2>2
<1>8. /\ occupiedBlobs' \in Seq(Blob) /\ Distinct(occupiedBlobs')
      /\ Occupied' = Occupied \union {c}
  BY <1>2, <1>7, PrependFacts DEF Occupied, LifetimeTypeOK, BlobsInv
<1>9. LifetimeTypeOK'
  BY <1>1, <1>2, <1>6, <1>7, <1>8 DEF LifetimeTypeOK, Mapped
<1>10. \A d \in Free \union Occupied : Users(d) \subseteq DOMAIN elements
  BY <1>2, <1>3, UsersAreElements DEF BlobsInv
<1>11. ASSUME NEW p, {o, p} \in together PROVE FALSE
  BY <1>1, <1>2, <1>11 DEF GroupsInv
<1>12. \A d \in Free \union Occupied : NotTogether(Users(d), together')
  <2> SUFFICES ASSUME NEW d \in Free \union Occupied, NEW p \in Users(d), NEW q \in Users(d),
                      p # q, {p, q} \in together'
               PROVE  FALSE
    BY DEF NotTogether
  <2>1. p # o /\ q # o BY <1>1, <1>10
  <2>2. {p, q} \in together BY <1>1, <2>1
  <2> QED BY <1>2, <2>2 DEF BlobsInv, NotTogether
<1>13. NotTogether(Users(c), together')
  <2> SUFFICES ASSUME NEW p \in Users(c), NEW q \in Users(c), p # q, {p, q} \in together'
               PROVE  FALSE
    BY DEF NotTogether
  <2>1. CASE {p, q} \in together
    <3>1. p # o /\ q # o BY <1>11, <2>1
    <3> QED BY <1>7, <2>1, <3>1 DEF NotTogether
  <2>2. CASE {p, q} \notin together
    <3>1. PICK a \in Alive : {p, q} = {o, a} BY <1>1, <2>2
    <3>2. a # o BY <1>1 DEF Alive
    <3>3. a \in Users(c) \ {o} BY <3>1, <3>2
    <3> QED BY <1>7, <3>3
  <2> QED BY <2>1, <2>2
<1>14. \A d \in Free \union Occupied : LargeEnough(d, elements')
  <2> SUFFICES ASSUME NEW d \in Free \union Occupied PROVE LargeEnough(d, elements') OBVIOUS
  <2>1. LargeEnough(d, elements) BY <1>2 DEF BlobsInv
  <2>2. d.bound \ {d.id} \subseteq DOMAIN elements BY <1>2 DEF BlobsInv, EachUsesOne
  <2> QED BY <1>4, <2>1, <2>2 DEF LargeEnough
<1>15. BlobsInv'
  <2>1. Free' = Elems(freeBlobs') BY DEF Free
  <2>2. \A d \in Free' \union Occupied' : LargeEnough(d, elements') /\ NotTogether(Users(d), together')
    BY <1>7, <1>8, <1>12, <1>13, <1>14, <2>1
  <2> QED BY <1>7, <1>8, <2>1, <2>2 DEF BlobsInv
<1>16. GroupsInv'
  <2>1. activeGroup' # NoGroup /\ DOMAIN elements' # {}
    BY <1>1, <1>4, LifetimeAssumption
  <2>2. Alive' # {} BY <1>4, <1>5
  <2>3. \A h \in Groups : Mapped(h)' = Mapped(h) BY <1>1 DEF Mapped
  <2>4. ASSUME NEW h \in Groups PROVE DOMAIN elements' \intersect Mapped(h)' = {}
    <3>1. DOMAIN elements \intersect Mapped(h) = {} /\ o \notin Mapped(h) BY <1>1, <1>2 DEF GroupsInv
    <3> QED BY <1>4, <2>3, <3>1
  <2>5. ASSUME NEW p, NEW q, {p, q} \in together'
        PROVE  {p, q} \subseteq DOMAIN elements' \/ \E h \in Groups : {p, q} \subseteq Mapped(h)'
    <3>1. CASE {p, q} \in together BY <1>2, <1>4, <2>3, <3>1 DEF GroupsInv
    <3>2. CASE {p, q} \notin together
      <4>1. {p, q} \in {{o, a} : a \in Alive} BY <1>1, <2>5, <3>2
      <4>2. PICK a \in Alive : {p, q} = {o, a} BY <4>1
      <4> QED BY <1>4, <4>2 DEF Alive
    <3> QED BY <3>1, <3>2
  <2> QED BY <1>2, <2>1, <2>2, <2>3, <2>4, <2>5 DEF GroupsInv
<1>17. PlacesInv'
  <2>1. \A h \in Groups : Mapped(h)' = Mapped(h) BY <1>1 DEF Mapped
  <2>2. ASSUME NEW h \in Groups, NEW p \in Mapped(h), NEW q \in Mapped(h), {p, q} \in together'
        PROVE  {p, q} \in together
    <3>1. p # o /\ q # o BY <1>1
    <3> QED BY <1>1, <2>2, <3>1
  <2>3. ASSUME mappingType = "BLOBS" PROVE BlobPlaces'
    <3>1. BlobPlaces BY <1>2, <2>3 DEF PlacesInv
    <3> QED BY <1>1, <2>1, <2>2, <3>1 DEF BlobPlaces
  <2>4. ASSUME mappingType = "OFFSETS" PROVE OffsetPlaces'
    <3>1. OffsetPlaces BY <1>2, <2>4 DEF PlacesInv
    <3> QED BY <1>1, <2>1, <2>2, <3>1 DEF OffsetPlaces
  <2> QED BY <1>1, <2>3, <2>4 DEF PlacesInv
<1> QED BY <1>9, <1>15, <1>16, <1>17 DEF LifetimeInv

LEMMA FoundBlob ==
    ASSUME LifetimeInv, NEW o, o \in Alive
    PROVE  BlobOf(o) \in 1..Len(occupiedBlobs) /\ occupiedBlobs[BlobOf(o)].id = o
<1>1. EachUsesOne(Free, Occupied, elements) /\ Distinct(occupiedBlobs)
  BY DEF LifetimeInv, BlobsInv
<1>2. /\ o \in Living(elements) /\ o \in DOMAIN elements /\ o \in Objects
      /\ Occupied \in SUBSET Blob /\ Free \in SUBSET Blob
  BY ElemsInBlob DEF Alive, Living, LifetimeInv, LifetimeTypeOK
<1>3. PICK b \in Free \union Occupied : o \in Users(b) BY <1>1, <1>2 DEF EachUsesOne
<1>4. b.id = o
  <2>1. o \notin b.bound \ {b.id} BY <1>1, <1>2 DEF EachUsesOne
  <2> QED BY <1>3, <2>1 DEF Users
<1>5. b \in Occupied BY <1>1, <1>2, <1>4, LifetimeAssumption DEF EachUsesOne
<1>6. PICK k \in 1..Len(occupiedBlobs) : occupiedBlobs[k] = b BY <1>5 DEF Occupied, Elems
<1>7. ASSUME NEW j \in 1..Len(occupiedBlobs), occupiedBlobs[j].id = o PROVE j = k
  <2>1. occupiedBlobs[j] \in Occupied BY DEF Occupied, Elems
  <2>2. o \in Users(occupiedBlobs[j]) BY <1>2, <1>7, LifetimeAssumption DEF Users
  <2>3. occupiedBlobs[j] = b BY <1>1, <1>3, <2>1, <2>2 DEF EachUsesOne
  <2> QED BY <1>1, <1>6, <2>3 DEF Distinct
<1> DEFINE I == {i \in 1..Len(occupiedBlobs) : occupiedBlobs[i].id = o}
<1>8. I = {k} BY <1>4, <1>6, <1>7
<1>9. k \in Int OBVIOUS
<1>10. Min(I) = k
  <2> HIDE DEF I
  <2> QED BY <1>8, <1>9 DEF Min
<1>11. BlobOf(o) = k
  <2>1. BlobOf(o) = IF I # {} THEN Min(I) ELSE 0 BY DEF BlobOf, SelectInSeq
  <2> HIDE DEF I
  <2> QED BY <1>8, <1>10, <2>1
<1> QED BY <1>4, <1>6, <1>11

(* The blobs after the life of o has ended.                                *)
Finalizing(o, size, alignment, ended, blobs, left) ==
    /\ size \in Nat /\ alignment \in Alignments
    /\ ended = [elements EXCEPT ![o] = Element(size, alignment, TRUE)]
    /\ blobs = <<EndedBlob(o, size, alignment)>> \o freeBlobs
    /\ left = RemoveAt(occupiedBlobs, BlobOf(o))

AfterFinalize(o, ended, blobs, left) ==
    /\ blobs \in Seq(Blob) /\ left \in Seq(Blob) /\ Distinct(blobs) /\ Distinct(left)
    /\ EachUsesOne(Elems(blobs), Elems(left), ended)
    /\ \A b \in Elems(blobs) \union Elems(left) :
          LargeEnough(b, ended) /\ NotTogether(Users(b), together)
    /\ DOMAIN ended = DOMAIN elements /\ ended \in [DOMAIN elements -> ElementRecord]
    /\ Living(ended) = Alive \ {o}
    /\ Living(ended) = {b.id : b \in Elems(left)}
    /\ \A b \in Elems(blobs) : b.bound = Users(b)

LEMMA FinalizeFacts ==
    ASSUME LifetimeInv, NEW o, o \in Alive, NEW size, NEW alignment, NEW ended, NEW blobs, NEW left,
           Finalizing(o, size, alignment, ended, blobs, left)
    PROVE  AfterFinalize(o, ended, blobs, left)
<1> USE DEF Finalizing
<1> DEFINE i == BlobOf(o)
           b == occupiedBlobs[i]
           e == EndedBlob(o, size, alignment)
<1>1. LifetimeTypeOK /\ BlobsInv /\ Free \in SUBSET Blob /\ Occupied \in SUBSET Blob
  BY ElemsInBlob DEF LifetimeInv
<1>2. i \in 1..Len(occupiedBlobs) /\ b.id = o BY FoundBlob
<1>3. b \in Occupied BY <1>2 DEF Occupied, Elems
<1>4. /\ freeBlobs \in Seq(Blob) /\ occupiedBlobs \in Seq(Blob)
      /\ Distinct(freeBlobs) /\ Distinct(occupiedBlobs)
      /\ DOMAIN elements \subseteq Objects /\ elements \in [DOMAIN elements -> ElementRecord]
      /\ EachUsesOne(Free, Occupied, elements) /\ LargeEnough(b, elements)
  BY <1>1, <1>3 DEF LifetimeTypeOK, BlobsInv
<1>5. AfterEnd(Free, Occupied, b, e, o, ended)
  <2>1. BlobsOf(Free, Occupied, elements) BY <1>1, <1>4 DEF BlobsOf
  <2>2. Ends(elements, o, size, alignment, ended) BY DEF Ends
  <2>3. BlobEnded(b, e, o, size, alignment) BY DEF BlobEnded, EndedBlob
  <2> HIDE DEF b, e, i
  <2> QED BY <1>2, <1>3, <1>4, <2>1, <2>2, <2>3, EndBlob
<1>6. /\ left \in Seq(Blob) /\ Distinct(left) /\ Elems(left) = Occupied \ {b}
  <2> HIDE DEF i
  <2> QED BY <1>2, <1>4, RemoveFacts DEF Occupied, i
<1> HIDE DEF b, i, e
<1>7. /\ EachUsesOne(Free \union {e}, Occupied \ {b}, ended) /\ e \in Blob /\ e \notin Free
      /\ Users(e) = Users(b) /\ LargeEnough(e, ended) /\ e.bound = Users(e)
      /\ Living(ended) = {d.id : d \in Occupied \ {b}}
      /\ \A d \in Free \union (Occupied \ {b}) : o \notin Users(d)
  BY <1>5 DEF AfterEnd
<1>8. blobs = <<e>> \o freeBlobs BY DEF e
<1>9. blobs \in Seq(Blob) /\ Distinct(blobs) /\ Elems(blobs) = {e} \union Free
  BY <1>4, <1>7, <1>8, PrependFacts DEF Free
<1>10. Elems(blobs) = Free \union {e} BY <1>9
<1>11. EachUsesOne(Elems(blobs), Elems(left), ended) BY <1>6, <1>7, <1>10
<1>12. /\ DOMAIN ended = DOMAIN elements /\ ended \in [DOMAIN elements -> ElementRecord]
  <2>1. Element(size, alignment, TRUE) \in ElementRecord BY DEF Element, ElementRecord
  <2> QED BY <1>4, <2>1
<1>13. Living(ended) = Alive \ {o}
  <2>1. ended[o] = Element(size, alignment, TRUE) BY DEF Alive
  <2>2. ended[o].status = TRUE BY <2>1 DEF Element
  <2> QED BY <1>12, <2>2 DEF Living, Alive
<1>14. \A d \in Free \union (Occupied \ {b}) : LargeEnough(d, ended)
  <2> SUFFICES ASSUME NEW d \in Free \union (Occupied \ {b}) PROVE LargeEnough(d, ended) OBVIOUS
  <2>1. LargeEnough(d, elements) /\ d.bound \ {d.id} \subseteq DOMAIN elements
    BY <1>1, <1>4 DEF BlobsInv, EachUsesOne
  <2>2. o \notin d.bound BY <1>7 DEF Users
  <2> QED BY <2>1, <2>2 DEF LargeEnough
<1>15. \A d \in Elems(blobs) \union Elems(left) : LargeEnough(d, ended)
  BY <1>6, <1>7, <1>10, <1>14
<1>16. \A d \in Elems(blobs) \union Elems(left) : NotTogether(Users(d), together)
  BY <1>1, <1>3, <1>6, <1>7, <1>10 DEF BlobsInv
<1>17. \A d \in Elems(blobs) : d.bound = Users(d)
  <2> SUFFICES ASSUME NEW d \in Free PROVE d.bound = Users(d) BY <1>7, <1>10
  <2>1. d.id = NoObject BY <1>4 DEF EachUsesOne
  <2> QED BY <2>1 DEF Users
<1>18. Living(ended) = {d.id : d \in Elems(left)} BY <1>6, <1>7
<1> QED BY <1>6, <1>9, <1>11, <1>12, <1>13, <1>15, <1>16, <1>17, <1>18 DEF AfterFinalize

LEMMA HoldsTransitive ==
    ASSUME NEW a, NEW b, NEW c, Holds(a, b), Holds(b, c),
           a.size \in Nat, b.size \in Nat, c.size \in Nat,
           a.alignment \in Alignments, b.alignment \in Alignments, c.alignment \in Alignments
    PROVE  Holds(a, c)
<1>1. a.alignment \in Nat /\ b.alignment \in Nat /\ c.alignment \in Nat
  BY LifetimeAssumption DEF Alignments
<1> QED BY <1>1 DEF Holds

(* The last object of the active group ends.                               *)
LEMMA LastInv ==
    ASSUME LifetimeInv, NEW o \in Objects, NEW size \in Nat, NEW alignment \in Alignments,
           FinalizeMemory(o, size, alignment), Alive = {o},
           NEW a \in Groups, a = activeGroup
    PROVE  LifetimeInv'
<1> DEFINE ended == [elements EXCEPT ![o] = Element(size, alignment, TRUE)]
           blobs == <<EndedBlob(o, size, alignment)>> \o freeBlobs
           left  == RemoveAt(occupiedBlobs, BlobOf(o))
           u     == Update(blobs)
<1>1. /\ occupiedBlobs' = left /\ elements' = Nothing /\ freeBlobs' = <<>> /\ activeGroup' = NoGroup
      /\ info' = u.info /\ mappings' = [mappings EXCEPT ![a] = Inserted(u.place, mappings[a])]
      /\ finalized' = [finalized EXCEPT ![a] = Inserted(finalized[a], ended)]
      /\ mappingType' = mappingType /\ together' = together
  BY DEF FinalizeMemory
<1>2. LifetimeTypeOK /\ BlobsInv /\ GroupsInv /\ PlacesInv BY DEF LifetimeInv
<1>3. /\ blobs \in Seq(Blob) /\ left \in Seq(Blob) /\ Distinct(blobs)
      /\ EachUsesOne(Elems(blobs), Elems(left), ended)
      /\ \A b \in Elems(blobs) : LargeEnough(b, ended) /\ NotTogether(Users(b), together)
      /\ DOMAIN ended = DOMAIN elements /\ ended \in [DOMAIN elements -> ElementRecord]
      /\ Living(ended) = {} /\ Living(ended) = {b.id : b \in Elems(left)}
      /\ \A b \in Elems(blobs) : b.bound = Users(b)
  <2>1. o \in Alive OBVIOUS
  <2>2. Finalizing(o, size, alignment, ended, blobs, left) BY DEF Finalizing
  <2> HIDE DEF ended, blobs, left
  <2>3. AfterFinalize(o, ended, blobs, left) BY <2>1, <2>2, FinalizeFacts
  <2> QED BY <2>3 DEF AfterFinalize
<1> HIDE DEF ended, blobs, left, u
<1>4. Elems(left) = {} /\ left = <<>>
  <2>1. Elems(left) = {} BY <1>3
  <2> QED BY <1>3, <2>1, EmptyElems
<1>5. DOMAIN elements # {} /\ DOMAIN elements \subseteq Objects
  BY <1>2 DEF Alive, LifetimeTypeOK
<1>6. DOMAIN u.place = DOMAIN elements
  <2>1. DOMAIN u.place = UNION {b.bound : b \in Elems(blobs)} BY <1>3, UpdateDomain DEF u
  <2>2. ASSUME NEW b \in Elems(blobs) PROVE b.bound \subseteq DOMAIN elements
    <3>1. b.bound \ {b.id} \subseteq DOMAIN ended BY <1>3 DEF EachUsesOne
    <3>2. b.id = NoObject /\ b \in Blob BY <1>3 DEF EachUsesOne, Elems
    <3> QED BY <1>3, <3>1, <3>2, LifetimeAssumption DEF Blob
  <2>3. ASSUME NEW p \in DOMAIN elements PROVE \E b \in Elems(blobs) : p \in b.bound
    BY <1>3, <1>4 DEF EachUsesOne
  <2> QED BY <2>1, <2>2, <2>3
<1>7. /\ \A h \in Groups : h # a => mappings'[h] = mappings[h] /\ finalized'[h] = finalized[h]
      /\ mappings'[a] = Inserted(u.place, mappings[a])
      /\ finalized'[a] = Inserted(finalized[a], ended)
      /\ mappings' = [h \in Groups |-> mappings'[h]] /\ finalized' = [h \in Groups |-> finalized'[h]]
  BY <1>1, <1>2, <1>5 DEF LifetimeTypeOK
<1>8. /\ \A h \in Groups : h # a => Mapped(h)' = Mapped(h)
      /\ Mapped(a)' = DOMAIN elements \union Mapped(a)
      /\ \A p \in DOMAIN elements : mappings'[a][p] = u.place[p] /\ finalized'[a][p] = ended[p]
      /\ \A p \in Mapped(a) : mappings'[a][p] = mappings[a][p] /\ finalized'[a][p] = finalized[a][p]
  <2>1. DOMAIN elements \intersect Mapped(a) = {} BY <1>2, <1>5 DEF GroupsInv
  <2>2. DOMAIN finalized[a] = Mapped(a) BY <1>2, <1>5 DEF LifetimeTypeOK
  <2>3. \A h \in Groups : h # a => Mapped(h)' = Mapped(h) BY <1>7 DEF Mapped
  <2>4. Mapped(a)' = DOMAIN elements \union Mapped(a) BY <1>6, <1>7 DEF Mapped, Inserted
  <2>5. ASSUME NEW p \in DOMAIN elements
        PROVE  mappings'[a][p] = u.place[p] /\ finalized'[a][p] = ended[p]
    BY <1>3, <1>6, <1>7, <2>1, <2>2 DEF Inserted
  <2>6. ASSUME NEW p \in Mapped(a)
        PROVE  mappings'[a][p] = mappings[a][p] /\ finalized'[a][p] = finalized[a][p]
    <3>1. p \notin DOMAIN u.place /\ p \in DOMAIN mappings[a] BY <1>6, <2>1 DEF Mapped
    <3> QED BY <1>7, <2>2, <3>1 DEF Inserted
  <2> QED BY <2>3, <2>4, <2>5, <2>6
<1>9. LifetimeTypeOK'
  <2>1. \A h \in Groups : Mapped(h)' \subseteq Objects
    BY <1>2, <1>5, <1>8 DEF LifetimeTypeOK
  <2>2. \A h \in Groups : mappings'[h] = [p \in Mapped(h)' |-> mappings'[h][p]]
    <3>1. \A h \in Groups : h # a => mappings'[h] = [p \in Mapped(h)' |-> mappings'[h][p]]
      BY <1>2, <1>7, <1>8 DEF LifetimeTypeOK
    <3>2. mappings'[a] = [p \in Mapped(a)' |-> mappings'[a][p]]
      BY <1>7 DEF Inserted, Mapped
    <3> QED BY <3>1, <3>2
  <2>3. \A h \in Groups : finalized'[h] \in [Mapped(h)' -> ElementRecord]
    <3>1. \A h \in Groups : h # a => finalized'[h] \in [Mapped(h)' -> ElementRecord]
      BY <1>2, <1>7, <1>8 DEF LifetimeTypeOK
    <3>2. \A p \in Mapped(a)' : finalized'[a][p] \in ElementRecord
      BY <1>2, <1>3, <1>5, <1>8 DEF LifetimeTypeOK
    <3>3. DOMAIN finalized'[a] = Mapped(a)' /\ finalized'[a] = [p \in Mapped(a)' |-> finalized'[a][p]]
      <4>1. DOMAIN finalized[a] = Mapped(a) BY <1>2, <1>5 DEF LifetimeTypeOK
      <4>2. DOMAIN Inserted(finalized[a], ended) = Mapped(a)' BY <1>3, <1>8, <4>1 DEF Inserted
      <4> QED BY <1>7, <4>2 DEF Inserted
    <3> QED BY <3>1, <3>2, <3>3
  <2>4. DOMAIN elements' = {} /\ elements' \in [DOMAIN elements' -> ElementRecord]
    BY <1>1 DEF Nothing
  <2>5. /\ mappingType' \in MappingTypes /\ activeGroup' \in Groups \union {NoGroup}
        /\ freeBlobs' \in Seq(Blob) /\ occupiedBlobs' \in Seq(Blob)
    BY <1>1, <1>2, <1>3 DEF LifetimeTypeOK
  <2>6. DOMAIN elements' \subseteq Objects BY <2>4
  <2> QED BY <1>7, <2>1, <2>2, <2>3, <2>4, <2>5, <2>6 DEF LifetimeTypeOK
<1>10. BlobsInv'
  <2>1. Free' = {} /\ Occupied' = {} BY <1>1, <1>4 DEF Free, Occupied, Elems
  <2>2. Distinct(<<>>) BY DEF Distinct
  <2>3. DOMAIN elements' = {} BY <1>1 DEF Nothing
  <2> QED BY <1>1, <1>4, <2>1, <2>2, <2>3 DEF BlobsInv, EachUsesOne
<1>11. GroupsInv'
  <2>1. DOMAIN elements' = {} /\ activeGroup' = NoGroup BY <1>1 DEF Nothing
  <2>2. ASSUME NEW g \in Groups, NEW h \in Groups, g # h
        PROVE  Mapped(g)' \intersect Mapped(h)' = {}
    BY <1>2, <1>5, <1>8, <2>2 DEF GroupsInv
  <2>3. ASSUME NEW p, NEW q, {p, q} \in together'
        PROVE  \E g \in Groups : {p, q} \subseteq Mapped(g)'
    <3>1. CASE {p, q} \subseteq DOMAIN elements BY <1>5, <1>8, <3>1
    <3>2. CASE \E g \in Groups : {p, q} \subseteq Mapped(g) BY <1>8, <3>2
    <3>3. {p, q} \in together BY <1>1, <2>3
    <3>4. OneSide(p, q) BY <1>2, <3>3, OnOneSide
    <3> QED BY <3>1, <3>2, <3>4 DEF OneSide
  <2>4. \A p, q : {p, q} \in together' =>
           {p, q} \subseteq DOMAIN elements' \/ \E g \in Groups : {p, q} \subseteq Mapped(g)'
    BY <2>3
  <2>5. \A g \in Groups : DOMAIN elements' \intersect Mapped(g)' = {} BY <2>1
  <2>6. \A g, h \in Groups : g # h => Mapped(g)' \intersect Mapped(h)' = {} BY <2>2
  <2> QED BY <2>1, <2>4, <2>5, <2>6 DEF GroupsInv
<1>12. BoundApart(blobs)
  <2> SUFFICES ASSUME NEW j \in 1..Len(blobs), NEW k \in 1..Len(blobs), j # k
               PROVE  blobs[j].bound \intersect blobs[k].bound = {}
    BY DEF BoundApart
  <2>1. blobs[j] # blobs[k] BY <1>3 DEF Distinct
  <2>2. blobs[j] \in Elems(blobs) /\ blobs[k] \in Elems(blobs) BY DEF Elems
  <2>3. Users(blobs[j]) \intersect Users(blobs[k]) = {} BY <1>3, <2>1, <2>2 DEF EachUsesOne
  <2> QED BY <1>3, <2>2, <2>3
<1>13. ASSUME NEW p \in DOMAIN elements
       PROVE  \E k \in 1..Len(blobs) : p \in blobs[k].bound /\ Holds(blobs[k], ended[p])
  <2>1. PICK b \in Elems(blobs) : p \in b.bound BY <1>3, <1>4 DEF EachUsesOne
  <2>2. PICK k \in 1..Len(blobs) : blobs[k] = b BY DEF Elems
  <2>3. b.id = NoObject /\ p # NoObject BY <1>3, <1>5, LifetimeAssumption DEF EachUsesOne
  <2>4. ended[p].size <= b.size /\ ended[p].alignment <= b.alignment
    BY <1>3, <2>1, <2>3 DEF LargeEnough
  <2>5. b \in Blob /\ ended[p] \in ElementRecord BY <1>3, <2>2
  <2>6. Holds(b, ended[p])
    BY <2>4, <2>5, LifetimeAssumption DEF Holds, Blob, ElementRecord, Alignments
  <2> QED BY <2>1, <2>2, <2>6
<1>14. ASSUME mappingType = "BLOBS" PROVE BlobPlaces'
  <2> SUFFICES /\ InfoOK(info')
               /\ \A g \in Groups : \A p \in Mapped(g)' :
                     /\ mappings'[g][p] + 1 \in 1..Len(info')
                     /\ Holds(info'[mappings'[g][p] + 1], finalized'[g][p])
               /\ \A g \in Groups : \A p, q \in Mapped(g)' :
                     p # q /\ {p, q} \in together => mappings'[g][p] # mappings'[g][q]
    BY <1>1 DEF BlobPlaces
  <2>0. BlobPlaces BY <1>2, <1>14 DEF PlacesInv
  <2>1. InfoOK(info) BY <2>0 DEF BlobPlaces
  <2>3. /\ InfoOK(info') /\ Len(info') >= Len(info)
        /\ \A k \in 1..Len(info) : Holds(info'[k], info[k])
        /\ \A k \in 1..Len(blobs) : \A p \in blobs[k].bound :
              u.place[p] + 1 \in 1..Len(info') /\ Holds(info'[u.place[p] + 1], blobs[k])
        /\ \A j, k \in 1..Len(blobs) : \A p \in blobs[j].bound, q \in blobs[k].bound :
              u.place[p] = u.place[q] => j = k
    BY <1>1, <1>3, <2>1, <1>12, <1>14, UpdateFacts DEF u
  <2>5. ASSUME NEW p \in DOMAIN elements
        PROVE  /\ u.place[p] + 1 \in 1..Len(info')
               /\ Holds(info'[u.place[p] + 1], ended[p])
    <3>1. PICK k \in 1..Len(blobs) : p \in blobs[k].bound /\ Holds(blobs[k], ended[p]) BY <1>13
    <3>2. u.place[p] + 1 \in 1..Len(info') /\ Holds(info'[u.place[p] + 1], blobs[k])
      BY <2>3, <3>1
    <3>3. /\ info'[u.place[p] + 1].size \in Nat /\ info'[u.place[p] + 1].alignment \in Alignments
      BY <2>3, <3>2 DEF InfoOK
    <3>4. blobs[k] \in Blob /\ ended[p] \in ElementRecord BY <1>3
    <3>5. /\ blobs[k].size \in Nat /\ blobs[k].alignment \in Alignments
          /\ ended[p].size \in Nat /\ ended[p].alignment \in Alignments
      BY <3>4 DEF Blob, ElementRecord
    <3> QED BY <3>1, <3>2, <3>3, <3>5, HoldsTransitive
  <2>6. ASSUME NEW g \in Groups, NEW p \in Mapped(g)
        PROVE  /\ mappings[g][p] + 1 \in 1..Len(info')
               /\ Holds(info'[mappings[g][p] + 1], finalized[g][p])
    <3>1. /\ mappings[g][p] + 1 \in 1..Len(info)
          /\ Holds(info[mappings[g][p] + 1], finalized[g][p])
      BY <2>0 DEF BlobPlaces
    <3>2. Len(info) \in Nat /\ Len(info') \in Nat BY <2>1, <2>3 DEF InfoOK
    <3>3. mappings[g][p] + 1 \in 1..Len(info') BY <2>3, <3>1, <3>2
    <3>4. /\ info[mappings[g][p] + 1].size \in Nat
          /\ info[mappings[g][p] + 1].alignment \in Alignments
          /\ info'[mappings[g][p] + 1].size \in Nat
          /\ info'[mappings[g][p] + 1].alignment \in Alignments
      BY <2>1, <2>3, <3>1, <3>3 DEF InfoOK
    <3>5. finalized[g][p].size \in Nat /\ finalized[g][p].alignment \in Alignments
      BY <1>2 DEF LifetimeTypeOK, ElementRecord
    <3>6. Holds(info'[mappings[g][p] + 1], info[mappings[g][p] + 1]) BY <2>3, <3>1
    <3> QED BY <3>1, <3>3, <3>4, <3>5, <3>6, HoldsTransitive
  <2>7. ASSUME NEW g \in Groups, NEW p \in Mapped(g)'
        PROVE  /\ mappings'[g][p] + 1 \in 1..Len(info')
               /\ Holds(info'[mappings'[g][p] + 1], finalized'[g][p])
    <3>1. CASE g = a /\ p \in DOMAIN elements BY <1>8, <2>5, <3>1
    <3>2. CASE g = a /\ p \in Mapped(a) BY <1>8, <2>6, <3>2
    <3>3. CASE g # a BY <1>7, <1>8, <2>6, <2>7, <3>3
    <3> QED BY <1>8, <2>7, <3>1, <3>2, <3>3
  <2>8. ASSUME NEW p \in DOMAIN elements, NEW q \in DOMAIN elements, p # q, {p, q} \in together
        PROVE  u.place[p] # u.place[q]
    <3>1. PICK j \in 1..Len(blobs) : p \in blobs[j].bound BY <1>13
    <3>2. PICK k \in 1..Len(blobs) : q \in blobs[k].bound BY <1>13
    <3>3. ASSUME j = k PROVE FALSE
      <4>1. blobs[k] \in Elems(blobs) BY DEF Elems
      <4>2. p \in Users(blobs[k]) /\ q \in Users(blobs[k]) BY <1>3, <3>1, <3>2, <3>3, <4>1
      <4> QED BY <1>3, <2>8, <4>1, <4>2 DEF NotTogether
    <3> QED BY <2>3, <3>1, <3>2, <3>3
  <2>9. ASSUME NEW g \in Groups, NEW p \in Mapped(g)', NEW q \in Mapped(g)', p # q,
               {p, q} \in together
        PROVE  mappings'[g][p] # mappings'[g][q]
    <3>1. CASE {p, q} \subseteq DOMAIN elements
      <4>1. g = a BY <1>2, <1>8, <2>9, <3>1 DEF GroupsInv
      <4> QED BY <1>8, <2>8, <2>9, <3>1, <4>1
    <3>2. CASE \E h \in Groups : {p, q} \subseteq Mapped(h)
      <4>1. PICK h \in Groups : {p, q} \subseteq Mapped(h) BY <3>2
      <4>2. p \notin DOMAIN elements BY <1>2, <4>1 DEF GroupsInv
      <4>3. g = h BY <1>2, <1>8, <2>9, <4>1, <4>2 DEF GroupsInv
      <4>4. mappings[g][p] # mappings[g][q] BY <2>0, <2>9, <4>1, <4>3 DEF BlobPlaces
      <4>5. mappings'[g][p] = mappings[g][p] /\ mappings'[g][q] = mappings[g][q]
        BY <1>7, <1>8, <4>1, <4>3
      <4> QED BY <4>4, <4>5
    <3> QED BY SMTT(20), <1>2, <2>9, <3>1, <3>2 DEF GroupsInv
  <2> QED BY <2>3, <2>7, <2>9
<1>15. ASSUME mappingType = "OFFSETS" PROVE OffsetPlaces'
  <2>0. OffsetPlaces BY <1>2, <1>15 DEF PlacesInv
  <2>1. OffsetInfoOK(info) BY <2>0 DEF OffsetPlaces
  <2>2. /\ OffsetInfoOK(info') /\ info'.size >= info.size /\ info'.alignment >= info.alignment
        /\ \A k \in 1..Len(blobs) :
              /\ info'.alignment >= blobs[k].alignment
              /\ \A p \in blobs[k].bound :
                    /\ u.place[p] \in Nat /\ Suits(u.place[p], info'.alignment)
                    /\ u.place[p] + blobs[k].size <= info'.size
        /\ \A j, k \in 1..Len(blobs) : j < k =>
              \A p \in blobs[j].bound, q \in blobs[k].bound :
                  u.place[p] + blobs[j].size <= u.place[q]
    BY <1>1, <1>3, <1>12, <1>15, <2>1, OffsetUpdateFacts DEF u
  <2>3. /\ info.size \in Nat /\ info'.size \in Nat
        /\ info.alignment \in Nat /\ info'.alignment \in Nat /\ info'.alignment \in Alignments
    BY <2>1, <2>2, LifetimeAssumption DEF OffsetInfoOK, Alignments
  <2>4. ASSUME NEW p \in DOMAIN elements PROVE Placed(u.place[p], ended[p], info')
    <3>1. PICK k \in 1..Len(blobs) : p \in blobs[k].bound /\ Holds(blobs[k], ended[p]) BY <1>13
    <3>2. blobs[k] \in Blob /\ ended[p] \in ElementRecord BY <1>3
    <3>3. /\ blobs[k].size \in Nat /\ blobs[k].alignment \in Nat
          /\ ended[p].size \in Nat /\ ended[p].alignment \in Alignments /\ ended[p].alignment \in Nat
      BY <3>2, LifetimeAssumption DEF Blob, ElementRecord, Alignments
    <3>4. ended[p].size <= blobs[k].size /\ ended[p].alignment <= blobs[k].alignment
      BY <3>1 DEF Holds
    <3>5. /\ info'.alignment >= blobs[k].alignment /\ u.place[p] \in Nat
          /\ Suits(u.place[p], info'.alignment) /\ u.place[p] + blobs[k].size <= info'.size
      BY <2>2, <3>1
    <3>6. ended[p].alignment <= info'.alignment BY <2>3, <3>3, <3>4, <3>5
    <3>7. Suits(u.place[p], ended[p].alignment) BY <2>3, <3>3, <3>5, <3>6, SuitsThrough
    <3>8. u.place[p] + ended[p].size <= info'.size BY SMTT(20), <2>3, <3>3, <3>4, <3>5
    <3> QED BY <3>5, <3>6, <3>7, <3>8 DEF Placed
  <2>5. ASSUME NEW g \in Groups, NEW p \in Mapped(g)
        PROVE  Placed(mappings[g][p], finalized[g][p], info')
    <3>1. Placed(mappings[g][p], finalized[g][p], info) BY <2>0 DEF OffsetPlaces
    <3>2. finalized[g][p].size \in Nat /\ finalized[g][p].alignment \in Nat
      BY <1>2, LifetimeAssumption DEF LifetimeTypeOK, ElementRecord, Alignments
    <3> QED BY <2>2, <2>3, <3>1, <3>2 DEF Placed
  <2>6. ASSUME NEW g \in Groups, NEW p \in Mapped(g)'
        PROVE  Placed(mappings'[g][p], finalized'[g][p], info')
    <3>1. CASE g = a /\ p \in DOMAIN elements BY <1>8, <2>4, <3>1
    <3>2. CASE g = a /\ p \in Mapped(a) BY <1>8, <2>5, <3>2
    <3>3. CASE g # a BY <1>7, <1>8, <2>5, <2>6, <3>3
    <3> QED BY <1>8, <2>6, <3>1, <3>2, <3>3
  <2>7. ASSUME NEW p \in DOMAIN elements, NEW q \in DOMAIN elements, p # q, {p, q} \in together
        PROVE  Disjoint(u.place[p], ended[p].size, u.place[q], ended[q].size)
    <3>1. PICK j \in 1..Len(blobs) : p \in blobs[j].bound /\ Holds(blobs[j], ended[p]) BY <1>13
    <3>2. PICK k \in 1..Len(blobs) : q \in blobs[k].bound /\ Holds(blobs[k], ended[q]) BY <1>13
    <3>3. ASSUME j = k PROVE FALSE
      <4>1. blobs[k] \in Elems(blobs) BY DEF Elems
      <4>2. p \in Users(blobs[k]) /\ q \in Users(blobs[k]) BY <1>3, <3>1, <3>2, <3>3, <4>1
      <4> QED BY <1>3, <2>7, <4>1, <4>2 DEF NotTogether
    <3>4. /\ u.place[p] \in Nat /\ u.place[q] \in Nat
          /\ blobs[j].size \in Nat /\ blobs[k].size \in Nat
          /\ ended[p].size \in Nat /\ ended[q].size \in Nat
      <4>1. blobs[j] \in Blob /\ blobs[k] \in Blob BY <1>3
      <4>2. ended[p] \in ElementRecord /\ ended[q] \in ElementRecord BY <1>3
      <4> QED BY <2>2, <3>1, <3>2, <4>1, <4>2 DEF Blob, ElementRecord
    <3>5. ended[p].size <= blobs[j].size /\ ended[q].size <= blobs[k].size
      BY <3>1, <3>2 DEF Holds
    <3>6. CASE j < k
      <4>1. u.place[p] + blobs[j].size <= u.place[q] BY <2>2, <3>1, <3>2, <3>6
      <4> QED BY <3>4, <3>5, <4>1 DEF Disjoint
    <3>7. CASE k < j
      <4>1. u.place[q] + blobs[k].size <= u.place[p] BY <2>2, <3>1, <3>2, <3>7
      <4> QED BY SMTT(20), <3>4, <3>5, <4>1 DEF Disjoint
    <3> QED BY <3>3, <3>6, <3>7
  <2>8. ASSUME NEW g \in Groups, NEW p \in Mapped(g)', NEW q \in Mapped(g)', p # q,
               {p, q} \in together
        PROVE  Disjoint(mappings'[g][p], finalized'[g][p].size, mappings'[g][q], finalized'[g][q].size)
    <3>1. CASE {p, q} \subseteq DOMAIN elements
      <4>1. g = a BY <1>2, <1>8, <2>8, <3>1 DEF GroupsInv
      <4> QED BY <1>8, <2>7, <2>8, <3>1, <4>1
    <3>2. CASE \E h \in Groups : {p, q} \subseteq Mapped(h)
      <4>1. PICK h \in Groups : {p, q} \subseteq Mapped(h) BY <3>2
      <4>2. p \notin DOMAIN elements BY <1>2, <4>1 DEF GroupsInv
      <4>3. g = h BY <1>2, <1>8, <2>8, <4>1, <4>2 DEF GroupsInv
      <4>4. Disjoint(mappings[g][p], finalized[g][p].size, mappings[g][q], finalized[g][q].size)
        BY <2>0, <2>8, <4>1, <4>3 DEF OffsetPlaces
      <4>5. /\ mappings'[g][p] = mappings[g][p] /\ mappings'[g][q] = mappings[g][q]
            /\ finalized'[g][p] = finalized[g][p] /\ finalized'[g][q] = finalized[g][q]
        BY <1>7, <1>8, <4>1, <4>3
      <4> QED BY <4>4, <4>5
    <3>3. OneSide(p, q) BY <1>2, <2>8, OnOneSide
    <3> QED BY <3>1, <3>2, <3>3 DEF OneSide
  <2> QED BY <1>1, <2>2, <2>6, <2>8 DEF OffsetPlaces
<1>16. PlacesInv' BY <1>1, <1>14, <1>15 DEF PlacesInv
<1> QED BY <1>9, <1>10, <1>11, <1>16 DEF LifetimeInv

LEMMA FinalizeInv ==
    ASSUME LifetimeInv, NEW o \in Objects, NEW size \in Nat, NEW alignment \in Alignments,
           FinalizeMemory(o, size, alignment)
    PROVE  LifetimeInv'
<1>1. CASE Alive = {o}
  <2>1. activeGroup \in Groups
    BY <1>1 DEF Alive, LifetimeInv, LifetimeTypeOK, GroupsInv
  <2> QED BY <1>1, <2>1, LastInv
<1>2. CASE Alive # {o}
  <2> DEFINE ended == [elements EXCEPT ![o] = Element(size, alignment, TRUE)]
             blobs == <<EndedBlob(o, size, alignment)>> \o freeBlobs
             left  == RemoveAt(occupiedBlobs, BlobOf(o))
  <2>1. /\ o \in Alive /\ occupiedBlobs' = left /\ elements' = ended /\ freeBlobs' = blobs
        /\ activeGroup' = activeGroup /\ finalized' = finalized /\ mappings' = mappings
        /\ info' = info /\ mappingType' = mappingType /\ together' = together
    BY <1>2 DEF FinalizeMemory
  <2>2. Finalizing(o, size, alignment, ended, blobs, left) BY DEF Finalizing
  <2> HIDE DEF ended, blobs, left
  <2>3. AfterFinalize(o, ended, blobs, left) BY <2>1, <2>2, FinalizeFacts
  <2>4. LifetimeTypeOK /\ GroupsInv /\ PlacesInv BY DEF LifetimeInv
  <2>5. DOMAIN elements' = DOMAIN elements /\ \A h \in Groups : Mapped(h)' = Mapped(h)
    BY <2>1, <2>3 DEF AfterFinalize, Mapped
  <2>6. LifetimeTypeOK' BY <2>1, <2>3, <2>4, <2>5 DEF LifetimeTypeOK, AfterFinalize, Mapped
  <2>7. BlobsInv'
    <3>1. Free' = Elems(blobs) /\ Occupied' = Elems(left) BY <2>1 DEF Free, Occupied
    <3> QED BY <2>1, <2>3, <3>1 DEF BlobsInv, AfterFinalize
  <2>8. GroupsInv'
    <3>1. Alive' = Alive \ {o} BY <2>1, <2>3 DEF AfterFinalize, Alive, Living
    <3>2. Alive' # {} BY <1>2, <2>1, <3>1
    <3>3. ASSUME NEW x, NEW y, {x, y} \in together'
          PROVE  {x, y} \subseteq DOMAIN elements' \/ \E h \in Groups : {x, y} \subseteq Mapped(h)'
      <4>1. {x, y} \in together BY <2>1, <3>3
      <4>2. {x, y} \subseteq DOMAIN elements \/ \E h \in Groups : {x, y} \subseteq Mapped(h)
        BY <2>4, <4>1, ZenonT(40) DEF GroupsInv
      <4> QED BY <2>5, <4>2
    <3>4. \A x, y : {x, y} \in together' =>
             {x, y} \subseteq DOMAIN elements' \/ \E h \in Groups : {x, y} \subseteq Mapped(h)'
      BY <3>3
    <3>5. \A h \in Groups : DOMAIN elements' \intersect Mapped(h)' = {}
      BY <2>4, <2>5 DEF GroupsInv
    <3>6. \A f, h \in Groups : f # h => Mapped(f)' \intersect Mapped(h)' = {}
      BY <2>4, <2>5 DEF GroupsInv
    <3>7. activeGroup' = NoGroup <=> DOMAIN elements' = {} BY <2>1, <2>4, <2>5 DEF GroupsInv
    <3> QED BY <3>2, <3>4, <3>5, <3>6, <3>7 DEF GroupsInv
  <2>9. PlacesInv' BY <2>1, <2>4, <2>5 DEF PlacesInv, BlobPlaces, OffsetPlaces
  <2> QED BY <2>6, <2>7, <2>8, <2>9 DEF LifetimeInv
<1> QED BY <1>1, <1>2

LEMMA ReleaseInv ==
    ASSUME LifetimeInv, NEW g \in Groups, ReleaseGroup(g)
    PROVE  LifetimeInv'
<1>1. /\ finalized' = [finalized EXCEPT ![g] = Nothing] /\ mappings' = [mappings EXCEPT ![g] = Nothing]
      /\ together' = {pair \in together : pair \intersect Mapped(g) = {}}
      /\ mappingType' = mappingType /\ activeGroup' = activeGroup /\ elements' = elements
      /\ freeBlobs' = freeBlobs /\ occupiedBlobs' = occupiedBlobs /\ info' = info
  BY DEF ReleaseGroup, Mapped
<1>2. LifetimeTypeOK /\ BlobsInv /\ GroupsInv /\ PlacesInv BY DEF LifetimeInv
<1>3. /\ \A h \in Groups : h # g => mappings'[h] = mappings[h] /\ finalized'[h] = finalized[h]
      /\ mappings'[g] = Nothing /\ finalized'[g] = Nothing
      /\ mappings' = [h \in Groups |-> mappings'[h]] /\ finalized' = [h \in Groups |-> finalized'[h]]
  BY <1>1, <1>2 DEF LifetimeTypeOK
<1>4. Mapped(g)' = {} /\ \A h \in Groups : h # g => Mapped(h)' = Mapped(h)
  BY <1>3 DEF Mapped, Nothing
<1>5. LifetimeTypeOK'
  <2>1. \A h \in Groups : Mapped(h)' \subseteq Objects BY <1>2, <1>4 DEF LifetimeTypeOK
  <2>2. \A h \in Groups : mappings'[h] = [p \in Mapped(h)' |-> mappings'[h][p]]
    <3>1. mappings'[g] = [p \in Mapped(g)' |-> mappings'[g][p]] BY <1>3, <1>4 DEF Nothing
    <3> QED BY <1>2, <1>3, <1>4, <3>1 DEF LifetimeTypeOK
  <2>3. \A h \in Groups : finalized'[h] \in [Mapped(h)' -> ElementRecord]
    <3>1. finalized'[g] \in [Mapped(g)' -> ElementRecord] BY <1>3, <1>4 DEF Nothing
    <3> QED BY <1>2, <1>3, <1>4, <3>1 DEF LifetimeTypeOK
  <2>4. /\ mappingType' \in MappingTypes /\ activeGroup' \in Groups \union {NoGroup}
        /\ DOMAIN elements' \subseteq Objects /\ elements' \in [DOMAIN elements' -> ElementRecord]
        /\ freeBlobs' \in Seq(Blob) /\ occupiedBlobs' \in Seq(Blob)
    BY <1>1, <1>2 DEF LifetimeTypeOK
  <2> QED BY <1>3, <2>1, <2>2, <2>3, <2>4 DEF LifetimeTypeOK
<1>6. BlobsInv'
  <2>1. Free' = Free /\ Occupied' = Occupied /\ together' \subseteq together
    BY <1>1 DEF Free, Occupied
  <2>2. \A d \in Free \union Occupied : NotTogether(Users(d), together')
    BY <1>2, <2>1 DEF BlobsInv, NotTogether
  <2> QED BY <1>1, <1>2, <2>1, <2>2 DEF BlobsInv
<1>7. GroupsInv'
  <2>1. Alive' = Alive BY <1>1 DEF Alive
  <2>2. ASSUME NEW p, NEW q, {p, q} \in together'
        PROVE  {p, q} \subseteq DOMAIN elements' \/ \E h \in Groups : {p, q} \subseteq Mapped(h)'
    <3>1. {p, q} \in together /\ {p, q} \intersect Mapped(g) = {} BY <1>1, <2>2
    <3>2. {p, q} \subseteq DOMAIN elements \/ \E h \in Groups : {p, q} \subseteq Mapped(h)
      BY <1>2, <3>1, ZenonT(40) DEF GroupsInv
    <3>3. ASSUME NEW h \in Groups, {p, q} \subseteq Mapped(h) PROVE {p, q} \subseteq Mapped(h)'
      BY <1>4, <3>1, <3>3
    <3> QED BY <1>1, <3>2, <3>3
  <2>3. \A p, q : {p, q} \in together' =>
           {p, q} \subseteq DOMAIN elements' \/ \E h \in Groups : {p, q} \subseteq Mapped(h)'
    BY <2>2
  <2>4. \A h \in Groups : DOMAIN elements' \intersect Mapped(h)' = {}
    BY <1>1, <1>2, <1>4 DEF GroupsInv
  <2>5. \A f, h \in Groups : f # h => Mapped(f)' \intersect Mapped(h)' = {}
    BY <1>2, <1>4 DEF GroupsInv
  <2> QED BY <1>1, <1>2, <2>1, <2>3, <2>4, <2>5 DEF GroupsInv
<1>8. PlacesInv'
  <2>1. ASSUME mappingType = "BLOBS" PROVE BlobPlaces'
    <3>1. BlobPlaces BY <1>2, <2>1 DEF PlacesInv
    <3> QED BY <1>1, <1>3, <1>4, <3>1 DEF BlobPlaces
  <2>2. ASSUME mappingType = "OFFSETS" PROVE OffsetPlaces'
    <3>1. OffsetPlaces BY <1>2, <2>2 DEF PlacesInv
    <3> QED BY <1>1, <1>3, <1>4, <3>1 DEF OffsetPlaces
  <2> QED BY <1>1, <2>1, <2>2 DEF PlacesInv
<1> QED BY <1>5, <1>6, <1>7, <1>8 DEF LifetimeInv

LEMMA StutterInv ==
    ASSUME LifetimeInv, UNCHANGED lifetimeVars
    PROVE  LifetimeInv'
<1>1. LifetimeTypeOK' BY DEF LifetimeInv, lifetimeVars, LifetimeTypeOK, Mapped
<1>2. BlobsInv' BY DEF LifetimeInv, lifetimeVars, BlobsInv, Free, Occupied
<1>3. GroupsInv' BY DEF LifetimeInv, lifetimeVars, GroupsInv, Mapped, Alive
<1>4. PlacesInv'
  BY DEF LifetimeInv, lifetimeVars, PlacesInv, BlobPlaces, OffsetPlaces, Mapped
<1> QED BY <1>1, <1>2, <1>3, <1>4 DEF LifetimeInv

LEMMA LifetimeStep == LifetimeInv /\ [LifetimeNext]_lifetimeVars => LifetimeInv'
<1> SUFFICES ASSUME LifetimeInv, [LifetimeNext]_lifetimeVars PROVE LifetimeInv' OBVIOUS
<1>1. ASSUME NEW g \in Groups, NEW o \in Objects, Manage(g, o) PROVE LifetimeInv'
  BY <1>1, ManageInv
<1>2. ASSUME NEW o \in Objects, NEW r \in Requests, FinalizeMemory(o, r[1], r[2])
      PROVE  LifetimeInv'
  <2>1. r[1] \in Nat /\ r[2] \in Alignments BY LifetimeAssumption DEF Alignments
  <2> QED BY <1>2, <2>1, FinalizeInv
<1>3. ASSUME NEW g \in Groups, ReleaseGroup(g) PROVE LifetimeInv'
  BY <1>3, ReleaseInv
<1>4. CASE UNCHANGED lifetimeVars BY <1>4, StutterInv
<1> QED BY <1>1, <1>2, <1>3, <1>4 DEF LifetimeNext

(* Whatever is managed, finalized and released, in any order: every object *)
(* with a lifetime uses one blob, the objects of the active group and of   *)
(* the finalized groups are different, and every mapping leads to a blob   *)
(* that holds its object and no neighbour.                                 *)
THEOREM LifetimeInductive == LifetimeSpec => []LifetimeInv
BY LifetimeInitInv, LifetimeStep, PTL DEF LifetimeSpec

-----------------------------------------------------------------------------
(* What the functions and the pools see of it.                             *)

LEMMA InvBlobsOfTheLiving == LifetimeInv => BlobsOfTheLiving
<1> SUFFICES ASSUME LifetimeInv PROVE BlobsOfTheLiving OBVIOUS
<1>1. /\ LifetimeTypeOK /\ BlobsInv /\ GroupsInv
      /\ Free \in SUBSET Blob /\ Occupied \in SUBSET Blob
      /\ EachUsesOne(Free, Occupied, elements) /\ Distinct(occupiedBlobs)
      /\ occupiedBlobs \in Seq(Blob) /\ freeBlobs \in Seq(Blob)
  BY ElemsInBlob DEF LifetimeInv, BlobsInv, LifetimeTypeOK
<1>2. Living(elements) = Alive /\ Alive \subseteq Objects /\ Alive \subseteq DOMAIN elements
  BY <1>1 DEF Living, Alive, LifetimeTypeOK
<1>3. \A b \in Occupied : b.id \in Alive /\ b.id \in Users(b)
  BY <1>1, <1>2, LifetimeAssumption DEF EachUsesOne, Users
<1>4. ASSUME NEW o \in Alive PROVE \E b \in Occupied : b.id = o
  <2>1. BlobOf(o) \in 1..Len(occupiedBlobs) /\ occupiedBlobs[BlobOf(o)].id = o BY FoundBlob
  <2> QED BY <2>1 DEF Occupied, Elems
<1>5. {b.id : b \in Elems(occupiedBlobs)} = Alive BY <1>3, <1>4 DEF Occupied
<1>6. \A b, c \in Elems(occupiedBlobs) : b.id = c.id => b = c
  <2> SUFFICES ASSUME NEW b \in Occupied, NEW c \in Occupied, b.id = c.id PROVE b = c
    BY DEF Occupied
  <2>1. b.id \in Users(b) \intersect Users(c) BY <1>3
  <2> QED BY <1>1, <2>1 DEF EachUsesOne
<1>7. Len(occupiedBlobs) = Cardinality(Alive) /\ {occupiedBlobs[k].id : k \in DOMAIN occupiedBlobs} = Alive
  BY <1>1, <1>5, <1>6, OneEach
<1>8. ASSUME Alive = {} PROVE activeGroup = NoGroup /\ elements = Nothing /\ freeBlobs = <<>>
  <2>1. DOMAIN elements = {} /\ activeGroup = NoGroup BY <1>1, <1>8 DEF GroupsInv
  <2>2. elements = Nothing BY <1>1, <2>1 DEF Nothing, LifetimeTypeOK
  <2>3. Free = {}
    <3> SUFFICES ASSUME NEW b \in Free PROVE FALSE OBVIOUS
    <3>1. b.id = NoObject /\ b.bound # {} /\ b.bound \subseteq Objects
      BY <1>1 DEF EachUsesOne, Blob
    <3>2. b.bound \ {b.id} \subseteq DOMAIN elements BY <1>1 DEF EachUsesOne
    <3> QED BY <2>1, <3>1, <3>2, LifetimeAssumption
  <2>4. freeBlobs = <<>> BY <1>1, <2>3, EmptyElems DEF Free
  <2> QED BY <2>1, <2>2, <2>4
<1> QED BY <1>7, <1>8 DEF BlobsOfTheLiving

(* The assertions of ISimpleLifetimeManager::end_lifetime hold in every    *)
(* history: an object that is alive has an occupied blob of its own, and   *)
(* once nobody is alive the manager is ready for another group.            *)
THEOREM LivingHaveBlobs == LifetimeSpec => []BlobsOfTheLiving
BY LifetimeInductive, InvBlobsOfTheLiving, PTL

LEMMA InvAliveTogetherApart ==
    ASSUME LifetimeInv
    PROVE  AliveTogetherApart
<1>1. GroupsInv /\ PlacesInv /\ mappingType \in {"BLOBS", "OFFSETS"}
  BY LifetimeAssumption DEF LifetimeInv, LifetimeTypeOK
<1> SUFFICES ASSUME NEW o \in Objects, NEW p \in Objects, o # p, {o, p} \in together,
                    NEW g \in Groups
             PROVE  (o \in Mapped(g) <=> p \in Mapped(g)) /\ (o \in Mapped(g) => Apart(g, o, p))
  BY DEF AliveTogetherApart
<1>2. OneSide(o, p) BY <1>1, OnOneSide
<1>3. o \in Mapped(g) <=> p \in Mapped(g)
  <2>1. CASE {o, p} \subseteq DOMAIN elements BY <1>1, <2>1 DEF GroupsInv
  <2>2. CASE \E h \in Groups : {o, p} \subseteq Mapped(h) BY <1>1, <2>2 DEF GroupsInv
  <2> QED BY <1>2, <2>1, <2>2 DEF OneSide
<1>4. ASSUME o \in Mapped(g) PROVE Apart(g, o, p)
  <2>1. p \in Mapped(g) BY <1>3, <1>4
  <2>2. CASE mappingType = "BLOBS"
    <3>1. mappings[g][o] # mappings[g][p] BY <1>1, <1>4, <2>1, <2>2 DEF PlacesInv, BlobPlaces
    <3> QED BY <2>2, <3>1 DEF Apart
  <2>3. CASE mappingType = "OFFSETS"
    <3>1. Disjoint(mappings[g][o], finalized[g][o].size, mappings[g][p], finalized[g][p].size)
      BY <1>1, <1>4, <2>1, <2>3 DEF PlacesInv, OffsetPlaces
    <3> QED BY <2>3, <3>1 DEF Apart, Disjoint
  <2> QED BY <1>1, <2>2, <2>3
<1> QED BY <1>3, <1>4

(* Under BlobLifetimeManager and OffsetLifetimeManager, objects that were  *)
(* alive at the same time end in the mappings of one group, in different   *)
(* blobs or in parts of the one blob with no byte in common: an object     *)
(* never gets the memory of a neighbour whose life overlapped its own.     *)
THEOREM NeighboursApart == LifetimeSpec => []AliveTogetherApart
BY LifetimeInductive, InvAliveTogetherApart, PTL

(* A larger alignment suits who asked for a smaller one.                   *)
LEMMA LargerSuits ==
    ASSUME NEW a \in Alignments, NEW w \in Alignments, w <= a
    PROVE  Suits(a, w)
<1> SUFFICES ASSUME w # 0 PROVE a % w = 0 BY DEF Suits
<1>1. PICK r \in Requests : w = r[2] BY DEF Alignments
<1>2. w \in Nat /\ a \in Nat BY LifetimeAssumption DEF Alignments
<1>3. PICK t \in Requests : a = t[2] BY <1>2 DEF Alignments
<1> QED BY <1>1, <1>3, AlignmentAssumption

LEMMA InvEverythingFits ==
    ASSUME LifetimeInv
    PROVE  EverythingFits
<1>1. LifetimeTypeOK /\ PlacesInv /\ mappingType \in {"BLOBS", "OFFSETS"}
  BY LifetimeAssumption DEF LifetimeInv, LifetimeTypeOK
<1> SUFFICES ASSUME NEW g \in Groups, NEW o \in Mapped(g) PROVE FitsIn(info, g, o)
  BY DEF EverythingFits
<1> DEFINE e == finalized[g][o]
           at == mappings[g][o]
<1>2. e.size \in Nat /\ e.alignment \in Alignments BY <1>1 DEF LifetimeTypeOK, ElementRecord
<1> HIDE DEF e, at
<1>3. CASE mappingType = "BLOBS"
  <2>1. InfoOK(info) /\ at + 1 \in 1..Len(info) /\ Holds(info[at + 1], e)
    BY <1>1, <1>3 DEF PlacesInv, BlobPlaces, at, e
  <2>2. at + 1 \in DOMAIN info /\ info[at + 1].alignment \in Alignments /\ info[at + 1].size \in Nat
    BY <2>1 DEF InfoOK
  <2>3. e.size <= info[at + 1].size /\ e.alignment <= info[at + 1].alignment BY <2>1 DEF Holds
  <2>4. Suits(info[at + 1].alignment, e.alignment) BY <1>2, <2>2, <2>3, LargerSuits
  <2> QED BY <1>3, <2>2, <2>3, <2>4 DEF FitsIn, e, at
<1>4. CASE mappingType = "OFFSETS"
  <2>1. OffsetInfoOK(info) /\ Placed(at, e, info) BY <1>1, <1>4 DEF PlacesInv, OffsetPlaces, at, e
  <2>2. info.alignment \in Alignments /\ e.alignment <= info.alignment BY <2>1 DEF OffsetInfoOK, Placed
  <2>3. Suits(info.alignment, e.alignment) BY <1>2, <2>2, LargerSuits
  <2> QED BY <1>4, <2>1, <2>3 DEF FitsIn, Placed, e, at
<1> QED BY <1>1, <1>3, <1>4

(* Under BlobLifetimeManager and OffsetLifetimeManager, the sizes and the  *)
(* alignments that pools are created with serve every object of every      *)
(* group that is finalized, also the groups from before the last change of *)
(* the blobs, and every offset is aligned as its object asked.             *)
THEOREM PoolsFit == LifetimeSpec => []EverythingFits
BY LifetimeInductive, InvEverythingFits, PTL

-----------------------------------------------------------------------------
(* MemoryManager                                                           *)

Steps == {"idle", "locking", "locked", "running", "unmapped"}

Populated == free # {} \/ \E g \in Groups : held[g] # NoPool

ExecTypeOK ==
    /\ free \subseteq Pools /\ wanting \subseteq Groups
    /\ held \in [Groups -> Pools \union {NoPool}] /\ step \in [Groups -> Steps]
    /\ memory = [o \in Objects |-> memory[o]]

(* A pool has one user, and where a thread is says whether it has one.     *)
PoolsInv ==
    /\ \A g \in Groups : held[g] \notin free
    /\ \A g, h \in Groups : g # h /\ held[g] = held[h] => held[g] = NoPool
    /\ \A g \in Groups : g \in wanting => step[g] = "locking"
    /\ \A g \in Groups : step[g] \in {"locked", "unmapped"} => held[g] # NoPool
    /\ \A g \in Groups : held[g] # NoPool => step[g] \in {"locked", "running", "unmapped"}
    /\ \A g \in Groups : step[g] # "idle" => Populated
    /\ Populated => Alive = {} /\ poolInfo = info

(* Handles point into a pool while the group they are mapped in runs, and  *)
(* at no other time.                                                       *)
HandlesInv ==
    /\ \A o \in Objects : InPool(o) =>
          \E g \in Groups : step[g] = "running" /\ o \in Mapped(g) /\ memory[o].pool = held[g]
    /\ \A g \in Groups : step[g] = "running" => \A o \in Mapped(g) :
          memory[o] = Region(g, o, held[g]) /\ held[g] # NoPool

ExecInv == ExecTypeOK /\ PoolsInv /\ HandlesInv

-----------------------------------------------------------------------------
(* Lifetimes *)

LEMMA LifetimeSimulation == [Next]_vars => [LifetimeNext]_lifetimeVars
<1> SUFFICES ASSUME [Next]_vars PROVE [LifetimeNext]_lifetimeVars OBVIOUS
<1>1. ASSUME NEW g \in Groups, Release_group(g) PROVE LifetimeNext
  BY <1>1 DEF Release_group, LifetimeNext
<1>2. ASSUME NEW g \in Groups, NEW o \in Objects, ManageObject(g, o) PROVE LifetimeNext
  BY <1>2 DEF ManageObject, LifetimeNext
<1>3. ASSUME NEW o \in Objects, NEW r \in Requests, AllocateManaged(o, r[1], r[2])
      PROVE  LifetimeNext
  BY <1>3 DEF AllocateManaged, LifetimeNext
<1>4. ASSUME NEW o \in Objects, AllocateOwn(o) \/ FreeOwn(o) PROVE UNCHANGED lifetimeVars
  BY <1>4 DEF AllocateOwn, FreeOwn
<1>5. ASSUME NEW pools, Populate(pools) \/ Clear PROVE UNCHANGED lifetimeVars
  BY <1>5 DEF Populate, Clear
<1>6. ASSUME NEW g \in Groups, Run(g) PROVE UNCHANGED lifetimeVars
  BY <1>6 DEF Run, AcquireNothing, Acquire, Lock, Map, Unmap, Unlock, ReleaseNothing
<1>7. CASE UNCHANGED vars BY <1>7 DEF vars
<1> QED BY <1>1, <1>2, <1>3, <1>4, <1>5, <1>6, <1>7 DEF Next, Configure

LEMMA LifetimesHold == Spec => []LifetimeInv
<1>1. Init => LifetimeInv BY LifetimeInitInv DEF Init
<1>2. LifetimeInv /\ [Next]_vars => LifetimeInv' BY LifetimeSimulation, LifetimeStep
<1> QED BY <1>1, <1>2, PTL DEF Spec

-----------------------------------------------------------------------------
(* Execution *)

(* Nobody has a pool: nobody runs, and no handle points into one.          *)
LEMMA Unpopulated ==
    ASSUME ExecInv, NoPools
    PROVE  /\ ~Populated
           /\ \A g \in Groups : step[g] = "idle" /\ held[g] = NoPool /\ g \notin wanting
           /\ \A o \in Objects : ~InPool(o)
<1>1. ~Populated BY DEF NoPools, pool_mgr!InUse, Populated
<1> QED BY <1>1 DEF ExecInv, PoolsInv, HandlesInv, NoPools, pool_mgr!InUse

LEMMA ExecInitInv == Init => ExecInv
<1> SUFFICES ASSUME Init PROVE ExecInv OBVIOUS
<1>1. /\ free = {} /\ wanting = {} /\ held = [g \in Groups |-> NoPool]
      /\ step = [g \in Groups |-> "idle"] /\ memory = [o \in Objects |-> NoMemory]
  BY DEF Init, pool_mgr!AllocInit
<1>2. ExecTypeOK BY <1>1 DEF ExecTypeOK, Steps
<1>3. PoolsInv BY <1>1 DEF PoolsInv, Populated
<1>4. HandlesInv BY <1>1 DEF HandlesInv, InPool, NoMemory
<1> QED BY <1>2, <1>3, <1>4 DEF ExecInv

(* Configuration goes on only while there are no pools.                    *)
LEMMA ConfigureExec ==
    ASSUME ExecInv, UNCHANGED <<poolVars, step, memory>>, NoPools
    PROVE  ExecInv'
<1>1. /\ ~Populated
      /\ \A g \in Groups : step[g] = "idle" /\ held[g] = NoPool /\ g \notin wanting
      /\ \A o \in Objects : ~InPool(o)
  BY Unpopulated
<1>2. free' = free /\ held' = held /\ wanting' = wanting /\ step' = step /\ memory' = memory
  BY DEF poolVars
<1>3. ExecTypeOK' BY <1>2 DEF ExecInv, ExecTypeOK
<1>4. PoolsInv' BY <1>1, <1>2 DEF ExecInv, PoolsInv, Populated
<1>5. HandlesInv' BY <1>1, <1>2 DEF HandlesInv, InPool
<1> QED BY <1>3, <1>4, <1>5 DEF ExecInv

(* Nobody is alive once there are pools, so no life ends.                  *)
LEMMA AllocateExec ==
    ASSUME ExecInv, NEW o, NEW size, NEW alignment, AllocateManaged(o, size, alignment)
    PROVE  ExecInv'
<1>1. o \in Alive /\ UNCHANGED <<poolVars, step, memory>>
  BY DEF AllocateManaged, FinalizeMemory
<1>2. ~Populated BY <1>1 DEF ExecInv, PoolsInv
<1>3. NoPools
  <2>1. free = {} /\ \A g \in Groups : held[g] = NoPool BY <1>2 DEF Populated
  <2>2. wanting = {} BY <1>2 DEF ExecInv, PoolsInv, ExecTypeOK
  <2> QED BY <2>1, <2>2 DEF NoPools, pool_mgr!InUse
<1> QED BY <1>1, <1>3, ConfigureExec

(* A tensor of its own is not in a pool before, and not after.             *)
LEMMA OwnExec ==
    ASSUME LifetimeInv, ExecInv, NEW o \in Objects, AllocateOwn(o) \/ FreeOwn(o)
    PROVE  ExecInv'
<1>1. /\ memory' \in {[memory EXCEPT ![o] = OwnMemory], [memory EXCEPT ![o] = NoMemory]}
      /\ memory[o] \in {OwnMemory, NoMemory}
      /\ UNCHANGED <<lifetimeVars, poolVars, step, poolInfo>>
  BY DEF AllocateOwn, FreeOwn
<1>2. /\ free' = free /\ held' = held /\ wanting' = wanting /\ step' = step /\ poolInfo' = poolInfo
      /\ info' = info /\ mappings' = mappings /\ elements' = elements
  BY <1>1 DEF poolVars, lifetimeVars
<1>3. ~InPool(o) BY <1>1 DEF InPool, OwnMemory, NoMemory
<1>4. /\ memory' = [p \in Objects |-> memory'[p]] /\ ~InPool(o)'
      /\ \A p \in Objects \ {o} : memory'[p] = memory[p]
  BY <1>1 DEF ExecInv, ExecTypeOK, InPool, OwnMemory, NoMemory
<1>5. ExecTypeOK' BY <1>2, <1>4 DEF ExecInv, ExecTypeOK
<1>6. PoolsInv' BY <1>2 DEF ExecInv, PoolsInv, Populated, Alive
<1>7. HandlesInv'
  <2>1. ASSUME NEW p \in Objects, InPool(p)'
        PROVE  \E g \in Groups : step'[g] = "running" /\ p \in Mapped(g)' /\ memory'[p].pool = held'[g]
    <3>1. p # o /\ InPool(p) BY <1>4, <2>1 DEF InPool
    <3> QED BY <1>2, <1>4, <3>1 DEF ExecInv, HandlesInv, Mapped
  <2>2. ASSUME NEW g \in Groups, step'[g] = "running", NEW p \in Mapped(g)'
        PROVE  memory'[p] = Region(g, p, held[g])' /\ held'[g] # NoPool
    <3>1. memory[p] = Region(g, p, held[g]) /\ held[g] # NoPool
      BY <1>2, <2>2 DEF ExecInv, HandlesInv, Mapped
    <3>2. memory[p].pool # NoPool BY <3>1 DEF Region
    <3>3. p # o BY <1>3, <3>2 DEF InPool
    <3>4. p \in Objects BY <1>2 DEF LifetimeInv, LifetimeTypeOK, Mapped
    <3>5. memory'[p] = memory[p] BY <1>4, <3>3, <3>4
    <3> QED BY <1>2, <3>1, <3>5 DEF Region
  <2> QED BY <2>1, <2>2 DEF HandlesInv
<1> QED BY <1>5, <1>6, <1>7 DEF ExecInv

LEMMA PopulateExec ==
    ASSUME ExecInv, NEW pools \in SUBSET Pools, Populate(pools)
    PROVE  ExecInv'
<1>1. /\ \A g \in Groups : step[g] = "idle" /\ held[g] = NoPool /\ g \notin wanting
      /\ \A o \in Objects : ~InPool(o)
  BY Unpopulated DEF Populate
<1>2. /\ free' = pools /\ poolInfo' = info /\ Alive = {} /\ UNCHANGED lifetimeVars
      /\ held' = held /\ wanting' = wanting /\ step' = step /\ memory' = memory
  BY DEF Populate, are_all_finalized
<1>3. elements' = elements /\ info' = info BY <1>2 DEF lifetimeVars
<1>4. ExecTypeOK' BY <1>2 DEF ExecInv, ExecTypeOK
<1>5. PoolsInv' BY <1>1, <1>2, <1>3, PoolsAssumption DEF ExecInv, PoolsInv, Alive
<1>6. HandlesInv' BY <1>1, <1>2 DEF HandlesInv, InPool
<1> QED BY <1>4, <1>5, <1>6 DEF ExecInv

LEMMA ClearExec ==
    ASSUME ExecInv, Clear
    PROVE  ExecInv'
<1>1. /\ \A g \in Groups : step[g] = "idle" /\ held[g] = NoPool
      /\ wanting = {} /\ free' = {}
      /\ held' = held /\ wanting' = wanting /\ step' = step /\ memory' = memory
  BY DEF Clear, pool_mgr!Withdraw, pool_mgr!AtRest, pool_mgr!InUse, ExecInv, ExecTypeOK
<1>2. \A o \in Objects : ~InPool(o) BY <1>1 DEF ExecInv, HandlesInv
<1>3. ExecTypeOK' BY <1>1 DEF ExecInv, ExecTypeOK
<1>4. PoolsInv' BY <1>1 DEF ExecInv, PoolsInv, Populated
<1>5. HandlesInv' BY <1>1, <1>2 DEF HandlesInv, InPool
<1> QED BY <1>3, <1>4, <1>5 DEF ExecInv

(* A thread takes a step that leaves the handles alone: it neither starts  *)
(* nor stops running with mappings.                                        *)
HandlesAlone(g) ==
    /\ memory' = memory /\ mappings' = mappings
    /\ \A h \in Groups : h # g => step'[h] = step[h] /\ held'[h] = held[h]
    /\ step[g] = "running" => Mapped(g) = {}
    /\ step'[g] = "running" => Mapped(g) = {}

LEMMA HandlesKept ==
    ASSUME HandlesInv, NEW g \in Groups, HandlesAlone(g)
    PROVE  HandlesInv'
<1>1. ASSUME NEW o \in Objects, InPool(o)'
      PROVE  \E h \in Groups : step'[h] = "running" /\ o \in Mapped(h)' /\ memory'[o].pool = held'[h]
  BY <1>1 DEF HandlesInv, HandlesAlone, Mapped, InPool
<1>2. ASSUME NEW h \in Groups, step'[h] = "running", NEW o \in Mapped(h)'
      PROVE  memory'[o] = Region(h, o, held[h])' /\ held'[h] # NoPool
  BY <1>2 DEF HandlesInv, HandlesAlone, Mapped, Region
<1> QED BY <1>1, <1>2 DEF HandlesInv

(* The pools and the program counters after a step of g's thread.          *)
LEMMA ThreadStep ==
    ASSUME ExecInv, NEW g \in Groups, Run(g)
    PROVE  ExecTypeOK' /\ PoolsInv'
<1>1. ExecTypeOK /\ PoolsInv BY DEF ExecInv
<1>2. /\ UNCHANGED lifetimeVars /\ poolInfo' = poolInfo
  BY DEF Run, AcquireNothing, Acquire, Lock, Map, Unmap, Unlock, ReleaseNothing
<1>3. elements' = elements /\ info' = info /\ Alive' = Alive
  BY <1>2 DEF lifetimeVars, Alive
<1>4. CASE Lock(g)
  <2>1. PICK p \in free : /\ held' = [held EXCEPT ![g] = p] /\ free' = free \ {p}
                          /\ g \in wanting /\ wanting' = wanting \ {g}
                          /\ step' = [step EXCEPT ![g] = "locked"] /\ memory' = memory
    BY <1>4 DEF Lock, pool_mgr!Grant
  <2>2. p \in Pools /\ p # NoPool BY <1>1, PoolsAssumption DEF ExecTypeOK
  <2>3. ExecTypeOK' BY <1>1, <2>1, <2>2 DEF ExecTypeOK, Steps
  <2>4. Populated /\ Populated' BY <1>1, <2>1, <2>2 DEF Populated, ExecTypeOK
  <2>5. PoolsInv' BY <1>1, <1>2, <1>3, <2>1, <2>2, <2>4 DEF PoolsInv, ExecTypeOK
  <2> QED BY <2>3, <2>5
<1>5. CASE Unlock(g)
  <2>1. /\ held' = [held EXCEPT ![g] = NoPool] /\ free' = free \union {held[g]}
        /\ held[g] # NoPool /\ wanting' = wanting /\ step[g] = "unmapped"
        /\ step' = [step EXCEPT ![g] = "idle"] /\ memory' = memory
    BY <1>5 DEF Unlock, pool_mgr!GiveBack, pool_mgr!InUse
  <2>2. held[g] \in Pools BY <1>1, <2>1 DEF ExecTypeOK
  <2>3. ExecTypeOK' BY <1>1, <2>1, <2>2 DEF ExecTypeOK, Steps
  <2>4. Populated /\ Populated' BY <2>1 DEF Populated
  <2>5. \A h \in Groups : held'[h] \notin free'
    BY <1>1, <2>1, <2>2, PoolsAssumption DEF PoolsInv, ExecTypeOK
  <2>6. PoolsInv' BY <1>1, <1>2, <1>3, <2>1, <2>4, <2>5 DEF PoolsInv, ExecTypeOK
  <2> QED BY <2>3, <2>6
<1>6. CASE Acquire(g)
  <2>1. /\ step[g] = "idle" /\ step' = [step EXCEPT ![g] = "locking"]
        /\ wanting' = wanting \union {g} /\ Populated /\ held[g] = NoPool
        /\ free' = free /\ held' = held /\ memory' = memory
    BY <1>6 DEF Acquire, pool_mgr!Want, pool_mgr!InUse, Populated
  <2>2. ExecTypeOK' BY <1>1, <2>1 DEF ExecTypeOK, Steps
  <2>3. PoolsInv' BY <1>1, <1>2, <1>3, <2>1 DEF PoolsInv, ExecTypeOK, Populated
  <2> QED BY <2>2, <2>3
<1>7. CASE AcquireNothing(g) \/ ReleaseNothing(g) \/ Map(g) \/ Unmap(g)
  <2>1. /\ \E s \in {"idle", "running", "unmapped"} : step' = [step EXCEPT ![g] = s]
        /\ held[g] = NoPool => step'[g] \in {"idle", "running"}
        /\ held[g] # NoPool => step'[g] \in {"running", "unmapped"}
        /\ Populated /\ g \notin wanting
    <3>1. CASE AcquireNothing(g)
      <4>1. wanting # {} => Populated BY <1>1 DEF PoolsInv, ExecTypeOK
      <4> QED BY <1>1, <3>1, <4>1
              DEF AcquireNothing, NoPools, pool_mgr!InUse, PoolsInv, ExecTypeOK, Populated
    <3>2. CASE ReleaseNothing(g)
      BY <1>1, <3>2 DEF ReleaseNothing, pool_mgr!InUse, PoolsInv, ExecTypeOK
    <3>3. CASE Map(g) BY <1>1, <3>3 DEF Map, PoolsInv, ExecTypeOK
    <3>4. CASE Unmap(g) BY <1>1, <3>4 DEF Unmap, pool_mgr!InUse, PoolsInv, ExecTypeOK
    <3> QED BY <1>7, <3>1, <3>2, <3>3, <3>4
  <2>2. /\ free' = free /\ held' = held /\ wanting' = wanting
        /\ memory' = [o \in Objects |-> memory'[o]]
    BY <1>1, <1>7 DEF AcquireNothing, ReleaseNothing, Map, Unmap, poolVars, ExecTypeOK
  <2>3. ExecTypeOK' BY <1>1, <2>1, <2>2 DEF ExecTypeOK, Steps
  <2>4. PoolsInv' BY <1>1, <1>2, <1>3, <2>1, <2>2 DEF PoolsInv, ExecTypeOK, Populated
  <2> QED BY <2>3, <2>4
<1> QED BY <1>4, <1>5, <1>6, <1>7 DEF Run

LEMMA RunExec ==
    ASSUME LifetimeInv, ExecInv, NEW g \in Groups, Run(g)
    PROVE  ExecInv'
<1>1. ExecTypeOK /\ PoolsInv /\ HandlesInv BY DEF ExecInv
<1>2. mappings' = mappings /\ \A h \in Groups : Mapped(h)' = Mapped(h)
  BY DEF Run, AcquireNothing, Acquire, Lock, Map, Unmap, Unlock, ReleaseNothing, lifetimeVars, Mapped
<1>3. /\ \A h \in Groups : Mapped(h) \subseteq Objects
      /\ \A h, i \in Groups : h # i => Mapped(h) \intersect Mapped(i) = {}
  BY DEF LifetimeInv, LifetimeTypeOK, GroupsInv
<1>4. CASE Acquire(g) \/ Lock(g) \/ Unlock(g)
  <2>1. HandlesAlone(g)
    <3>1. CASE Acquire(g)
      BY <1>1, <1>2, <3>1 DEF Acquire, pool_mgr!Want, HandlesAlone, ExecTypeOK
    <3>2. CASE Lock(g)
      <4>1. PICK p \in free : held' = [held EXCEPT ![g] = p] /\ g \in wanting
        BY <3>2 DEF Lock, pool_mgr!Grant
      <4>2. step[g] = "locking" BY <1>1, <4>1 DEF PoolsInv
      <4> QED BY <1>1, <1>2, <3>2, <4>1, <4>2 DEF Lock, HandlesAlone, ExecTypeOK
    <3>3. CASE Unlock(g)
      BY <1>1, <1>2, <3>3 DEF Unlock, pool_mgr!GiveBack, HandlesAlone, ExecTypeOK
    <3> QED BY <1>4, <3>1, <3>2, <3>3
  <2> QED BY <1>1, <2>1, HandlesKept, ThreadStep DEF ExecInv
<1>5. CASE AcquireNothing(g) \/ ReleaseNothing(g)
  <2>1. HandlesAlone(g)
    <3>1. CASE AcquireNothing(g)
      BY <1>1, <1>2, <3>1 DEF AcquireNothing, HandlesAlone, ExecTypeOK, poolVars
    <3>2. CASE ReleaseNothing(g)
      <4>1. Mapped(g) = {}
        BY <1>1, <3>2 DEF ReleaseNothing, pool_mgr!InUse, HandlesInv
      <4> QED BY <1>1, <1>2, <3>2, <4>1 DEF ReleaseNothing, HandlesAlone, ExecTypeOK, poolVars
    <3> QED BY <1>5, <3>1, <3>2
  <2> QED BY <1>1, <2>1, HandlesKept, ThreadStep DEF ExecInv
<1>6. CASE Map(g)
  <2>1. /\ step[g] = "locked" /\ step' = [step EXCEPT ![g] = "running"] /\ held' = held
        /\ memory' = [o \in Objects |-> IF o \in Mapped(g) THEN Region(g, o, held[g]) ELSE memory[o]]
    BY <1>6 DEF Map, poolVars
  <2>2. held[g] # NoPool BY <1>1, <2>1 DEF PoolsInv
  <2>3. ASSUME NEW o \in Objects, InPool(o)'
        PROVE  \E h \in Groups : step'[h] = "running" /\ o \in Mapped(h)' /\ memory'[o].pool = held'[h]
    <3>1. CASE o \in Mapped(g)
      <4>1. step'[g] = "running" /\ memory'[o].pool = held'[g]
        BY <1>1, <2>1, <3>1 DEF ExecTypeOK, Region
      <4> QED BY <1>2, <3>1, <4>1
    <3>2. CASE o \notin Mapped(g)
      <4>1. memory'[o] = memory[o] /\ InPool(o) BY <2>1, <2>3, <3>2 DEF InPool
      <4>2. PICK h \in Groups : step[h] = "running" /\ o \in Mapped(h) /\ memory[o].pool = held[h]
        BY <1>1, <4>1 DEF HandlesInv
      <4> QED BY <1>1, <1>2, <2>1, <4>1, <4>2 DEF ExecTypeOK
    <3> QED BY <3>1, <3>2
  <2>4. ASSUME NEW h \in Groups, step'[h] = "running", NEW o \in Mapped(h)'
        PROVE  memory'[o] = Region(h, o, held[h])' /\ held'[h] # NoPool
    <3>1. o \in Mapped(h) /\ o \in Objects BY <1>2, <1>3
    <3>2. CASE h = g BY <1>2, <2>1, <2>2, <3>1, <3>2 DEF Region
    <3>3. CASE h # g
      <4>1. o \notin Mapped(g) /\ step[h] = "running" BY <1>1, <1>3, <2>1, <2>4, <3>1, <3>3 DEF ExecTypeOK
      <4> QED BY <1>1, <1>2, <2>1, <3>1, <4>1 DEF HandlesInv, Region
    <3> QED BY <3>2, <3>3
  <2>5. HandlesInv' BY <2>3, <2>4 DEF HandlesInv
  <2> QED BY <2>5, ThreadStep DEF ExecInv
<1>7. CASE Unmap(g)
  <2>1. /\ step' = [step EXCEPT ![g] = "unmapped"] /\ held' = held
        /\ memory' = [o \in Objects |-> IF o \in Mapped(g) THEN NoMemory ELSE memory[o]]
    BY <1>7 DEF Unmap, poolVars
  <2>2. ASSUME NEW o \in Objects, InPool(o)'
        PROVE  \E h \in Groups : step'[h] = "running" /\ o \in Mapped(h)' /\ memory'[o].pool = held'[h]
    <3>1. o \notin Mapped(g) BY <2>1, <2>2 DEF InPool, NoMemory
    <3>2. memory'[o] = memory[o] /\ InPool(o) BY <2>1, <2>2, <3>1 DEF InPool
    <3>3. PICK h \in Groups : step[h] = "running" /\ o \in Mapped(h) /\ memory[o].pool = held[h]
      BY <1>1, <3>2 DEF HandlesInv
    <3> QED BY <1>1, <1>2, <2>1, <3>1, <3>2, <3>3 DEF ExecTypeOK
  <2>3. ASSUME NEW h \in Groups, step'[h] = "running", NEW o \in Mapped(h)'
        PROVE  memory'[o] = Region(h, o, held[h])' /\ held'[h] # NoPool
    <3>1. o \in Mapped(h) /\ o \in Objects BY <1>2, <1>3
    <3>2. h # g /\ step[h] = "running" BY <1>1, <2>1, <2>3 DEF ExecTypeOK
    <3>3. o \notin Mapped(g) BY <1>3, <3>1, <3>2
    <3> QED BY <1>1, <1>2, <2>1, <3>1, <3>2, <3>3 DEF HandlesInv, Region
  <2>4. HandlesInv' BY <2>2, <2>3 DEF HandlesInv
  <2> QED BY <2>4, ThreadStep DEF ExecInv
<1> QED BY <1>4, <1>5, <1>6, <1>7 DEF Run

LEMMA ExecStep == LifetimeInv /\ ExecInv /\ [Next]_vars => ExecInv'
<1> SUFFICES ASSUME LifetimeInv, ExecInv, [Next]_vars PROVE ExecInv' OBVIOUS
<1>1. ASSUME NEW g \in Groups, Release_group(g) PROVE ExecInv'
  <2>1. UNCHANGED <<poolVars, step, memory>> /\ NoPools BY <1>1 DEF Release_group
  <2> QED BY <2>1, ConfigureExec
<1>2. ASSUME NEW g \in Groups, NEW o \in Objects, ManageObject(g, o) PROVE ExecInv'
  <2>1. UNCHANGED <<poolVars, step, memory>> /\ NoPools BY <1>2 DEF ManageObject
  <2> QED BY <2>1, ConfigureExec
<1>3. ASSUME NEW o \in Objects, NEW r \in Requests, AllocateManaged(o, r[1], r[2]) PROVE ExecInv'
  BY <1>3, AllocateExec
<1>4. ASSUME NEW o \in Objects, AllocateOwn(o) \/ FreeOwn(o) PROVE ExecInv'
  BY <1>4, OwnExec
<1>5. ASSUME NEW pools \in SUBSET Pools, Populate(pools) PROVE ExecInv'
  BY <1>5, PopulateExec
<1>6. CASE Clear BY <1>6, ClearExec
<1>7. ASSUME NEW g \in Groups, Run(g) PROVE ExecInv' BY <1>7, RunExec
<1>8. CASE UNCHANGED vars
  <2>1. /\ free' = free /\ held' = held /\ wanting' = wanting /\ step' = step /\ memory' = memory
        /\ poolInfo' = poolInfo /\ info' = info /\ mappings' = mappings /\ elements' = elements
    BY <1>8 DEF vars, poolVars, lifetimeVars
  <2> QED BY <2>1 DEF ExecInv, ExecTypeOK, PoolsInv, Populated, Alive, HandlesInv, InPool, Mapped, Region
<1> QED BY <1>1, <1>2, <1>3, <1>4, <1>5, <1>6, <1>7, <1>8 DEF Next, Configure

(* MemoryGroup::acquire and release, run by any number of threads: pools   *)
(* have one user, handles are set exactly while their group runs, and no   *)
(* configuration goes on beside that.                                      *)
THEOREM ExecInductive == Spec => []ExecInv
BY LifetimesHold, ExecInitInv, ExecStep, PTL DEF Spec

-----------------------------------------------------------------------------
(* What the functions may rely on.                                         *)

(* MemoryGroup::release leaves no handle that points into a pool: whoever  *)
(* locks the pool next, no tensor of another function reaches into it.     *)
THEOREM NoTensorDangles == Spec => []NoDanglingMemory
<1>1. ExecInv => NoDanglingMemory BY DEF ExecInv, HandlesInv, NoDanglingMemory
<1> QED BY <1>1, ExecInductive, PTL

LEMMA InvSharesOnlyDead ==
    ASSUME LifetimeInv, ExecInv
    PROVE  SharesOnlyDead
<1> SUFFICES ASSUME NEW o \in Objects, NEW p \in Objects, o # p, InPool(o),
                    memory[o].pool = memory[p].pool
             PROVE  \E g \in Groups : {o, p} \subseteq Mapped(g)
                                      /\ ({o, p} \in together => Apart(g, o, p))
  BY DEF SharesOnlyDead
<1>1. PICK g \in Groups : o \in Mapped(g) /\ memory[o].pool = held[g]
  BY DEF ExecInv, HandlesInv
<1>2. PICK h \in Groups : p \in Mapped(h) /\ memory[p].pool = held[h]
  BY DEF ExecInv, HandlesInv, InPool
<1>3. g = h BY <1>1, <1>2 DEF InPool, ExecInv, PoolsInv
<1>4. {o, p} \in together => Apart(g, o, p)
  BY <1>1, InvAliveTogetherApart DEF AliveTogetherApart
<1> QED BY <1>1, <1>2, <1>3, <1>4

(* With blobs or with offsets, tensors whose handles point into one pool   *)
(* belong to one group, and those of them that were ever alive together    *)
(* have no byte in common, however many groups run with however many       *)
(* pools.                                                                  *)
THEOREM MemorySharedOnlyByDead == Spec => []SharesOnlyDead
BY LifetimesHold, ExecInductive, InvSharesOnlyDead, PTL

LEMMA InvBackedWhileRunning ==
    ASSUME LifetimeInv, ExecInv
    PROVE  BackedWhileRunning
<1> SUFFICES ASSUME NEW g \in Groups, step[g] = "running", NEW o \in Mapped(g)
             PROVE  memory[o] = Region(g, o, held[g]) /\ FitsIn(poolInfo, g, o)
  BY DEF BackedWhileRunning
<1>1. memory[o] = Region(g, o, held[g]) BY DEF ExecInv, HandlesInv
<1>2. poolInfo = info BY DEF ExecInv, PoolsInv
<1>3. FitsIn(info, g, o) BY InvEverythingFits DEF EverythingFits
<1> QED BY <1>1, <1>2, <1>3

(* With blobs or with offsets, while a function runs each of its tensors   *)
(* has the region its mapping says, in the pool that the function locked;  *)
(* that pool was created large enough for it, and aligned as it asked.     *)
THEOREM RunningIsBacked == Spec => []BackedWhileRunning
BY LifetimesHold, ExecInductive, InvBackedWhileRunning, PTL
=============================================================================
