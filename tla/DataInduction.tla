--------------------------- MODULE DataInduction ---------------------------
(***************************************************************************)
(* Induction over numbers in a form that needs no operator for a           *)
(* parameter: a set that has 0 and the successors of its members has every *)
(* number.  It is applied to sets {n \in Nat : ...}.  From it follow the   *)
(* functions that are defined step by step, and the folds of sequences.    *)
(***************************************************************************)
EXTENDS Integers, Sequences, FiniteSetsExt, SequencesExt, WellFoundedInduction, TLAPS

LEMMA SmallestExists ==
    ASSUME NEW T \in SUBSET Nat, T # {}
    PROVE  \E n \in T : \A m \in T : n <= m
<1>1. PICK n \in T : \A m \in T : <<m, n>> \notin OpToRel(<, Nat)
  BY WFMin, NatLessThanWellFounded
<1>2. SUFFICES ASSUME NEW m \in T, m < n PROVE FALSE OBVIOUS
<1>3. <<m, n>> \in OpToRel(<, Nat)
  <2>1. <<m, n>> \in {z \in Nat \X Nat : z[1] < z[2]} BY <1>2
  <2> QED BY <2>1, Zenon DEF OpToRel
<1> QED BY <1>1, <1>3, Zenon

LEMMA SetInduction ==
    ASSUME NEW S, 0 \in S, \A n \in Nat : n \in S => n + 1 \in S
    PROVE  Nat \subseteq S
<1> SUFFICES ASSUME Nat \ S # {} PROVE FALSE OBVIOUS
<1>1. PICK n \in Nat \ S : \A m \in Nat \ S : n <= m BY SmallestExists
<1>2. n - 1 \in Nat BY <1>1
<1>3. n - 1 \in S BY <1>1, <1>2
<1> QED BY <1>1, <1>2, <1>3

(* A function that is defined at 0 and, from each number, at the next.     *)
Stepwise(f, n, base, Op) == f[0] = base /\ \A k \in 1..n : f[k] = Op[<<f[k - 1], k>>]

LEMMA StepByStep ==
    ASSUME NEW Typ, NEW base \in Typ, NEW n \in Nat, NEW Op \in [Typ \X (1..n) -> Typ]
    PROVE  \E f \in [0..n -> Typ] : Stepwise(f, n, base, Op)
<1> DEFINE Good == {m \in Nat : m <= n => \E f \in [0..m -> Typ] : Stepwise(f, m, base, Op)}
<1>1. 0 \in Good
  <2> DEFINE f == [k \in 0..0 |-> base]
  <2>1. f \in [0..0 -> Typ] /\ f[0] = base /\ \A k \in 1..0 : f[k] = Op[<<f[k - 1], k>>]
    OBVIOUS
  <2> HIDE DEF f
  <2> QED BY <2>1 DEF Stepwise
<1>2. ASSUME NEW m \in Nat, m \in Good PROVE m + 1 \in Good
  <2> SUFFICES ASSUME m + 1 <= n PROVE \E f \in [0..m+1 -> Typ] : Stepwise(f, m + 1, base, Op)
    OBVIOUS
  <2>1. PICK f \in [0..m -> Typ] : Stepwise(f, m, base, Op) BY <1>2
  <2> DEFINE x == Op[<<f[m], m + 1>>]
             g == [k \in 0..m+1 |-> IF k = m + 1 THEN x ELSE f[k]]
  <2>2. f[m] \in Typ /\ m + 1 \in 1..n BY <2>1
  <2>3. x \in Typ BY <2>2
  <2> HIDE DEF x
  <2>4. g \in [0..m+1 -> Typ] BY <2>1, <2>3
  <2>5. g[0] = base BY <2>1 DEF Stepwise
  <2>6. ASSUME NEW k \in 1..m+1 PROVE g[k] = Op[<<g[k - 1], k>>]
    <3>1. CASE k = m + 1
      <4>1. g[k] = x /\ k - 1 = m /\ g[m] = f[m] BY <3>1
      <4> QED BY <3>1, <4>1 DEF x
    <3>2. CASE k # m + 1
      <4>1. k \in 1..m /\ k - 1 \in 0..m BY <3>2
      <4>2. g[k] = f[k] /\ g[k - 1] = f[k - 1] BY <4>1
      <4> QED BY <2>1, <4>1, <4>2 DEF Stepwise
    <3> QED BY <3>1, <3>2
  <2> HIDE DEF g
  <2> QED BY <2>4, <2>5, <2>6 DEF Stepwise
<1> HIDE DEF Good
<1>3. Nat \subseteq Good BY <1>1, <1>2, SetInduction
<1> QED BY <1>3 DEF Good

(* There is only one such function.                                        *)
LEMMA OneWay ==
    ASSUME NEW n \in Nat, NEW base, NEW Op, NEW f, NEW g,
           Stepwise(f, n, base, Op), Stepwise(g, n, base, Op)
    PROVE  \A k \in 0..n : f[k] = g[k]
<1> DEFINE Good == {m \in Nat : m <= n => f[m] = g[m]}
<1>1. 0 \in Good BY DEF Stepwise
<1>2. ASSUME NEW m \in Nat, m \in Good PROVE m + 1 \in Good
  <2> SUFFICES ASSUME m + 1 <= n PROVE f[m + 1] = g[m + 1] OBVIOUS
  <2>1. f[m] = g[m] /\ m + 1 \in 1..n /\ (m + 1) - 1 = m BY <1>2
  <2> QED BY <2>1 DEF Stepwise
<1> HIDE DEF Good
<1>3. Nat \subseteq Good BY <1>1, <1>2, SetInduction
<1> QED BY <1>3 DEF Good

(* A fold over a set of numbers takes the largest of them last.            *)
FoldsBy(it, S, base, Op) ==
    \A s \in SUBSET S : it[s] = IF s = {} THEN base ELSE Op[<<it[s \ {Max(s)}], Max(s)>>]

LEMMA MaxIs ==
    ASSUME NEW s, NEW m \in s, s \subseteq 1..m, m \in Nat
    PROVE  Max(s) = m
<1>1. \A y \in s : m >= y OBVIOUS
<1>2. \A x \in s : (\A y \in s : x >= y) => x = m
  <2> SUFFICES ASSUME NEW x \in s, \A y \in s : x >= y PROVE x = m OBVIOUS
  <2>1. x >= m /\ m >= x /\ x \in 1..m OBVIOUS
  <2> QED BY <2>1
<1> QED BY <1>1, <1>2 DEF Max

HasFold(n, Typ, base, Op) ==
    \E it \in [SUBSET (1..n) -> Typ] : FoldsBy(it, 1..n, base, Op)

LEMMA FoldOfSet ==
    ASSUME NEW Typ, NEW base \in Typ, NEW n \in Nat, NEW Op \in [Typ \X (1..n) -> Typ]
    PROVE  HasFold(n, Typ, base, Op)
<1> DEFINE Good == {m \in Nat : m <= n => HasFold(m, Typ, base, Op)}
<1>1. 0 \in Good
  <2> DEFINE it == [s \in SUBSET (1..0) |-> base]
  <2>1. it \in [SUBSET (1..0) -> Typ] OBVIOUS
  <2>2. \A s \in SUBSET (1..0) : s = {} /\ it[s] = base OBVIOUS
  <2> HIDE DEF it
  <2>3. FoldsBy(it, 1..0, base, Op) BY <2>2 DEF FoldsBy
  <2>4. HasFold(0, Typ, base, Op) BY <2>1, <2>3 DEF HasFold
  <2> QED BY <2>4
<1>2. ASSUME NEW m \in Nat, m \in Good PROVE m + 1 \in Good
  <2> SUFFICES ASSUME m + 1 <= n PROVE HasFold(m + 1, Typ, base, Op)
    OBVIOUS
  <2>0. HasFold(m, Typ, base, Op) BY <1>2
  <2>1. PICK f \in [SUBSET (1..m) -> Typ] : FoldsBy(f, 1..m, base, Op) BY <2>0 DEF HasFold
  <2> DEFINE it == [s \in SUBSET (1..m+1) |->
                       IF m + 1 \in s THEN Op[<<f[s \ {m + 1}], m + 1>>] ELSE f[s]]
  <2>2. m + 1 \in 1..n OBVIOUS
  <2>3. \A s \in SUBSET (1..m+1) : s \ {m + 1} \in SUBSET (1..m) /\ (m + 1 \notin s => s \in SUBSET (1..m))
    OBVIOUS
  <2>4. ASSUME NEW s \in SUBSET (1..m+1) PROVE it[s] \in Typ
    <3>1. CASE m + 1 \in s
      <4>1. f[s \ {m + 1}] \in Typ BY <2>1, <2>3
      <4> QED BY <2>2, <3>1, <4>1
    <3>2. CASE m + 1 \notin s BY <2>1, <2>3, <3>2
    <3> QED BY <3>1, <3>2
  <2>5. it \in [SUBSET (1..m+1) -> Typ] BY <2>4
  <2>6. ASSUME NEW s \in SUBSET (1..m+1)
        PROVE  it[s] = IF s = {} THEN base ELSE Op[<<it[s \ {Max(s)}], Max(s)>>]
    <3>1. CASE m + 1 \in s
      <4>1. Max(s) = m + 1
        <5>1. m + 1 \in Nat /\ s \subseteq 1..m+1 OBVIOUS
        <5> QED BY <3>1, <5>1, MaxIs
      <4>2. it[s \ {m + 1}] = f[s \ {m + 1}] BY <2>3
      <4>3. it[s] = Op[<<f[s \ {m + 1}], m + 1>>] BY <3>1
      <4>4. s # {} BY <3>1
      <4> HIDE DEF it
      <4> QED BY <4>1, <4>2, <4>3, <4>4
    <3>2. CASE m + 1 \notin s
      <4>1. s \in SUBSET (1..m) /\ s \ {Max(s)} \in SUBSET (1..m) BY <2>3, <3>2
      <4>2. it[s] = f[s] BY <3>2
      <4>3. it[s \ {Max(s)}] = f[s \ {Max(s)}]
        <5>1. s \ {Max(s)} \in SUBSET (1..m+1) /\ m + 1 \notin s \ {Max(s)} BY <3>2
        <5> QED BY <5>1
      <4>4. f[s] = IF s = {} THEN base ELSE Op[<<f[s \ {Max(s)}], Max(s)>>]
        BY <2>1, <4>1 DEF FoldsBy
      <4> HIDE DEF it
      <4> QED BY <4>2, <4>3, <4>4
    <3> QED BY <3>1, <3>2
  <2> HIDE DEF it
  <2>7. FoldsBy(it, 1..m+1, base, Op) BY <2>6 DEF FoldsBy
  <2> QED BY <2>5, <2>7 DEF HasFold
<1> HIDE DEF Good
<1>3. Nat \subseteq Good BY <1>1, <1>2, SetInduction
<1> QED BY <1>3 DEF Good

LEMMA FirstNumbers ==
    ASSUME NEW n \in Nat, NEW k \in 1..n
    PROVE  /\ 1..k \in SUBSET (1..n) /\ 1..k # {}
           /\ Max(1..k) = k /\ (1..k) \ {k} = 1..k-1
<1>1. \A j \in 1..k : j \in 1..n OBVIOUS
<1>2. k \in 1..k /\ k \in Nat OBVIOUS
<1>3. Max(1..k) = k BY <1>2, MaxIs
<1>4. (1..k) \ {k} = 1..k-1 OBVIOUS
<1> QED BY <1>1, <1>2, <1>3, <1>4

(* Such a fold reads a sequence from its first element to its last.        *)
LEMMA FoldIsSteps ==
    ASSUME NEW n \in Nat, NEW base, NEW Op, NEW it, FoldsBy(it, 1..n, base, Op)
    PROVE  Stepwise([k \in 0..n |-> it[1..k]], n, base, Op)
<1> DEFINE f == [k \in 0..n |-> it[1..k]]
<1>1. f[0] = base
  <2>1. 1..0 = {} /\ {} \in SUBSET (1..n) /\ 0 \in 0..n OBVIOUS
  <2> QED BY <2>1 DEF FoldsBy
<1>2. ASSUME NEW k \in 1..n PROVE f[k] = Op[<<f[k - 1], k>>]
  <2>1. 1..k \in SUBSET (1..n) /\ 1..k # {} BY FirstNumbers
  <2>2. Max(1..k) = k /\ k \in 0..n /\ k - 1 \in 0..n BY FirstNumbers
  <2>3. (1..k) \ {k} = 1..k-1 BY FirstNumbers
  <2>4. it[1..k] = Op[<<it[1..k-1], k>>]
    <3>1. it[1..k] = Op[<<it[(1..k) \ {Max(1..k)}], Max(1..k)>>] BY <2>1 DEF FoldsBy
    <3> QED BY <2>2, <2>3, <3>1
  <2> QED BY <2>2, <2>4
<1> HIDE DEF f
<1> QED BY <1>1, <1>2 DEF Stepwise, f

LEMMA MaxOfSome ==
    ASSUME NEW n \in Nat, NEW s \in SUBSET (1..n), s # {}
    PROVE  Max(s) \in s
<1> DEFINE T == {n - x : x \in s}
<1>1. T \in SUBSET Nat /\ T # {} OBVIOUS
<1>2. PICK t \in T : \A u \in T : t <= u
  <2> HIDE DEF T
  <2> QED BY <1>1, SmallestExists
<1>3. PICK m \in s : t = n - m OBVIOUS
<1>4. \A x \in s : m >= x
  <2> SUFFICES ASSUME NEW x \in s PROVE m >= x OBVIOUS
  <2>1. t <= n - x BY <1>2
  <2>2. x \in 1..n /\ m \in 1..n OBVIOUS
  <2> QED BY <1>3, <2>1, <2>2
<1>5. \E x \in s : \A y \in s : x >= y BY <1>4
<1> QED BY <1>5, Zenon DEF Max

(* Whatever agrees with the steps as long as they stay in Typ agrees.      *)
Folding(g, Typ, n, base, Op) ==
    /\ base \in Typ /\ Op \in [Typ \X (1..n) -> Typ]
    /\ g[{}] = base
    /\ \A k \in 1..n : g[1..k-1] \in Typ => g[1..k] = Op[<<g[1..k-1], k>>]

OfPrefixes(g, n) == [k \in 0..n |-> g[1..k]]

LEMMA FoldStays ==
    ASSUME NEW n \in Nat, NEW Typ, NEW base, NEW Op, NEW g, Folding(g, Typ, n, base, Op)
    PROVE  /\ OfPrefixes(g, n) \in [0..n -> Typ]
           /\ Stepwise(OfPrefixes(g, n), n, base, Op)
<1> USE DEF Folding
<1> DEFINE f == [k \in 0..n |-> g[1..k]]
           Good == {m \in Nat : m <= n => f[m] \in Typ}
<1>1. f[0] = base
  <2>1. 1..0 = {} /\ 0 \in 0..n OBVIOUS
  <2> QED BY <2>1
<1>2. ASSUME NEW k \in 1..n, f[k - 1] \in Typ PROVE f[k] = Op[<<f[k - 1], k>>]
  <2>1. k - 1 \in 0..n /\ k \in 0..n OBVIOUS
  <2>2. f[k - 1] = g[1..k-1] /\ f[k] = g[1..k] BY <2>1
  <2> HIDE DEF f
  <2> QED BY <1>2, <2>2
<1>3. DOMAIN f = 0..n /\ f = [k \in 0..n |-> f[k]] OBVIOUS
<1> HIDE DEF f
<1>4. 0 \in Good BY <1>1
<1>5. ASSUME NEW m \in Nat, m \in Good PROVE m + 1 \in Good
  <2> SUFFICES ASSUME m + 1 <= n PROVE f[m + 1] \in Typ OBVIOUS
  <2>1. m + 1 \in 1..n /\ (m + 1) - 1 = m /\ f[m] \in Typ BY <1>5
  <2>2. f[m + 1] = Op[<<f[m], m + 1>>] BY <1>2, <2>1
  <2> QED BY <2>1, <2>2
<1> HIDE DEF Good
<1>6. Nat \subseteq Good BY <1>4, <1>5, SetInduction
<1>7. \A k \in 0..n : f[k] \in Typ BY <1>6 DEF Good
<1>8. \A k \in 1..n : f[k - 1] \in Typ
  <2> SUFFICES ASSUME NEW k \in 1..n PROVE f[k - 1] \in Typ OBVIOUS
  <2>1. k - 1 \in 0..n OBVIOUS
  <2> QED BY <1>7, <2>1
<1>9. Stepwise(f, n, base, Op) BY <1>1, <1>2, <1>8 DEF Stepwise
<1>10. f \in [0..n -> Typ] BY <1>3, <1>7
<1> QED BY <1>9, <1>10 DEF f, OfPrefixes

(* A fold read from its table, which follows the steps as long as they     *)
(* stay in Typ: the steps of the fold, and what it ends with.              *)
Folded(r, n, Typ, base, Step) ==
    \E steps \in [0..n -> Typ] : Stepwise(steps, n, base, Step) /\ r = steps[n]

LEMMA FoldTable ==
    ASSUME NEW n \in Nat, NEW Typ, NEW base \in Typ, NEW Step \in [Typ \X (1..n) -> Typ],
           NEW tab, tab[{}] = base,
           \A s \in SUBSET (1..n) : s # {} /\ tab[s \ {Max(s)}] \in Typ =>
               tab[s] = Step[<<tab[s \ {Max(s)}], Max(s)>>]
    PROVE  Folded(tab[1..n], n, Typ, base, Step)
<1>1. ASSUME NEW k \in 1..n, tab[1..k-1] \in Typ PROVE tab[1..k] = Step[<<tab[1..k-1], k>>]
  <2>1. 1..k \in SUBSET (1..n) /\ 1..k # {} /\ Max(1..k) = k /\ (1..k) \ {k} = 1..k-1
    BY FirstNumbers
  <2> QED BY <1>1, <2>1
<1>2. Folding(tab, Typ, n, base, Step) BY <1>1 DEF Folding
<1> DEFINE steps == OfPrefixes(tab, n)
<1>3. steps \in [0..n -> Typ] /\ Stepwise(steps, n, base, Step) BY <1>2, FoldStays
<1>4. steps[n] = tab[1..n] BY DEF OfPrefixes
<1> HIDE DEF steps
<1> QED BY <1>3, <1>4 DEF Folded

-----------------------------------------------------------------------------
(* Arithmetic with remainders.                                             *)

LEMMA DivMod ==
    ASSUME NEW n \in Nat, NEW t \in Nat \ {0}
    PROVE  /\ n \div t \in Nat /\ n % t \in Nat
           /\ n % t < t
           /\ n = t * (n \div t) + (n % t)
OBVIOUS

LEMMA ProductGrows ==
    ASSUME NEW a \in Nat, NEW b \in Nat, NEW f \in Nat, a <= b
    PROVE  a * f \in Nat /\ b * f \in Nat /\ a * f <= b * f
OBVIOUS

LEMMA ProductDistributes ==
    ASSUME NEW a \in Nat, NEW b \in Nat, NEW f \in Nat
    PROVE  /\ a * f \in Nat /\ b * f \in Nat /\ (a + b) * f = a * f + b * f
           /\ a * f = f * a
OBVIOUS

LEMMA MultipleOf ==
    ASSUME NEW w \in Nat, NEW s \in Nat \ {0}
    PROVE  w * s \in Nat /\ (w * s) % s = 0 /\ (w * s) \div s = w
OBVIOUS

LEMMA DividesThrough ==
    ASSUME NEW x \in Nat, NEW a \in Nat \ {0}, NEW w \in Nat \ {0}, x % a = 0, a % w = 0
    PROVE  x % w = 0
<1>1. x = a * (x \div a) + (x % a) /\ a = w * (a \div w) + (a % w)
      /\ x \div a \in Nat /\ a \div w \in Nat
  <2>1. x = a * (x \div a) + (x % a) /\ x \div a \in Nat BY DivMod
  <2>2. a = w * (a \div w) + (a % w) /\ a \div w \in Nat BY DivMod
  <2> QED BY <2>1, <2>2
<1> DEFINE q == x \div a
           r == a \div w
<1> HIDE DEF q, r
<1>2. q \in Nat /\ r \in Nat /\ x = a * q /\ a = w * r
  <2>1. a * (x \div a) \in Nat /\ w * (a \div w) \in Nat BY <1>1, ProductDistributes
  <2> QED BY <1>1, <2>1 DEF q, r
<1>3. x = (r * q) * w /\ r * q \in Nat
  <2> HIDE <1>1
  <2>1. (w * r) * q = (r * q) * w BY <1>2
  <2> QED BY <1>2, <2>1
<1> QED BY <1>3, MultipleOf

LEMMA NextMultiple ==
    ASSUME NEW x \in Nat, NEW a \in Nat \ {0}
    PROVE  (x + (a - (x % a))) % a = 0
<1>1. /\ x \div a \in Nat /\ x % a \in Nat /\ x % a < a /\ x = a * (x \div a) + (x % a)
  BY DivMod
<1> DEFINE q == x \div a
<1> HIDE DEF q
<1>2. q \in Nat /\ q + 1 \in Nat BY <1>1 DEF q
<1>3. x + (a - (x % a)) = a * q + a
  <2>1. a * q \in Nat /\ x = a * q + (x % a) BY <1>1, <1>2, ProductDistributes DEF q
  <2> QED BY <1>1, <2>1
<1>4. a * q + a = (q + 1) * a
  <2>1. a * q = q * a /\ (q + 1) * a = q * a + 1 * a /\ 1 * a = a BY <1>2, ProductDistributes
  <2> QED BY <2>1
<1>5. ((q + 1) * a) % a = 0 BY <1>2, MultipleOf
<1>6. x + (a - (x % a)) = (q + 1) * a BY <1>3, <1>4
<1> QED BY <1>5, <1>6

(* The lists up to each of them, one after the other.                      *)
Joining(F, R, n) == F[0] = <<>> /\ \A k \in 1..n : F[k] = F[k - 1] \o R[k]

(* Flattening a list of lists appends them one after the other.            *)
LEMMA FlattenIsJoining ==
    ASSUME NEW V, NEW R \in Seq(Seq(V))
    PROVE  \E F \in [0..Len(R) -> Seq(V)] : Joining(F, R, Len(R)) /\ FlattenSeq(R) = F[Len(R)]
<1> DEFINE n == Len(R)
           Step == [x \in Seq(V) \X (1..n) |-> x[1] \o R[x[2]]]
           Eq(f) == f = [i \in 1..n |-> IF i = 1 THEN R[i] ELSE f[i-1] \o R[i]]
           flat == CHOOSE f : Eq(f)
<1>1. n \in Nat /\ DOMAIN R = 1..n /\ \A k \in 1..n : R[k] \in Seq(V) OBVIOUS
<1>2. Step \in [Seq(V) \X (1..n) -> Seq(V)] /\ \A s \in Seq(V), k \in 1..n : Step[<<s, k>>] = s \o R[k]
  <2>1. \A s \in Seq(V), k \in 1..n : s \o R[k] \in Seq(V) BY <1>1
  <2> HIDE DEF n
  <2> QED BY <2>1
<1> HIDE DEF Step
<1>3. PICK F \in [0..n -> Seq(V)] : Stepwise(F, n, <<>>, Step)
  <2> HIDE DEF n
  <2>1. <<>> \in Seq(V) OBVIOUS
  <2> QED BY <1>1, <1>2, <2>1, StepByStep
<1>4. \A k \in 1..n : k - 1 \in 0..n /\ k \in 0..n BY <1>1
<1>5. Joining(F, R, n) BY <1>2, <1>3, <1>4 DEF Joining, Stepwise
<1>6. CASE n = 0
  <2>1. R = <<>> BY <1>1, <1>6
  <2>2. FlattenSeq(R) = <<>> BY <1>6, <2>1 DEF FlattenSeq
  <2> QED BY <1>3, <1>5, <1>6, <2>2 DEF Joining
<1>7. CASE n # 0
  <2>1. FlattenSeq(R) = flat[n] BY <1>7, Zenon DEF FlattenSeq
  <2> DEFINE f0 == [i \in 1..n |-> F[i]]
  <2>2. Eq(f0)
    <3>1. ASSUME NEW i \in 1..n PROVE F[i] = IF i = 1 THEN R[i] ELSE f0[i-1] \o R[i]
      <4>1. CASE i = 1
        <5>1. F[1] = F[0] \o R[1] /\ F[0] = <<>>
          <6>1. i - 1 = 0 BY <4>1
          <6>2. F[i] = F[i - 1] \o R[i] BY <1>5 DEF Joining
          <6> QED BY <1>5, <4>1, <6>1, <6>2 DEF Joining
        <5> QED BY <1>1, <4>1, <5>1
      <4>2. CASE i # 1
        <5>1. i - 1 \in 1..n BY <4>2
        <5> QED BY <1>5, <4>2, <5>1 DEF Joining
      <4> QED BY <4>1, <4>2
    <3> QED BY <3>1
  <2>3. Eq(flat)
    <3> HIDE DEF Eq, f0
    <3> QED BY <2>2
  <2> DEFINE P == {k \in Nat : k + 1 <= n => flat[k + 1] = F[k + 1]}
  <2> HIDE DEF flat
  <2>4. 0 \in P
    <3>1. 1 \in 1..n BY <1>1, <1>7
    <3>2. flat[1] = R[1] BY <2>3, <3>1
    <3>3. F[1] = F[0] \o R[1] /\ F[0] = <<>>
      <4>1. 1 - 1 = 0 OBVIOUS
      <4>2. F[1] = F[1 - 1] \o R[1] BY <1>5, <3>1 DEF Joining
      <4> QED BY <1>5, <4>1, <4>2 DEF Joining
    <3> QED BY <1>1, <3>1, <3>2, <3>3
  <2>5. ASSUME NEW k \in Nat, k \in P PROVE k + 1 \in P
    <3> SUFFICES ASSUME k + 2 <= n PROVE flat[k + 2] = F[k + 2] OBVIOUS
    <3>1. k + 2 \in 1..n /\ k + 2 # 1 /\ (k + 2) - 1 = k + 1 BY <1>1
    <3>2. flat[k + 2] = flat[k + 1] \o R[k + 2] BY <2>3, <3>1
    <3>3. F[k + 2] = F[k + 1] \o R[k + 2] BY <1>5, <3>1 DEF Joining
    <3>4. flat[k + 1] = F[k + 1] BY <2>5, <3>1
    <3> QED BY <3>2, <3>3, <3>4
  <2>6. Nat \subseteq P
    <3> HIDE DEF P
    <3> QED BY <2>4, <2>5, SetInduction
  <2>7. flat[n] = F[n]
    <3>1. n - 1 \in Nat /\ (n - 1) + 1 = n BY <1>1, <1>7
    <3>2. n - 1 \in P BY <2>6, <3>1
    <3> QED BY <3>1, <3>2 DEF P
  <2> QED BY <1>3, <1>5, <2>1, <2>7
<1> QED BY <1>6, <1>7
=============================================================================
