------------------------ MODULE KernelScheduleProofs ------------------------
(***************************************************************************)
(* A kernel runs exactly once on each iteration of its window: for every   *)
(* window, every number of threads, every hint and every scheduler of      *)
(* KernelSchedule, and whatever workloads raise.  So do the nested loops   *)
(* of its workloads, loops over the slices of a window, and those over a   *)
(* window whose dimensions were collapsed.                                 *)
(***************************************************************************)
EXTENDS KernelLoop, DataInduction, FiniteSetTheorems, SequenceTheorems

-----------------------------------------------------------------------------
(* What the functions of WindowSplit do to every window, every number of   *)
(* parts and every minimum workload size.                                  *)

(* The iteration part id starts at.                                        *)
ItStart(n, id, total) == (n \div total) * id + Lesser(id, n % total)
Work(n, id, total)    == n \div total + (IF id < n % total THEN 1 ELSE 0)

(* A part ends where the next one starts, and the last one where the       *)
(* iterations end.                                                         *)
LEMMA SharesChain ==
    ASSUME NEW n \in Nat, NEW total \in Nat \ {0}, NEW id \in 0..total-1
    PROVE  /\ ItStart(n, id, total) \in Nat /\ Work(n, id, total) \in Nat
           /\ ItStart(n, id + 1, total) \in Nat
           /\ ItStart(n, id, total) + Work(n, id, total) = ItStart(n, id + 1, total)
           /\ ItStart(n, id + 1, total) <= n
           /\ ItStart(n, 0, total) = 0 /\ ItStart(n, total, total) = n
<1> DEFINE q == n \div total
           r == n % total
<1>1. q \in Nat /\ r \in Nat /\ r < total /\ n = total * q + r /\ total \in Nat
  BY DivMod
<1> HIDE DEF q, r
<1>2. ItStart(n, id, total) = q * id + Lesser(id, r) BY DEF ItStart, q, r
<1>3. ItStart(n, id + 1, total) = q * (id + 1) + Lesser(id + 1, r) BY DEF ItStart, q, r
<1>4. Work(n, id, total) = q + (IF id < r THEN 1 ELSE 0) BY DEF Work, q, r
<1>5. q * (id + 1) = q * id + q /\ q * id \in Nat BY <1>1
<1>6. ItStart(n, id, total) + Work(n, id, total) = ItStart(n, id + 1, total)
  BY <1>1, <1>2, <1>3, <1>4, <1>5 DEF Lesser
<1>7. (id + 1) * q <= total * q
  BY <1>1, ProductGrows
<1>8. ItStart(n, id + 1, total) <= n
  <2>1. q * (id + 1) = (id + 1) * q BY <1>1
  <2> QED BY <1>1, <1>3, <1>5, <1>7, <2>1 DEF Lesser
<1>9. ItStart(n, 0, total) = 0
  <2>1. ItStart(n, 0, total) = q * 0 + Lesser(0, r) BY DEF ItStart, q, r
  <2> QED BY <1>1, <2>1 DEF Lesser
<1>10. ItStart(n, total, total) = n
  <2>1. ItStart(n, total, total) = q * total + Lesser(total, r) BY DEF ItStart, q, r
  <2>2. q * total = total * q BY <1>1
  <2> QED BY <1>1, <2>1, <2>2 DEF Lesser
<1> QED BY <1>1, <1>2, <1>3, <1>4, <1>5, <1>6, <1>8, <1>9, <1>10 DEF Lesser

LEMMA WindowLength ==
    ASSUME NEW d \in Dimension, Valid(d)
    PROVE  /\ NumIterations(d) \in Nat
           /\ d.end = d.start + NumIterations(d) * d.step
<1>1. d.start \in Int /\ d.end \in Int /\ d.step \in Nat \ {0} /\ d.end - d.start \in Nat
  BY DEF Dimension, Valid
<1>2. /\ NumIterations(d) \in Nat
      /\ d.end - d.start = d.step * NumIterations(d) + ((d.end - d.start) % d.step)
  BY <1>1, DivMod DEF NumIterations
<1>3. (d.end - d.start) % d.step = 0 BY DEF Valid
<1>4. d.step * NumIterations(d) = NumIterations(d) * d.step
  BY <1>1, <1>2, ProductDistributes
<1> QED BY <1>1, <1>2, <1>3, <1>4

(* Where part id of a window starts and ends.                              *)
LEMMA PartBounds ==
    ASSUME NEW d \in Dimension, Valid(d), NEW total \in Nat \ {0}, NEW id \in 0..total-1
    PROVE  LET n == NumIterations(d)
               p == SplitWindow(d, id, total)
           IN  /\ p.step = d.step
               /\ p.start = d.start + ItStart(n, id, total) * d.step
               /\ p.end = d.start + ItStart(n, id + 1, total) * d.step
               /\ p.end - p.start = Work(n, id, total) * d.step
<1> DEFINE n == NumIterations(d)
           p == SplitWindow(d, id, total)
           a == ItStart(n, id, total)
           b == ItStart(n, id + 1, total)
           w == Work(n, id, total)
<1>1. /\ d.start \in Int /\ d.end \in Int /\ d.step \in Nat \ {0}
      /\ n \in Nat /\ d.end = d.start + n * d.step
  BY WindowLength DEF Dimension
<1>2. a \in Nat /\ b \in Nat /\ w \in Nat /\ a + w = b /\ b <= n
  BY <1>1, SharesChain
<1>3. /\ p.step = d.step /\ p.start = d.start + a * d.step
      /\ p.end = Lesser(d.end, d.start + a * d.step + w * d.step)
  BY DEF SplitWindow, ItStart, Work
<1> HIDE DEF n, p, a, b, w
<1>4. a * d.step \in Nat /\ w * d.step \in Nat /\ b * d.step = a * d.step + w * d.step
  <2>1. d.step \in Nat BY <1>1
  <2>2. a * d.step \in Nat /\ w * d.step \in Nat /\ (a + w) * d.step = a * d.step + w * d.step
    BY ONLY <1>2, <2>1, ProductDistributes
  <2> QED BY ONLY <1>2, <2>2
<1>5. b * d.step <= n * d.step BY <1>1, <1>2, ProductGrows
<1>6. p.end = d.start + b * d.step
  BY <1>1, <1>2, <1>3, <1>4, <1>5 DEF Lesser
<1>7. p.end - p.start = w * d.step BY <1>1, <1>3, <1>4, <1>6
<1> QED BY <1>3, <1>6, <1>7 DEF n, p, a, b, w

(* Window::split_window cuts a window into windows the kernel accepts that *)
(* follow one another without a gap or an overlap from its start to its    *)
(* end.                                                                    *)
THEOREM PartsFollow ==
    ASSUME NEW d \in Dimension, Valid(d), NEW total \in Nat \ {0}
    PROVE  /\ SplitWindow(d, 0, total).start = d.start
           /\ SplitWindow(d, total - 1, total).end = d.end
           /\ \A id \in 0..total-1 :
                /\ SplitWindow(d, id, total) \in Dimension
                /\ Valid(SplitWindow(d, id, total))
                /\ id + 1 < total =>
                       SplitWindow(d, id, total).end = SplitWindow(d, id + 1, total).start
<1> DEFINE n == NumIterations(d)
<1>1. /\ d.start \in Int /\ d.end \in Int /\ d.step \in Nat \ {0}
      /\ n \in Nat /\ d.end = d.start + n * d.step
  BY WindowLength DEF Dimension
<1>2. SplitWindow(d, 0, total).start = d.start
  <2>1. ItStart(n, 0, total) = 0 BY <1>1, SharesChain
  <2>2. SplitWindow(d, 0, total).start = d.start + ItStart(n, 0, total) * d.step
    BY PartBounds
  <2> QED BY <1>1, <2>1, <2>2
<1>3. SplitWindow(d, total - 1, total).end = d.end
  <2>1. total - 1 \in 0..total-1 /\ total - 1 + 1 = total OBVIOUS
  <2>2. ItStart(n, total, total) = n BY <1>1, <2>1, SharesChain
  <2>3. SplitWindow(d, total - 1, total).end = d.start + ItStart(n, total, total) * d.step
    BY <2>1, PartBounds
  <2> QED BY <1>1, <2>2, <2>3
<1>4. ASSUME NEW id \in 0..total-1
      PROVE  /\ SplitWindow(d, id, total) \in Dimension
             /\ Valid(SplitWindow(d, id, total))
             /\ id + 1 < total =>
                    SplitWindow(d, id, total).end = SplitWindow(d, id + 1, total).start
  <2> DEFINE p == SplitWindow(d, id, total)
             w == Work(n, id, total)
  <2>1. ItStart(n, id, total) \in Nat /\ ItStart(n, id + 1, total) \in Nat /\ w \in Nat
    BY <1>1, SharesChain
  <2>2. /\ p.step = d.step /\ p.end - p.start = w * d.step
        /\ p.start = d.start + ItStart(n, id, total) * d.step
        /\ p.end = d.start + ItStart(n, id + 1, total) * d.step
    BY PartBounds
  <2>3. p.start \in Int /\ p.end \in Int BY <1>1, <2>1, <2>2
  <2>4. w * d.step \in Nat /\ (w * d.step) % d.step = 0 BY <1>1, <2>1
  <2>5. p = [start |-> p.start, end |-> p.end, step |-> p.step] BY DEF SplitWindow
  <2>6. p \in Dimension /\ Valid(p)
    <3>1. p.start <= p.end BY <2>2, <2>3, <2>4
    <3> QED BY <1>1, <2>2, <2>3, <2>4, <2>5, <3>1 DEF Dimension, Valid
  <2>7. CASE id + 1 < total
    <3>1. id + 1 \in 0..total-1 BY <2>7
    <3>2. SplitWindow(d, id + 1, total).start = d.start + ItStart(n, id + 1, total) * d.step
      BY <3>1, PartBounds
    <3> QED BY <2>2, <2>6, <3>2
  <2> QED BY <2>6, <2>7
<1> QED BY <1>2, <1>3, <1>4
-----------------------------------------------------------------------------
LEMMA ItStartMonotone ==
    ASSUME NEW n \in Nat, NEW total \in Nat \ {0}, NEW a \in Nat, NEW b \in Nat, a <= b
    PROVE  ItStart(n, a, total) <= ItStart(n, b, total)
<1> DEFINE q == n \div total
           r == n % total
<1>1. q \in Nat /\ r \in Nat BY DivMod
<1>2. /\ ItStart(n, a, total) = q * a + Lesser(a, r)
      /\ ItStart(n, b, total) = q * b + Lesser(b, r)
  BY DEF ItStart, q, r
<1> HIDE DEF q, r
<1>3. a * q \in Nat /\ b * q \in Nat /\ a * q <= b * q BY <1>1, ProductGrows
<1>4. a * q = q * a /\ b * q = q * b BY <1>1
<1> QED BY <1>1, <1>2, <1>3, <1>4 DEF Lesser

(* Iteration i belongs to some part ...                                    *)
LEMMA SomePart ==
    ASSUME NEW n \in Nat, NEW total \in Nat \ {0}, NEW i \in 0..n-1
    PROVE  \E id \in 0..total-1 : ItStart(n, id, total) <= i /\ i < ItStart(n, id + 1, total)
<1> DEFINE q == n \div total
           r == n % total
           big == r * (q + 1)
<1>1. q \in Nat /\ r \in Nat /\ r < total /\ n = total * q + r /\ total \in Nat /\ i \in Nat
  BY DivMod
<1>2. \A id \in Nat : ItStart(n, id, total) = q * id + Lesser(id, r) BY DEF ItStart, q, r
<1> HIDE DEF q, r
<1>3. CASE i < big
  <2> DEFINE id == i \div (q + 1)
  <2>1. /\ id \in Nat /\ i % (q + 1) \in Nat /\ i % (q + 1) < q + 1
        /\ i = (q + 1) * id + (i % (q + 1))
    <3>1. i \in Nat /\ q + 1 \in Nat \ {0} BY <1>1
    <3> QED BY ONLY <3>1, DivMod
  <2> HIDE DEF id
  <2>2. id < r
    <3>1. SUFFICES ASSUME r <= id PROVE FALSE BY <1>1, <2>1
    <3>2. r * (q + 1) <= id * (q + 1) BY <1>1, <2>1, <3>1, ProductGrows
    <3>3. id * (q + 1) = (q + 1) * id BY <1>1, <2>1
    <3> QED BY <1>1, <1>3, <2>1, <3>2, <3>3
  <2>3. (q + 1) * id = q * id + id /\ q * (id + 1) = q * id + q /\ q * id \in Nat BY <1>1, <2>1
  <2>4. ItStart(n, id, total) <= i /\ i < ItStart(n, id + 1, total)
    BY <1>1, <1>2, <2>1, <2>2, <2>3 DEF Lesser
  <2> QED BY <1>1, <2>1, <2>2, <2>4
<1>4. CASE ~(i < big)
  <2>1. big = r * q + r /\ r * q \in Nat BY <1>1
  <2>2. (total - r) * q = total * q - r * q /\ total * q \in Nat BY <1>1
  <2>3. i - big \in Nat /\ i - big < (total - r) * q BY <1>1, <1>4, <2>1, <2>2
  <2>4. q # 0 BY <1>1, <2>3
  <2> DEFINE k == (i - big) \div q
             id == r + k
  <2>5. /\ k \in Nat /\ (i - big) % q \in Nat /\ (i - big) % q < q
        /\ i - big = q * k + ((i - big) % q)
    BY <1>1, <2>3, <2>4, DivMod
  <2> HIDE DEF k, big
  <2>6. k < total - r
    <3>1. SUFFICES ASSUME total - r <= k PROVE FALSE BY <1>1, <2>5
    <3>2. (total - r) * q <= k * q BY <1>1, <2>5, <3>1, ProductGrows
    <3>3. k * q = q * k BY <1>1, <2>5
    <3> QED BY <1>1, <2>3, <2>5, <3>2, <3>3
  <2>7. q * id = q * r + q * k /\ q * (id + 1) = q * r + q * k + q /\ q * r = r * q
    BY <1>1, <2>5
  <2>8. ItStart(n, id, total) = q * r + q * k + r /\ ItStart(n, id + 1, total) = q * r + q * k + q + r
    <3>1. id \in Nat /\ id + 1 \in Nat /\ r <= id BY <1>1, <2>5
    <3>2. Lesser(id, r) = r /\ Lesser(id + 1, r) = r BY <1>1, <3>1 DEF Lesser
    <3>3. ItStart(n, id, total) = q * id + r /\ ItStart(n, id + 1, total) = q * (id + 1) + r
      BY <1>2, <3>1, <3>2
    <3> QED BY <2>7, <3>3
  <2>9. ItStart(n, id, total) <= i /\ i < ItStart(n, id + 1, total)
    <3>1. q * k \in Nat /\ q * r \in Nat /\ big \in Nat BY <1>1, <2>5, <2>1
    <3> QED BY <1>1, <2>1, <2>5, <2>7, <2>8, <3>1
  <2> QED BY <1>1, <2>5, <2>6, <2>9
<1> QED BY <1>3, <1>4

(* ... and to no other.                                                    *)
LEMMA OnePart ==
    ASSUME NEW n \in Nat, NEW total \in Nat \ {0}, NEW i \in 0..n-1,
           NEW a \in 0..total-1, NEW b \in 0..total-1,
           ItStart(n, a, total) <= i, i < ItStart(n, a + 1, total),
           ItStart(n, b, total) <= i, i < ItStart(n, b + 1, total)
    PROVE  a = b
<1>1. /\ ItStart(n, a, total) \in Nat /\ ItStart(n, a + 1, total) \in Nat
      /\ ItStart(n, b, total) \in Nat /\ ItStart(n, b + 1, total) \in Nat
  BY SharesChain
<1>2. ~(a < b)
  <2>1. SUFFICES ASSUME a < b PROVE FALSE OBVIOUS
  <2>2. ItStart(n, a + 1, total) <= ItStart(n, b, total) BY <2>1, ItStartMonotone
  <2> QED BY <1>1, <2>2
<1>3. ~(b < a)
  <2>1. SUFFICES ASSUME b < a PROVE FALSE OBVIOUS
  <2>2. ItStart(n, b + 1, total) <= ItStart(n, a, total) BY <2>1, ItStartMonotone
  <2> QED BY <1>1, <2>2
<1> QED BY <1>2, <1>3

(* A coordinate of the window is a whole number of steps from its start.   *)
LEMMA StepIndex ==
    ASSUME NEW d \in Dimension, Valid(d), NEW v \in Steps(d)
    PROVE  \E i \in 0..NumIterations(d)-1 : v = d.start + i * d.step
<1> DEFINE n == NumIterations(d)
           i == (v - d.start) \div d.step
<1>1. /\ d.start \in Int /\ d.end \in Int /\ d.step \in Nat /\ d.step \in Nat \ {0}
      /\ n \in Nat /\ d.end = d.start + n * d.step
  BY WindowLength DEF Dimension
<1>2. v \in Int /\ v - d.start \in Nat /\ v < d.end /\ (v - d.start) % d.step = 0
  BY <1>1 DEF Steps
<1>3. i \in Nat /\ v - d.start = d.step * i + ((v - d.start) % d.step)
  BY ONLY <1>1, <1>2, DivMod
<1> HIDE DEF i, n
<1>4. d.step * i = i * d.step /\ i * d.step \in Nat BY <1>1, <1>3, ProductDistributes
<1>5. v = d.start + i * d.step BY <1>1, <1>2, <1>3, <1>4
<1>6. i < n
  <2>1. SUFFICES ASSUME n <= i PROVE FALSE BY <1>1, <1>3
  <2>2. n * d.step <= i * d.step BY <1>1, <1>3, <2>1, ProductGrows
  <2>3. n * d.step \in Nat BY <1>1, ProductDistributes
  <2> QED BY <1>1, <1>2, <1>4, <1>5, <2>2, <2>3
<1> QED BY <1>1, <1>3, <1>5, <1>6 DEF n

(* The coordinate with index i is one of part id exactly when i is in the  *)
(* part's share of the iterations.                                         *)
LEMMA InPart ==
    ASSUME NEW d \in Dimension, Valid(d), NEW total \in Nat \ {0}, NEW id \in 0..total-1,
           NEW i \in Nat
    PROVE  d.start + i * d.step \in Steps(SplitWindow(d, id, total)) <=>
               /\ ItStart(NumIterations(d), id, total) <= i
               /\ i < ItStart(NumIterations(d), id + 1, total)
<1> DEFINE n == NumIterations(d)
           p == SplitWindow(d, id, total)
           a == ItStart(n, id, total)
           b == ItStart(n, id + 1, total)
           s == d.step
           v == d.start + i * s
<1>1. d.start \in Int /\ s \in Nat /\ s # 0 /\ n \in Nat
  BY WindowLength DEF Dimension
<1>2. a \in Nat /\ b \in Nat BY <1>1, SharesChain
<1>3. p.step = s /\ p.start = d.start + a * s /\ p.end = d.start + b * s
  BY PartBounds
<1>4. v \in Steps(p) <=> v \in p.start..p.end-1 /\ (v - p.start) % p.step = 0
  BY DEF Steps
<1> HIDE DEF n, p, a, b, s
<1>5. a * s \in Nat /\ b * s \in Nat /\ i * s \in Nat BY <1>1, <1>2, ProductDistributes
<1>6. a <= i <=> a * s <= i * s
  <2>1. CASE a <= i BY <1>1, <1>2, <2>1, ProductGrows
  <2>2. CASE i < a
    <3>1. i + 1 \in Nat /\ i + 1 <= a /\ (i + 1) * s = i * s + s BY <1>1, <1>2, <2>2
    <3>2. (i + 1) * s <= a * s BY <1>1, <1>2, <3>1, ProductGrows
    <3> QED BY <1>1, <1>2, <1>5, <2>2, <3>1, <3>2
  <2> QED BY <1>2, <2>1, <2>2
<1>7. i < b <=> i * s < b * s
  <2>1. CASE b <= i
    <3>1. b * s <= i * s BY <1>1, <1>2, <2>1, ProductGrows
    <3> QED BY <1>2, <1>5, <2>1, <3>1
  <2>2. CASE i < b
    <3>1. i + 1 \in Nat /\ i + 1 <= b /\ (i + 1) * s = i * s + s BY <1>1, <1>2, <2>2
    <3>2. (i + 1) * s <= b * s BY <1>1, <1>2, <3>1, ProductGrows
    <3> QED BY <1>1, <1>2, <1>5, <2>2, <3>1, <3>2
  <2> QED BY <1>2, <2>1, <2>2
<1>8. v \in p.start..p.end-1 <=> a <= i /\ i < b
  BY <1>1, <1>3, <1>5, <1>6, <1>7
<1>9. ASSUME a <= i PROVE (v - p.start) % p.step = 0
  <2>1. i - a \in Nat /\ i * s = a * s + (i - a) * s BY <1>1, <1>2, <1>9
  <2>2. (i - a) * s \in Nat /\ ((i - a) * s) % s = 0
    <3>1. s \in Nat \ {0} BY <1>1
    <3> QED BY ONLY <2>1, <3>1, MultipleOf
  <2>3. v - p.start = (i - a) * s BY <1>1, <1>3, <1>5, <2>1, <2>2
  <2> QED BY <1>3, <2>2, <2>3
<1> QED BY <1>4, <1>8, <1>9 DEF a, b, p, n, s

(* Whatever the window and the number of parts, each iteration of the      *)
(* kernel is in exactly one part.                                          *)
THEOREM EachStepInOnePart ==
    ASSUME NEW d \in Dimension, Valid(d), NEW total \in Nat \ {0}, NEW v \in Steps(d)
    PROVE  /\ \E id \in 0..total-1 : v \in Steps(SplitWindow(d, id, total))
           /\ \A j \in 0..total-1, k \in 0..total-1 :
                 /\ v \in Steps(SplitWindow(d, j, total))
                 /\ v \in Steps(SplitWindow(d, k, total))
                 => j = k
<1> DEFINE n == NumIterations(d)
<1>1. n \in Nat BY WindowLength
<1>2. PICK i \in 0..n-1 : v = d.start + i * d.step BY StepIndex
<1>3. i \in Nat BY <1>1
<1>4. ASSUME NEW id \in 0..total-1
      PROVE  v \in Steps(SplitWindow(d, id, total)) <=>
                 ItStart(n, id, total) <= i /\ i < ItStart(n, id + 1, total)
  BY <1>2, <1>3, InPart
<1> HIDE DEF n
<1>5. \E id \in 0..total-1 : v \in Steps(SplitWindow(d, id, total))
  BY <1>1, <1>4, SomePart
<1>6. ASSUME NEW j \in 0..total-1, NEW k \in 0..total-1,
             v \in Steps(SplitWindow(d, j, total)), v \in Steps(SplitWindow(d, k, total))
      PROVE  j = k
  BY <1>1, <1>4, <1>6, OnePart
<1> QED BY <1>5, <1>6

(* Nothing but the window's own iterations is in a part.                   *)
THEOREM PartsInside ==
    ASSUME NEW d \in Dimension, Valid(d), NEW total \in Nat \ {0}, NEW id \in 0..total-1
    PROVE  Steps(SplitWindow(d, id, total)) \subseteq Steps(d)
<1> DEFINE n == NumIterations(d)
           p == SplitWindow(d, id, total)
           a == ItStart(n, id, total)
           b == ItStart(n, id + 1, total)
<1> SUFFICES ASSUME NEW v \in Steps(p) PROVE v \in Steps(d) OBVIOUS
<1>1. /\ d.start \in Int /\ d.end \in Int /\ d.step \in Nat /\ d.step # 0
      /\ n \in Nat /\ d.end = d.start + n * d.step
  BY WindowLength DEF Dimension
<1>2. a \in Nat /\ b \in Nat /\ b <= n BY <1>1, SharesChain
<1>3. p.step = d.step /\ p.start = d.start + a * d.step /\ p.end = d.start + b * d.step
  BY PartBounds
<1>4. p \in Dimension /\ Valid(p) BY PartsFollow
<1>5. NumIterations(p) \in Nat BY <1>4, WindowLength
<1>6. PICK i \in 0..NumIterations(p)-1 : v = p.start + i * p.step BY <1>4, StepIndex
<1>7. i \in Nat /\ v < p.end /\ p.start <= v BY <1>3, <1>4, <1>5 DEF Steps, Dimension
<1> HIDE DEF n, p, a, b
<1>8. v = d.start + (a + i) * d.step
  <2>1. (a + i) * d.step = a * d.step + i * d.step BY ONLY <1>1, <1>2, <1>7, ProductDistributes
  <2>2. a * d.step \in Nat /\ i * d.step \in Nat BY ONLY <1>1, <1>2, <1>7, ProductDistributes
  <2> QED BY <1>1, <1>3, <1>6, <2>1, <2>2
<1>9. (a + i) * d.step \in Nat /\ ((a + i) * d.step) % d.step = 0
  BY ONLY <1>1, <1>2, <1>7
<1>10. v < d.end
  <2>1. b * d.step <= n * d.step /\ b * d.step \in Nat /\ n * d.step \in Nat
    BY <1>1, <1>2, ProductGrows
  <2> QED BY <1>1, <1>3, <1>7, <1>8, <1>9, <2>1
<1> QED BY <1>1, <1>8, <1>9, <1>10 DEF Steps

-----------------------------------------------------------------------------
LEMMA GreatestExists ==
    ASSUME NEW k \in Nat, NEW S, S \subseteq 0..k, S # {}
    PROVE  \E x \in S : \A y \in S : y <= x
<1> DEFINE R == OpToRel(<, Nat)
           D == {z \in Nat : k - z \in S}
<1>1. \A x, y \in Nat : x < y => <<x, y>> \in R BY DEF OpToRel
<1>2. D \subseteq Nat /\ D # {}
  <2>1. PICK x \in S : TRUE OBVIOUS
  <2>2. k - x \in Nat /\ k - (k - x) = x BY <2>1
  <2>3. k - x \in D BY <2>1, <2>2
  <2> QED BY <2>3
<1>3. PICK z \in D : \A y \in D : ~(<<y, z>> \in R)
  <2> HIDE DEF R, D
  <2>1. IsWellFoundedOn(R, Nat) BY NatLessThanWellFounded DEF R
  <2> QED BY <1>2, <2>1, WFMin
<1>4. k - z \in S /\ z \in Nat OBVIOUS
<1>5. ASSUME NEW y \in S PROVE y <= k - z
  <2>1. y \in Nat /\ k - y \in Nat /\ k - (k - y) = y BY <1>5
  <2>2. k - y \in D BY <1>5, <2>1
  <2> HIDE DEF D, R
  <2>3. ~(k - y < z) BY <1>1, <1>3, <1>4, <2>1, <2>2
  <2> QED BY <1>4, <2>1, <2>3
<1> QED BY <1>4, <1>5

(* IScheduler::adjust_num_of_windows followed by Window::split_window:     *)
(* when more than one window is made, the smallest has at least the        *)
(* kernel's minimum workload size for that number of threads.              *)
THEOREM WindowsBigEnough ==
    ASSUME NEW d \in Dimension, Valid(d), NEW init \in Nat,
           NEW mws \in [1..init -> Nat \ {0}],
           NEW t, t = AdjustNumOfWindows(NumIterations(d), init, mws), t # 1,
           NEW id \in 0..t-1
    PROVE  t \in 1..init /\ NumIterations(SplitWindow(d, id, t)) >= mws[t]
<1> DEFINE n == NumIterations(d)
           fits == {u \in 1..init : n \div mws[u] >= u}
           p == SplitWindow(d, id, t)
<1>1. n \in Nat BY WindowLength
<1>2. t \in fits
  <2>1. fits # {} /\ t = Greatest(fits) BY DEF AdjustNumOfWindows
  <2>2. \E x \in fits : \A y \in fits : y <= x
    <3>1. fits \subseteq 0..init OBVIOUS
    <3> HIDE DEF fits
    <3> QED BY <2>1, <3>1, GreatestExists
  <2> HIDE DEF fits
  <2> QED BY <2>1, <2>2 DEF Greatest
<1>3. t \in 1..init /\ mws[t] \in Nat \ {0} /\ n \div mws[t] >= t BY <1>2
<1>4. t \in Nat \ {0} /\ d.step \in Nat \ {0} BY <1>3 DEF Dimension
<1> HIDE DEF fits
<1>5. NumIterations(p) = Work(n, id, t)
  <2>1. p.step = d.step /\ p.end - p.start = Work(n, id, t) * d.step BY <1>4, PartBounds
  <2>2. Work(n, id, t) \in Nat BY <1>1, <1>4, SharesChain
  <2> QED BY <1>4, <2>1, <2>2, MultipleOf DEF NumIterations
<1>6. Work(n, id, t) >= n \div t BY <1>1, <1>4, DivMod DEF Work
<1>7. n \div t >= mws[t]
  <2> DEFINE m == mws[t]
  <2>1. m \in Nat \ {0} /\ n \div m >= t BY <1>3
  <2> HIDE DEF n, m
  <2>2. n \div m \in Nat /\ n \div t \in Nat /\ n % t \in Nat /\ n % t < t /\ n % m \in Nat
        /\ n = m * (n \div m) + (n % m) /\ n = t * (n \div t) + (n % t)
    BY ONLY <1>1, <1>4, <2>1, DivMod
  <2>3. SUFFICES ASSUME n \div t < m PROVE FALSE BY <2>1, <2>2 DEF m
  <2>4. t * m <= (n \div m) * m /\ (n \div m) * m \in Nat BY ONLY <1>4, <2>1, <2>2, ProductGrows
  <2>5. (n \div t + 1) * t <= m * t /\ m * t \in Nat
    <3> DEFINE a == n \div t
    <3>1. a \in Nat /\ m \in Nat /\ t \in Nat BY ONLY <1>4, <2>1, <2>2
    <3>2. a < m BY <2>3
    <3> HIDE DEF a
    <3>3. a + 1 \in Nat /\ a + 1 <= m BY ONLY <3>1, <3>2
    <3>4. (a + 1) * t <= m * t /\ m * t \in Nat BY ONLY <3>1, <3>3, ProductGrows
    <3> QED BY ONLY <3>4 DEF a
  <2>6. (n \div t + 1) * t = t * (n \div t) + t BY ONLY <1>4, <2>2
  <2>7. m * t = t * m /\ (n \div m) * m = m * (n \div m) BY ONLY <1>4, <2>1, <2>2
  <2> QED BY ONLY SMTT(20), <1>1, <1>4, <2>1, <2>2, <2>4, <2>5, <2>6, <2>7
<1>8. n \div t \in Nat /\ Work(n, id, t) \in Nat BY <1>1, <1>4, DivMod, SharesChain
<1> QED BY <1>3, <1>5, <1>6, <1>7, <1>8

-----------------------------------------------------------------------------
(* The grid of split_2d *)

LEMMA LeastExists ==
    ASSUME NEW S, S \subseteq Nat, S # {}
    PROVE  Least(S) \in S /\ \A y \in S : Least(S) <= y
<1> DEFINE R == OpToRel(<, Nat)
<1>1. \A x, y \in Nat : x < y => <<x, y>> \in R BY DEF OpToRel
<1>2. PICK z \in S : \A y \in S : ~(<<y, z>> \in R)
  <2> HIDE DEF R
  <2>1. IsWellFoundedOn(R, Nat) BY NatLessThanWellFounded DEF R
  <2> QED BY <2>1, WFMin
<1> HIDE DEF R
<1>3. \A y \in S : z <= y
  <2>1. TAKE y \in S
  <2>2. ~(y < z) BY <1>1, <1>2
  <2> QED BY <2>2
<1> QED BY <1>3 DEF Least

(* Adjusted offers natural numbers, and at least one.                      *)
LEMMA AdjustedIsNat ==
    ASSUME NEW t \in Nat \ {0}, NEW m \in Nat, NEW n \in Nat
    PROVE  Adjusted(t, m, n) \subseteq Nat
<1>1. CASE n = 0 BY <1>1 DEF Adjusted
<1>2. CASE n # 0
  <2> DEFINE S == {k \in 0..t * m + 1 : 4 * t * m < (2 * k + 1) * (2 * k + 1) * n}
             q == t * m
  <2>1. q \in Nat /\ 4 * t * m = 4 * q OBVIOUS
  <2>2. 4 * q < (2 * q + 1) * (2 * q + 1)
    <3> HIDE DEF q
    <3>1. q * q \in Nat BY <2>1
    <3>2. (2 * q + 1) * (2 * q + 1) = 4 * (q * q) + 4 * q + 1 BY <2>1
    <3> QED BY <2>1, <3>1, <3>2
  <2>3. (2 * q + 1) * (2 * q + 1) <= (2 * q + 1) * (2 * q + 1) * n
    <3> DEFINE s == (2 * q + 1) * (2 * q + 1)
    <3>1. s \in Nat BY <2>1
    <3> HIDE DEF s
    <3>2. s * n >= s * 1 BY <1>2, <3>1, ProductGrows
    <3> QED BY <3>1, <3>2 DEF s
  <2>4. q \in S
    <3>1. q \in 0..t * m + 1 BY <2>1
    <3>2. (2 * q + 1) * (2 * q + 1) \in Nat /\ (2 * q + 1) * (2 * q + 1) * n \in Nat BY <2>1
    <3> HIDE DEF q
    <3>3. 4 * q < (2 * q + 1) * (2 * q + 1) * n BY <2>1, <2>2, <2>3, <3>2
    <3> QED BY <2>1, <3>1, <3>3 DEF q
  <2>5. S \subseteq Nat /\ S # {}
    <3>1. t * m + 1 \in Nat BY <2>1
    <3>2. S \subseteq 0..t * m + 1 OBVIOUS
    <3> HIDE DEF S, q
    <3> QED BY <2>4, <3>1, <3>2
  <2> HIDE DEF S
  <2>6. Least(S) \in Nat BY <2>5, LeastExists
  <2> QED BY <1>2, <2>6 DEF Adjusted, S
<1> QED BY <1>1, <1>2

(* For every number of threads and of iterations: the grid is not larger   *)
(* than the threads there are, and empty only if a dimension is.           *)
LEMMA GridIsSmall ==
    ASSUME NEW t \in Nat \ {0}, NEW m \in Nat, NEW n \in Nat, NEW g \in Split2D(t, m, n)
    PROVE  /\ g[1] \in Nat /\ g[2] \in Nat
           /\ g[1] * g[2] \in Nat /\ g[1] * g[2] <= t
           /\ g[1] * g[2] = 0 => m = 0 \/ n = 0
<1>1. PICK a \in Adjusted(t, m, n) : g = Grid2D(t, m, n, a) BY DEF Split2D
<1>2. a \in Nat BY AdjustedIsNat
<1>3. CASE a > 0
  <2> DEFINE near == {i \in 0..a-1 : t % (a - i) = 0 \/ t % (a + i) = 0}
             i    == Least(near)
             rows == IF t % (a - i) = 0 THEN a - i ELSE a + i
  <2>1. a - 1 \in near
    <3>1. a - 1 \in 0..a-1 /\ a - (a - 1) = 1 BY <1>2, <1>3
    <3>2. t % 1 = 0 OBVIOUS
    <3> QED BY <3>1, <3>2
  <2>2. near \subseteq Nat BY <1>2
  <2>3. i \in near
    <3> HIDE DEF near
    <3> QED BY <2>1, <2>2, LeastExists
  <2> HIDE DEF i
  <2>4. rows \in Nat \ {0} /\ t % rows = 0 BY <1>2, <1>3, <2>3
  <2>5. g = <<rows, t \div rows>> BY <1>1, <1>3 DEF Grid2D, i
  <2> HIDE DEF rows, near
  <2>6. t \div rows \in Nat /\ t = rows * (t \div rows) + (t % rows) BY <2>4, DivMod
  <2>7. rows * (t \div rows) = t BY <2>4, <2>6
  <2> QED BY <2>4, <2>5, <2>6, <2>7
<1>4. CASE a = 0 /\ m > n
  <2>1. g = <<Lesser(m, t), 1>> BY <1>1, <1>4 DEF Grid2D
  <2> QED BY <1>4, <2>1 DEF Lesser
<1>5. CASE a = 0 /\ ~(m > n)
  <2>1. g = <<1, Lesser(n, t)>> BY <1>1, <1>5 DEF Grid2D
  <2> QED BY <1>5, <2>1 DEF Lesser
<1> QED BY <1>2, <1>3, <1>4, <1>5

-----------------------------------------------------------------------------
(* Cuts: the windows ws have the iterations of w, each once. *)

WindowOK(w) == /\ w \in [x : Dimension, y : Dimension]
               /\ Valid(w.x) /\ Valid(w.y)

Cuts(ws, w) ==
    /\ \A i \in DOMAIN ws : WindowOK(ws[i]) /\ Points(ws[i]) \subseteq Points(w)
    /\ \A i, j \in DOMAIN ws : i # j => Points(ws[i]) \intersect Points(ws[j]) = {}
    /\ \A p \in Points(w) : \E i \in DOMAIN ws : p \in Points(ws[i])

LEMMA NoSteps ==
    ASSUME NEW d \in Dimension, Valid(d), NumIterations(d) = 0
    PROVE  Steps(d) = {}
<1> SUFFICES ASSUME NEW v \in Steps(d) PROVE FALSE OBVIOUS
<1> QED BY StepIndex

(* The two halves of split_window for one dimension, with 0 parts, too.    *)
LEMMA DimensionCut ==
    ASSUME NEW d \in Dimension, Valid(d), NEW total \in Nat, total = 0 => Steps(d) = {}
    PROVE  /\ \A i \in 0..total-1 : /\ SplitWindow(d, i, total) \in Dimension
                                    /\ Valid(SplitWindow(d, i, total))
                                    /\ Steps(SplitWindow(d, i, total)) \subseteq Steps(d)
           /\ \A i, j \in 0..total-1 :
                 i # j => Steps(SplitWindow(d, i, total)) \intersect Steps(SplitWindow(d, j, total)) = {}
           /\ \A v \in Steps(d) : \E i \in 0..total-1 : v \in Steps(SplitWindow(d, i, total))
<1>1. CASE total = 0 BY <1>1
<1>2. CASE total # 0
  <2>1. total \in Nat \ {0} BY <1>2
  <2>2. \A i \in 0..total-1 : SplitWindow(d, i, total) \in Dimension /\ Valid(SplitWindow(d, i, total))
    BY <2>1, PartsFollow
  <2>3. \A i \in 0..total-1 : Steps(SplitWindow(d, i, total)) \subseteq Steps(d) BY <2>1, PartsInside
  <2>4. ASSUME NEW i \in 0..total-1, NEW j \in 0..total-1, i # j
        PROVE  Steps(SplitWindow(d, i, total)) \intersect Steps(SplitWindow(d, j, total)) = {}
    <3> SUFFICES ASSUME NEW v \in Steps(SplitWindow(d, i, total)), v \in Steps(SplitWindow(d, j, total))
                 PROVE  FALSE
      OBVIOUS
    <3>1. v \in Steps(d) BY <2>3
    <3> QED BY <2>1, <2>4, <3>1, EachStepInOnePart
  <2>5. \A v \in Steps(d) : \E i \in 0..total-1 : v \in Steps(SplitWindow(d, i, total))
    BY <2>1, EachStepInOnePart
  <2> QED BY <2>2, <2>3, <2>4, <2>5
<1> QED BY <1>1, <1>2

LEMMA PartFields ==
    ASSUME NEW w \in [x : Dimension, y : Dimension], NEW id, NEW total
    PROVE  /\ Part(w, "X", id, total).x = SplitWindow(w.x, id, total)
           /\ Part(w, "X", id, total).y = w.y
           /\ Part(w, "Y", id, total).x = w.x
           /\ Part(w, "Y", id, total).y = SplitWindow(w.y, id, total)
           /\ SplitWindow(w.x, id, total) \in Dimension =>
                 Part(w, "X", id, total) \in [x : Dimension, y : Dimension]
           /\ SplitWindow(w.y, id, total) \in Dimension =>
                 Part(w, "Y", id, total) \in [x : Dimension, y : Dimension]
BY DEF Part

(* schedule_common: all parts along one dimension.                         *)
LEMMA PartsCut ==
    ASSUME NEW w, WindowOK(w), NEW dim \in {"X", "Y"}, NEW total \in Nat,
           total = 0 => Steps(Along(w, dim)) = {}
    PROVE  Cuts(Parts(w, dim, total), w)
<1> DEFINE ws == Parts(w, dim, total)
           d  == Along(w, dim)
<1>1. /\ DOMAIN ws = 0..total-1
      /\ \A i \in 0..total-1 : ws[i] = Part(w, dim, i, total)
  BY DEF Parts
<1>2. d \in Dimension /\ Valid(d) /\ w \in [x : Dimension, y : Dimension]
  BY DEF Along, WindowOK
<1>5. Valid(w.x) /\ Valid(w.y) BY DEF WindowOK
<1>6. total = 0 => Steps(d) = {} OBVIOUS
<1> HIDE DEF ws
<1>3. CASE dim = "X"
  <2>1. d = w.x BY <1>3 DEF Along
  <2>2. \A i \in 0..total-1 : /\ ws[i].x = SplitWindow(d, i, total) /\ ws[i].y = w.y
                              /\ ws[i] \in [x : Dimension, y : Dimension]
    BY <1>1, <1>2, <1>3, <1>6, <2>1, PartFields, DimensionCut
  <2>3. \A i \in 0..total-1 : Points(ws[i]) = Steps(SplitWindow(d, i, total)) \X Steps(w.y)
    BY <2>2 DEF Points
  <2>4. Points(w) = Steps(d) \X Steps(w.y) BY <2>1 DEF Points
  <2> HIDE DEF d
  <2>5. ASSUME NEW i \in 0..total-1
        PROVE  WindowOK(ws[i]) /\ Points(ws[i]) \subseteq Points(w)
    <3>1. Valid(SplitWindow(d, i, total)) /\ Steps(SplitWindow(d, i, total)) \subseteq Steps(d)
      BY <1>2, <1>6, DimensionCut
    <3>2. Valid(ws[i].x) /\ Valid(ws[i].y) BY <1>5, <2>2, <3>1
    <3> QED BY <2>2, <2>3, <2>4, <3>1, <3>2 DEF WindowOK
  <2>6. ASSUME NEW i \in 0..total-1, NEW j \in 0..total-1, i # j
        PROVE  Points(ws[i]) \intersect Points(ws[j]) = {}
    <3>1. Steps(SplitWindow(d, i, total)) \intersect Steps(SplitWindow(d, j, total)) = {}
      BY <1>2, <1>6, <2>6, DimensionCut
    <3> QED BY <2>3, <3>1
  <2>7. ASSUME NEW p \in Points(w) PROVE \E i \in 0..total-1 : p \in Points(ws[i])
    <3>1. PICK u \in Steps(w.x), v \in Steps(w.y) : p = <<u, v>> BY DEF Points
    <3>2. PICK i \in 0..total-1 : u \in Steps(SplitWindow(d, i, total)) BY <1>2, <1>6, <2>1, <3>1, DimensionCut
    <3> QED BY <2>3, <3>1, <3>2
  <2> QED BY <1>1, <2>5, <2>6, <2>7 DEF Cuts, ws
<1>4. CASE dim = "Y"
  <2>1. d = w.y BY <1>4 DEF Along
  <2>2. \A i \in 0..total-1 : /\ ws[i].y = SplitWindow(d, i, total) /\ ws[i].x = w.x
                              /\ ws[i] \in [x : Dimension, y : Dimension]
    BY <1>1, <1>2, <1>4, <1>6, <2>1, PartFields, DimensionCut
  <2>3. \A i \in 0..total-1 : Points(ws[i]) = Steps(w.x) \X Steps(SplitWindow(d, i, total))
    BY <2>2 DEF Points
  <2>4. Points(w) = Steps(w.x) \X Steps(d) BY <2>1 DEF Points
  <2> HIDE DEF d
  <2>5. ASSUME NEW i \in 0..total-1
        PROVE  WindowOK(ws[i]) /\ Points(ws[i]) \subseteq Points(w)
    <3>1. Valid(SplitWindow(d, i, total)) /\ Steps(SplitWindow(d, i, total)) \subseteq Steps(d)
      BY <1>2, <1>6, DimensionCut
    <3>2. Valid(ws[i].x) /\ Valid(ws[i].y) BY <1>5, <2>2, <3>1
    <3> QED BY <2>2, <2>3, <2>4, <3>1, <3>2 DEF WindowOK
  <2>6. ASSUME NEW i \in 0..total-1, NEW j \in 0..total-1, i # j
        PROVE  Points(ws[i]) \intersect Points(ws[j]) = {}
    <3>1. Steps(SplitWindow(d, i, total)) \intersect Steps(SplitWindow(d, j, total)) = {}
      BY <1>2, <1>6, <2>6, DimensionCut
    <3> QED BY <2>3, <3>1
  <2>7. ASSUME NEW p \in Points(w) PROVE \E i \in 0..total-1 : p \in Points(ws[i])
    <3>1. PICK u \in Steps(w.x), v \in Steps(w.y) : p = <<u, v>> BY DEF Points
    <3>2. PICK i \in 0..total-1 : v \in Steps(SplitWindow(d, i, total)) BY <1>2, <1>6, <2>1, <3>1, DimensionCut
    <3> QED BY <2>3, <3>1, <3>2
  <2> QED BY <1>1, <2>5, <2>6, <2>7 DEF Cuts, ws
<1> QED BY <1>3, <1>4 DEF ws

(* The loops of split_dimensions_all name each place of the grid once.     *)
LEMMA PlacesOfGrid ==
    ASSUME NEW a \in Nat \ {0}, NEW b \in Nat \ {0}
    PROVE  /\ a * b \in Nat
           /\ \A id \in 0..a*b-1 : id % a \in 0..a-1 /\ id \div a \in 0..b-1
           /\ \A i, j \in 0..a*b-1 : i # j => i % a # j % a \/ i \div a # j \div a
           /\ \A k \in 0..a-1, l \in 0..b-1 : \E id \in 0..a*b-1 : id % a = k /\ id \div a = l
<1>1. a * b \in Nat OBVIOUS
<1>2. ASSUME NEW id \in 0..a*b-1 PROVE id % a \in 0..a-1 /\ id \div a \in 0..b-1
  <2>1. id \in Nat /\ id < a * b BY <1>1
  <2>2. id \div a \in Nat /\ id % a \in Nat /\ id % a < a /\ id = a * (id \div a) + (id % a) BY <2>1, DivMod
  <2>3. id \div a < b
    <3> DEFINE q == id \div a
    <3>1. SUFFICES ASSUME b <= q PROVE FALSE BY <2>2
    <3>2. b * a <= q * a BY <2>2, <3>1, ProductGrows
    <3>3. b * a = a * b /\ q * a = a * q /\ a * q \in Nat BY <2>2
    <3> QED BY <1>1, <2>1, <2>2, <3>2, <3>3
  <2> QED BY <2>2, <2>3
<1>3. ASSUME NEW i \in 0..a*b-1, NEW j \in 0..a*b-1, i % a = j % a, i \div a = j \div a PROVE i = j
  <2>1. i \in Nat /\ j \in Nat BY <1>1
  <2>2. i = a * (i \div a) + (i % a) /\ j = a * (j \div a) + (j % a) BY <2>1, DivMod
  <2> QED BY <1>3, <2>2
<1>4. ASSUME NEW k \in 0..a-1, NEW l \in 0..b-1
      PROVE  \E id \in 0..a*b-1 : id % a = k /\ id \div a = l
  <2> DEFINE id == l * a + k
  <2>1. k \in Nat /\ l \in Nat /\ k < a /\ l + 1 <= b /\ l + 1 \in Nat BY <1>4
  <2>2. l * a \in Nat /\ (l + 1) * a <= b * a /\ (l + 1) * a = l * a + a
    BY <2>1, ProductGrows, ProductDistributes
  <2>3. id \in Nat /\ id < a * b
    <3>1. b * a = a * b OBVIOUS
    <3> QED BY <1>1, <2>1, <2>2, <3>1
  <2>4. id % a = k /\ id \div a = l BY <2>1
  <2> HIDE DEF id
  <2> QED BY <1>1, <2>3, <2>4
<1> QED BY <1>1, <1>2, <1>3, <1>4

LEMMA GridCuts ==
    ASSUME NEW w, WindowOK(w), NEW g, g[1] \in Nat, g[2] \in Nat,
           g[1] * g[2] = 0 => Points(w) = {}
    PROVE  Cuts(Grid(w, g), w)
<1> DEFINE ws == Grid(w, g)
           a == g[1]
           b == g[2]
<1>1. /\ DOMAIN ws = 0..a*b-1
      /\ \A i \in 0..a*b-1 : ws[i] = Part(Part(w, "X", i % a, a), "Y", i \div a, b)
  BY DEF Grid
<1>2. w \in [x : Dimension, y : Dimension] /\ Valid(w.x) /\ Valid(w.y) BY DEF WindowOK
<1> HIDE DEF ws
<1>3. CASE a * b = 0
  <2>1. DOMAIN ws = {} BY <1>1, <1>3
  <2> QED BY <1>3, <2>1 DEF Cuts, ws
<1>4. CASE a * b # 0
  <2>1. a \in Nat \ {0} /\ b \in Nat \ {0} BY <1>4
  <2> HIDE DEF a, b
  <2>2. \A i \in 0..a*b-1 : i % a \in 0..a-1 /\ i \div a \in 0..b-1 BY <2>1, PlacesOfGrid
  <2>3. ASSUME NEW i \in 0..a*b-1
        PROVE  /\ ws[i].x = SplitWindow(w.x, i % a, a) /\ ws[i].y = SplitWindow(w.y, i \div a, b)
               /\ ws[i] \in [x : Dimension, y : Dimension]
    <3> DEFINE v == Part(w, "X", i % a, a)
    <3>1. SplitWindow(w.x, i % a, a) \in Dimension BY <1>2, <2>1, <2>2, DimensionCut
    <3>2. SplitWindow(w.y, i \div a, b) \in Dimension BY <1>2, <2>1, <2>2, DimensionCut
    <3>3. v.x = SplitWindow(w.x, i % a, a) /\ v.y = w.y /\ v \in [x : Dimension, y : Dimension]
      BY <1>2, <3>1, PartFields
    <3>4. ws[i] = Part(v, "Y", i \div a, b) BY <1>1
    <3> HIDE DEF v
    <3> QED BY <3>2, <3>3, <3>4, PartFields
  <2>4. \A i \in 0..a*b-1 :
          Points(ws[i]) = Steps(SplitWindow(w.x, i % a, a)) \X Steps(SplitWindow(w.y, i \div a, b))
    BY <2>3 DEF Points
  <2>5. \A i \in 0..a*b-1 : WindowOK(ws[i]) /\ Points(ws[i]) \subseteq Points(w)
    <3> TAKE i \in 0..a*b-1
    <3>1. /\ Valid(SplitWindow(w.x, i % a, a))
          /\ Steps(SplitWindow(w.x, i % a, a)) \subseteq Steps(w.x)
      BY <1>2, <2>1, <2>2, DimensionCut
    <3>2. /\ Valid(SplitWindow(w.y, i \div a, b))
          /\ Steps(SplitWindow(w.y, i \div a, b)) \subseteq Steps(w.y)
      BY <1>2, <2>1, <2>2, DimensionCut
    <3>3. WindowOK(ws[i]) BY <2>3, <3>1, <3>2 DEF WindowOK
    <3>4. Points(w) = Steps(w.x) \X Steps(w.y) BY DEF Points
    <3> QED BY <2>4, <3>1, <3>2, <3>3, <3>4
  <2>6. \A i, j \in 0..a*b-1 : i # j => Points(ws[i]) \intersect Points(ws[j]) = {}
    <3> SUFFICES ASSUME NEW i \in 0..a*b-1, NEW j \in 0..a*b-1, i # j
                 PROVE  Points(ws[i]) \intersect Points(ws[j]) = {}
      OBVIOUS
    <3>1. CASE i % a # j % a
      <4>1. Steps(SplitWindow(w.x, i % a, a)) \intersect Steps(SplitWindow(w.x, j % a, a)) = {}
        BY <1>2, <2>1, <2>2, <3>1, DimensionCut
      <4> QED BY <2>4, <4>1
    <3>2. CASE i \div a # j \div a
      <4>1. Steps(SplitWindow(w.y, i \div a, b)) \intersect Steps(SplitWindow(w.y, j \div a, b)) = {}
        BY <1>2, <2>1, <2>2, <3>2, DimensionCut
      <4> QED BY <2>4, <4>1
    <3> QED BY <2>1, <3>1, <3>2, PlacesOfGrid
  <2>7. \A p \in Points(w) : \E i \in 0..a*b-1 : p \in Points(ws[i])
    <3> TAKE p \in Points(w)
    <3>1. PICK u \in Steps(w.x), v \in Steps(w.y) : p = <<u, v>> BY DEF Points
    <3>2. PICK k \in 0..a-1 : u \in Steps(SplitWindow(w.x, k, a)) BY <1>2, <2>1, DimensionCut
    <3>3. PICK l \in 0..b-1 : v \in Steps(SplitWindow(w.y, l, b)) BY <1>2, <2>1, DimensionCut
    <3>4. \A q \in 0..a-1, r \in 0..b-1 : \E i \in 0..a*b-1 : i % a = q /\ i \div a = r
      BY <2>1, PlacesOfGrid
    <3>5. PICK i \in 0..a*b-1 : i % a = k /\ i \div a = l BY <3>4
    <3> QED BY <2>4, <3>1, <3>2, <3>3, <3>5
  <2> QED BY <1>1, <2>5, <2>6, <2>7 DEF Cuts, ws
<1> QED BY <1>3, <1>4
-----------------------------------------------------------------------------
(* The number of windows *)

(* adjust_num_of_windows makes at least one window, and more than one only *)
(* if all are big enough.                                                  *)
LEMMA AdjustedWindows ==
    ASSUME NEW d \in Dimension, Valid(d), NEW init \in Nat, NEW k \in Nat, init <= k,
           NEW mws \in [1..k -> Nat \ {0}],
           NEW t, t = AdjustNumOfWindows(NumIterations(d), init, mws)
    PROVE  /\ t \in Nat \ {0}
           /\ t # 1 => \A id \in 0..t-1 : NumIterations(SplitWindow(d, id, t)) >= mws[t]
<1> DEFINE n == NumIterations(d)
           few == [u \in 1..init |-> mws[u]]
           fits == {u \in 1..init : n \div mws[u] >= u}
<1>1. 1..init \subseteq 1..k OBVIOUS
<1>2. few \in [1..init -> Nat \ {0}] BY <1>1
<1>3. t = AdjustNumOfWindows(n, init, few)
  <2>1. \A u \in 1..init : few[u] = mws[u] OBVIOUS
  <2>2. {u \in 1..init : n \div few[u] >= u} = fits BY <2>1
  <2> QED BY <2>2 DEF AdjustNumOfWindows
<1>4. t \in Nat \ {0}
  <2>1. CASE fits = {} BY <2>1 DEF AdjustNumOfWindows
  <2>2. CASE fits # {}
    <3>1. t = Greatest(fits) BY <2>2 DEF AdjustNumOfWindows
    <3>2. fits \subseteq 0..init /\ fits \subseteq 1..init OBVIOUS
    <3> HIDE DEF fits
    <3>3. \E x \in fits : \A y \in fits : y <= x BY <2>2, <3>2, GreatestExists
    <3>4. Greatest(fits) \in fits BY <3>3 DEF Greatest
    <3>5. t \in 1..init BY <3>1, <3>2, <3>4
    <3> HIDE DEF n, few
    <3> QED BY ONLY init \in Nat, <3>5
  <2> QED BY <2>1, <2>2
<1>5. ASSUME t # 1, NEW id \in 0..t-1 PROVE NumIterations(SplitWindow(d, id, t)) >= mws[t]
  <2> HIDE DEF few
  <2>1. t \in 1..init /\ NumIterations(SplitWindow(d, id, t)) >= few[t]
    BY <1>2, <1>3, <1>5, WindowsBigEnough
  <2> QED BY <2>1 DEF few
<1> QED BY <1>4, <1>5

-----------------------------------------------------------------------------
(* The invariant *)

Done    == {w \in DOMAIN windows : outcome[w] = "done"}
Covered == UNION {Points(windows[w]) : w \in Done}

(* What a call has made when its windows are ready.                        *)
ReadyInv ==
    /\ pc \in {"queued", "whole", "batch"} => Cuts(windows, call.window)
    /\ pc \in {"idle", "queued", "whole"} => runs = EmptyBag
    /\ pc = "whole" => windows = [id \in {0} |-> call.window]
    /\ pc = "queued" => \E k \in Nat : DOMAIN windows = 0..k-1

(* What the batch has run so far, and what the call has run in the end.    *)
RunsInv ==
    /\ pc = "batch" => DOMAIN outcome = DOMAIN windows /\ runs = SetToBag(Covered)
    /\ pc = "returned" => \E S \in SUBSET Points(call.window) :
                             runs = SetToBag(S) /\ (result = "ok" => S = Points(call.window))

CallInv ==
    /\ pc \in {"idle", "queued", "whole", "batch", "returned"}
    /\ numThreads \in 1..MaxThreads
    /\ active <=> pc = "batch"
    /\ pc # "idle" => call \in Calls

SInv == CallInv /\ ReadyInv /\ RunsInv /\ SmallestWindow /\ GridFits

LEMMA CallsAreOK ==
    ASSUME NEW c \in Calls
    PROVE  /\ WindowOK(c.window)
           /\ NumIterations(c.window.x) \in Nat /\ NumIterations(c.window.x) <= MaxWorkloads
           /\ NumIterations(c.window.y) \in Nat /\ NumIterations(c.window.y) <= MaxWorkloads
           /\ c.mws \in [1..MaxWorkloads -> Nat \ {0}]
           /\ c.threshold \in Int /\ c.dim \in {"X", "Y", "all"} /\ c.strategy \in {"STATIC", "DYNAMIC"}
<1>1. /\ c.window \in [x : Dimensions, y : Dimensions]
      /\ c.mws \in KernelMws /\ c.threshold \in Thresholds
      /\ c.dim \in {"X", "Y", "all"} /\ c.strategy \in {"STATIC", "DYNAMIC"}
  BY DEF Calls
<1>2. c.window.x \in Dimensions /\ c.window.y \in Dimensions BY <1>1
<1>3. WindowOK(c.window)
  <2>1. /\ c.window.x \in Dimension /\ Valid(c.window.x)
        /\ c.window.y \in Dimension /\ Valid(c.window.y)
    BY <1>2, ScheduleAssumption
  <2>2. c.window \in [x : Dimension, y : Dimension] BY <1>1, <2>1
  <2> QED BY <2>1, <2>2 DEF WindowOK
<1>4. NumIterations(c.window.x) \in Nat /\ NumIterations(c.window.y) \in Nat
  BY <1>2, ScheduleAssumption, WindowLength
<1> QED BY <1>1, <1>2, <1>3, <1>4, ScheduleAssumption

(* A call that goes on with the windows ws.                                *)
LEMMA QueueInv ==
    ASSUME SInv, NEW c \in Calls, NEW n, Begin(c, n), NEW ws, Queue(ws),
           Cuts(ws, c.window), NEW k \in Nat, DOMAIN ws = 0..k-1,
           SmallestWindow', GridFits'
    PROVE  SInv'
<1>1. /\ pc = "idle" /\ pc' = "queued" /\ call' = c /\ windows' = ws /\ runs' = runs
      /\ numThreads' = numThreads /\ active' = active
  BY DEF Begin, Queue, batchVars
<1>2. CallInv' BY <1>1 DEF SInv, CallInv
<1>3. ReadyInv' BY <1>1 DEF SInv, ReadyInv
<1>4. RunsInv' BY <1>1 DEF RunsInv
<1> QED BY <1>2, <1>3, <1>4 DEF SInv

LEMMA WholeInv ==
    ASSUME SInv, NEW c \in Calls, NEW n, Begin(c, n), Whole(c)
    PROVE  SInv'
<1>1. /\ pc = "idle" /\ pc' = "whole" /\ call' = c /\ windows' = [id \in {0} |-> c.window] /\ runs' = runs
      /\ numThreads' = numThreads /\ active' = active
  BY DEF Begin, Whole, batchVars
<1>2. CallInv' BY <1>1 DEF SInv, CallInv
<1>3. ReadyInv'
  <2>1. WindowOK(c.window) BY CallsAreOK
  <2>2. Cuts([id \in {0} |-> c.window], c.window) BY <2>1 DEF Cuts
  <2> QED BY <1>1, <2>2 DEF SInv, ReadyInv
<1>4. RunsInv' /\ SmallestWindow' /\ GridFits' BY <1>1 DEF RunsInv, SmallestWindow, GridFits
<1> QED BY <1>2, <1>3, <1>4 DEF SInv

LEMMA NothingInv ==
    ASSUME SInv, NEW c \in Calls, NEW n, Begin(c, n), Nothing, Points(c.window) = {}
    PROVE  SInv'
<1>1. /\ pc = "idle" /\ pc' = "returned" /\ call' = c /\ runs' = runs
      /\ numThreads' = numThreads /\ active' = active
  BY DEF Begin, Nothing
<1>2. CallInv' BY <1>1 DEF SInv, CallInv
<1>3. ReadyInv' BY <1>1 DEF ReadyInv
<1>4. RunsInv'
  <2>1. runs = SetToBag({}) BY <1>1 DEF SInv, ReadyInv, EmptyBag
  <2> QED BY <1>1, <2>1 DEF RunsInv
<1>5. SmallestWindow' /\ GridFits' BY <1>1 DEF SmallestWindow, GridFits
<1> QED BY <1>2, <1>3, <1>4, <1>5 DEF SInv

(* Nothing to do along one dimension is nothing to do.                     *)
LEMMA NoPoints ==
    ASSUME NEW w, WindowOK(w), NEW dim \in {"X", "Y"}, NumIterations(Along(w, dim)) = 0
    PROVE  Steps(Along(w, dim)) = {} /\ Points(w) = {}
<1>1. /\ w.x \in Dimension /\ Valid(w.x) /\ w.y \in Dimension /\ Valid(w.y) BY DEF WindowOK
<1>2. Along(w, dim) \in Dimension /\ Valid(Along(w, dim)) BY <1>1 DEF Along
<1>3. Steps(Along(w, dim)) = {} BY <1>2, NoSteps
<1> QED BY <1>3 DEF Along, Points

LEMMA AlongDimension ==
    ASSUME NEW c \in Calls, c.dim # "all"
    PROVE  LET d == Along(c.window, c.dim)
           IN  /\ d \in Dimension /\ Valid(d) /\ c.dim \in {"X", "Y"}
               /\ NumIterations(d) \in Nat /\ NumIterations(d) <= MaxWorkloads
<1>1. WindowOK(c.window) BY CallsAreOK
<1> QED BY <1>1, CallsAreOK DEF Along, WindowOK

-----------------------------------------------------------------------------
(* Each way a call goes on *)

LEMMA IntervalSize ==
    ASSUME NEW k \in Nat
    PROVE  Cardinality(0..k-1) = k
<1>1. IsFiniteSet(0..k-1) /\ Cardinality(0..k-1) = IF 0 > k - 1 THEN 0 ELSE k - 1 - 0 + 1
  BY FS_Interval
<1> QED BY <1>1

LEMMA AllInv ==
    ASSUME SInv, NEW c \in Calls, ScheduleAll(c)
    PROVE  SInv'
<1> DEFINE m == NumIterations(c.window.x)
           n == NumIterations(c.window.y)
<1>1. PICK g \in Split2D(numThreads, m, n) : Queue(Grid(c.window, g)) BY DEF ScheduleAll
<1>2. Begin(c, numThreads) /\ c.dim = "all" BY DEF ScheduleAll
<1>3. m \in Nat /\ n \in Nat /\ numThreads \in Nat \ {0} /\ WindowOK(c.window)
  BY CallsAreOK, ScheduleAssumption DEF SInv, CallInv
<1> HIDE DEF m, n
<1>4. /\ g[1] \in Nat /\ g[2] \in Nat
      /\ g[1] * g[2] \in Nat /\ g[1] * g[2] <= numThreads
      /\ g[1] * g[2] = 0 => m = 0 \/ n = 0
  BY <1>3, GridIsSmall
<1>5. g[1] * g[2] = 0 => Points(c.window) = {}
  <2>1. m = 0 => Points(c.window) = {} BY <1>3, NoPoints DEF Along, m
  <2>2. n = 0 => Points(c.window) = {} BY <1>3, NoPoints DEF Along, n
  <2> QED BY <1>4, <2>1, <2>2
<1>6. Cuts(Grid(c.window, g), c.window) BY <1>3, <1>4, <1>5, GridCuts
<1>7. DOMAIN Grid(c.window, g) = 0..g[1] * g[2] - 1 BY DEF Grid
<1>8. Cardinality(DOMAIN Grid(c.window, g)) = g[1] * g[2] BY <1>4, <1>7, IntervalSize
<1>9. windows' = Grid(c.window, g) /\ call' = c /\ threads' = numThreads BY <1>1, <1>2 DEF Begin, Queue
<1>10. GridFits' BY <1>4, <1>8, <1>9 DEF GridFits
<1>11. SmallestWindow' BY <1>2, <1>9 DEF SmallestWindow
<1> QED BY <1>1, <1>2, <1>4, <1>6, <1>7, <1>10, <1>11, QueueInv

LEMMA AlongInv ==
    ASSUME SInv, NEW c \in Calls, ScheduleAlong(c)
    PROVE  SInv'
<1> DEFINE d  == Along(c.window, c.dim)
           it == NumIterations(d)
           nt == Lesser(it, numThreads)
           init == InitWindows(c, it, nt)
           t  == AdjustNumOfWindows(it, init, c.mws)
           ws == Parts(c.window, c.dim, t)
<1>1. Begin(c, nt) /\ c.dim # "all" BY DEF ScheduleAlong
<1>2. /\ d \in Dimension /\ Valid(d) /\ c.dim \in {"X", "Y"}
      /\ it \in Nat /\ it <= MaxWorkloads /\ WindowOK(c.window)
      /\ numThreads \in Nat \ {0} /\ MaxWorkloads \in Nat
  BY <1>1, AlongDimension, CallsAreOK, ScheduleAssumption DEF SInv, CallInv
<1>3. CASE it = 0 /\ Nothing
  <2>1. Points(c.window) = {} BY <1>2, <1>3, NoPoints
  <2> QED BY <1>1, <1>3, <2>1, NothingInv
<1>4. CASE Whole(c) BY <1>1, <1>4, WholeInv
<1>5. CASE it # 0 /\ Queue(ws)
  <2>1. init \in Nat /\ init <= MaxWorkloads
    <3>1. c.threshold \in Int BY CallsAreOK
    <3>2. nt \in Nat /\ nt <= it BY <1>2 DEF Lesser
    <3> HIDE DEF d, it, nt
    <3> QED BY <1>2, <3>1, <3>2 DEF InitWindows, Lesser
  <2> HIDE DEF init
  <2>2. /\ t \in Nat \ {0}
        /\ t # 1 => \A id \in 0..t-1 : NumIterations(SplitWindow(d, id, t)) >= c.mws[t]
    <3>1. c.mws \in [1..MaxWorkloads -> Nat \ {0}] BY CallsAreOK
    <3> HIDE DEF d
    <3> QED BY <1>2, <2>1, <3>1, AdjustedWindows
  <2> HIDE DEF t
  <2>3. Cuts(ws, c.window) BY <1>2, <2>2, PartsCut
  <2>4. DOMAIN ws = 0..t-1 /\ \A id \in 0..t-1 : ws[id] = Part(c.window, c.dim, id, t) BY DEF Parts
  <2>5. Cardinality(DOMAIN ws) = t BY <2>2, <2>4, IntervalSize
  <2>6. windows' = ws /\ call' = c BY <1>1, <1>5 DEF Begin, Queue
  <2>7. \A id \in 0..t-1 : Along(ws[id], c.dim) = SplitWindow(d, id, t)
    <3>1. c.window \in [x : Dimension, y : Dimension] BY <1>2 DEF WindowOK
    <3> QED BY <1>2, <2>4, <3>1, PartFields DEF Along
  <2> HIDE DEF ws
  <2>8. SmallestWindow' BY <2>2, <2>4, <2>5, <2>6, <2>7 DEF SmallestWindow
  <2>9. GridFits' BY <1>1, <2>6 DEF GridFits
  <2> QED BY <1>1, <1>5, <2>2, <2>3, <2>4, <2>8, <2>9, QueueInv
<1> QED BY <1>3, <1>4, <1>5 DEF ScheduleAlong

LEMMA OMPInv ==
    ASSUME SInv, NEW c \in Calls, OMPScheduleOp(c)
    PROVE  SInv'
<1> DEFINE d  == Along(c.window, c.dim)
           it == NumIterations(d)
           nt == Lesser(it, numThreads)
           ws == Parts(c.window, c.dim, nt)
<1>1. Begin(c, nt) /\ c.dim # "all" /\ backend = "OMP" BY DEF OMPScheduleOp
<1>2. /\ d \in Dimension /\ Valid(d) /\ c.dim \in {"X", "Y"}
      /\ it \in Nat /\ WindowOK(c.window) /\ numThreads \in Nat \ {0}
  BY <1>1, AlongDimension, CallsAreOK, ScheduleAssumption DEF SInv, CallInv
<1>3. CASE Whole(c) BY <1>1, <1>3, WholeInv
<1>4. CASE Queue(ws)
  <2>1. nt \in Nat /\ (nt = 0 => it = 0) BY <1>2 DEF Lesser
  <2>2. nt = 0 => Steps(d) = {} BY <1>2, <2>1, NoPoints
  <2> HIDE DEF nt
  <2>3. Cuts(ws, c.window) BY <1>2, <2>1, <2>2, PartsCut
  <2>4. DOMAIN ws = 0..nt-1 BY DEF Parts
  <2>5. backend' = "OMP" /\ call' = c BY <1>1 DEF Begin
  <2>6. SmallestWindow' BY <2>5 DEF SmallestWindow
  <2>7. GridFits' BY <1>1, <2>5 DEF GridFits
  <2> HIDE DEF ws
  <2> QED BY <1>1, <1>4, <2>1, <2>3, <2>4, <2>6, <2>7, QueueInv
<1> QED BY <1>3, <1>4 DEF OMPScheduleOp

LEMMA STInv ==
    ASSUME SInv, NEW c \in Calls, STSchedule(c)
    PROVE  SInv'
<1>1. Begin(c, 1) BY DEF STSchedule
<1>2. CASE Whole(c) BY <1>1, <1>2, WholeInv
<1>3. CASE c.dim # "all" /\ NumIterations(Along(c.window, c.dim)) < 1 /\ Nothing
  <2>1. NumIterations(Along(c.window, c.dim)) = 0 /\ c.dim \in {"X", "Y"} /\ WindowOK(c.window)
    BY <1>3, AlongDimension, CallsAreOK
  <2>2. Points(c.window) = {} BY <2>1, NoPoints
  <2> QED BY <1>1, <1>3, <2>2, NothingInv
<1> QED BY <1>2, <1>3 DEF STSchedule

-----------------------------------------------------------------------------
(* The workloads are run *)

LEMMA BagOfUnion ==
    ASSUME NEW A, NEW B, A \intersect B = {}
    PROVE  SetToBag(A) (+) SetToBag(B) = SetToBag(A \union B)
BY DEF SetToBag, (+)

LEMMA WholeRuns ==
    ASSUME SInv, RunWhole
    PROVE  SInv'
<1>1. /\ pc = "whole" /\ pc' = "returned" /\ call' = call /\ windows' = windows
      /\ numThreads' = numThreads /\ active' = active /\ call \in Calls
      /\ runs = EmptyBag /\ windows[0] = call.window
  BY DEF SInv, CallInv, ReadyInv, RunWhole
<1>2. CallInv' BY <1>1 DEF SInv, CallInv
<1>3. ReadyInv' BY <1>1 DEF ReadyInv
<1>4. RunsInv'
  <2>1. CASE RunOn(windows[0]) /\ result' = "ok"
    <3>1. runs = SetToBag({}) BY <1>1 DEF EmptyBag
    <3>2. runs' = SetToBag({} \union Points(call.window)) BY <1>1, <2>1, <3>1, BagOfUnion DEF RunOn
    <3>3. runs' = SetToBag(Points(call.window)) BY <3>2
    <3> QED BY <1>1, <3>3 DEF RunsInv
  <2>2. CASE result' = "throw" /\ UNCHANGED runs
    <3>1. runs' = SetToBag({}) BY <1>1, <2>2 DEF EmptyBag
    <3> QED BY <1>1, <2>2, <3>1 DEF RunsInv
  <2> QED BY <2>1, <2>2 DEF RunWhole
<1>5. SmallestWindow' /\ GridFits' BY <1>1 DEF SmallestWindow, GridFits
<1> QED BY <1>2, <1>3, <1>4, <1>5 DEF SInv

LEMMA BatchBegins ==
    ASSUME SInv, RunWorkloads
    PROVE  SInv'
<1>1. /\ pc = "queued" /\ call' = call /\ windows' = windows /\ runs' = runs
      /\ numThreads' = numThreads /\ call \in Calls
      /\ runs = SetToBag({}) /\ Cuts(windows, call.window) /\ ~active
  BY DEF SInv, CallInv, ReadyInv, RunWorkloads, EmptyBag
<1>2. CASE Submit(Cardinality(DOMAIN windows)) /\ pc' = "batch"
  <2>1. PICK k \in Nat : DOMAIN windows = 0..k-1 BY <1>1 DEF SInv, ReadyInv
  <2>2. Cardinality(DOMAIN windows) = k BY <2>1, IntervalSize
  <2>3. active' /\ outcome' = [w \in 0..k-1 |-> "pending"] BY <1>2, <2>2 DEF Submit
  <2>4. CallInv' BY <1>1, <1>2, <2>3 DEF SInv, CallInv
  <2>5. ReadyInv' BY <1>1, <1>2 DEF ReadyInv
  <2>6. RunsInv'
    <3>1. Covered' = {} BY <1>1, <2>1, <2>3 DEF Covered, Done
    <3> QED BY <1>1, <1>2, <2>1, <2>3, <3>1 DEF RunsInv
  <2>7. SmallestWindow' /\ GridFits' BY <1>2 DEF SmallestWindow, GridFits
  <2> QED BY <2>4, <2>5, <2>6, <2>7 DEF SInv
<1>3. CASE windows = NoWindows /\ SubmitNothing /\ pc' = "returned"
  <2>1. active' = active BY <1>3 DEF SubmitNothing
  <2>2. CallInv' BY <1>1, <1>3, <2>1 DEF SInv, CallInv
  <2>3. ReadyInv' BY <1>3 DEF ReadyInv
  <2>4. Points(call.window) = {} BY <1>1, <1>3 DEF Cuts, NoWindows
  <2>5. RunsInv' BY <1>1, <1>3, <2>4 DEF RunsInv
  <2>6. SmallestWindow' /\ GridFits' BY <1>3 DEF SmallestWindow, GridFits
  <2> QED BY <2>2, <2>3, <2>5, <2>6 DEF SInv
<1> QED BY <1>2, <1>3 DEF RunWorkloads

LEMMA WindowRuns ==
    ASSUME SInv, NEW w \in DOMAIN outcome, RunWindow(w)
    PROVE  SInv'
<1>1. /\ pc = "batch" /\ pc' = "batch" /\ call' = call /\ windows' = windows
      /\ numThreads' = numThreads /\ call \in Calls
      /\ DOMAIN outcome = DOMAIN windows /\ runs = SetToBag(Covered) /\ Cuts(windows, call.window)
  BY DEF SInv, CallInv, ReadyInv, RunsInv, RunWindow
<1>2. PICK o : /\ Execute(w, o)
                 /\ \/ o = "done" /\ RunOn(windows[w])
                    \/ o \in Failures /\ runs' = runs
  BY DEF RunWindow
<1>3. /\ active' = active /\ outcome[w] = "pending"
      /\ DOMAIN outcome' = DOMAIN outcome
      /\ \A v \in DOMAIN outcome : outcome'[v] = IF v = w THEN o ELSE outcome[v]
  BY <1>2 DEF Execute
<1>4. CallInv' BY <1>1, <1>3 DEF SInv, CallInv
<1>5. ReadyInv' BY <1>1 DEF ReadyInv
<1>6. w \notin Done BY <1>3 DEF Done
<1>7. runs' = SetToBag(Covered')
  <2>1. CASE o = "done" /\ RunOn(windows[w])
    <3>1. Done' = Done \union {w} BY <1>1, <1>3, <2>1 DEF Done
    <3>2. Covered' = Covered \union Points(windows[w]) BY <1>1, <3>1 DEF Covered, Points
    <3>3. Covered \intersect Points(windows[w]) = {} BY <1>1, <1>6 DEF Covered, Cuts, Done
    <3>4. runs' = SetToBag(Covered) (+) SetToBag(Points(windows[w])) BY <1>1, <2>1 DEF RunOn
    <3> QED BY <3>2, <3>3, <3>4, BagOfUnion
  <2>2. CASE o \in Failures /\ runs' = runs
    <3>1. o # "done" BY <2>2, ScheduleAssumption
    <3>2. Done' = Done BY <1>1, <1>3, <1>6, <3>1 DEF Done
    <3>3. Covered' = Covered BY <1>1, <3>2 DEF Covered, Points
    <3> QED BY <1>1, <2>2, <3>3
  <2> QED BY <1>2, <2>1, <2>2
<1>8. RunsInv' BY <1>1, <1>3, <1>7 DEF RunsInv
<1>9. SmallestWindow' /\ GridFits' BY <1>1 DEF SmallestWindow, GridFits
<1> QED BY <1>4, <1>5, <1>8, <1>9 DEF SInv

LEMMA BatchEnds ==
    ASSUME SInv, WorkloadsRun
    PROVE  SInv'
<1>1. /\ pc = "batch" /\ pc' = "returned" /\ call' = call /\ windows' = windows /\ runs' = runs
      /\ numThreads' = numThreads /\ call \in Calls /\ ~active'
      /\ DOMAIN outcome = DOMAIN windows /\ runs = SetToBag(Covered) /\ Cuts(windows, call.window)
  BY DEF SInv, CallInv, ReadyInv, RunsInv, WorkloadsRun, Return
<1>2. CallInv' BY <1>1 DEF SInv, CallInv
<1>3. ReadyInv' BY <1>1 DEF ReadyInv
<1>4. Covered \subseteq Points(call.window) BY <1>1 DEF Covered, Done, Cuts
<1>5. result' = "ok" => Covered = Points(call.window)
  <2>1. SUFFICES ASSUME result' = "ok" PROVE Points(call.window) \subseteq Covered BY <1>4
  <2>2. Done = DOMAIN windows BY <1>1, <2>1 DEF Done, WorkloadsRun, Return
  <2> QED BY <1>1, <2>2 DEF Covered, Cuts
<1>6. RunsInv' BY <1>1, <1>4, <1>5 DEF RunsInv
<1>7. SmallestWindow' /\ GridFits' BY <1>1 DEF SmallestWindow, GridFits
<1> QED BY <1>2, <1>3, <1>6, <1>7 DEF SInv

LEMMA CallForgotten ==
    ASSUME SInv, Forget
    PROVE  SInv'
<1>1. /\ pc = "returned" /\ pc' = "idle" /\ runs' = EmptyBag
      /\ numThreads' = numThreads /\ active' = active
  BY DEF Forget
<1>2. CallInv' BY <1>1 DEF SInv, CallInv
<1>3. ReadyInv' /\ RunsInv' BY <1>1 DEF ReadyInv, RunsInv
<1>4. SmallestWindow' /\ GridFits' BY <1>1 DEF SmallestWindow, GridFits
<1> QED BY <1>2, <1>3, <1>4 DEF SInv

LEMMA NothingChanges ==
    ASSUME SInv, UNCHANGED <<batchVars, backend, pc, call, threads, windows, runs>>,
           numThreads' \in 1..MaxThreads
    PROVE  SInv'
<1>1. /\ pc' = pc /\ call' = call /\ windows' = windows /\ runs' = runs /\ threads' = threads
      /\ active' = active /\ outcome' = outcome /\ result' = result /\ backend' = backend
  BY DEF batchVars
<1>2. CallInv' BY <1>1 DEF SInv, CallInv
<1>3. ReadyInv' BY <1>1 DEF SInv, ReadyInv
<1>4. RunsInv'
  <2>1. Covered' = Covered BY <1>1 DEF Covered, Done, Points
  <2> QED BY <1>1, <2>1 DEF SInv, RunsInv
<1>5. SmallestWindow' /\ GridFits' BY <1>1 DEF SInv, SmallestWindow, GridFits
<1> QED BY <1>2, <1>3, <1>4, <1>5 DEF SInv

-----------------------------------------------------------------------------
(* Every step *)

LEMMA SInvInit == Init => SInv
<1> SUFFICES ASSUME Init PROVE SInv OBVIOUS
<1>1. pc = "idle" /\ ~active /\ runs = EmptyBag BY DEF Init, BatchInit
<1>2. numThreads \in 1..MaxThreads BY ScheduleAssumption DEF Init
<1> QED BY <1>1, <1>2 DEF SInv, CallInv, ReadyInv, RunsInv, SmallestWindow, GridFits

LEMMA SInvNext == SInv /\ [Next]_vars => SInv'
<1> SUFFICES ASSUME SInv, [Next]_vars PROVE SInv' OBVIOUS
<1>1. ASSUME NEW c \in Calls, ScheduleAll(c) \/ ScheduleAlong(c) \/ OMPScheduleOp(c) \/ STSchedule(c)
      PROVE  SInv'
  BY <1>1, AllInv, AlongInv, OMPInv, STInv
<1>2. CASE RunWhole BY <1>2, WholeRuns
<1>3. CASE RunWorkloads BY <1>3, BatchBegins
<1>4. CASE WorkloadsRun BY <1>4, BatchEnds
<1>5. CASE Forget BY <1>5, CallForgotten
<1>6. ASSUME NEW w \in DOMAIN outcome, RunWindow(w) PROVE SInv' BY <1>6, WindowRuns
<1>7. ASSUME NEW n \in 1..MaxThreads, SetNumThreads(n) PROVE SInv'
  BY <1>7, NothingChanges DEF SetNumThreads
<1>8. CASE UNCHANGED vars BY <1>8, NothingChanges DEF vars, SInv, CallInv
<1> QED BY <1>1, <1>2, <1>3, <1>4, <1>5, <1>6, <1>7, <1>8 DEF Next

LEMMA SInvAlways == Spec => []SInv
BY SInvInit, SInvNext, PTL DEF Spec

-----------------------------------------------------------------------------
(* A kernel is never run twice on an iteration of its window, nor outside  *)
(* it, and is run on every iteration when schedule returns and nothing     *)
(* was raised (schedule_common and the schedulers' schedule_op).           *)
THEOREM KernelRunsOnce == Spec => []ExactlyOnce
<1>1. SInv => ExactlyOnce
  <2> SUFFICES ASSUME SInv, pc # "idle"
               PROVE  /\ runs \sqsubseteq SetToBag(Points(call.window))
                      /\ pc = "returned" /\ result = "ok" => runs = SetToBag(Points(call.window))
    BY DEF ExactlyOnce
  <2>1. PICK S \in SUBSET Points(call.window) :
          runs = SetToBag(S) /\ (pc = "returned" /\ result = "ok" => S = Points(call.window))
    <3>1. CASE pc \in {"queued", "whole"}
      <4>1. runs = SetToBag({}) BY <3>1 DEF SInv, ReadyInv, EmptyBag
      <4> QED BY <3>1, <4>1
    <3>2. CASE pc = "batch"
      <4>1. runs = SetToBag(Covered) /\ Covered \subseteq Points(call.window)
        BY <3>2 DEF SInv, ReadyInv, RunsInv, Covered, Done, Cuts
      <4> QED BY <3>2, <4>1
    <3>3. CASE pc = "returned" BY <3>3 DEF SInv, RunsInv
    <3> QED BY <3>1, <3>2, <3>3 DEF SInv, CallInv
  <2>2. SetToBag(S) \sqsubseteq SetToBag(Points(call.window)) BY <2>1 DEF SetToBag, \sqsubseteq
  <2> QED BY <2>1, <2>2
<1> QED BY <1>1, SInvAlways, PTL

(* Every window that schedule_common or schedule_op hands to a workload is *)
(* one the kernel accepts, inside the window that was scheduled.           *)
THEOREM AllPartsAreWindows == Spec => []PartsAreWindows
<1>1. SInv => PartsAreWindows BY DEF SInv, ReadyInv, Cuts, WindowOK, PartsAreWindows
<1> QED BY <1>1, SInvAlways, PTL

(* schedule_common never splits a window into parts smaller than get_mws   *)
(* asks for (adjust_num_of_windows).                                       *)
THEOREM NoWindowTooSmall == Spec => []SmallestWindow
<1>1. SInv => SmallestWindow BY DEF SInv
<1> QED BY <1>1, SInvAlways, PTL

(* split_2d never makes more windows than there are threads.               *)
THEOREM GridOfThreadsFits == Spec => []GridFits
<1>1. SInv => GridFits BY DEF SInv
<1> QED BY <1>1, SInvAlways, PTL

-----------------------------------------------------------------------------
(* The loops of a kernel                                                   *)

LoopWindows == {w \in [Dims -> Dimension] : \A n \in Dims : Valid(w[n])}
Moves       == [Broadcasts -> Coordinates]
Records     == [id : Coordinates, offset : [Broadcasts -> Int]]
Results     == [calls : Seq(Records), its : Iterators]

Earlier(a, b) == \E n \in Dims : a[n] < b[n] /\ \A m \in n+1..4 : a[m] = b[m]

(* How far the coordinates id are from the start in the first dim          *)
(* dimensions of window w, for a tensor with strides g.                    *)
Moved(g, w, id, dim) == LET by(n) == IF n <= dim THEN g[n] * (id[n] - w[n].start) ELSE 0
                        IN  by(1) + by(2) + by(3) + by(4)

(* The iterations of w in its first dim dimensions, above which id stays.  *)
Box(w, id, dim) == {p \in Coordinates : /\ \A n \in 1..dim : p[n] \in Steps(w[n])
                                        /\ \A n \in dim+1..4 : p[n] = id[n]}

(* The iterators the loop of dimension dim begins with.                    *)
Aligned(w, g, dim) ==
    {its \in Iterators : \A i \in Broadcasts : /\ \A n \in Dims : its[i].stride[n] = w[n].step * g[i][n]
                                               /\ \A n \in 1..dim : its[i].start[n] = its[i].start[1]}

(* The calls are those of P, each once, in order, with the offsets of its. *)
Goes(calls, P, w, g, its, dim) ==
    /\ \A k \in DOMAIN calls : calls[k].id \in P
    /\ \A p \in P : \E k \in DOMAIN calls : calls[k].id = p
    /\ \A k, l \in DOMAIN calls : k < l => Earlier(calls[k].id, calls[l].id)
    /\ \A k \in DOMAIN calls, i \in Broadcasts :
          calls[k].offset[i] = its[i].start[1] + Moved(g[i], w, calls[k].id, dim)

Unrolls(r, w, g, id, its, dim) ==
    /\ r \in Results
    /\ \A i \in Broadcasts : /\ r.its[i].stride = its[i].stride
                             /\ \A n \in dim+1..4 : r.its[i].start[n] = its[i].start[n]
    /\ Goes(r.calls, Box(w, id, dim), w, g, its, dim)

UnrollsAll(inner, w, g, dim) ==
    \A id \in Coordinates, its \in Aligned(w, g, dim) : Unrolls(inner[id][its], w, g, id, its, dim)

(* After k turns of the loop over dimension dim.                           *)
AfterTurns(done, w, g, id, its, dim, k) ==
    /\ done \in Results
    /\ \A i \in Broadcasts :
          /\ done.its[i].stride = its[i].stride
          /\ \A n \in 1..dim : done.its[i].start[n] = its[i].start[1] + k * (w[dim].step * g[i][dim])
          /\ \A n \in dim+1..4 : done.its[i].start[n] = its[i].start[n]
    /\ Goes(done.calls, {p \in Box(w, id, dim) : p[dim] < w[dim].start + k * w[dim].step}, w, g, its, dim)

LEMMA IteratorTypes ==
    ASSUME NEW its \in Iterators, NEW i \in Broadcasts
    PROVE  /\ its[i].start \in Coordinates /\ its[i].stride \in Coordinates /\ DOMAIN its = Broadcasts
           /\ its[i] = [start |-> its[i].start, stride |-> its[i].stride]
           /\ \A n \in Dims : its[i].start[n] \in Int /\ its[i].stride[n] \in Int
BY DEF Iterators, Coordinates

LEMMA IncrementFacts ==
    ASSUME NEW it \in [start : Coordinates, stride : Coordinates], NEW dim \in Dims
    PROVE  /\ Increment(it, dim) \in [start : Coordinates, stride : Coordinates]
           /\ Increment(it, dim).stride = it.stride
           /\ \A n \in 1..dim : Increment(it, dim).start[n] = it.start[dim] + it.stride[dim]
           /\ \A n \in dim+1..4 : Increment(it, dim).start[n] = it.start[n]
<1> DEFINE next == it.start[dim] + it.stride[dim]
           start == [n \in Dims |-> IF n <= dim THEN next ELSE it.start[n]]
<1>1. it.start \in Coordinates /\ it.stride \in Coordinates /\ DOMAIN it.start = Dims
      /\ it = [start |-> it.start, stride |-> it.stride]
  BY DEF Coordinates
<1>2. next \in Int BY <1>1 DEF Coordinates
<1>3. Increment(it, dim) = [start |-> [n \in DOMAIN it.start |-> IF n <= dim THEN next ELSE it.start[n]], stride |-> it.stride]
  BY <1>1 DEF Increment
<1>4. start \in Coordinates BY <1>1, <1>2 DEF Coordinates, Dims
<1>5. \A n \in 1..dim : start[n] = next BY DEF Dims
<1>6. \A n \in dim+1..4 : start[n] = it.start[n] BY DEF Dims
<1> HIDE DEF next
<1> QED BY <1>1, <1>3, <1>4, <1>5, <1>6 DEF next

LEMMA DimensionTypes ==
    ASSUME NEW w \in LoopWindows, NEW n \in Dims
    PROVE  /\ w[n] \in Dimension /\ Valid(w[n])
           /\ w[n].start \in Int /\ w[n].end \in Int /\ w[n].step \in Nat \ {0}
           /\ NumIterations(w[n]) \in Nat
           /\ w[n].end = w[n].start + NumIterations(w[n]) * w[n].step
<1>1. w[n] \in Dimension /\ Valid(w[n]) BY DEF LoopWindows
<1> QED BY <1>1, WindowLength DEF Dimension

LEMMA MovedFacts ==
    ASSUME NEW g \in Coordinates, NEW w \in LoopWindows, NEW p \in Coordinates, NEW dim \in Dims
    PROVE  /\ Moved(g, w, p, dim) \in Int /\ Moved(g, w, p, dim - 1) \in Int
           /\ Moved(g, w, p, dim) = Moved(g, w, p, dim - 1) + g[dim] * (p[dim] - w[dim].start)
           /\ Moved(g, w, p, 0) = 0
<1> DEFINE by(n) == g[n] * (p[n] - w[n].start)
<1>1. \A n \in Dims : by(n) \in Int
  <2>1. \A n \in Dims : g[n] \in Int /\ p[n] \in Int /\ w[n].start \in Int
    BY DimensionTypes DEF Coordinates
  <2> QED BY <2>1
<1>2. \A d \in 0..4 : Moved(g, w, p, d) = (IF 1 <= d THEN by(1) ELSE 0) + (IF 2 <= d THEN by(2) ELSE 0)
                                        + (IF 3 <= d THEN by(3) ELSE 0) + (IF 4 <= d THEN by(4) ELSE 0)
  BY DEF Moved
<1>3. 1 \in Dims /\ 2 \in Dims /\ 3 \in Dims /\ 4 \in Dims BY DEF Dims
<1>4. by(1) \in Int /\ by(2) \in Int /\ by(3) \in Int /\ by(4) \in Int BY <1>1, <1>3
<1>5. dim \in 0..4 /\ dim - 1 \in 0..4 /\ 0 \in 0..4 BY DEF Dims
<1>6. dim = 1 \/ dim = 2 \/ dim = 3 \/ dim = 4 BY DEF Dims
<1>7. Moved(g, w, p, dim) = Moved(g, w, p, dim - 1) + by(dim)
  <2> HIDE DEF by
  <2> QED BY <1>2, <1>4, <1>5, <1>6
<1>8. Moved(g, w, p, dim) \in Int /\ Moved(g, w, p, dim - 1) \in Int /\ Moved(g, w, p, 0) = 0
  <2> HIDE DEF by
  <2> QED BY <1>2, <1>4, <1>5
<1> QED BY <1>7, <1>8

(* The values of the loop over dimension d.                                *)
LEMMA StepValue ==
    ASSUME NEW d \in Dimension, Valid(d), NEW k \in 1..NumIterations(d)
    PROVE  /\ d.start + (k - 1) * d.step \in Steps(d)
           /\ d.start + k * d.step \in Int
           /\ d.start + (k - 1) * d.step < d.start + k * d.step
           /\ \A v \in Steps(d) : v < d.start + k * d.step <=>
                   v < d.start + (k - 1) * d.step \/ v = d.start + (k - 1) * d.step
<1>1. /\ d.start \in Int /\ d.end \in Int /\ d.step \in Nat \ {0} /\ NumIterations(d) \in Nat
      /\ d.end = d.start + NumIterations(d) * d.step
  BY WindowLength DEF Dimension
<1>2. k - 1 \in Nat /\ k \in Nat /\ k <= NumIterations(d) BY <1>1
<1>3. (k - 1) * d.step \in Nat /\ k * d.step \in Nat /\ k * d.step = (k - 1) * d.step + d.step
  BY <1>1, <1>2
<1>4. k * d.step <= NumIterations(d) * d.step BY <1>1, <1>2, ProductGrows
<1>5. NumIterations(d) * d.step \in Nat BY <1>1
<1>6. ((k - 1) * d.step) % d.step = 0 BY ONLY <1>1, <1>2, MultipleOf
<1> DEFINE v0 == d.start + (k - 1) * d.step
<1>7. v0 \in Steps(d)
  <2>1. v0 - d.start = (k - 1) * d.step BY <1>1, <1>3
  <2>2. v0 \in d.start..d.end-1 BY <1>1, <1>3, <1>4, <1>5
  <2> QED BY <1>6, <2>1, <2>2 DEF Steps
<1>8. ASSUME NEW v \in Steps(d)
      PROVE  v < d.start + k * d.step <=> v < v0 \/ v = v0
  <2>1. PICK i \in 0..NumIterations(d)-1 : v = d.start + i * d.step BY StepIndex
  <2>2. i \in Nat BY <1>1
  <2>3. i * d.step \in Nat BY <1>1, <2>2
  <2>4. CASE i < k - 1
    <3>1. i + 1 \in Nat /\ i + 1 <= k - 1 BY <1>2, <2>2, <2>4
    <3>2. (i + 1) * d.step <= (k - 1) * d.step BY <1>1, <1>2, <3>1, ProductGrows
    <3>3. (i + 1) * d.step = i * d.step + d.step BY <1>1, <2>2
    <3> QED BY <1>1, <1>3, <2>1, <2>3, <3>2, <3>3
  <2>5. CASE i = k - 1 BY <1>1, <1>3, <2>1, <2>5
  <2>6. CASE i > k - 1
    <3>1. k * d.step <= i * d.step BY <1>1, <1>2, <2>2, <2>6, ProductGrows
    <3> QED BY <1>1, <1>3, <2>1, <2>3, <3>1
  <2> QED BY <1>2, <2>2, <2>4, <2>5, <2>6
<1> QED BY <1>1, <1>3, <1>7, <1>8

LEMMA ValuesAre ==
    ASSUME NEW d \in Dimension, Valid(d)
    PROVE  /\ Values(d) \in Seq(Int) /\ Len(Values(d)) = NumIterations(d)
           /\ \A k \in 1..NumIterations(d) : Values(d)[k] = d.start + (k - 1) * d.step
<1>1. NumIterations(d) \in Nat BY WindowLength
<1>2. \A k \in 1..NumIterations(d) : d.start + (k - 1) * d.step \in Int
  BY <1>1 DEF Dimension
<1> QED BY <1>1, <1>2 DEF Values

(* The calls of one turn come after those of the turns before.             *)
LEMMA GoesOn ==
    ASSUME NEW w \in LoopWindows, NEW g \in Moves, NEW id \in Coordinates, NEW dim \in Dims,
           NEW its \in Iterators, NEW now \in Iterators,
           NEW k \in 1..NumIterations(w[dim]), NEW v, v = w[dim].start + (k - 1) * w[dim].step,
           NEW before \in Seq(Records), NEW calls \in Seq(Records),
           Goes(before, {p \in Box(w, id, dim) : p[dim] < v}, w, g, its, dim),
           Goes(calls, Box(w, [id EXCEPT ![dim] = v], dim - 1), w, g, now, dim - 1),
           \A i \in Broadcasts : now[i].start[1] = its[i].start[1] + (k - 1) * (w[dim].step * g[i][dim])
    PROVE  Goes(before \o calls, {p \in Box(w, id, dim) : p[dim] < w[dim].start + k * w[dim].step},
                w, g, its, dim)
<1> DEFINE all == before \o calls
           n == Len(before)
           m == Len(calls)
           P == {p \in Box(w, id, dim) : p[dim] < w[dim].start + k * w[dim].step}
           Old == {p \in Box(w, id, dim) : p[dim] < v}
           New == Box(w, [id EXCEPT ![dim] = v], dim - 1)
<1>1. /\ n \in Nat /\ m \in Nat /\ DOMAIN before = 1..n /\ DOMAIN calls = 1..m /\ DOMAIN all = 1..n+m
      /\ \A x \in 1..n : all[x] = before[x]
      /\ \A x \in n+1..n+m : all[x] = calls[x - n]
  OBVIOUS
<1>2. /\ w[dim] \in Dimension /\ Valid(w[dim]) /\ w[dim].start \in Int /\ w[dim].step \in Nat \ {0}
      /\ dim \in 1..4
  BY DimensionTypes DEF Dims
<1>3. v \in Steps(w[dim]) /\ v \in Int
  <2>1. v \in Steps(w[dim]) BY <1>2, StepValue
  <2>2. w[dim].end \in Int BY DimensionTypes
  <2>3. \A x \in Steps(w[dim]) : x \in w[dim].start..w[dim].end-1 BY DEF Steps
  <2> QED BY <1>2, <2>1, <2>2, <2>3
<1>4. \A p \in Coordinates : \A x \in Dims : p[x] \in Int BY DEF Coordinates
<1>5. \A p \in New : /\ p \in Coordinates /\ p[dim] = v
                     /\ \A x \in 1..dim-1 : p[x] \in Steps(w[x])
                     /\ \A x \in dim+1..4 : p[x] = id[x]
  <2> SUFFICES ASSUME NEW p \in New
               PROVE  /\ p \in Coordinates /\ p[dim] = v
                      /\ \A x \in 1..dim-1 : p[x] \in Steps(w[x])
                      /\ \A x \in dim+1..4 : p[x] = id[x]
    OBVIOUS
  <2>1. \A x \in dim..4 : p[x] = [id EXCEPT ![dim] = v][x] BY <1>2 DEF Box
  <2>2. \A x \in dim+1..4 : x \in dim..4 /\ x # dim /\ x \in Dims BY <1>2 DEF Dims
  <2>3. dim \in dim..4 /\ DOMAIN id = Dims BY <1>2 DEF Coordinates
  <2> QED BY <2>1, <2>2, <2>3 DEF Box
<1>6. New \subseteq P
  <2> SUFFICES ASSUME NEW p \in New PROVE p \in P OBVIOUS
  <2>1. \A x \in 1..dim : x \in 1..dim-1 \/ x = dim BY <1>2
  <2>2. p \in Box(w, id, dim) BY <1>3, <1>5, <2>1 DEF Box
  <2> QED BY <1>2, <1>3, <1>5, <2>2, StepValue
<1>7. ASSUME NEW p \in P PROVE p \in Old \/ p \in New
  <2>1. /\ p \in Coordinates /\ p[dim] \in Steps(w[dim]) /\ \A x \in 1..dim-1 : p[x] \in Steps(w[x])
        /\ \A x \in dim+1..4 : p[x] = id[x]
    <3>1. p \in Box(w, id, dim) OBVIOUS
    <3>2. dim \in 1..dim /\ \A x \in 1..dim-1 : x \in 1..dim BY <1>2
    <3> HIDE DEF P
    <3> QED BY <3>1, <3>2 DEF Box
  <2>2. p[dim] < v \/ p[dim] = v BY <1>2, <2>1, StepValue
  <2>3. ASSUME p[dim] = v PROVE p \in New
    <3>1. \A x \in dim..4 : p[x] = [id EXCEPT ![dim] = v][x]
      <4>1. DOMAIN id = Dims /\ dim \in Dims BY DEF Coordinates
      <4>2. \A x \in dim..4 : x \in Dims /\ (x = dim \/ x \in dim+1..4) BY <1>2 DEF Dims
      <4> QED BY <2>1, <2>3, <4>1, <4>2
    <3>2. (dim - 1) + 1 = dim BY <1>2
    <3> QED BY <2>1, <3>1, <3>2 DEF Box
  <2> QED BY <2>2, <2>3
<1>8. Old \subseteq P
  <2> SUFFICES ASSUME NEW p \in Old PROVE p \in P OBVIOUS
  <2>1. p[dim] \in Steps(w[dim]) BY <1>2 DEF Box
  <2> QED BY <1>2, <2>1, StepValue
<1>9. \A p \in P : p \in Coordinates /\ p[dim] \in Int /\ \A x \in dim+1..4 : p[x] = id[x]
  BY <1>4 DEF Box
<1>10. /\ \A x \in 1..n : before[x].id \in Old /\ before[x].id \in P
       /\ \A x \in 1..m : calls[x].id \in New /\ calls[x].id \in P
  BY <1>1, <1>6, <1>8 DEF Goes
<1> HIDE DEF all, P, n, m, Old, New
<1>11. \A x \in 1..n+m : x \in 1..n \/ (x \in n+1..n+m /\ x - n \in 1..m) BY <1>1
<1>12. \A x \in 1..n+m : all[x].id \in P BY <1>1, <1>10, <1>11
<1>13. \A p \in P : \E x \in 1..n+m : all[x].id = p
  <2> SUFFICES ASSUME NEW p \in P PROVE \E x \in 1..n+m : all[x].id = p OBVIOUS
  <2>1. CASE p \in Old
    <3>1. PICK x \in 1..n : before[x].id = p BY <1>1, <2>1 DEF Goes, Old
    <3>2. x \in 1..n+m BY <1>1
    <3> QED BY <1>1, <3>1, <3>2
  <2>2. CASE p \in New
    <3>1. PICK x \in 1..m : calls[x].id = p BY <1>1, <2>2 DEF Goes, New
    <3>2. x + n \in 1..n+m /\ x + n \in n+1..n+m /\ (x + n) - n = x BY <1>1
    <3>3. all[x + n] = calls[x] BY <1>1, <3>2
    <3> QED BY <3>1, <3>2, <3>3
  <2> QED BY <1>7, <2>1, <2>2
<1>14. ASSUME NEW x \in 1..n+m, NEW y \in 1..n+m, x < y PROVE Earlier(all[x].id, all[y].id)
  <2>1. CASE x \in 1..n /\ y \in 1..n BY <1>1, <1>14, <2>1 DEF Goes
  <2>2. CASE x \in n+1..n+m /\ y \in n+1..n+m
    <3>1. x - n \in 1..m /\ y - n \in 1..m /\ x - n < y - n BY <1>1, <1>14, <2>2
    <3>2. Earlier(calls[x - n].id, calls[y - n].id) BY <1>1, <3>1 DEF Goes
    <3> QED BY <1>1, <2>2, <3>2
  <2>3. CASE x \in 1..n /\ y \in n+1..n+m
    <3>1. y - n \in 1..m BY <1>1, <2>3
    <3> DEFINE a == before[x].id
               b == calls[y - n].id
    <3>2. a \in Old /\ a \in P /\ b \in New /\ b \in P BY <1>10, <2>3, <3>1
    <3> HIDE DEF a, b
    <3>3. a[dim] < v /\ b[dim] = v BY <1>5, <3>2 DEF Old, New
    <3>4. \A z \in dim+1..4 : a[z] = b[z] BY <1>9, <3>2
    <3>5. Earlier(a, b) BY <3>3, <3>4 DEF Earlier
    <3> QED BY <1>1, <2>3, <3>5 DEF a, b
  <2> QED BY <1>1, <1>11, <1>14, <2>1, <2>2, <2>3
<1>15. ASSUME NEW x \in 1..n+m, NEW i \in Broadcasts
       PROVE  all[x].offset[i] = its[i].start[1] + Moved(g[i], w, all[x].id, dim)
  <2>1. CASE x \in 1..n BY <1>1, <2>1 DEF Goes
  <2>2. CASE x \in n+1..n+m
    <3> DEFINE c == calls[x - n]
               s == its[i].start[1]
               G == g[i][dim]
               e == w[dim].step
               M == Moved(g[i], w, c.id, dim - 1)
    <3>1. x - n \in 1..m /\ all[x] = c BY <1>1, <2>2
    <3>2. c.id \in New BY <1>10, <3>1
    <3>3. c.id \in Coordinates /\ c.id[dim] = v BY <1>5, <3>2 DEF New
    <3>4. c.offset[i] = now[i].start[1] + M BY <1>1, <3>1 DEF Goes
    <3>5. g[i] \in Coordinates /\ G \in Int BY DEF Moves, Coordinates
    <3>6. M \in Int /\ Moved(g[i], w, c.id, dim) = M + G * (c.id[dim] - w[dim].start)
      BY <3>3, <3>5, MovedFacts
    <3>7. s \in Int
      <4>1. 1 \in Dims BY DEF Dims
      <4> QED BY <4>1, IteratorTypes
    <3>8. now[i].start[1] = s + (k - 1) * (e * G) BY Zenon
    <3> HIDE DEF c, s, G, M, e
    <3>9. e \in Int /\ k - 1 \in Int BY <1>2 DEF e
    <3>10. G * (v - w[dim].start) = (k - 1) * (e * G)
      <4>1. v - w[dim].start = (k - 1) * e BY <1>2, <3>9 DEF e
      <4>2. G * ((k - 1) * e) = (k - 1) * (e * G) BY <3>5, <3>9
      <4> QED BY <4>1, <4>2
    <3>11. (k - 1) * (e * G) \in Int BY <3>5, <3>9
    <3>12. c.offset[i] = s + Moved(g[i], w, c.id, dim)
      BY <3>3, <3>4, <3>6, <3>7, <3>8, <3>10, <3>11
    <3> QED BY <3>1, <3>12 DEF s
  <2> QED BY <1>11, <2>1, <2>2
<1> QED BY <1>1, <1>12, <1>13, <1>14, <1>15 DEF Goes, all, P

Turning(w, g, dim) == [calls : Seq(Records), its : Aligned(w, g, dim)]

TurnedOnce(inner, done, w, g, id, dim, v) ==
    LET r == inner[[id EXCEPT ![dim] = v]][done.its]
        t == Turn(inner, dim, id, done, v)
    IN  /\ [id EXCEPT ![dim] = v] \in Coordinates
        /\ Unrolls(r, w, g, [id EXCEPT ![dim] = v], done.its, dim - 1)
        /\ t \in Turning(w, g, dim)
        /\ t.calls = done.calls \o r.calls
        /\ \A i \in Broadcasts :
              /\ t.its[i].stride = done.its[i].stride
              /\ \A n \in 1..dim : t.its[i].start[n] = done.its[i].start[dim] + done.its[i].stride[dim]
              /\ \A n \in dim+1..4 : t.its[i].start[n] = done.its[i].start[n]

LEMMA TurnTypes ==
    ASSUME NEW w \in LoopWindows, NEW g \in Moves, NEW id \in Coordinates, NEW dim \in Dims,
           NEW inner, UnrollsAll(inner, w, g, dim - 1),
           NEW done \in Turning(w, g, dim), NEW v \in Int
    PROVE  TurnedOnce(inner, done, w, g, id, dim, v)
<1> DEFINE at == [id EXCEPT ![dim] = v]
           r == inner[at][done.its]
           next == [i \in DOMAIN r.its |-> Increment(r.its[i], dim)]
           t == Turn(inner, dim, id, done, v)
<1>1. at \in Coordinates BY DEF Coordinates
<1>2. dim \in 1..4 BY DEF Dims
<1>3. done.calls \in Seq(Records) /\ done.its \in Iterators BY DEF Turning, Aligned
<1>4. done.its \in Aligned(w, g, dim - 1)
  <2>1. \A n \in 1..dim-1 : n \in 1..dim BY <1>2
  <2> QED BY <2>1 DEF Turning, Aligned
<1>5. Unrolls(r, w, g, at, done.its, dim - 1) BY <1>1, <1>4 DEF UnrollsAll
<1>6. r.calls \in Seq(Records) /\ r.its \in Iterators /\ DOMAIN r.its = Broadcasts
  BY <1>5 DEF Unrolls, Results, Iterators
<1>7. ASSUME NEW i \in Broadcasts
      PROVE  /\ r.its[i] \in [start : Coordinates, stride : Coordinates]
             /\ r.its[i].stride = done.its[i].stride
             /\ \A n \in dim..4 : r.its[i].start[n] = done.its[i].start[n]
  <2>1. \A n \in dim..4 : n \in (dim-1)+1..4 BY <1>2
  <2> QED BY <1>5, <1>6, <2>1 DEF Unrolls, Iterators
<1>8. t = [calls |-> done.calls \o r.calls, its |-> next] BY DEF Turn
<1> HIDE DEF at, r, t
<1>9. next \in Iterators BY <1>6, <1>7, IncrementFacts DEF Iterators
<1>10. ASSUME NEW i \in Broadcasts
       PROVE  /\ next[i].stride = done.its[i].stride
              /\ \A n \in 1..dim : next[i].start[n] = done.its[i].start[dim] + done.its[i].stride[dim]
              /\ \A n \in dim+1..4 : next[i].start[n] = done.its[i].start[n]
  <2>1. next[i] = Increment(r.its[i], dim) BY <1>6
  <2>2. r.its[i].start[dim] = done.its[i].start[dim] /\ \A n \in dim+1..4 : n \in dim..4
    BY <1>2, <1>7
  <2> HIDE DEF next
  <2> QED BY <1>7, <2>1, <2>2, IncrementFacts
<1> HIDE DEF next
<1>11. next \in Aligned(w, g, dim)
  <2> SUFFICES ASSUME NEW i \in Broadcasts
               PROVE  /\ \A n \in Dims : next[i].stride[n] = w[n].step * g[i][n]
                      /\ \A n \in 1..dim : next[i].start[n] = next[i].start[1]
    BY <1>9 DEF Aligned
  <2>1. 1 \in 1..dim BY <1>2
  <2> QED BY <1>10, <2>1 DEF Turning, Aligned
<1>12. t \in Turning(w, g, dim)
  <2>1. done.calls \o r.calls \in Seq(Records) BY <1>3, <1>6
  <2> QED BY <1>8, <1>11, <2>1 DEF Turning
<1>13. t.calls = done.calls \o r.calls /\ t.its = next BY <1>8
<1> QED BY <1>1, <1>5, <1>10, <1>12, <1>13 DEF TurnedOnce, at, r, t

LEMMA TurnGoesOn ==
    ASSUME NEW w \in LoopWindows, NEW g \in Moves, NEW id \in Coordinates, NEW dim \in Dims,
           NEW inner, UnrollsAll(inner, w, g, dim - 1),
           NEW its \in Aligned(w, g, dim), NEW done \in Turning(w, g, dim),
           NEW k \in 1..NumIterations(w[dim]), AfterTurns(done, w, g, id, its, dim, k - 1)
    PROVE  AfterTurns(Turn(inner, dim, id, done, Values(w[dim])[k]), w, g, id, its, dim, k)
<1> DEFINE v == Values(w[dim])[k]
           at == [id EXCEPT ![dim] = v]
           r == inner[at][done.its]
           t == Turn(inner, dim, id, done, v)
<1>1. /\ w[dim] \in Dimension /\ Valid(w[dim]) /\ w[dim].start \in Int /\ w[dim].step \in Nat \ {0}
      /\ NumIterations(w[dim]) \in Nat /\ dim \in 1..4
  BY DimensionTypes DEF Dims
<1>2. v = w[dim].start + (k - 1) * w[dim].step BY <1>1, ValuesAre
<1>3. v \in Int /\ k \in Nat /\ k - 1 \in Nat /\ (k - 1) * w[dim].step \in Int BY <1>1, <1>2
<1> HIDE DEF v
<1>4. /\ Unrolls(r, w, g, at, done.its, dim - 1)
      /\ t \in Turning(w, g, dim)
      /\ t.calls = done.calls \o r.calls
      /\ \A i \in Broadcasts :
            /\ t.its[i].stride = done.its[i].stride
            /\ \A n \in 1..dim : t.its[i].start[n] = done.its[i].start[dim] + done.its[i].stride[dim]
            /\ \A n \in dim+1..4 : t.its[i].start[n] = done.its[i].start[n]
  <2>1. TurnedOnce(inner, done, w, g, id, dim, v) BY <1>3, TurnTypes
  <2> QED BY <2>1 DEF TurnedOnce
<1> HIDE DEF t, r
<1>5. /\ done.its \in Iterators /\ done.calls \in Seq(Records) /\ its \in Iterators
      /\ \A i \in Broadcasts : /\ \A n \in Dims : its[i].stride[n] = w[n].step * g[i][n]
                               /\ \A n \in 1..dim : its[i].start[n] = its[i].start[1]
  BY DEF Turning, Aligned
<1>6. t \in Results BY <1>4 DEF Turning, Results, Aligned
<1>7. ASSUME NEW i \in Broadcasts
      PROVE  /\ done.its[i].stride = its[i].stride
             /\ done.its[i].start[dim] = its[i].start[1] + (k - 1) * (w[dim].step * g[i][dim])
             /\ done.its[i].start[1] = its[i].start[1] + (k - 1) * (w[dim].step * g[i][dim])
             /\ \A n \in dim+1..4 : done.its[i].start[n] = its[i].start[n]
             /\ its[i].start[1] + (k - 1) * (w[dim].step * g[i][dim]) + its[i].stride[dim]
                  = its[i].start[1] + k * (w[dim].step * g[i][dim])
  <2>1. 1 \in 1..dim /\ dim \in 1..dim /\ 1 \in Dims BY <1>1 DEF Dims
  <2>2. its[i].stride[dim] = w[dim].step * g[i][dim] /\ its[i].start[1] \in Int
    BY <1>5, <2>1, IteratorTypes
  <2>3. w[dim].step * g[i][dim] \in Int BY <1>1 DEF Moves, Coordinates
  <2> DEFINE x == w[dim].step * g[i][dim]
             s == its[i].start[1]
  <2>4. s + (k - 1) * x + x = s + k * x
    <3> HIDE DEF x, s
    <3>1. s \in Int /\ x \in Int BY <2>2, <2>3 DEF x, s
    <3> QED BY <1>3, <3>1
  <2> QED BY <2>1, <2>2, <2>4 DEF AfterTurns
<1>8. ASSUME NEW i \in Broadcasts
      PROVE  /\ t.its[i].stride = its[i].stride
             /\ \A n \in 1..dim : t.its[i].start[n] = its[i].start[1] + k * (w[dim].step * g[i][dim])
             /\ \A n \in dim+1..4 : t.its[i].start[n] = its[i].start[n]
  BY <1>4, <1>7
<1>9. Goes(t.calls, {p \in Box(w, id, dim) : p[dim] < w[dim].start + k * w[dim].step}, w, g, its, dim)
  <2>1. Goes(done.calls, {p \in Box(w, id, dim) : p[dim] < v}, w, g, its, dim)
    BY <1>2 DEF AfterTurns
  <2>2. r.calls \in Seq(Records) /\ Goes(r.calls, Box(w, at, dim - 1), w, g, done.its, dim - 1)
    BY <1>4 DEF Unrolls, Results
  <2>3. \A i \in Broadcasts :
           done.its[i].start[1] = its[i].start[1] + (k - 1) * (w[dim].step * g[i][dim])
    BY <1>7
  <2>4. Goes(done.calls \o r.calls, {p \in Box(w, id, dim) : p[dim] < w[dim].start + k * w[dim].step},
             w, g, its, dim)
    BY <1>2, <1>5, <2>1, <2>2, <2>3, GoesOn
  <2> QED BY <1>4, <2>4
<1> QED BY <1>6, <1>8, <1>9 DEF AfterTurns, t, v

LoopTurns(w, g, id, dim, inner, its) ==
    \E steps \in [0..Len(Values(w[dim])) -> Turning(w, g, dim)] :
       /\ steps[0] = [calls |-> <<>>, its |-> its] /\ \A k \in 1..Len(Values(w[dim])) : steps[k] = Turn(inner, dim, id, steps[k - 1], Values(w[dim])[k])
       /\ LoopOver(w, dim, inner, id, its) = steps[Len(Values(w[dim]))]

LEMMA LoopSteps ==
    ASSUME NEW w \in LoopWindows, NEW g \in Moves, NEW id \in Coordinates, NEW dim \in Dims,
           NEW inner, UnrollsAll(inner, w, g, dim - 1), NEW its \in Aligned(w, g, dim)
    PROVE  LoopTurns(w, g, id, dim, inner, its)
<1> DEFINE n == Len(Values(w[dim]))
           Step == [x \in (Turning(w, g, dim)) \X (1..n) |-> Turn(inner, dim, id, x[1], Values(w[dim])[x[2]])]
<1>1. n \in Nat /\ DOMAIN Values(w[dim]) = 1..n /\ Values(w[dim]) \in Seq(Int)
  BY DimensionTypes, ValuesAre
<1>2. /\ [calls |-> <<>>, its |-> its] \in Turning(w, g, dim)
      /\ \A x \in Turning(w, g, dim), k \in 1..n : Turn(inner, dim, id, x, Values(w[dim])[k]) \in Turning(w, g, dim)
  <2>1. [calls |-> <<>>, its |-> its] \in Turning(w, g, dim) BY DEF Turning
  <2>2. ASSUME NEW x \in Turning(w, g, dim), NEW k \in 1..n
        PROVE  Turn(inner, dim, id, x, Values(w[dim])[k]) \in Turning(w, g, dim)
    <3>1. Values(w[dim])[k] \in Int BY <1>1
    <3>2. TurnedOnce(inner, x, w, g, id, dim, Values(w[dim])[k]) BY <3>1, TurnTypes
    <3> QED BY <3>2 DEF TurnedOnce
  <2> QED BY <2>1, <2>2
<1>3. Step \in [(Turning(w, g, dim)) \X (1..n) -> Turning(w, g, dim)] /\ \A x \in Turning(w, g, dim), k \in 1..n : Step[<<x, k>>] = Turn(inner, dim, id, x, Values(w[dim])[k])
  BY <1>2
<1> HIDE DEF n, Step
<1> DEFINE Eq(it) == it = [s \in SUBSET DOMAIN Values(w[dim]) |->
                             IF s = {} THEN [calls |-> <<>>, its |-> its] ELSE Turn(inner, dim, id, it[s \ {Max(s)}], Values(w[dim])[Max(s)])]
           tab == CHOOSE it : Eq(it)
<1>4. LoopOver(w, dim, inner, id, its) = tab[DOMAIN Values(w[dim])]
  BY Zenon DEF FoldLeft, MapThenFoldSet, LoopOver
<1>5. PICK it \in [SUBSET (1..n) -> Turning(w, g, dim)] : FoldsBy(it, 1..n, [calls |-> <<>>, its |-> its], Step)
  <2>1. HasFold(n, Turning(w, g, dim), [calls |-> <<>>, its |-> its], Step) BY <1>1, <1>2, <1>3, FoldOfSet
  <2> QED BY <2>1 DEF HasFold
<1>6. Eq(it)
  <2>1. ASSUME NEW s \in SUBSET (1..n)
        PROVE  it[s] = IF s = {} THEN [calls |-> <<>>, its |-> its] ELSE Turn(inner, dim, id, it[s \ {Max(s)}], Values(w[dim])[Max(s)])
    <3>1. CASE s = {} BY <1>5, <3>1 DEF FoldsBy
    <3>2. CASE s # {}
      <4>1. Max(s) \in 1..n BY <1>1, <3>2, MaxOfSome
      <4>2. it[s \ {Max(s)}] \in Turning(w, g, dim)
        <5>1. s \ {Max(s)} \in SUBSET (1..n) OBVIOUS
        <5> QED BY <1>5, <5>1
      <4>3. it[s] = Step[<<it[s \ {Max(s)}], Max(s)>>] BY <1>5, <3>2 DEF FoldsBy
      <4> QED BY <1>3, <3>2, <4>1, <4>2, <4>3
    <3> QED BY <3>1, <3>2
  <2> QED BY <1>1, <1>5, <2>1
<1>7. Eq(tab)
  <2> HIDE DEF Eq
  <2> QED BY <1>6
<1> HIDE DEF tab
<1>8. tab[{}] = [calls |-> <<>>, its |-> its] BY <1>1, <1>7
<1>9. ASSUME NEW k \in 1..n, tab[1..k-1] \in Turning(w, g, dim) PROVE tab[1..k] = Step[<<tab[1..k-1], k>>]
  <2>1. 1..k \in SUBSET (1..n) /\ 1..k # {} /\ Max(1..k) = k /\ (1..k) \ {k} = 1..k-1
    BY <1>1, FirstNumbers
  <2>2. tab[1..k] = Turn(inner, dim, id, tab[(1..k) \ {Max(1..k)}], Values(w[dim])[Max(1..k)]) BY <1>1, <1>7, <2>1
  <2> QED BY <1>3, <1>9, <2>1, <2>2
<1> DEFINE steps == OfPrefixes(tab, n)
<1>10. steps \in [0..n -> Turning(w, g, dim)] /\ Stepwise(steps, n, [calls |-> <<>>, its |-> its], Step)
  <2>1. Folding(tab, Turning(w, g, dim), n, [calls |-> <<>>, its |-> its], Step) BY <1>2, <1>3, <1>8, <1>9 DEF Folding
  <2> QED BY <1>1, <2>1, FoldStays
<1>11. steps[n] = tab[DOMAIN Values(w[dim])] BY <1>1 DEF OfPrefixes
<1> HIDE DEF steps
<1>12. ASSUME NEW k \in 1..n PROVE steps[k] = Turn(inner, dim, id, steps[k - 1], Values(w[dim])[k])
  <2>1. k - 1 \in 0..n BY <1>1
  <2>2. steps[k - 1] \in Turning(w, g, dim) BY <1>10, <2>1
  <2> QED BY <1>3, <1>10, <2>2 DEF Stepwise
<1>13. steps[0] = [calls |-> <<>>, its |-> its] BY <1>10 DEF Stepwise
<1> QED BY <1>4, <1>10, <1>11, <1>12, <1>13 DEF LoopTurns, n

(* The loop over dimension dim, when the loops inside do what they should. *)
LEMMA LoopUnrolls ==
    ASSUME NEW w \in LoopWindows, NEW g \in Moves, NEW id \in Coordinates, NEW dim \in Dims,
           NEW inner, UnrollsAll(inner, w, g, dim - 1), NEW its \in Aligned(w, g, dim)
    PROVE  Unrolls(LoopOver(w, dim, inner, id, its), w, g, id, its, dim)
<1> DEFINE last == NumIterations(w[dim])
<1>1. /\ last \in Nat /\ Len(Values(w[dim])) = last /\ w[dim].start \in Int /\ w[dim].step \in Nat \ {0}
      /\ w[dim].end = w[dim].start + last * w[dim].step /\ dim \in 1..4
  BY DimensionTypes, ValuesAre DEF Dims
<1>2. PICK steps \in [0..last -> Turning(w, g, dim)] :
         /\ steps[0] = [calls |-> <<>>, its |-> its]
         /\ \A k \in 1..last : steps[k] = Turn(inner, dim, id, steps[k - 1], Values(w[dim])[k])
         /\ LoopOver(w, dim, inner, id, its) = steps[last]
  <2>1. LoopTurns(w, g, id, dim, inner, its) BY LoopSteps
  <2> QED BY <1>1, <2>1 DEF LoopTurns
<1> DEFINE Good == {k \in Nat : k <= last => AfterTurns(steps[k], w, g, id, its, dim, k)}
<1>3. its \in Iterators /\ \A i \in Broadcasts : \A n \in 1..dim : its[i].start[n] = its[i].start[1]
  BY DEF Aligned
<1>4. 0 \in Good
  <2> DEFINE P == {p \in Box(w, id, dim) : p[dim] < w[dim].start + 0 * w[dim].step}
  <2>1. P = {}
    <3> SUFFICES ASSUME NEW p \in P PROVE FALSE OBVIOUS
    <3>1. p \in Box(w, id, dim) /\ p[dim] < w[dim].start BY <1>1
    <3>2. p[dim] \in Steps(w[dim]) BY <1>1, <3>1 DEF Box
    <3>3. w[dim].end \in Int BY DimensionTypes
    <3>4. \A v \in Steps(w[dim]) : v \in w[dim].start..w[dim].end-1 BY DEF Steps
    <3> QED BY <1>1, <3>1, <3>2, <3>3, <3>4
  <2> HIDE DEF P
  <2>2. Goes(<<>>, P, w, g, its, dim) BY <2>1 DEF Goes
  <2>3. ASSUME NEW i \in Broadcasts, NEW n \in 1..dim
        PROVE  its[i].start[n] = its[i].start[1] + 0 * (w[dim].step * g[i][dim])
    <3>1. its[i].start[1] \in Int
      <4>1. 1 \in Dims BY DEF Dims
      <4> QED BY <1>3, <4>1, IteratorTypes
    <3>2. w[dim].step * g[i][dim] \in Int BY <1>1 DEF Moves, Coordinates
    <3>3. its[i].start[n] = its[i].start[1] BY <1>3
    <3> DEFINE s == its[i].start[1]
               x == w[dim].step * g[i][dim]
    <3>4. s = s + 0 * x
      <4> HIDE DEF s, x
      <4>1. s \in Int /\ x \in Int BY <3>1, <3>2 DEF s, x
      <4> QED BY <4>1
    <3> QED BY <3>3, <3>4
  <2>4. steps[0] \in Results BY <1>2, <1>3 DEF Results
  <2>5. steps[0].calls = <<>> /\ steps[0].its = its BY <1>2
  <2>6. AfterTurns(steps[0], w, g, id, its, dim, 0) BY <2>2, <2>3, <2>4, <2>5 DEF AfterTurns, P
  <2> QED BY <2>6
<1>5. ASSUME NEW k \in Nat, k \in Good PROVE k + 1 \in Good
  <2> SUFFICES ASSUME k + 1 <= last PROVE AfterTurns(steps[k + 1], w, g, id, its, dim, k + 1) OBVIOUS
  <2>1. k + 1 \in 1..last /\ (k + 1) - 1 = k /\ k \in 0..last BY <1>1
  <2>2. AfterTurns(steps[k], w, g, id, its, dim, k) BY <1>1, <1>5, <2>1
  <2>3. steps[k] \in Turning(w, g, dim) BY <1>2, <2>1
  <2>4. steps[k + 1] = Turn(inner, dim, id, steps[k], Values(w[dim])[k + 1]) BY <1>2, <2>1
  <2> QED BY <2>1, <2>2, <2>3, <2>4, TurnGoesOn
<1> HIDE DEF Good
<1>6. last \in Good BY <1>1, <1>4, <1>5, SetInduction
<1>7. AfterTurns(steps[last], w, g, id, its, dim, last) BY <1>1, <1>6 DEF Good
<1>8. {p \in Box(w, id, dim) : p[dim] < w[dim].start + last * w[dim].step} = Box(w, id, dim)
  <2> SUFFICES ASSUME NEW p \in Box(w, id, dim) PROVE p[dim] < w[dim].start + last * w[dim].step OBVIOUS
  <2>1. p[dim] \in Steps(w[dim]) BY SMTT(20), <1>1 DEF Box
  <2>2. w[dim].end \in Int BY DimensionTypes
  <2>3. \A v \in Steps(w[dim]) : v \in w[dim].start..w[dim].end-1 BY DEF Steps
  <2>4. p[dim] < w[dim].end BY <1>1, <2>1, <2>2, <2>3
  <2> QED BY <1>1, <2>4
<1> QED BY <1>2, <1>7, <1>8 DEF AfterTurns, Unrolls

Level(w, dim, inner) ==
    [id \in Coordinates |-> [its \in Iterators |->
        IF dim = 0 THEN [calls |-> <<Call(id, its)>>, its |-> its]
        ELSE LoopOver(w, dim, inner, id, its)]]

LEMMA SameCoordinates ==
    ASSUME NEW p \in Coordinates, NEW q \in Coordinates, \A n \in Dims : p[n] = q[n]
    PROVE  p = q
BY DEF Coordinates

(* The innermost call.                                                     *)
LEMMA CallUnrolls ==
    ASSUME NEW w \in LoopWindows, NEW g \in Moves, NEW inner
    PROVE  UnrollsAll(Level(w, 0, inner), w, g, 0)
<1> SUFFICES ASSUME NEW id \in Coordinates, NEW its \in Aligned(w, g, 0)
             PROVE  Unrolls(Level(w, 0, inner)[id][its], w, g, id, its, 0)
  BY DEF UnrollsAll
<1> DEFINE c == Call(id, its)
           calls == <<c>>
           r == [calls |-> calls, its |-> its]
<1>1. its \in Iterators BY DEF Aligned
<1>2. Level(w, 0, inner)[id][its] = r BY <1>1 DEF Level
<1>3. c.id = id /\ DOMAIN its = Broadcasts /\ \A i \in Broadcasts : c.offset[i] = its[i].start[1]
  <2>1. DOMAIN its = Broadcasts BY <1>1 DEF Iterators
  <2>2. c = [id |-> id, offset |-> [i \in Broadcasts |-> its[i].start[1]]] BY <2>1 DEF Call
  <2> HIDE DEF c
  <2> QED BY <2>1, <2>2
<1>4. c \in Records
  <2>1. 1 \in Dims BY DEF Dims
  <2>2. \A i \in Broadcasts : its[i].start[1] \in Int BY <1>1, <2>1, IteratorTypes
  <2>3. c = [id |-> id, offset |-> [i \in Broadcasts |-> its[i].start[1]]] BY <1>3 DEF Call
  <2> QED BY <2>2, <2>3 DEF Records
<1> HIDE DEF c
<1>5. calls \in Seq(Records) /\ DOMAIN calls = 1..1 /\ calls[1] = c BY <1>4
<1> HIDE DEF calls
<1>6. r \in Results BY <1>1, <1>5 DEF Results
<1>7. \A p \in Box(w, id, 0) : p = id
  <2> SUFFICES ASSUME NEW p \in Box(w, id, 0) PROVE p = id OBVIOUS
  <2>1. p \in Coordinates /\ \A n \in 0+1..4 : p[n] = id[n] BY DEF Box
  <2> QED BY <2>1, SameCoordinates DEF Dims
<1>8. id \in Box(w, id, 0) BY DEF Box
<1>9. \A i \in Broadcasts : c.offset[i] = its[i].start[1] + Moved(g[i], w, id, 0)
  <2> SUFFICES ASSUME NEW i \in Broadcasts
               PROVE  c.offset[i] = its[i].start[1] + Moved(g[i], w, id, 0)
    OBVIOUS
  <2>1. 1 \in Dims /\ g[i] \in Coordinates BY DEF Dims, Moves
  <2>2. Moved(g[i], w, id, 0) = 0 BY <2>1, MovedFacts
  <2>3. its[i].start[1] \in Int BY <1>1, <2>1, IteratorTypes
  <2> QED BY <1>3, <2>2, <2>3
<1>10. Goes(calls, Box(w, id, 0), w, g, its, 0) BY <1>3, <1>5, <1>7, <1>8, <1>9 DEF Goes
<1> QED BY <1>2, <1>6, <1>10 DEF Unrolls

LEMMA LevelUnrolls ==
    ASSUME NEW w \in LoopWindows, NEW g \in Moves, NEW dim \in Dims,
           NEW inner, UnrollsAll(inner, w, g, dim - 1)
    PROVE  UnrollsAll(Level(w, dim, inner), w, g, dim)
<1> SUFFICES ASSUME NEW id \in Coordinates, NEW its \in Aligned(w, g, dim)
             PROVE  Unrolls(Level(w, dim, inner)[id][its], w, g, id, its, dim)
  BY DEF UnrollsAll
<1>1. its \in Iterators /\ dim # 0 BY DEF Aligned, Dims
<1>2. Level(w, dim, inner)[id][its] = LoopOver(w, dim, inner, id, its) BY <1>1 DEF Level
<1> QED BY <1>2, LoopUnrolls

LEMMA LevelsOf ==
    ASSUME NEW w
    PROVE  \A dim \in 0..4 : ForEachDimension(w)[dim] = Level(w, dim, ForEachDimension(w)[dim - 1])
<1> DEFINE Eq(each) == each = [dim \in 0..4 |-> Level(w, dim, each[dim - 1])]
           l0 == Level(w, 0, {})
           l1 == Level(w, 1, l0)
           l2 == Level(w, 2, l1)
           l3 == Level(w, 3, l2)
           l4 == Level(w, 4, l3)
           f == [dim \in 0..4 |-> IF dim = 0 THEN l0 ELSE IF dim = 1 THEN l1
                                  ELSE IF dim = 2 THEN l2 ELSE IF dim = 3 THEN l3 ELSE l4]
<1>1. ForEachDimension(w) = CHOOSE each : Eq(each) BY Zenon DEF ForEachDimension, Level
<1>2. \A inner : Level(w, 0, inner) = l0
  <2> SUFFICES ASSUME NEW inner PROVE Level(w, 0, inner) = l0 OBVIOUS
  <2> QED BY DEF Level
<1>3. f[1] = Level(w, 1, f[0]) /\ f[2] = Level(w, 2, f[1]) /\ f[3] = Level(w, 3, f[2]) /\ f[4] = Level(w, 4, f[3])
  <2> HIDE DEF l0
  <2> QED OBVIOUS
<1>4. f[0] = Level(w, 0, f[0 - 1]) BY <1>2
<1> HIDE DEF l0, l1, l2, l3, l4
<1>5. \A dim \in 0..4 : f[dim] = Level(w, dim, f[dim - 1])
  <2> HIDE DEF f
  <2>1. 1 - 1 = 0 /\ 2 - 1 = 1 /\ 3 - 1 = 2 /\ 4 - 1 = 3 OBVIOUS
  <2>2. \A dim \in 0..4 : dim = 0 \/ dim = 1 \/ dim = 2 \/ dim = 3 \/ dim = 4 OBVIOUS
  <2> QED BY <1>3, <1>4, <2>1, <2>2
<1>6. f = [dim \in 0..4 |-> f[dim]] BY DEF f
<1>7. Eq(f)
  <2> HIDE DEF f
  <2> QED BY <1>5, <1>6
<1> HIDE DEF f
<1>8. Eq(ForEachDimension(w))
  <2> HIDE DEF Eq
  <2> QED BY <1>1, <1>7
<1> QED BY <1>8

(* All the loops: what execute_window_loop is for.                         *)
LEMMA AllUnroll ==
    ASSUME NEW w \in LoopWindows, NEW g \in Moves
    PROVE  UnrollsAll(ForEachDimension(w)[4], w, g, 4)
<1> DEFINE l(dim) == ForEachDimension(w)[dim]
<1>1. UnrollsAll(l(0), w, g, 0)
  <2>1. 0 \in 0..4 OBVIOUS
  <2> QED BY <2>1, LevelsOf, CallUnrolls
<1>2. ASSUME NEW dim \in Dims, UnrollsAll(l(dim - 1), w, g, dim - 1) PROVE UnrollsAll(l(dim), w, g, dim)
  <2>1. dim \in 0..4 BY DEF Dims
  <2> QED BY <1>2, <2>1, LevelsOf, LevelUnrolls
<1> HIDE DEF l
<1>3. 1 \in Dims /\ 2 \in Dims /\ 3 \in Dims /\ 4 \in Dims
      /\ 1 - 1 = 0 /\ 2 - 1 = 1 /\ 3 - 1 = 2 /\ 4 - 1 = 3
  BY DEF Dims
<1>4. UnrollsAll(l(1), w, g, 1) BY <1>1, <1>2, <1>3
<1>5. UnrollsAll(l(2), w, g, 2) BY <1>2, <1>3, <1>4
<1>6. UnrollsAll(l(3), w, g, 3) BY <1>2, <1>3, <1>5
<1>7. UnrollsAll(l(4), w, g, 4) BY <1>2, <1>3, <1>6
<1> QED BY <1>7 DEF l

Origin == [n \in Dims |-> 0]

LEMMA Concatenated ==
    ASSUME NEW S, NEW a \in Seq(S), NEW b \in Seq(S)
    PROVE  /\ a \o b \in Seq(S) /\ Len(a \o b) = Len(a) + Len(b)
           /\ \A n \in 1..Len(a) : (a \o b)[n] = a[n]
           /\ \A n \in Len(a)+1..Len(a)+Len(b) : (a \o b)[n] = b[n - Len(a)]
OBVIOUS

LEMMA FourElements ==
    ASSUME NEW S, NEW q \in Seq(S), Len(q) = 4
    PROVE  DOMAIN q = 1..4 /\ q = [n \in 1..4 |-> q[n]]
<1>1. q \in [1..Len(q) -> S] OBVIOUS
<1> QED BY <1>1

LEMMA TwoAndTwo ==
    ASSUME NEW S, NEW a \in Seq(S), NEW b \in Seq(S), Len(a) = 2, Len(b) = 2
    PROVE  /\ DOMAIN (a \o b) = 1..4
           /\ (a \o b)[1] = a[1] /\ (a \o b)[2] = a[2] /\ (a \o b)[3] = b[1] /\ (a \o b)[4] = b[2]
           /\ a \o b = [n \in 1..4 |-> (a \o b)[n]]
<1> DEFINE q == a \o b
<1>1. q \in Seq(S) /\ Len(q) = Len(a) + Len(b) BY Concatenated
<1>2. Len(q) = 4 BY <1>1
<1>3. /\ \A n \in 1..2 : q[n] = a[n]
      /\ \A n \in 2+1..2+2 : q[n] = b[n - 2]
  <2>1. /\ \A n \in 1..Len(a) : q[n] = a[n]
        /\ \A n \in Len(a)+1..Len(a)+Len(b) : q[n] = b[n - Len(a)]
    BY Concatenated
  <2> HIDE DEF q
  <2> QED BY <2>1
<1> HIDE DEF q
<1>4. q[1] = a[1] /\ q[2] = a[2] BY <1>3
<1>5. q[3] = b[1] /\ q[4] = b[2] BY <1>3
<1>6. DOMAIN q = 1..4 /\ q = [n \in 1..4 |-> q[n]] BY <1>1, <1>2, FourElements
<1> QED BY <1>4, <1>5, <1>6 DEF q

LEMMA AllDimensionsAre ==
    ASSUME NEW w, WindowOK(w)
    PROVE  /\ AllDimensions(w) \in LoopWindows
           /\ AllDimensions(w)[1] = w.x /\ AllDimensions(w)[2] = w.y
           /\ AllDimensions(w)[3] = Upper[1] /\ AllDimensions(w)[4] = Upper[2]
<1> DEFINE all == AllDimensions(w)
           xy == <<w.x, w.y>>
<1>1. w.x \in Dimension /\ w.y \in Dimension /\ Valid(w.x) /\ Valid(w.y) BY DEF WindowOK
<1>2. /\ Upper \in Seq(Dimension) /\ Len(Upper) = 2 /\ Valid(Upper[1]) /\ Valid(Upper[2])
      /\ Upper[1] \in Dimension /\ Upper[2] \in Dimension
  BY LoopAssumption
<1>3. xy \in Seq(Dimension) /\ Len(xy) = 2 /\ xy[1] = w.x /\ xy[2] = w.y BY <1>1
<1> HIDE DEF xy
<1>4. /\ DOMAIN (xy \o Upper) = 1..4
      /\ (xy \o Upper)[1] = xy[1] /\ (xy \o Upper)[2] = xy[2]
      /\ (xy \o Upper)[3] = Upper[1] /\ (xy \o Upper)[4] = Upper[2]
      /\ xy \o Upper = [n \in 1..4 |-> (xy \o Upper)[n]]
  <2> HIDE DEF all
  <2> QED BY <1>2, <1>3, TwoAndTwo
<1>5. all = xy \o Upper BY DEF AllDimensions, xy
<1> HIDE DEF all
<1>6. all = [n \in 1..4 |-> all[n]] /\ all[1] = w.x /\ all[2] = w.y /\ all[3] = Upper[1] /\ all[4] = Upper[2]
  BY <1>3, <1>4, <1>5
<1>7. \A n \in 1..4 : all[n] \in Dimension /\ Valid(all[n])
  <2>1. \A n \in 1..4 : n = 1 \/ n = 2 \/ n = 3 \/ n = 4 OBVIOUS
  <2> QED BY <1>1, <1>2, <1>6, <2>1
<1> QED BY <1>6, <1>7 DEF LoopWindows, Dims, all

LEMMA PackedStridesAre ==
    ASSUME NEW w \in LoopWindows
    PROVE  /\ PackedStrides(w) \in Coordinates
           /\ \A n \in 2..4 : PackedStrides(w)[n] = PackedStrides(w)[n - 1] * w[n - 1].end
<1> DEFINE Eq(stride) == stride = [n \in Dims |-> IF n = 1 THEN 1 ELSE stride[n - 1] * w[n - 1].end]
           s2 == w[1].end
           s3 == s2 * w[2].end
           s4 == s3 * w[3].end
           f == [n \in Dims |-> IF n = 1 THEN 1 ELSE IF n = 2 THEN s2 ELSE IF n = 3 THEN s3 ELSE s4]
<1>1. PackedStrides(w) = CHOOSE stride : Eq(stride) BY Zenon DEF PackedStrides
<1>2. w[1].end \in Int /\ w[2].end \in Int /\ w[3].end \in Int
  <2>1. 1 \in Dims /\ 2 \in Dims /\ 3 \in Dims BY DEF Dims
  <2> QED BY <2>1, DimensionTypes
<1>3. s2 \in Int /\ s3 \in Int /\ s4 \in Int BY <1>2
<1>4. 1 * w[1].end = s2 BY <1>2
<1>5. s2 * w[2].end = s3 /\ s3 * w[3].end = s4 OBVIOUS
<1> HIDE DEF s2, s3, s4
<1>6. f[1] = 1 /\ f[2] = f[1] * w[1].end /\ f[3] = f[2] * w[2].end /\ f[4] = f[3] * w[3].end
  BY <1>4, <1>5 DEF Dims
<1>7. f \in Coordinates BY <1>3 DEF Coordinates
<1>8. f = [n \in Dims |-> f[n]] OBVIOUS
<1> HIDE DEF f
<1>9. \A n \in Dims : f[n] = IF n = 1 THEN 1 ELSE f[n - 1] * w[n - 1].end
  <2>1. \A n \in Dims : n = 1 \/ n = 2 \/ n = 3 \/ n = 4 BY DEF Dims
  <2>2. 2 - 1 = 1 /\ 3 - 1 = 2 /\ 4 - 1 = 3 OBVIOUS
  <2> QED BY <1>6, <2>1, <2>2
<1>10. Eq(f) BY <1>8, <1>9
<1>11. Eq(PackedStrides(w))
  <2> HIDE DEF Eq
  <2> QED BY <1>1, <1>10
<1> DEFINE g == PackedStrides(w)
<1>12. g = [n \in Dims |-> IF n = 1 THEN 1 ELSE g[n - 1] * w[n - 1].end] BY <1>11
<1> HIDE DEF g
<1>13. g = [n \in Dims |-> g[n]] BY <1>12
<1>14. g[1] = 1 /\ g[2] = g[1] * w[1].end /\ g[3] = g[2] * w[2].end /\ g[4] = g[3] * w[3].end
  <2>1. 1 \in Dims /\ 2 \in Dims /\ 3 \in Dims /\ 4 \in Dims BY DEF Dims
  <2>2. 2 - 1 = 1 /\ 3 - 1 = 2 /\ 4 - 1 = 3 OBVIOUS
  <2>3. \A n \in Dims : g[n] = IF n = 1 THEN 1 ELSE g[n - 1] * w[n - 1].end BY <1>12
  <2> QED BY <2>1, <2>2, <2>3
<1>15. g[1] \in Int /\ g[2] \in Int /\ g[3] \in Int /\ g[4] \in Int
  <2>1. g[1] \in Int BY <1>14
  <2>2. g[2] \in Int BY <1>2, <1>14, <2>1
  <2>3. g[3] \in Int BY <1>2, <1>14, <2>2
  <2> QED BY <1>2, <1>14, <2>1, <2>2, <2>3
<1>16. \A n \in Dims : g[n] \in Int
  <2>1. \A n \in Dims : n = 1 \/ n = 2 \/ n = 3 \/ n = 4 BY DEF Dims
  <2> QED BY <1>15, <2>1
<1>17. g \in Coordinates BY <1>13, <1>16 DEF Coordinates
<1>18. \A n \in 2..4 : g[n] = g[n - 1] * w[n - 1].end
  <2>1. \A n \in 2..4 : n = 2 \/ n = 3 \/ n = 4 OBVIOUS
  <2>2. 2 - 1 = 1 /\ 3 - 1 = 2 /\ 4 - 1 = 3 OBVIOUS
  <2> QED BY <1>14, <2>1, <2>2
<1> QED BY <1>17, <1>18 DEF g

(* The strides of a tensor that stays where it is in the dimensions ones.  *)
Strides(strides, ones) == [n \in Dims |-> IF n \in ones THEN 0 ELSE strides[n]]

(* The calls of execute_window_loop, for the window w.                     *)
LoopCalls(calls, w, strides) ==
    /\ calls \in Seq(Records)
    /\ \A k \in DOMAIN calls : /\ calls[k].id \in Coordinates
                               /\ \A n \in Dims : calls[k].id[n] \in Steps(w[n])
    /\ \A p \in Coordinates : (\A n \in Dims : p[n] \in Steps(w[n])) => \E k \in DOMAIN calls : calls[k].id = p
    /\ \A k, l \in DOMAIN calls : k < l => Earlier(calls[k].id, calls[l].id)
    /\ \A k \in DOMAIN calls, ones \in Broadcasts :
          calls[k].offset[ones] = Dot(strides, [n \in Dims |-> IF n \in ones THEN 0 ELSE calls[k].id[n]])

LEMMA OffsetOf ==
    ASSUME NEW w \in LoopWindows, NEW strides \in Coordinates, NEW ones, NEW p \in Coordinates
    PROVE  Dot(strides, [n \in Dims |-> Broadcast(w, ones)[n].start]) + Moved(Strides(strides, ones), w, p, 4)
             = Dot(strides, [n \in Dims |-> IF n \in ones THEN 0 ELSE p[n]])
<1> DEFINE g == Strides(strides, ones)
           a(n) == strides[n] * (IF n \in ones THEN 0 ELSE w[n].start)
           b(n) == g[n] * (p[n] - w[n].start)
           c(n) == strides[n] * (IF n \in ones THEN 0 ELSE p[n])
<1>1. ASSUME NEW n \in Dims
      PROVE  a(n) \in Int /\ b(n) \in Int /\ c(n) \in Int /\ a(n) + b(n) = c(n)
  <2> DEFINE x == strides[n]
             y == p[n]
             z == w[n].start
  <2>1. x \in Int /\ y \in Int /\ z \in Int BY DimensionTypes DEF Coordinates
  <2>2. g[n] = IF n \in ones THEN 0 ELSE x BY DEF Strides
  <2> HIDE DEF x, y, z, g
  <2>3. CASE n \in ones
    <3>1. x * 0 = 0 /\ 0 * (y - z) = 0 BY <2>1
    <3> QED BY <2>2, <2>3, <3>1 DEF x, y, z
  <2>4. CASE n \notin ones
    <3>1. x * z + x * (y - z) = x * y /\ x * z \in Int /\ x * (y - z) \in Int /\ x * y \in Int BY <2>1
    <3> QED BY <2>2, <2>4, <3>1 DEF x, y, z
  <2> QED BY <2>3, <2>4
<1>2. 1 \in Dims /\ 2 \in Dims /\ 3 \in Dims /\ 4 \in Dims BY DEF Dims
<1>3. Dot(strides, [n \in Dims |-> Broadcast(w, ones)[n].start]) = a(1) + a(2) + a(3) + a(4)
  <2>1. \A n \in Dims : Broadcast(w, ones)[n].start = IF n \in ones THEN 0 ELSE w[n].start
    BY DEF Broadcast
  <2> QED BY <1>2, <2>1 DEF Dot
<1>4. Dot(strides, [n \in Dims |-> IF n \in ones THEN 0 ELSE p[n]]) = c(1) + c(2) + c(3) + c(4)
  BY <1>2 DEF Dot
<1>5. Moved(g, w, p, 4) = b(1) + b(2) + b(3) + b(4) BY DEF Moved
<1> HIDE DEF a, b, c
<1> QED BY <1>1, <1>2, <1>3, <1>4, <1>5

LEMMA ExecuteWindowLoopIs ==
    ASSUME NEW w \in LoopWindows, NEW strides \in Coordinates
    PROVE  LoopCalls(ExecuteWindowLoop(w, strides), w, strides)
<1> DEFINE zero == <<0, 0, 0, 0>>
           its == [ones \in Broadcasts |-> NewIterator(strides, Broadcast(w, ones))]
           g == [ones \in Broadcasts |-> Strides(strides, ones)]
           r == ForEachDimension(w)[4][zero][its]
           calls == r.calls
<1>1. zero \in Coordinates BY DEF Coordinates, Dims
<1>2. \A n \in Dims : strides[n] \in Int /\ w[n].start \in Int /\ w[n].step \in Int
  BY DimensionTypes DEF Coordinates
<1>3. g \in Moves BY <1>2 DEF Moves, Coordinates, Strides
<1>4. ASSUME NEW ones \in Broadcasts
      PROVE  /\ its[ones] \in [start : Coordinates, stride : Coordinates]
             /\ \A n \in Dims : its[ones].stride[n] = w[n].step * g[ones][n]
             /\ \A n \in Dims : its[ones].start[n] = Dot(strides, [m \in Dims |-> Broadcast(w, ones)[m].start])
  <2> DEFINE bw == Broadcast(w, ones)
             first == Dot(strides, [m \in Dims |-> bw[m].start])
  <2>1. its[ones] = [start |-> [n \in Dims |-> first], stride |-> [n \in Dims |-> bw[n].step * strides[n]]]
    BY DEF NewIterator
  <2>2. \A n \in Dims : /\ bw[n].start = (IF n \in ones THEN 0 ELSE w[n].start)
                        /\ bw[n].step = (IF n \in ones THEN 0 ELSE w[n].step)
    BY DEF Broadcast
  <2> HIDE DEF bw
  <2>3. 1 \in Dims /\ 2 \in Dims /\ 3 \in Dims /\ 4 \in Dims BY DEF Dims
  <2>4. first \in Int
    <3>1. \A n \in Dims : bw[n].start \in Int BY <1>2, <2>2
    <3>2. \A n \in Dims : strides[n] * bw[n].start \in Int BY <1>2, <3>1
    <3>3. first = strides[1] * bw[1].start + strides[2] * bw[2].start
                  + strides[3] * bw[3].start + strides[4] * bw[4].start
      BY <2>3 DEF Dot
    <3> QED BY <2>3, <3>2, <3>3
  <2>5. \A n \in Dims : /\ bw[n].step * strides[n] \in Int
                        /\ bw[n].step * strides[n] = w[n].step * g[ones][n]
    <3> SUFFICES ASSUME NEW n \in Dims
                 PROVE  /\ bw[n].step * strides[n] \in Int
                        /\ bw[n].step * strides[n] = w[n].step * g[ones][n]
      OBVIOUS
    <3>1. g[ones][n] = IF n \in ones THEN 0 ELSE strides[n] BY DEF Strides
    <3>2. CASE n \in ones
      <4>1. 0 * strides[n] = 0 /\ w[n].step * 0 = 0 BY <1>2
      <4> QED BY <2>2, <3>1, <3>2, <4>1
    <3>3. CASE n \notin ones BY <1>2, <2>2, <3>1, <3>3
    <3> QED BY <3>2, <3>3
  <2> HIDE DEF first, its
  <2>6. [n \in Dims |-> first] \in Coordinates /\ [n \in Dims |-> bw[n].step * strides[n]] \in Coordinates
    BY <2>4, <2>5 DEF Coordinates
  <2>7. its[ones] \in [start : Coordinates, stride : Coordinates] BY <2>1, <2>6
  <2>8. \A n \in Dims : its[ones].stride[n] = w[n].step * g[ones][n]
    <3>1. its[ones].stride = [n \in Dims |-> bw[n].step * strides[n]] BY <2>1
    <3> HIDE DEF g
    <3> QED BY <2>5, <3>1
  <2>9. \A n \in Dims : its[ones].start[n] = first
    <3>1. its[ones].start = [n \in Dims |-> first] BY <2>1
    <3> QED BY <3>1
  <2> QED BY <2>7, <2>8, <2>9 DEF first, bw
<1>5. DOMAIN its = Broadcasts /\ its = [ones \in Broadcasts |-> its[ones]] OBVIOUS
<1> HIDE DEF its
<1>6. its \in Aligned(w, g, 4)
  <2>1. its \in Iterators BY <1>4, <1>5 DEF Iterators
  <2>2. \A n \in 1..4 : n \in Dims BY DEF Dims
  <2>3. 1 \in Dims BY DEF Dims
  <2> HIDE DEF g
  <2> QED BY <1>4, <2>1, <2>2, <2>3 DEF Aligned
<1>7. Unrolls(r, w, g, zero, its, 4)
  <2>1. UnrollsAll(ForEachDimension(w)[4], w, g, 4) BY <1>3, AllUnroll
  <2> HIDE DEF zero, g
  <2> QED BY <1>1, <1>6, <2>1 DEF UnrollsAll
<1>8. calls = ExecuteWindowLoop(w, strides) BY DEF ExecuteWindowLoop, its
<1> HIDE DEF zero, r
<1>9. /\ calls \in Seq(Records) /\ Goes(calls, Box(w, zero, 4), w, g, its, 4)
  BY <1>7 DEF Unrolls, Results
<1> HIDE DEF calls
<1>10. \A p : p \in Box(w, zero, 4) <=> p \in Coordinates /\ \A n \in Dims : p[n] \in Steps(w[n])
  <2>1. \A n \in 4+1..4 : FALSE OBVIOUS
  <2> QED BY <2>1 DEF Box, Dims
<1>11. ASSUME NEW k \in DOMAIN calls, NEW ones \in Broadcasts
       PROVE  calls[k].offset[ones] = Dot(strides, [n \in Dims |-> IF n \in ones THEN 0 ELSE calls[k].id[n]])
  <2> DEFINE p == calls[k].id
  <2>1. p \in Coordinates BY <1>9, <1>10 DEF Goes
  <2>2. calls[k].offset[ones] = its[ones].start[1] + Moved(g[ones], w, p, 4) BY <1>9 DEF Goes
  <2>3. g[ones] = Strides(strides, ones) OBVIOUS
  <2>4. its[ones].start[1] = Dot(strides, [n \in Dims |-> Broadcast(w, ones)[n].start])
    <3>1. 1 \in Dims BY DEF Dims
    <3> QED BY <1>4, <3>1
  <2> HIDE DEF p, g
  <2>5. Dot(strides, [n \in Dims |-> Broadcast(w, ones)[n].start]) + Moved(Strides(strides, ones), w, p, 4)
          = Dot(strides, [n \in Dims |-> IF n \in ones THEN 0 ELSE p[n]])
    BY <2>1, OffsetOf
  <2> QED BY <2>2, <2>3, <2>4, <2>5 DEF p
<1>12. /\ \A k \in DOMAIN calls : /\ calls[k].id \in Coordinates
                                  /\ \A n \in Dims : calls[k].id[n] \in Steps(w[n])
       /\ \A p \in Coordinates :
             (\A n \in Dims : p[n] \in Steps(w[n])) => \E k \in DOMAIN calls : calls[k].id = p
       /\ \A k, l \in DOMAIN calls : k < l => Earlier(calls[k].id, calls[l].id)
  BY <1>9, <1>10 DEF Goes
<1>13. LoopCalls(calls, w, strides) BY <1>9, <1>11, <1>12 DEF LoopCalls
<1> QED BY <1>8, <1>13

LEMMA EarlierIsOther ==
    ASSUME NEW a \in Coordinates, NEW b \in Coordinates, Earlier(a, b)
    PROVE  a # b
BY DEF Earlier, Coordinates

(* The iterations of a window with all its dimensions.                     *)
LEMMA TuplesOf ==
    ASSUME NEW w \in LoopWindows, NEW x
    PROVE  x \in Steps(w[1]) \X Steps(w[2]) \X Steps(w[3]) \X Steps(w[4])
             <=> x \in Coordinates /\ \A n \in Dims : x[n] \in Steps(w[n])
<1>1. 1 \in Dims /\ 2 \in Dims /\ 3 \in Dims /\ 4 \in Dims
      /\ \A n \in Dims : n = 1 \/ n = 2 \/ n = 3 \/ n = 4
  BY DEF Dims
<1>2. \A n \in Dims : Steps(w[n]) \subseteq Int
  <2> SUFFICES ASSUME NEW n \in Dims PROVE Steps(w[n]) \subseteq Int OBVIOUS
  <2>1. w[n].start \in Int /\ w[n].end \in Int BY DimensionTypes
  <2> QED BY <2>1 DEF Steps
<1> DEFINE s(n) == Steps(w[n])
<1>3. s(1) \subseteq Int /\ s(2) \subseteq Int /\ s(3) \subseteq Int /\ s(4) \subseteq Int BY <1>1, <1>2
<1> HIDE DEF s
<1>4. ASSUME x \in s(1) \X s(2) \X s(3) \X s(4)
      PROVE  x \in Coordinates /\ x[1] \in s(1) /\ x[2] \in s(2) /\ x[3] \in s(3) /\ x[4] \in s(4)
  <2>1. PICK a \in s(1), b \in s(2), c \in s(3), d \in s(4) : x = <<a, b, c, d>> BY <1>4
  <2>2. a \in Int /\ b \in Int /\ c \in Int /\ d \in Int BY <1>3
  <2> QED BY <2>1, <2>2 DEF Coordinates, Dims
<1>5. ASSUME x \in Coordinates, x[1] \in s(1), x[2] \in s(2), x[3] \in s(3), x[4] \in s(4)
      PROVE  x \in s(1) \X s(2) \X s(3) \X s(4)
  <2>1. x = <<x[1], x[2], x[3], x[4]>> BY <1>5 DEF Coordinates, Dims
  <2> QED BY <1>5, <2>1
<1>6. (\A n \in Dims : x[n] \in Steps(w[n])) <=> x[1] \in s(1) /\ x[2] \in s(2) /\ x[3] \in s(3) /\ x[4] \in s(4)
  BY <1>1 DEF s
<1> QED BY <1>4, <1>5, <1>6 DEF s

(* The calls for one of the windows of a call of schedule.                 *)
LEMMA CallsOfWindow ==
    ASSUME NEW v, WindowOK(v), NEW strides \in Coordinates
    PROVE  LET ids == Ids(ExecuteWindowLoop(AllDimensions(v), strides))
           IN  /\ IsInjective(ids)
               /\ \A x : x \in Range(ids) <=> /\ x \in Coordinates /\ <<x[1], x[2]>> \in Points(v)
                                              /\ x[3] \in Steps(Upper[1]) /\ x[4] \in Steps(Upper[2])
<1> DEFINE w == AllDimensions(v)
           calls == ExecuteWindowLoop(w, strides)
           ids == Ids(calls)
<1>1. w \in LoopWindows /\ w[1] = v.x /\ w[2] = v.y /\ w[3] = Upper[1] /\ w[4] = Upper[2]
  BY AllDimensionsAre
<1> HIDE DEF w
<1>2. LoopCalls(calls, w, strides) BY <1>1, ExecuteWindowLoopIs
<1> HIDE DEF calls
<1>3. DOMAIN ids = DOMAIN calls /\ \A k \in DOMAIN calls : ids[k] = calls[k].id BY DEF Ids
<1>4. calls \in Seq(Records) /\ \A k \in DOMAIN calls : k \in Int /\ calls[k].id \in Coordinates
  BY <1>2 DEF LoopCalls
<1> HIDE DEF ids
<1>5. \A k, l \in DOMAIN calls : k < l => ids[k] # ids[l]
  <2> SUFFICES ASSUME NEW k \in DOMAIN calls, NEW l \in DOMAIN calls, k < l PROVE ids[k] # ids[l]
    OBVIOUS
  <2>1. Earlier(calls[k].id, calls[l].id) BY <1>2 DEF LoopCalls
  <2> QED BY <1>3, <1>4, <2>1, EarlierIsOther
<1>6. IsInjective(ids)
  <2> SUFFICES ASSUME NEW k \in DOMAIN calls, NEW l \in DOMAIN calls, ids[k] = ids[l], k # l PROVE FALSE
    BY <1>3 DEF IsInjective
  <2>1. k < l \/ l < k BY <1>4
  <2> QED BY <1>5, <2>1
<1>7. \A x : x \in Range(ids) <=> x \in Coordinates /\ \A n \in Dims : x[n] \in Steps(w[n])
  BY <1>2, <1>3 DEF LoopCalls, Range
<1>8. \A x : (\A n \in Dims : x[n] \in Steps(w[n]))
               <=> /\ <<x[1], x[2]>> \in Points(v)
                   /\ x[3] \in Steps(Upper[1]) /\ x[4] \in Steps(Upper[2])
  <2> SUFFICES ASSUME NEW x
               PROVE  (\A n \in Dims : x[n] \in Steps(w[n]))
                        <=> /\ <<x[1], x[2]>> \in Points(v)
                            /\ x[3] \in Steps(Upper[1]) /\ x[4] \in Steps(Upper[2])
    OBVIOUS
  <2>1. 1 \in Dims /\ 2 \in Dims /\ 3 \in Dims /\ 4 \in Dims
        /\ \A n \in Dims : n = 1 \/ n = 2 \/ n = 3 \/ n = 4
    BY DEF Dims
  <2>2. <<x[1], x[2]>> \in Points(v) <=> x[1] \in Steps(w[1]) /\ x[2] \in Steps(w[2]) BY <1>1 DEF Points
  <2> QED BY <1>1, <2>1, <2>2
<1> QED BY <1>6, <1>7, <1>8 DEF ids, calls, w

LEMMA ReadyWindows ==
    ASSUME SInv, Ready
    PROVE  /\ Cuts(windows, call.window) /\ WindowOK(call.window)
           /\ PackedStrides(AllDimensions(call.window)) \in Coordinates
<1>1. pc \in {"queued", "whole"} BY DEF Ready
<1>2. Cuts(windows, call.window) /\ call \in Calls BY <1>1 DEF SInv, ReadyInv, CallInv
<1>3. WindowOK(call.window) BY <1>2, CallsAreOK
<1> QED BY <1>2, <1>3, AllDimensionsAre, PackedStridesAre

(* Whatever the parts a window was cut into, the nested loops of all the   *)
(* workloads call the lambda exactly once for each iteration of the window *)
(* in all its dimensions.                                                  *)
THEOREM NestedLoopsRunOnce == Spec => []LoopsRunOnce
<1>1. SInv => LoopsRunOnce
  <2> SUFFICES ASSUME SInv, Ready PROVE LoopsRunOnce BY DEF LoopsRunOnce
  <2> DEFINE full == AllDimensions(call.window)
             strides == PackedStrides(full)
             ids == [w \in DOMAIN windows |-> Ids(ExecuteWindowLoop(AllDimensions(windows[w]), strides))]
             all == Steps(full[1]) \X Steps(full[2]) \X Steps(full[3]) \X Steps(full[4])
  <2>1. Cuts(windows, call.window) /\ WindowOK(call.window) /\ strides \in Coordinates
    BY ReadyWindows
  <2>2. full \in LoopWindows /\ full[1] = call.window.x /\ full[2] = call.window.y
        /\ full[3] = Upper[1] /\ full[4] = Upper[2]
    BY <2>1, AllDimensionsAre
  <2> HIDE DEF strides, full
  <2>3. ASSUME NEW w \in DOMAIN windows
        PROVE  /\ IsInjective(ids[w])
               /\ \A x : x \in Range(ids[w]) <=> /\ x \in Coordinates /\ <<x[1], x[2]>> \in Points(windows[w])
                                                 /\ x[3] \in Steps(Upper[1]) /\ x[4] \in Steps(Upper[2])
    <3>1. WindowOK(windows[w]) BY <2>1 DEF Cuts
    <3>2. ids[w] = Ids(ExecuteWindowLoop(AllDimensions(windows[w]), strides)) OBVIOUS
    <3> HIDE DEF ids
    <3> QED BY <2>1, <3>1, <3>2, CallsOfWindow
  <2>4. \A x : x \in all <=> /\ x \in Coordinates /\ <<x[1], x[2]>> \in Points(call.window)
                             /\ x[3] \in Steps(Upper[1]) /\ x[4] \in Steps(Upper[2])
    <3> SUFFICES ASSUME NEW x
                 PROVE  x \in all <=> /\ x \in Coordinates /\ <<x[1], x[2]>> \in Points(call.window)
                                      /\ x[3] \in Steps(Upper[1]) /\ x[4] \in Steps(Upper[2])
      OBVIOUS
    <3>1. x \in all <=> x \in Coordinates /\ \A n \in Dims : x[n] \in Steps(full[n])
      BY <2>2, TuplesOf
    <3>2. 1 \in Dims /\ 2 \in Dims /\ 3 \in Dims /\ 4 \in Dims
          /\ \A n \in Dims : n = 1 \/ n = 2 \/ n = 3 \/ n = 4
      BY DEF Dims
    <3>3. <<x[1], x[2]>> \in Points(call.window) <=> x[1] \in Steps(full[1]) /\ x[2] \in Steps(full[2])
      BY <2>2 DEF Points
    <3> HIDE DEF all
    <3> QED BY <2>2, <3>1, <3>2, <3>3
  <2> HIDE DEF all, ids
  <2>5. UNION {Range(ids[w]) : w \in DOMAIN windows} = all
    <3>1. ASSUME NEW w \in DOMAIN windows, NEW x \in Range(ids[w]) PROVE x \in all
      <4>1. Points(windows[w]) \subseteq Points(call.window) BY <2>1 DEF Cuts
      <4> QED BY <2>3, <2>4, <4>1
    <3>2. ASSUME NEW x \in all PROVE \E w \in DOMAIN windows : x \in Range(ids[w])
      <4>1. <<x[1], x[2]>> \in Points(call.window) BY <2>4
      <4>2. PICK w \in DOMAIN windows : <<x[1], x[2]>> \in Points(windows[w]) BY <2>1, <4>1 DEF Cuts
      <4> QED BY <2>3, <2>4, <4>2
    <3> QED BY <3>1, <3>2
  <2>6. \A v, w \in DOMAIN windows : v # w => Range(ids[v]) \intersect Range(ids[w]) = {}
    <3> SUFFICES ASSUME NEW v \in DOMAIN windows, NEW w \in DOMAIN windows, v # w,
                        NEW x \in Range(ids[v]), x \in Range(ids[w])
                 PROVE  FALSE
      OBVIOUS
    <3>1. Points(windows[v]) \intersect Points(windows[w]) = {} BY <2>1 DEF Cuts
    <3>2. <<x[1], x[2]>> \in Points(windows[v]) /\ <<x[1], x[2]>> \in Points(windows[w]) BY <2>3
    <3> QED BY <3>1, <3>2
  <2> QED BY <2>3, <2>5, <2>6 DEF LoopsRunOnce, ids, all, full, strides
<1> QED BY <1>1, SInvAlways, PTL

(* At each call of the lambda, an iterator of a tensor of any shape, with  *)
(* one element along the dimensions that are broadcast, points to the      *)
(* element with the coordinates id.                                        *)
THEOREM IteratorsPointToTheirElement == Spec => []IteratorsFollow
<1>1. SInv => IteratorsFollow
  <2> SUFFICES ASSUME SInv, Ready, NEW w \in DOMAIN windows
               PROVE  LET strides == PackedStrides(AllDimensions(call.window))
                          calls   == ExecuteWindowLoop(AllDimensions(windows[w]), strides)
                      IN  \A k \in DOMAIN calls, ones \in Broadcasts :
                             calls[k].offset[ones]
                               = Dot(strides, [n \in Dims |-> IF n \in ones THEN 0 ELSE calls[k].id[n]])
    BY DEF IteratorsFollow
  <2>1. Cuts(windows, call.window) /\ PackedStrides(AllDimensions(call.window)) \in Coordinates
    BY ReadyWindows
  <2>2. AllDimensions(windows[w]) \in LoopWindows BY <2>1, AllDimensionsAre DEF Cuts
  <2> QED BY <2>1, <2>2, ExecuteWindowLoopIs DEF LoopCalls
<1> QED BY <1>1, SInvAlways, PTL

-----------------------------------------------------------------------------
(* Slices                                                                  *)

HasLeast(T, a, b, c, t) == \A u \in T :
    a[t] < a[u] \/ (a[t] = a[u] /\ (b[t] < b[u] \/ (b[t] = b[u] /\ c[t] <= c[u])))

(* A set with three measures has an element with the least of them, the    *)
(* first measure counting most.                                            *)
LEMMA LexicallyLeast ==
    ASSUME NEW T, T # {}, NEW a \in [T -> Nat], NEW b \in [T -> Nat], NEW c \in [T -> Nat]
    PROVE  \E t \in T : HasLeast(T, a, b, c, t)
<1> DEFINE A == {a[t] : t \in T}
<1>1. A \in SUBSET Nat /\ A # {} OBVIOUS
<1>2. PICK x \in A : \A y \in A : x <= y BY <1>1, SmallestExists
<1> DEFINE U == {t \in T : a[t] = x}
           B == {b[t] : t \in U}
<1>3. B \in SUBSET Nat /\ B # {} BY <1>2
<1>4. PICK y \in B : \A z \in B : y <= z BY <1>3, SmallestExists
<1> DEFINE V == {t \in U : b[t] = y}
           C == {c[t] : t \in V}
<1>5. C \in SUBSET Nat /\ C # {} BY <1>4
<1>6. PICK z \in C : \A v \in C : z <= v BY <1>5, SmallestExists
<1>7. PICK t \in V : c[t] = z BY <1>6
<1>8. t \in T /\ a[t] = x /\ b[t] = y /\ c[t] = z /\ x \in Nat /\ y \in Nat /\ z \in Nat BY <1>7
<1>9. ASSUME NEW u \in T
      PROVE  a[t] < a[u] \/ (a[t] = a[u] /\ (b[t] < b[u] \/ (b[t] = b[u] /\ c[t] <= c[u])))
  <2>1. a[u] \in Nat /\ b[u] \in Nat /\ c[u] \in Nat OBVIOUS
  <2>2. x <= a[u] BY <1>2
  <2>3. ASSUME a[u] = x PROVE y <= b[u] BY <1>4, <2>3
  <2>4. ASSUME a[u] = x, b[u] = y PROVE z <= c[u] BY <1>6, <2>4
  <2> HIDE DEF A, B, C, U, V
  <2> QED BY <1>8, <2>1, <2>2, <2>3, <2>4
<1> QED BY <1>8, <1>9 DEF HasLeast

(* The calls are those of P, each once, in order.                          *)
Lists(calls, P, strides) ==
    /\ calls \in Seq(Records)
    /\ \A k \in DOMAIN calls : calls[k].id \in P
    /\ \A p \in P : \E k \in DOMAIN calls : calls[k].id = p
    /\ \A k, l \in DOMAIN calls : k < l => Earlier(calls[k].id, calls[l].id)
    /\ \A k \in DOMAIN calls, ones \in Broadcasts :
          calls[k].offset[ones] = Dot(strides, [n \in Dims |-> IF n \in ones THEN 0 ELSE calls[k].id[n]])

Inside(w) == {p \in Coordinates : \A n \in Dims : p[n] \in Steps(w[n])}

LEMMA LoopLists ==
    ASSUME NEW w \in LoopWindows, NEW strides \in Coordinates
    PROVE  Lists(ExecuteWindowLoop(w, strides), Inside(w), strides)
<1> DEFINE calls == ExecuteWindowLoop(w, strides)
<1>1. LoopCalls(calls, w, strides) BY ExecuteWindowLoopIs
<1> HIDE DEF calls
<1> QED BY <1>1 DEF LoopCalls, Lists, Inside, calls

LEMMA EarlierIs ==
    ASSUME NEW x \in Coordinates, NEW y \in Coordinates
    PROVE  /\ \A n \in 1..4 : x[n] \in Int /\ y[n] \in Int
           /\ Earlier(x, y) <=> \/ x[4] < y[4]
                                \/ x[4] = y[4] /\ x[3] < y[3]
                                \/ x[4] = y[4] /\ x[3] = y[3] /\ x[2] < y[2]
                                \/ x[4] = y[4] /\ x[3] = y[3] /\ x[2] = y[2] /\ x[1] < y[1]
<1>1. /\ \A m \in 4+1..4 : FALSE
      /\ \A m \in 3+1..4 : m = 4
      /\ \A m \in 2+1..4 : m = 3 \/ m = 4
      /\ \A m \in 1+1..4 : m = 2 \/ m = 3 \/ m = 4
      /\ 4 \in 3+1..4 /\ 3 \in 2+1..4 /\ 4 \in 2+1..4
      /\ 2 \in 1+1..4 /\ 3 \in 1+1..4 /\ 4 \in 1+1..4
  OBVIOUS
<1>2. Earlier(x, y) <=> \/ x[1] < y[1] /\ \A m \in 1+1..4 : x[m] = y[m]
                        \/ x[2] < y[2] /\ \A m \in 2+1..4 : x[m] = y[m]
                        \/ x[3] < y[3] /\ \A m \in 3+1..4 : x[m] = y[m]
                        \/ x[4] < y[4] /\ \A m \in 4+1..4 : x[m] = y[m]
  <2>1. \A n \in Dims : n = 1 \/ n = 2 \/ n = 3 \/ n = 4 BY DEF Dims
  <2>2. 1 \in Dims /\ 2 \in Dims /\ 3 \in Dims /\ 4 \in Dims BY DEF Dims
  <2> QED BY ONLY <2>1, <2>2 DEF Earlier
<1> QED BY <1>1, <1>2 DEF Coordinates, Dims

LEMMA EarlierOrders ==
    ASSUME NEW x \in Coordinates, NEW y \in Coordinates
    PROVE  ~Earlier(x, x) /\ ~(Earlier(x, y) /\ Earlier(y, x))
<1>1. ~Earlier(x, x) BY EarlierIsOther
<1>2. \A n \in 1..4 : x[n] \in Int /\ y[n] \in Int BY EarlierIs
<1>3. x[1] \in Int /\ x[2] \in Int /\ x[3] \in Int /\ x[4] \in Int
      /\ y[1] \in Int /\ y[2] \in Int /\ y[3] \in Int /\ y[4] \in Int
  BY <1>2
<1>4. Earlier(x, y) <=> \/ x[4] < y[4]
                        \/ x[4] = y[4] /\ x[3] < y[3]
                        \/ x[4] = y[4] /\ x[3] = y[3] /\ x[2] < y[2]
                        \/ x[4] = y[4] /\ x[3] = y[3] /\ x[2] = y[2] /\ x[1] < y[1]
  BY EarlierIs
<1>5. Earlier(y, x) <=> \/ y[4] < x[4]
                        \/ y[4] = x[4] /\ y[3] < x[3]
                        \/ y[4] = x[4] /\ y[3] = x[3] /\ y[2] < x[2]
                        \/ y[4] = x[4] /\ y[3] = x[3] /\ y[2] = x[2] /\ y[1] < x[1]
  BY EarlierIs
<1> QED BY ONLY <1>1, <1>3, <1>4, <1>5

(* Where one of two lists has an element, the other has the same.          *)
LEMMA ListedAlike ==
    ASSUME NEW P \in SUBSET Coordinates, NEW strides, NEW a, NEW b,
           Lists(a, P, strides), Lists(b, P, strides)
    PROVE  \A k \in DOMAIN a : k \in DOMAIN b /\ a[k].id = b[k].id
<1> DEFINE n == Len(a)
           m == Len(b)
           Same(k) == k \in 1..n => k \in 1..m /\ a[k].id = b[k].id
           S == {i \in Nat : \A k \in 1..i : Same(k)}
<1>1. /\ n \in Nat /\ m \in Nat /\ DOMAIN a = 1..n /\ DOMAIN b = 1..m
      /\ \A k \in 1..n : a[k].id \in Coordinates
      /\ \A k \in 1..m : b[k].id \in Coordinates
  BY DEF Lists, Records
<1> HIDE DEF n, m
<1>2. 0 \in S OBVIOUS
<1>3. ASSUME NEW i \in Nat, i \in S PROVE i + 1 \in S
  <2> DEFINE k == i + 1
  <2>1. SUFFICES ASSUME k \in 1..n PROVE k \in 1..m /\ a[k].id = b[k].id
    <3>1. \A j \in 1..i+1 : j \in 1..i \/ j = i + 1 OBVIOUS
    <3> QED BY <1>3, <3>1
  <2>2. \A j \in 1..i : j \in 1..n /\ j \in 1..m /\ a[j].id = b[j].id
    <3>1. \A j \in 1..i : j \in 1..n BY <1>1, <2>1
    <3> QED BY <1>3, <3>1
  <2>3. PICK l \in 1..m : b[l].id = a[k].id BY <1>1, <2>1 DEF Lists
  <2>4. l >= k
    <3> SUFFICES ASSUME l \in 1..i PROVE FALSE BY <1>1, <2>3
    <3>1. a[l].id = a[k].id BY <2>2, <2>3
    <3>2. Earlier(a[l].id, a[k].id) BY <1>1, <2>1, <2>2 DEF Lists
    <3> QED BY <1>1, <2>1, <3>1, <3>2, EarlierOrders
  <2>5. k \in 1..m BY <1>1, <2>3, <2>4
  <2>6. PICK j \in 1..n : a[j].id = b[k].id BY <1>1, <2>5 DEF Lists
  <2>7. j >= k
    <3> SUFFICES ASSUME j \in 1..i PROVE FALSE BY <1>1, <2>6
    <3>1. b[j].id = b[k].id BY <2>2, <2>6
    <3>2. Earlier(b[j].id, b[k].id) BY <1>1, <2>2, <2>5 DEF Lists
    <3> QED BY <1>1, <2>5, <3>1, <3>2, EarlierOrders
  <2>8. l = k \/ Earlier(b[k].id, a[k].id)
    <3>1. l > k => Earlier(b[k].id, b[l].id) BY <1>1, <2>3, <2>5 DEF Lists
    <3>2. l = k \/ l > k BY <2>3, <2>4
    <3> QED BY <2>3, <3>1, <3>2
  <2>9. j = k \/ Earlier(a[k].id, b[k].id)
    <3>1. j > k => Earlier(a[k].id, a[j].id) BY <1>1, <2>1, <2>6 DEF Lists
    <3>2. j = k \/ j > k BY <2>6, <2>7
    <3> QED BY <2>6, <3>1, <3>2
  <2>10. a[k].id \in Coordinates /\ b[k].id \in Coordinates BY <1>1, <2>1, <2>5
  <2> QED BY <2>3, <2>5, <2>6, <2>8, <2>9, <2>10, EarlierOrders
<1> HIDE DEF S
<1>4. Nat \subseteq S BY <1>2, <1>3, SetInduction
<1>5. \A k \in 1..n : Same(k)
  <2>1. n \in S BY <1>1, <1>4
  <2> QED BY <2>1 DEF S
<1> QED BY <1>1, <1>5

(* So there is one list only.                                              *)
LEMMA ListedOnce ==
    ASSUME NEW P \in SUBSET Coordinates, NEW strides, NEW a, NEW b,
           Lists(a, P, strides), Lists(b, P, strides)
    PROVE  a = b
<1>1. \A k \in DOMAIN a : k \in DOMAIN b /\ a[k].id = b[k].id BY ListedAlike
<1>2. \A k \in DOMAIN b : k \in DOMAIN a BY ListedAlike
<1>3. a \in Seq(Records) /\ b \in Seq(Records) BY DEF Lists
<1>4. \A k \in DOMAIN a : a[k] \in Records /\ b[k] \in Records BY <1>1, <1>3
<1>5. \A k \in DOMAIN a : a[k].offset = b[k].offset
  <2> SUFFICES ASSUME NEW k \in DOMAIN a PROVE a[k].offset = b[k].offset OBVIOUS
  <2>1. \A ones \in Broadcasts : a[k].offset[ones] = b[k].offset[ones]
    <3> DEFINE p == a[k].id
    <3>1. p = b[k].id /\ k \in DOMAIN b BY <1>1
    <3>2. \A ones \in Broadcasts :
             /\ a[k].offset[ones] = Dot(strides, [n \in Dims |-> IF n \in ones THEN 0 ELSE p[n]])
             /\ b[k].offset[ones] = Dot(strides, [n \in Dims |-> IF n \in ones THEN 0 ELSE b[k].id[n]])
      BY <3>1 DEF Lists
    <3> HIDE DEF p
    <3> QED BY <3>1, <3>2, Zenon
  <2>2. a[k].offset \in [Broadcasts -> Int] /\ b[k].offset \in [Broadcasts -> Int] BY <1>4 DEF Records
  <2> QED BY <2>1, <2>2
<1>6. \A k \in DOMAIN a : a[k] = b[k] BY <1>1, <1>4, <1>5 DEF Records
<1>7. DOMAIN a = DOMAIN b BY <1>1, <1>2
<1>8. Len(a) = Len(b) BY <1>3, <1>7
<1> QED BY <1>3, <1>6, <1>8

LEMMA ListsJoin ==
    ASSUME NEW P \in SUBSET Coordinates, NEW Q \in SUBSET Coordinates, NEW strides, NEW a, NEW b,
           Lists(a, P, strides), Lists(b, Q, strides), \A x \in P, y \in Q : Earlier(x, y)
    PROVE  Lists(a \o b, P \union Q, strides)
<1> DEFINE n == Len(a)
           m == Len(b)
           all == a \o b
<1>1. /\ a \in Seq(Records) /\ b \in Seq(Records) /\ n \in Nat /\ m \in Nat
      /\ DOMAIN a = 1..n /\ DOMAIN b = 1..m
  BY DEF Lists
<1>2. /\ all \in Seq(Records) /\ DOMAIN all = 1..n+m
      /\ \A x \in 1..n : all[x] = a[x]
      /\ \A x \in n+1..n+m : all[x] = b[x - n]
  BY <1>1
<1> HIDE DEF n, m, all
<1>3. \A x \in 1..n+m : (x \in 1..n /\ all[x] = a[x]) \/ (x \in n+1..n+m /\ x - n \in 1..m /\ all[x] = b[x - n])
  BY <1>1, <1>2
<1>4. \A x \in 1..n+m : all[x].id \in P \union Q BY <1>1, <1>3 DEF Lists
<1>5. \A p \in P \union Q : \E x \in 1..n+m : all[x].id = p
  <2> SUFFICES ASSUME NEW p \in P \union Q PROVE \E x \in 1..n+m : all[x].id = p OBVIOUS
  <2>1. CASE p \in P
    <3>1. PICK x \in 1..n : a[x].id = p BY <1>1, <2>1 DEF Lists
    <3>2. x \in 1..n+m BY <1>1
    <3> QED BY <1>2, <3>1, <3>2
  <2>2. CASE p \in Q
    <3>1. PICK x \in 1..m : b[x].id = p BY <1>1, <2>2 DEF Lists
    <3>2. x + n \in 1..n+m /\ x + n \in n+1..n+m /\ (x + n) - n = x BY <1>1
    <3>3. all[x + n] = b[x] BY <1>2, <3>2
    <3> QED BY <3>1, <3>2, <3>3
  <2> QED BY <2>1, <2>2
<1>6. ASSUME NEW x \in 1..n+m, NEW y \in 1..n+m, x < y PROVE Earlier(all[x].id, all[y].id)
  <2>1. CASE x \in 1..n /\ y \in 1..n BY <1>1, <1>2, <1>6, <2>1 DEF Lists
  <2>2. CASE x \in n+1..n+m /\ y \in n+1..n+m
    <3>1. x - n \in 1..m /\ y - n \in 1..m /\ x - n < y - n BY <1>1, <1>6, <2>2
    <3>2. Earlier(b[x - n].id, b[y - n].id) BY <1>1, <3>1 DEF Lists
    <3> QED BY <1>2, <2>2, <3>2
  <2>3. CASE x \in 1..n /\ y \in n+1..n+m
    <3>1. y - n \in 1..m BY <1>1, <2>3
    <3>2. a[x].id \in P /\ b[y - n].id \in Q BY <1>1, <2>3, <3>1 DEF Lists
    <3> QED BY <1>2, <2>3, <3>2
  <2> QED BY <1>1, <1>6, <2>1, <2>2, <2>3
<1>7. ASSUME NEW x \in 1..n+m, NEW ones \in Broadcasts
      PROVE  all[x].offset[ones] = Dot(strides, [i \in Dims |-> IF i \in ones THEN 0 ELSE all[x].id[i]])
  <2>1. CASE x \in 1..n /\ all[x] = a[x] BY <1>1, <2>1 DEF Lists
  <2>2. CASE x - n \in 1..m /\ all[x] = b[x - n] BY <1>1, <2>2 DEF Lists
  <2> QED BY <1>3, <2>1, <2>2
<1> QED BY <1>2, <1>4, <1>5, <1>6, <1>7 DEF Lists, all

LEMMA FlattenIsIn ==
    ASSUME NEW V, NEW R \in Seq(Seq(V))
    PROVE  FlattenSeq(R) \in Seq(V)
<1>1. PICK F \in [0..Len(R) -> Seq(V)] : FlattenSeq(R) = F[Len(R)] BY FlattenIsJoining
<1>2. Len(R) \in 0..Len(R) OBVIOUS
<1> QED BY <1>1, <1>2

LEMMA FlattenOneMore ==
    ASSUME NEW V, NEW a \in Seq(V), NEW R \in Seq(Seq(V))
    PROVE  FlattenSeq(<<a>> \o R) = a \o FlattenSeq(R)
<1> DEFINE n == Len(R)
           Q == <<a>> \o R
<1>1. n \in Nat /\ Q \in Seq(Seq(V)) /\ Len(Q) = n + 1 /\ Q[1] = a
      /\ \A k \in 1..n : Q[k + 1] = R[k] /\ R[k] \in Seq(V)
  OBVIOUS
<1> HIDE DEF n, Q
<1>2. PICK F \in [0..n -> Seq(V)] : Joining(F, R, n) /\ FlattenSeq(R) = F[n]
  BY FlattenIsJoining DEF n
<1>3. PICK G \in [0..n+1 -> Seq(V)] : Joining(G, Q, n + 1) /\ FlattenSeq(Q) = G[n + 1]
  BY <1>1, FlattenIsJoining
<1> DEFINE S == {i \in Nat : i <= n => G[i + 1] = a \o F[i]}
<1>4. 0 \in S
  <2>1. G[0] = <<>> /\ F[0] = <<>> BY <1>2, <1>3 DEF Joining
  <2>2. 1 \in 1..n+1 /\ 1 - 1 = 0 BY <1>1
  <2>3. G[1] = G[1 - 1] \o Q[1] BY <1>3, <2>2 DEF Joining
  <2>4. G[1] = <<>> \o a BY <1>1, <2>1, <2>2, <2>3
  <2>5. <<>> \o a = a /\ a \o <<>> = a OBVIOUS
  <2> QED BY <2>1, <2>4, <2>5
<1>5. ASSUME NEW i \in Nat, i \in S PROVE i + 1 \in S
  <2> SUFFICES ASSUME i + 1 <= n PROVE G[(i + 1) + 1] = a \o F[i + 1] OBVIOUS
  <2>1. i + 1 \in 1..n /\ (i + 1) + 1 \in 1..n+1 /\ (i + 1) - 1 = i /\ ((i + 1) + 1) - 1 = i + 1 /\ i \in 0..n
    BY <1>1
  <2>2. G[(i + 1) + 1] = G[((i + 1) + 1) - 1] \o Q[(i + 1) + 1] BY <1>3, <2>1 DEF Joining
  <2>3. F[i + 1] = F[(i + 1) - 1] \o R[i + 1] BY <1>2, <2>1 DEF Joining
  <2>4. G[i + 1] = a \o F[i] BY <1>5, <2>1
  <2>5. G[(i + 1) + 1] = (a \o F[i]) \o R[i + 1] BY <1>1, <2>1, <2>2, <2>4
  <2>6. F[i + 1] = F[i] \o R[i + 1] BY <2>1, <2>3
  <2>7. F[i] \in Seq(V) /\ R[i + 1] \in Seq(V) BY <1>1, <2>1
  <2> DEFINE x == F[i]
             y == R[i + 1]
  <2>8. (a \o x) \o y = a \o (x \o y)
    <3>1. x \in Seq(V) /\ y \in Seq(V) BY <2>7
    <3> HIDE DEF x, y
    <3> QED BY ONLY <3>1, a \in Seq(V), ConcatAssociative
  <2> QED BY <2>5, <2>6, <2>7, <2>8
<1> HIDE DEF S
<1>6. Nat \subseteq S BY <1>4, <1>5, SetInduction
<1>7. G[n + 1] = a \o F[n]
  <2>1. n \in S BY <1>1, <1>6
  <2> QED BY <1>1, <2>1 DEF S
<1> QED BY <1>2, <1>3, <1>7 DEF Q

SliceTypes == [Dims -> [start : Int, end : Int, step : Int]]

Movable(w, k, s) == {n \in k+1..4 : s[n].start + 1 < w[n].end}

Slid(w, k, s) == SlideSlice(w, k, s, Least(Movable(w, k, s)))

(* n is the dimension that moves.                                          *)
Moving(w, k, s, n) == n \in Movable(w, k, s) /\ \A m \in Movable(w, k, s) : n <= m

LEMMA SlidIs ==
    ASSUME NEW w \in LoopWindows, NEW k \in 1..3, NEW s \in SliceTypes, Movable(w, k, s) # {}
    PROVE  \E n \in k+1..4 : /\ Moving(w, k, s, n)
                             /\ Slid(w, k, s) = SlideSlice(w, k, s, n) /\ Slid(w, k, s) \in SliceTypes
<1> DEFINE M == Movable(w, k, s)
           n == Least(M)
<1>1. M \subseteq Nat /\ M \subseteq k+1..4 BY DEF Movable
<1> HIDE DEF M
<1>2. n \in M /\ \A m \in M : n <= m BY <1>1, LeastExists DEF M
<1> HIDE DEF n
<1>3. SlideSlice(w, k, s, n) \in SliceTypes
  <2>1. n \in Dims /\ k \in Int BY <1>1, <1>2 DEF Dims
  <2>2. \A m \in Dims : w[m].start \in Int BY DimensionTypes
  <2>3. \A m \in Dims : s[m] \in [start : Int, end : Int, step : Int] BY DEF SliceTypes
  <2>4. \A v \in Int : One(v) \in [start : Int, end : Int, step : Int] BY DEF One
  <2>5. s[n].start + 1 \in Int BY <2>1, <2>3
  <2> QED BY <2>1, <2>2, <2>3, <2>4, <2>5 DEF SlideSlice, SliceTypes
<1>4. Slid(w, k, s) = SlideSlice(w, k, s, n) BY DEF Slid, M, n
<1> QED BY <1>1, <1>2, <1>3, <1>4 DEF Moving, M

(* The slices that the loop goes through from s on.                        *)
Going(w, k, s, q) ==
    /\ q \in Seq(SliceTypes) /\ Len(q) >= 1 /\ q[1] = s
    /\ \A i \in 1..Len(q) : IF Movable(w, k, q[i]) = {} THEN i = Len(q)
                            ELSE i < Len(q) /\ q[i + 1] = Slid(w, k, q[i])

LEMMA GoingAlike ==
    ASSUME NEW w, NEW k, NEW s, NEW q, NEW r, Going(w, k, s, q), Going(w, k, s, r)
    PROVE  \A i \in 1..Len(q) : i \in 1..Len(r) /\ q[i] = r[i]
<1> DEFINE n == Len(q)
           m == Len(r)
           S == {i \in Nat : i + 1 <= n => i + 1 <= m /\ q[i + 1] = r[i + 1]}
<1>1. n \in Nat /\ m \in Nat /\ n >= 1 /\ m >= 1 BY DEF Going
<1>2. /\ q[1] = s /\ r[1] = s
      /\ \A i \in 1..n : IF Movable(w, k, q[i]) = {} THEN i = n ELSE i < n /\ q[i + 1] = Slid(w, k, q[i])
      /\ \A i \in 1..m : IF Movable(w, k, r[i]) = {} THEN i = m ELSE i < m /\ r[i + 1] = Slid(w, k, r[i])
  BY DEF Going
<1> HIDE DEF n, m
<1>3. 0 \in S BY <1>1, <1>2
<1>4. ASSUME NEW i \in Nat, i \in S PROVE i + 1 \in S
  <2> SUFFICES ASSUME (i + 1) + 1 <= n PROVE (i + 1) + 1 <= m /\ q[(i + 1) + 1] = r[(i + 1) + 1] OBVIOUS
  <2>1. i + 1 \in 1..n /\ i + 1 # n /\ i + 1 \in 1..m /\ q[i + 1] = r[i + 1] BY <1>1, <1>4
  <2>2. Movable(w, k, q[i + 1]) # {} /\ q[(i + 1) + 1] = Slid(w, k, q[i + 1]) BY <1>2, <2>1
  <2>3. i + 1 < m /\ r[(i + 1) + 1] = Slid(w, k, r[i + 1]) BY <1>2, <2>1, <2>2
  <2> QED BY <1>1, <2>1, <2>2, <2>3
<1> HIDE DEF S
<1>5. Nat \subseteq S BY <1>3, <1>4, SetInduction
<1>6. ASSUME NEW i \in 1..n PROVE i \in 1..m /\ q[i] = r[i]
  <2>1. i - 1 \in Nat /\ (i - 1) + 1 = i BY <1>1
  <2>2. i - 1 \in S BY <1>5, <2>1
  <2> QED BY <1>1, <2>1, <2>2 DEF S
<1> QED BY <1>6 DEF n, m

LEMMA GoingOnce ==
    ASSUME NEW w, NEW k, NEW s, NEW q, NEW r, Going(w, k, s, q), Going(w, k, s, r)
    PROVE  q = r
<1>1. \A i \in 1..Len(q) : i \in 1..Len(r) /\ q[i] = r[i] BY GoingAlike
<1>2. \A i \in 1..Len(r) : i \in 1..Len(q) BY GoingAlike
<1>3. q \in Seq(SliceTypes) /\ r \in Seq(SliceTypes) /\ Len(q) >= 1 /\ Len(r) >= 1 BY DEF Going
<1>4. Len(q) = Len(r)
  <2>1. Len(q) \in 1..Len(q) /\ Len(r) \in 1..Len(r) BY <1>3
  <2>2. Len(q) \in 1..Len(r) /\ Len(r) \in 1..Len(q) BY <1>1, <1>2, <2>1
  <2> QED BY <1>3, <2>2
<1> QED BY <1>1, <1>3, <1>4

LEMMA GoingIs ==
    ASSUME NEW w \in LoopWindows, NEW k \in 1..3, NEW s \in SliceTypes, NEW q,
           IF Movable(w, k, s) = {} THEN q = <<>> ELSE Going(w, k, Slid(w, k, s), q)
    PROVE  Going(w, k, s, <<s>> \o q)
<1> DEFINE r == <<s>> \o q
<1>1. q \in Seq(SliceTypes)
  <2>1. CASE Movable(w, k, s) = {}
    <3>1. q = <<>> BY <2>1
    <3> QED BY <3>1
  <2>2. CASE Movable(w, k, s) # {} BY <2>2 DEF Going
  <2> QED BY <2>1, <2>2
<1> SUFFICES Going(w, k, s, r) OBVIOUS
<1>2. /\ r \in Seq(SliceTypes) /\ Len(r) = Len(q) + 1 /\ Len(q) \in Nat /\ r[1] = s
      /\ \A i \in 2..Len(q)+1 : r[i] = q[i - 1]
  BY <1>1
<1> HIDE DEF r
<1>3. CASE Movable(w, k, s) = {}
  <2>1. Len(r) = 1 BY <1>2, <1>3
  <2>2. \A i \in 1..Len(r) : i = 1 BY <2>1
  <2>3. \A i \in 1..Len(r) : Movable(w, k, r[i]) = {} /\ i = Len(r) BY <1>2, <1>3, <2>1, <2>2
  <2> QED BY <1>2, <2>1, <2>3 DEF Going
<1>4. CASE Movable(w, k, s) # {}
  <2>1. /\ Len(q) >= 1 /\ q[1] = Slid(w, k, s)
        /\ \A i \in 1..Len(q) : IF Movable(w, k, q[i]) = {} THEN i = Len(q)
                                ELSE i < Len(q) /\ q[i + 1] = Slid(w, k, q[i])
    BY <1>4 DEF Going
  <2>2. ASSUME NEW i \in 1..Len(r)
        PROVE  IF Movable(w, k, r[i]) = {} THEN i = Len(r) ELSE i < Len(r) /\ r[i + 1] = Slid(w, k, r[i])
    <3>1. CASE i = 1
      <4>1. r[1 + 1] = q[1]
        <5>1. 2 \in 2..Len(q)+1 /\ 2 - 1 = 1 BY <1>2, <2>1
        <5> QED BY <1>2, <5>1
      <4>2. 1 < Len(r) BY <1>2, <2>1
      <4> QED BY <1>2, <1>4, <2>1, <3>1, <4>1, <4>2
    <3>2. CASE i # 1
      <4>1. i \in 2..Len(q)+1 /\ i - 1 \in 1..Len(q) /\ (i - 1) + 1 = i BY <1>2, <3>2
      <4>2. r[i] = q[i - 1] BY <1>2, <4>1
      <4>3. CASE Movable(w, k, r[i]) = {}
        <5>1. i - 1 = Len(q) BY <2>1, <4>1, <4>2, <4>3
        <5> QED BY <1>2, <4>1, <4>3, <5>1
      <4>4. CASE Movable(w, k, r[i]) # {}
        <5>1. i - 1 < Len(q) /\ q[(i - 1) + 1] = Slid(w, k, q[i - 1]) BY <2>1, <4>1, <4>2, <4>4
        <5>2. i + 1 \in 2..Len(q)+1 /\ (i + 1) - 1 = i BY <1>2, <4>1, <5>1
        <5>3. r[i + 1] = q[i] BY <1>2, <5>2
        <5> QED BY <1>2, <4>1, <4>2, <4>4, <5>1, <5>3
      <4> QED BY <4>3, <4>4
    <3> QED BY <3>1, <3>2
  <2>3. Len(r) >= 1 BY <1>2
  <2> QED BY <1>2, <2>2, <2>3 DEF Going
<1> QED BY <1>3, <1>4

(* How far a slice can still move.                                         *)
Room(w, s, n) == IF s[n].start + 1 < w[n].end THEN w[n].end - s[n].start ELSE 0

LEMMA RoomIsLess ==
    ASSUME NEW w \in LoopWindows, NEW k \in 1..3, NEW s \in SliceTypes, NEW n \in k+1..4,
           Moving(w, k, s, n), SlideSlice(w, k, s, n) \in SliceTypes
    PROVE  /\ Room(w, SlideSlice(w, k, s, n), n) < Room(w, s, n)
           /\ \A m \in n+1..4 : Room(w, SlideSlice(w, k, s, n), m) = Room(w, s, m)
<1> DEFINE t == SlideSlice(w, k, s, n)
<1>1. n \in Dims /\ k \in Int /\ \A m \in n+1..4 : m \in Dims /\ m # n /\ ~(m < n) BY DEF Dims
<1>2. t[n].start = s[n].start + 1 /\ \A m \in n+1..4 : t[m] = s[m]
  BY <1>1 DEF SlideSlice, One
<1>3. s[n].start \in Int /\ w[n].end \in Int /\ s[n].start + 1 < w[n].end
  BY <1>1, DimensionTypes DEF SliceTypes, Moving, Movable
<1> HIDE DEF t
<1> QED BY <1>2, <1>3 DEF Room, t

LEMMA RoomIsNat ==
    ASSUME NEW w \in LoopWindows, NEW s \in SliceTypes, NEW n \in Dims
    PROVE  Room(w, s, n) \in Nat
<1>1. s[n].start \in Int /\ w[n].end \in Int BY DimensionTypes DEF SliceTypes
<1> QED BY <1>1 DEF Room

(* The loop over the slices ends.                                          *)
LEMMA GoingEnds ==
    ASSUME NEW w \in LoopWindows, NEW k \in 1..3, NEW s \in SliceTypes
    PROVE  \E q : Going(w, k, s, q)
<1> DEFINE Bad == {t \in SliceTypes : ~ \E q : Going(w, k, t, q)}
<1>0. SUFFICES ASSUME Bad # {} PROVE FALSE OBVIOUS
<1> DEFINE a == [t \in Bad |-> Room(w, t, 4)]
           b == [t \in Bad |-> Room(w, t, 3)]
           c == [t \in Bad |-> Room(w, t, 2)]
<1>1. a \in [Bad -> Nat] /\ b \in [Bad -> Nat] /\ c \in [Bad -> Nat]
  <2>1. 2 \in Dims /\ 3 \in Dims /\ 4 \in Dims BY DEF Dims
  <2>2. \A t \in Bad : Room(w, t, 4) \in Nat /\ Room(w, t, 3) \in Nat /\ Room(w, t, 2) \in Nat
    BY <2>1, RoomIsNat
  <2> HIDE DEF Bad
  <2> QED BY <2>2
<1>2. \A t \in Bad : t \in SliceTypes /\ ~ \E q : Going(w, k, t, q) OBVIOUS
<1>3. \A t \in SliceTypes : t \notin Bad => \E q : Going(w, k, t, q) OBVIOUS
<1> HIDE DEF Bad
<1>4. PICK t \in Bad : HasLeast(Bad, a, b, c, t)
  <2> HIDE DEF a, b, c
  <2> QED BY <1>0, <1>1, LexicallyLeast
<1>5. Movable(w, k, t) # {}
  <2> SUFFICES ASSUME Movable(w, k, t) = {} PROVE FALSE OBVIOUS
  <2>1. Going(w, k, t, <<t>> \o <<>>) BY <1>2, GoingIs
  <2> QED BY <1>2, <2>1
<1> DEFINE u == Slid(w, k, t)
<1>6. PICK n \in k+1..4 : Moving(w, k, t, n) /\ u = SlideSlice(w, k, t, n) /\ u \in SliceTypes
  BY <1>2, <1>5, SlidIs
<1>7. u \in Bad
  <2> SUFFICES ASSUME u \notin Bad PROVE FALSE OBVIOUS
  <2>1. PICK q : Going(w, k, u, q) BY <1>3, <1>6
  <2>2. Going(w, k, t, <<t>> \o q) BY <1>2, <1>5, <2>1, GoingIs
  <2> QED BY <1>2, <2>2
<1> HIDE DEF u
<1>8. Room(w, u, n) < Room(w, t, n) /\ \A m \in n+1..4 : Room(w, u, m) = Room(w, t, m)
  BY <1>2, <1>6, RoomIsLess
<1>9. a[t] = Room(w, t, 4) /\ b[t] = Room(w, t, 3) /\ c[t] = Room(w, t, 2)
      /\ a[u] = Room(w, u, 4) /\ b[u] = Room(w, u, 3) /\ c[u] = Room(w, u, 2)
  BY <1>7
<1>10. a[t] \in Nat /\ b[t] \in Nat /\ c[t] \in Nat /\ a[u] \in Nat /\ b[u] \in Nat /\ c[u] \in Nat
  BY <1>1, <1>7
<1>11. a[t] < a[u] \/ (a[t] = a[u] /\ (b[t] < b[u] \/ (b[t] = b[u] /\ c[t] <= c[u])))
  BY <1>4, <1>7 DEF HasLeast
<1> HIDE DEF a, b, c
<1>12. n = 2 \/ n = 3 \/ n = 4 OBVIOUS
<1>13. CASE n = 4 BY <1>8, <1>9, <1>10, <1>11, <1>13
<1>14. CASE n = 3
  <2>1. 4 \in n+1..4 BY <1>14
  <2> QED BY <1>8, <1>9, <1>10, <1>11, <1>14, <2>1
<1>15. CASE n = 2
  <2>1. 3 \in n+1..4 /\ 4 \in n+1..4 BY <1>15
  <2> QED BY <1>8, <1>9, <1>10, <1>11, <1>15, <2>1
<1> QED BY <1>12, <1>13, <1>14, <1>15

LEMMA SlicesRecurse ==
    ASSUME NEW w \in LoopWindows, NEW k \in 1..3
    PROVE  \E from : /\ Slices(w, k) = from[FirstSlice(w, k)]
                     /\ \A s \in SliceTypes : from[s] = <<s>> \o (IF Movable(w, k, s) = {} THEN <<>>
                                                                   ELSE from[Slid(w, k, s)])
<1> DEFINE Eq(from) ==
             from = [slice \in [Dims -> [start : Int, end : Int, step : Int]] |->
                        LET moves == {n \in k+1..4 : slice[n].start + 1 < w[n].end}
                        IN  <<slice>> \o (IF moves = {} THEN <<>> ELSE from[SlideSlice(w, k, slice, Least(moves))])]
           f == [s \in SliceTypes |-> CHOOSE q : Going(w, k, s, q)]
           from == CHOOSE g : Eq(g)
<1>1. Slices(w, k) = from[FirstSlice(w, k)] BY Zenon DEF Slices
<1>2. \A s \in SliceTypes : Going(w, k, s, f[s]) BY GoingEnds
<1>3. \A s \in SliceTypes : f[s] = <<s>> \o (IF Movable(w, k, s) = {} THEN <<>> ELSE f[Slid(w, k, s)])
  <2> SUFFICES ASSUME NEW s \in SliceTypes
               PROVE  f[s] = <<s>> \o (IF Movable(w, k, s) = {} THEN <<>> ELSE f[Slid(w, k, s)])
    OBVIOUS
  <2> DEFINE q == IF Movable(w, k, s) = {} THEN <<>> ELSE f[Slid(w, k, s)]
  <2> HIDE DEF f
  <2>1. IF Movable(w, k, s) = {} THEN q = <<>> ELSE Going(w, k, Slid(w, k, s), q)
    <3>1. CASE Movable(w, k, s) = {} BY <3>1
    <3>2. CASE Movable(w, k, s) # {}
      <4>1. Slid(w, k, s) \in SliceTypes BY <3>2, SlidIs
      <4>2. q = f[Slid(w, k, s)] BY <3>2
      <4> QED BY <1>2, <3>2, <4>1, <4>2
    <3> QED BY <3>1, <3>2
  <2> HIDE DEF q
  <2>2. Going(w, k, s, <<s>> \o q) BY <2>1, GoingIs
  <2>3. f[s] = <<s>> \o q BY <1>2, <2>2, GoingOnce
  <2> QED BY <2>3 DEF q
<1>4. Eq(f)
  <2>1. f = [s \in SliceTypes |-> f[s]] OBVIOUS
  <2> HIDE DEF f
  <2>2. f = [s \in SliceTypes |-> <<s>> \o (IF Movable(w, k, s) = {} THEN <<>> ELSE f[Slid(w, k, s)])]
    BY <1>3, <2>1
  <2> QED BY <2>2, Zenon DEF SliceTypes, Movable, Slid
<1>5. Eq(from)
  <2> HIDE DEF Eq, f
  <2> QED BY <1>4
<1> HIDE DEF from
<1>6. from = [s \in SliceTypes |-> <<s>> \o (IF Movable(w, k, s) = {} THEN <<>> ELSE from[Slid(w, k, s)])]
  BY <1>5, Zenon DEF SliceTypes, Movable, Slid
<1>7. \A s \in SliceTypes : from[s] = <<s>> \o (IF Movable(w, k, s) = {} THEN <<>> ELSE from[Slid(w, k, s)])
  BY <1>6
<1> QED BY <1>1, <1>7

(* The slice at p, and where slices can be.                                *)
SliceAt(w, k, p) == [n \in Dims |-> IF n <= k THEN w[n] ELSE One(p[n])]

Places(w, k) == {p \in Coordinates : /\ \A n \in 1..k : p[n] = w[n].start
                                     /\ \A n \in k+1..4 : w[n].start <= p[n] /\ p[n] < w[n].end}

NextPlace(w, k, p, n) == [m \in Dims |-> IF m = n THEN p[m] + 1 ELSE IF k < m /\ m < n THEN w[m].start ELSE p[m]]

(* What is left of the window from p on.                                   *)
FromPlace(w, p) == {x \in Inside(w) : ~Earlier(x, p)}

(* The dimensions from k + 1 on are cut.                                   *)
Cuttable(w, k) == \A n \in k+1..4 : w[n].step = 1 /\ w[n].start < w[n].end

LEMMA StepsOfOne ==
    /\ \A v \in Int : Steps(One(v)) = {v} /\ One(v) \in Dimension /\ Valid(One(v))
    /\ \A d \in Dimension, x \in Int : d.step = 1 => (x \in Steps(d) <=> d.start <= x /\ x < d.end)
    /\ \A d \in Dimension, x \in Int : x \in Steps(d) => d.start <= x /\ x < d.end
<1>1. ASSUME NEW v \in Int PROVE Steps(One(v)) = {v} /\ One(v) \in Dimension /\ Valid(One(v))
  <2>1. One(v) = [start |-> v, end |-> v + 1, step |-> 1] BY DEF One
  <2>2. v..(v + 1)-1 = {v} /\ (v - v) % 1 = 0 /\ ((v + 1) - v) % 1 = 0 OBVIOUS
  <2> QED BY <2>1, <2>2 DEF Steps, Dimension, Valid
<1>2. ASSUME NEW d \in Dimension, NEW x \in Int
      PROVE  /\ d.step = 1 => (x \in Steps(d) <=> d.start <= x /\ x < d.end)
             /\ x \in Steps(d) => d.start <= x /\ x < d.end
  <2>1. d.start \in Int /\ d.end \in Int /\ (x - d.start) % 1 = 0 BY DEF Dimension
  <2> QED BY <2>1 DEF Steps
<1> QED BY <1>1, <1>2

LEMMA SliceIsWindow ==
    ASSUME NEW w \in LoopWindows, NEW k \in 1..3, NEW p \in Places(w, k)
    PROVE  /\ SliceAt(w, k, p) \in LoopWindows /\ SliceAt(w, k, p) \in SliceTypes
           /\ \A n \in 1..k : SliceAt(w, k, p)[n] = w[n]
           /\ \A n \in k+1..4 : SliceAt(w, k, p)[n] = One(p[n])
<1>1. \A n \in Dims : p[n] \in Int BY DEF Places, Coordinates
<1>2. \A n \in Dims : SliceAt(w, k, p)[n] = IF n <= k THEN w[n] ELSE One(p[n]) BY DEF SliceAt
<1>3. \A n \in Dims : SliceAt(w, k, p)[n] \in Dimension /\ Valid(SliceAt(w, k, p)[n])
  <2> SUFFICES ASSUME NEW n \in Dims
               PROVE  SliceAt(w, k, p)[n] \in Dimension /\ Valid(SliceAt(w, k, p)[n])
    OBVIOUS
  <2>1. w[n] \in Dimension /\ Valid(w[n]) BY DimensionTypes
  <2>2. One(p[n]) \in Dimension /\ Valid(One(p[n])) BY <1>1, StepsOfOne
  <2> QED BY <1>2, <2>1, <2>2
<1>4. SliceAt(w, k, p) \in LoopWindows
  <2>1. SliceAt(w, k, p) \in [Dims -> Dimension] BY <1>3 DEF SliceAt
  <2> QED BY <1>3, <2>1 DEF LoopWindows
<1>5. SliceAt(w, k, p) \in SliceTypes
  <2>1. \A d \in Dimension : d \in [start : Int, end : Int, step : Int] BY DEF Dimension
  <2> QED BY <1>3, <2>1 DEF SliceAt, SliceTypes
<1>6. \A n \in 1..k : n \in Dims /\ n <= k BY DEF Dims
<1>7. \A n \in k+1..4 : n \in Dims /\ ~(n <= k) BY DEF Dims
<1> QED BY <1>2, <1>4, <1>5, <1>6, <1>7

LEMMA InsideSlice ==
    ASSUME NEW w \in LoopWindows, NEW k \in 1..3, NEW p \in Places(w, k), Cuttable(w, k), NEW x
    PROVE  /\ x \in Inside(w) => x \in Coordinates /\ \A n \in 1..4 : w[n].start <= x[n] /\ x[n] < w[n].end
           /\ x \in Inside(SliceAt(w, k, p)) <=> x \in Inside(w) /\ \A n \in k+1..4 : x[n] = p[n]
<1>1. \A n \in Dims : w[n] \in Dimension BY DimensionTypes
<1>2. ASSUME x \in Inside(w) PROVE x \in Coordinates /\ \A n \in 1..4 : w[n].start <= x[n] /\ x[n] < w[n].end
  <2>1. x \in Coordinates /\ \A n \in Dims : x[n] \in Steps(w[n]) /\ x[n] \in Int
    BY <1>2 DEF Inside, Coordinates
  <2>2. \A n \in 1..4 : n \in Dims BY DEF Dims
  <2> QED BY <1>1, <2>1, <2>2, StepsOfOne
<1>3. ASSUME x \in Coordinates
      PROVE  (\A n \in Dims : x[n] \in Steps(SliceAt(w, k, p)[n]))
                <=> (\A n \in Dims : x[n] \in Steps(w[n])) /\ \A n \in k+1..4 : x[n] = p[n]
  <2>1. \A n \in Dims : n \in 1..k \/ n \in k+1..4 BY DEF Dims
  <2>2. \A n \in 1..k : n \in Dims BY DEF Dims
  <2>3. \A n \in k+1..4 : n \in Dims BY DEF Dims
  <2>4. \A n \in 1..k : Steps(SliceAt(w, k, p)[n]) = Steps(w[n]) BY SliceIsWindow
  <2>5. \A n \in k+1..4 : Steps(SliceAt(w, k, p)[n]) = {p[n]}
    <3>1. \A n \in k+1..4 : p[n] \in Int BY <2>3 DEF Places, Coordinates
    <3> QED BY <3>1, SliceIsWindow, StepsOfOne
  <2>6. \A n \in k+1..4 : p[n] \in Steps(w[n])
    <3> SUFFICES ASSUME NEW n \in k+1..4 PROVE p[n] \in Steps(w[n]) OBVIOUS
    <3>1. p[n] \in Int /\ w[n].start <= p[n] /\ p[n] < w[n].end BY <2>3 DEF Places, Coordinates
    <3>2. w[n].step = 1 /\ w[n] \in Dimension BY <1>1, <2>3 DEF Cuttable
    <3> QED BY <3>1, <3>2, StepsOfOne
  <2> HIDE DEF Steps
  <2> QED BY <2>1, <2>2, <2>3, <2>4, <2>5, <2>6
<1> QED BY <1>2, <1>3 DEF Inside

(* A slice has what is left from it on, up to the next slice.              *)
LEMMA NextSlice ==
    ASSUME NEW w \in LoopWindows, NEW k \in 1..3, NEW p \in Places(w, k), Cuttable(w, k),
           NEW n \in k+1..4, Moving(w, k, SliceAt(w, k, p), n)
    PROVE  LET q == NextPlace(w, k, p, n)
           IN  /\ q \in Places(w, k) /\ SlideSlice(w, k, SliceAt(w, k, p), n) = SliceAt(w, k, q)
               /\ FromPlace(w, p) = Inside(SliceAt(w, k, p)) \union FromPlace(w, q)
               /\ \A x \in Inside(SliceAt(w, k, p)), y \in FromPlace(w, q) : Earlier(x, y)
<1> DEFINE q == NextPlace(w, k, p, n)
           s == SliceAt(w, k, p)
<1>1. /\ k \in {1, 2, 3} /\ n \in {2, 3, 4} /\ n > k /\ n \in Dims
      /\ \A m \in Dims : m \in 1..4
      /\ 1 \in Dims /\ 2 \in Dims /\ 3 \in Dims /\ 4 \in Dims
      /\ \A m \in k+1..4 : m \in Dims
      /\ \A m \in 1..k : m \in Dims
  BY DEF Dims
<1>2. /\ p \in Coordinates /\ \A m \in 1..4 : p[m] \in Int /\ w[m].start \in Int /\ w[m].end \in Int
  <2>1. \A m \in 1..4 : m \in Dims BY DEF Dims
  <2> QED BY <2>1, DimensionTypes DEF Places, Coordinates
<1>3. /\ \A m \in 1..k : p[m] = w[m].start
      /\ \A m \in k+1..4 : w[m].start <= p[m] /\ p[m] < w[m].end
  BY DEF Places
<1>4. \A m \in k+1..4 : s[m].start = p[m] /\ w[m].start < w[m].end
  <2>1. \A m \in k+1..4 : s[m] = One(p[m]) BY SliceIsWindow
  <2>2. \A v : One(v).start = v BY DEF One
  <2>3. \A m \in k+1..4 : w[m].start < w[m].end BY DEF Cuttable
  <2> HIDE DEF s
  <2> QED BY ONLY <2>1, <2>2, <2>3
<1>5. p[n] + 1 < w[n].end /\ \A m \in k+1..n-1 : p[m] + 1 >= w[m].end
  <2>1. n \in k+1..4 /\ \A m \in k+1..n-1 : m \in k+1..4 /\ ~(n <= m) OBVIOUS
  <2>2. n \in Movable(w, k, s) /\ \A m \in Movable(w, k, s) : n <= m BY DEF Moving
  <2>3. p[n] + 1 < w[n].end BY <1>4, <2>2 DEF Movable
  <2>4. ASSUME NEW m \in k+1..n-1 PROVE p[m] + 1 >= w[m].end
    <3>1. m \notin Movable(w, k, s) BY <2>1, <2>2
    <3>2. ~(s[m].start + 1 < w[m].end) BY <2>1, <3>1 DEF Movable
    <3>3. m \in 1..4 BY <1>1
    <3> QED BY <1>2, <1>4, <2>1, <3>2, <3>3
  <2> QED BY <2>3, <2>4
<1>6. /\ q \in Coordinates
      /\ \A m \in 1..4 : q[m] = IF m = n THEN p[m] + 1 ELSE IF k < m /\ m < n THEN w[m].start ELSE p[m]
  BY <1>2 DEF NextPlace, Coordinates, Dims
<1>7. q \in Places(w, k)
  <2>1. \A m \in 1..k : m \in 1..4 /\ m # n /\ ~(k < m) BY <1>1
  <2>2. \A m \in k+1..4 : m \in 1..4 BY <1>1
  <2> HIDE DEF q
  <2>3. \A m \in 1..k : q[m] = w[m].start BY <1>3, <1>6, <2>1
  <2>4. ASSUME NEW m \in k+1..4 PROVE w[m].start <= q[m] /\ q[m] < w[m].end
    <3>1. w[m].start <= p[m] /\ p[m] < w[m].end /\ w[m].start < w[m].end BY <1>3, <1>4
    <3>2. p[m] \in Int /\ w[m].start \in Int /\ w[m].end \in Int BY <1>2, <2>2
    <3>3. q[m] = IF m = n THEN p[m] + 1 ELSE IF k < m /\ m < n THEN w[m].start ELSE p[m] BY <1>6, <2>2
    <3> QED BY <1>2, <1>5, <3>1, <3>2, <3>3
  <2> QED BY <1>6, <2>3, <2>4 DEF Places
<1>8. SlideSlice(w, k, s, n) = SliceAt(w, k, q)
  <2>1. SlideSlice(w, k, s, n) = [m \in Dims |-> IF m = n THEN One(s[n].start + 1)
                                                 ELSE IF k < m /\ m < n THEN One(w[m].start) ELSE s[m]]
    BY DEF SlideSlice
  <2>2. SliceAt(w, k, q) = [m \in Dims |-> IF m <= k THEN w[m] ELSE One(q[m])] BY DEF SliceAt
  <2>3. \A m \in Dims : s[m] = IF m <= k THEN w[m] ELSE One(p[m]) BY DEF SliceAt
  <2>4. s[n].start = p[n] BY <1>4
  <2> HIDE DEF q, s
  <2>5. ASSUME NEW m \in Dims
        PROVE  (IF m = n THEN One(s[n].start + 1) ELSE IF k < m /\ m < n THEN One(w[m].start) ELSE s[m])
                 = IF m <= k THEN w[m] ELSE One(q[m])
    <3>1. m \in 1..4 BY <1>1
    <3>2. q[m] = IF m = n THEN p[m] + 1 ELSE IF k < m /\ m < n THEN w[m].start ELSE p[m] BY <1>6, <3>1
    <3>3. CASE m = n BY <1>1, <2>4, <3>2, <3>3
    <3>4. CASE m # n /\ k < m /\ m < n BY <1>1, <3>1, <3>2, <3>4
    <3>5. CASE m # n /\ ~(k < m /\ m < n) BY <1>1, <2>3, <3>1, <3>2, <3>5
    <3> QED BY <3>3, <3>4, <3>5
  <2> QED BY <2>1, <2>2, <2>5
<1> HIDE DEF q, s
(* The arithmetic: x is not before p, against what it is to q.             *)
<1>9. ASSUME NEW x \in Coordinates, \A m \in 1..4 : w[m].start <= x[m] /\ x[m] < w[m].end
      PROVE  /\ ~Earlier(x, p) <=> (\A m \in k+1..4 : x[m] = p[m]) \/ ~Earlier(x, q)
             /\ ~((\A m \in k+1..4 : x[m] = p[m]) /\ ~Earlier(x, q))
  <2>1. /\ Earlier(x, p) <=> \/ x[4] < p[4]
                             \/ x[4] = p[4] /\ x[3] < p[3]
                             \/ x[4] = p[4] /\ x[3] = p[3] /\ x[2] < p[2]
                             \/ x[4] = p[4] /\ x[3] = p[3] /\ x[2] = p[2] /\ x[1] < p[1]
    BY <1>2, EarlierIs
  <2>2. /\ Earlier(x, q) <=> \/ x[4] < q[4]
                             \/ x[4] = q[4] /\ x[3] < q[3]
                             \/ x[4] = q[4] /\ x[3] = q[3] /\ x[2] < q[2]
                             \/ x[4] = q[4] /\ x[3] = q[3] /\ x[2] = q[2] /\ x[1] < q[1]
    BY <1>6, EarlierIs
  <2>3. /\ x[1] \in Int /\ x[2] \in Int /\ x[3] \in Int /\ x[4] \in Int
        /\ p[1] \in Int /\ p[2] \in Int /\ p[3] \in Int /\ p[4] \in Int
        /\ w[1].start \in Int /\ w[2].start \in Int /\ w[3].start \in Int /\ w[4].start \in Int
        /\ w[1].end \in Int /\ w[2].end \in Int /\ w[3].end \in Int /\ w[4].end \in Int
    BY <1>1, <1>2 DEF Coordinates
  <2>4. /\ w[1].start <= x[1] /\ w[2].start <= x[2] /\ w[3].start <= x[3] /\ w[4].start <= x[4]
        /\ x[1] < w[1].end /\ x[2] < w[2].end /\ x[3] < w[3].end /\ x[4] < w[4].end
    BY <1>9
  <2>5. p[1] = w[1].start
    <3>1. 1 \in 1..k OBVIOUS
    <3> QED BY <1>3, <3>1
  <2>6. q[1] = p[1]
    <3>1. 1 # n /\ ~(k < 1) OBVIOUS
    <3> QED BY <1>6, <3>1
  <2>7. CASE n = 2
    <3>1. k = 1 BY <1>1, <2>7
    <3>2. q[2] = p[2] + 1 /\ q[3] = p[3] /\ q[4] = p[4] BY <1>6, <2>7
    <3>3. (\A m \in k+1..4 : x[m] = p[m]) <=> x[2] = p[2] /\ x[3] = p[3] /\ x[4] = p[4]
      <4>1. \A m \in 1+1..4 : m = 2 \/ m = 3 \/ m = 4 OBVIOUS
      <4>2. 2 \in 1+1..4 /\ 3 \in 1+1..4 /\ 4 \in 1+1..4 OBVIOUS
      <4> QED BY <3>1, <4>1, <4>2
    <3> HIDE DEF Earlier
    <3> QED BY ONLY <2>1, <2>2, <2>3, <2>4, <2>5, <2>6, <3>2, <3>3
  <2>8. CASE n = 3 /\ k = 1
    <3>1. q[2] = w[2].start /\ q[3] = p[3] + 1 /\ q[4] = p[4] BY <1>6, <2>8
    <3>2. p[2] + 1 >= w[2].end
      <4>1. 2 \in k+1..n-1 BY <2>8
      <4> QED BY <1>5, <4>1
    <3>3. (\A m \in k+1..4 : x[m] = p[m]) <=> x[2] = p[2] /\ x[3] = p[3] /\ x[4] = p[4]
      <4>1. \A m \in 1+1..4 : m = 2 \/ m = 3 \/ m = 4 OBVIOUS
      <4>2. 2 \in 1+1..4 /\ 3 \in 1+1..4 /\ 4 \in 1+1..4 OBVIOUS
      <4> QED BY <2>8, <4>1, <4>2
    <3> QED BY ONLY <2>1, <2>2, <2>3, <2>4, <2>5, <2>6, <3>1, <3>2, <3>3
  <2>9. CASE n = 3 /\ k = 2
    <3>1. q[2] = p[2] /\ q[3] = p[3] + 1 /\ q[4] = p[4] BY <1>6, <2>9
    <3>2. p[2] = w[2].start
      <4>1. 2 \in 1..k BY <2>9
      <4> QED BY <1>3, <4>1
    <3>3. (\A m \in k+1..4 : x[m] = p[m]) <=> x[3] = p[3] /\ x[4] = p[4]
      <4>1. \A m \in 2+1..4 : m = 3 \/ m = 4 OBVIOUS
      <4>2. 3 \in 2+1..4 /\ 4 \in 2+1..4 OBVIOUS
      <4> QED BY <2>9, <4>1, <4>2
    <3> QED BY ONLY <2>1, <2>2, <2>3, <2>4, <2>5, <2>6, <3>1, <3>2, <3>3
  <2>10. CASE n = 4 /\ k = 1
    <3>1. q[2] = w[2].start /\ q[3] = w[3].start /\ q[4] = p[4] + 1 BY <1>6, <2>10
    <3>2. p[2] + 1 >= w[2].end /\ p[3] + 1 >= w[3].end
      <4>1. 2 \in k+1..n-1 /\ 3 \in k+1..n-1 BY <2>10
      <4> QED BY <1>5, <4>1
    <3>3. (\A m \in k+1..4 : x[m] = p[m]) <=> x[2] = p[2] /\ x[3] = p[3] /\ x[4] = p[4]
      <4>1. \A m \in 1+1..4 : m = 2 \/ m = 3 \/ m = 4 OBVIOUS
      <4>2. 2 \in 1+1..4 /\ 3 \in 1+1..4 /\ 4 \in 1+1..4 OBVIOUS
      <4> QED BY <2>10, <4>1, <4>2
    <3> QED BY ONLY <2>1, <2>2, <2>3, <2>4, <2>5, <2>6, <3>1, <3>2, <3>3
  <2>11. CASE n = 4 /\ k = 2
    <3>1. q[2] = p[2] /\ q[3] = w[3].start /\ q[4] = p[4] + 1 BY <1>6, <2>11
    <3>2. p[2] = w[2].start /\ p[3] + 1 >= w[3].end
      <4>1. 2 \in 1..k /\ 3 \in k+1..n-1 BY <2>11
      <4> QED BY <1>3, <1>5, <4>1
    <3>3. (\A m \in k+1..4 : x[m] = p[m]) <=> x[3] = p[3] /\ x[4] = p[4]
      <4>1. \A m \in 2+1..4 : m = 3 \/ m = 4 OBVIOUS
      <4>2. 3 \in 2+1..4 /\ 4 \in 2+1..4 OBVIOUS
      <4> QED BY <2>11, <4>1, <4>2
    <3> QED BY ONLY <2>1, <2>2, <2>3, <2>4, <2>5, <2>6, <3>1, <3>2, <3>3
  <2>12. CASE n = 4 /\ k = 3
    <3>1. q[2] = p[2] /\ q[3] = p[3] /\ q[4] = p[4] + 1 BY <1>6, <2>12
    <3>2. p[2] = w[2].start /\ p[3] = w[3].start
      <4>1. 2 \in 1..k /\ 3 \in 1..k BY <2>12
      <4> QED BY <1>3, <4>1
    <3>3. (\A m \in k+1..4 : x[m] = p[m]) <=> x[4] = p[4]
      <4>1. \A m \in 3+1..4 : m = 4 OBVIOUS
      <4>2. 4 \in 3+1..4 OBVIOUS
      <4> QED BY <2>12, <4>1, <4>2
    <3> QED BY ONLY <2>1, <2>2, <2>3, <2>4, <2>5, <2>6, <3>1, <3>2, <3>3
  <2> QED BY <1>1, <2>7, <2>8, <2>9, <2>10, <2>11, <2>12
<1>10. \A x : /\ x \in Inside(w) => x \in Coordinates /\ \A m \in 1..4 : w[m].start <= x[m] /\ x[m] < w[m].end
              /\ x \in Inside(s) <=> x \in Inside(w) /\ \A m \in k+1..4 : x[m] = p[m]
  BY InsideSlice DEF s
<1>11. FromPlace(w, p) = Inside(s) \union FromPlace(w, q)
  <2>1. \A x \in Inside(w) : ~Earlier(x, p) <=> (\A m \in k+1..4 : x[m] = p[m]) \/ ~Earlier(x, q) BY <1>9, <1>10
  <2> QED BY <1>10, <2>1 DEF FromPlace
<1>12. ASSUME NEW x \in Inside(s), NEW y \in FromPlace(w, q) PROVE Earlier(x, y)
  <2>1. x \in Coordinates /\ x \in Inside(w) /\ \A m \in k+1..4 : x[m] = p[m] BY <1>10
  <2>2. y \in Coordinates /\ y \in Inside(w) /\ ~Earlier(y, q) BY <1>10 DEF FromPlace
  <2>3. ~Earlier(y, p) /\ ~(\A m \in k+1..4 : y[m] = p[m]) BY <1>9, <1>10, <2>2
  <2>4. PICK m \in k+1..4 : y[m] # p[m] BY <2>3
  <2>5. Earlier(x, y) <=> \/ x[4] < y[4]
                          \/ x[4] = y[4] /\ x[3] < y[3]
                          \/ x[4] = y[4] /\ x[3] = y[3] /\ x[2] < y[2]
                          \/ x[4] = y[4] /\ x[3] = y[3] /\ x[2] = y[2] /\ x[1] < y[1]
    BY <2>1, <2>2, EarlierIs
  <2>6. Earlier(y, p) <=> \/ y[4] < p[4]
                          \/ y[4] = p[4] /\ y[3] < p[3]
                          \/ y[4] = p[4] /\ y[3] = p[3] /\ y[2] < p[2]
                          \/ y[4] = p[4] /\ y[3] = p[3] /\ y[2] = p[2] /\ y[1] < p[1]
    BY <1>2, <2>2, EarlierIs
  <2>7. /\ x[1] \in Int /\ x[2] \in Int /\ x[3] \in Int /\ x[4] \in Int
        /\ p[1] \in Int /\ p[2] \in Int /\ p[3] \in Int /\ p[4] \in Int
        /\ y[1] \in Int /\ y[2] \in Int /\ y[3] \in Int /\ y[4] \in Int
    BY <1>1, <1>2, <2>1, <2>2 DEF Coordinates
  <2>8. x[4] = p[4] /\ (k <= 2 => x[3] = p[3]) /\ (k <= 1 => x[2] = p[2])
    <3>1. 4 \in k+1..4 /\ (k <= 2 => 3 \in k+1..4) /\ (k <= 1 => 2 \in k+1..4) OBVIOUS
    <3> QED BY <2>1, <3>1
  <2>9. m = 4 \/ (m = 3 /\ k <= 2) \/ (m = 2 /\ k <= 1) OBVIOUS
  <2> QED BY ONLY <2>3, <2>4, <2>5, <2>6, <2>7, <2>8, <2>9
<1> QED BY <1>7, <1>8, <1>11, <1>12 DEF q, s

LEMMA LastSlice ==
    ASSUME NEW w \in LoopWindows, NEW k \in 1..3, NEW p \in Places(w, k), Cuttable(w, k),
           Movable(w, k, SliceAt(w, k, p)) = {}
    PROVE  FromPlace(w, p) = Inside(SliceAt(w, k, p))
<1> DEFINE s == SliceAt(w, k, p)
<1>1. /\ k \in {1, 2, 3}
      /\ \A m \in 1..4 : m \in Dims
      /\ \A m \in k+1..4 : m \in 1..4
      /\ \A m \in 1..k : m \in 1..4
  BY DEF Dims
<1>2. /\ p \in Coordinates /\ \A m \in 1..4 : p[m] \in Int /\ w[m].start \in Int /\ w[m].end \in Int
  BY <1>1, DimensionTypes DEF Places, Coordinates
<1>3. /\ \A m \in 1..k : p[m] = w[m].start
      /\ \A m \in k+1..4 : p[m] + 1 = w[m].end
  <2>1. \A m \in k+1..4 : s[m] = One(p[m]) BY SliceIsWindow
  <2>2. \A v : One(v).start = v BY DEF One
  <2>3. \A m \in k+1..4 : ~(s[m].start + 1 < w[m].end) BY DEF Movable
  <2> HIDE DEF s
  <2>4. \A m \in k+1..4 : ~(p[m] + 1 < w[m].end) BY ONLY <2>1, <2>2, <2>3
  <2>5. /\ \A m \in 1..k : p[m] = w[m].start
        /\ \A m \in k+1..4 : w[m].start <= p[m] /\ p[m] < w[m].end
    BY DEF Places
  <2> QED BY <1>1, <1>2, <2>4, <2>5
<1>4. ASSUME NEW x \in Coordinates, \A m \in 1..4 : w[m].start <= x[m] /\ x[m] < w[m].end
      PROVE  ~Earlier(x, p) <=> \A m \in k+1..4 : x[m] = p[m]
  <2>1. Earlier(x, p) <=> \/ x[4] < p[4]
                          \/ x[4] = p[4] /\ x[3] < p[3]
                          \/ x[4] = p[4] /\ x[3] = p[3] /\ x[2] < p[2]
                          \/ x[4] = p[4] /\ x[3] = p[3] /\ x[2] = p[2] /\ x[1] < p[1]
    BY <1>2, EarlierIs
  <2>2. \A m \in 1..4 : x[m] \in Int BY <1>1 DEF Coordinates
  <2>3. \A m \in 1..k : p[m] <= x[m]
    <3> SUFFICES ASSUME NEW m \in 1..k PROVE p[m] <= x[m] OBVIOUS
    <3> QED BY <1>1, <1>3, <1>4
  <2>4. \A m \in k+1..4 : x[m] <= p[m]
    <3> SUFFICES ASSUME NEW m \in k+1..4 PROVE x[m] <= p[m] OBVIOUS
    <3>1. m \in 1..4 BY <1>1
    <3>2. x[m] \in Int /\ p[m] \in Int /\ x[m] < w[m].end /\ p[m] + 1 = w[m].end BY <1>2, <1>3, <1>4, <2>2, <3>1
    <3> QED BY <3>2
  <2>5. /\ x[1] \in Int /\ x[2] \in Int /\ x[3] \in Int /\ x[4] \in Int
        /\ p[1] \in Int /\ p[2] \in Int /\ p[3] \in Int /\ p[4] \in Int
    BY <1>2, <2>2
  <2>6. p[1] <= x[1] /\ (k >= 2 => p[2] <= x[2]) /\ (k >= 3 => p[3] <= x[3])
    <3>1. 1 \in 1..k /\ (k >= 2 => 2 \in 1..k) /\ (k >= 3 => 3 \in 1..k) OBVIOUS
    <3> QED BY <2>3, <3>1
  <2>7. x[4] <= p[4] /\ (k <= 2 => x[3] <= p[3]) /\ (k <= 1 => x[2] <= p[2])
    <3>1. 4 \in k+1..4 /\ (k <= 2 => 3 \in k+1..4) /\ (k <= 1 => 2 \in k+1..4) OBVIOUS
    <3> QED BY <2>4, <3>1
  <2>8. (\A m \in k+1..4 : x[m] = p[m]) <=> x[4] = p[4] /\ (k <= 2 => x[3] = p[3]) /\ (k <= 1 => x[2] = p[2])
    <3>1. 4 \in k+1..4 /\ (k <= 2 => 3 \in k+1..4) /\ (k <= 1 => 2 \in k+1..4) OBVIOUS
    <3>2. \A m \in k+1..4 : m = 4 \/ (m = 3 /\ k <= 2) \/ (m = 2 /\ k <= 1) OBVIOUS
    <3> QED BY <3>1, <3>2
  <2>9. k = 1 \/ k = 2 \/ k = 3 BY <1>1
  <2> QED BY ONLY <2>1, <2>5, <2>6, <2>7, <2>8, <2>9
<1>5. \A x : /\ x \in Inside(w) => x \in Coordinates /\ \A m \in 1..4 : w[m].start <= x[m] /\ x[m] < w[m].end
             /\ x \in Inside(s) <=> x \in Inside(w) /\ \A m \in k+1..4 : x[m] = p[m]
  BY InsideSlice
<1>6. \A x \in Inside(w) : ~Earlier(x, p) <=> \A m \in k+1..4 : x[m] = p[m] BY <1>4, <1>5
<1> QED BY <1>5, <1>6 DEF FromPlace

(* The calls for the slices one after the other.                           *)
LoopsOf(slices, strides) == [s \in DOMAIN slices |-> ExecuteWindowLoop(slices[s], strides)]

LEMMA LoopsOneMore ==
    ASSUME NEW v \in LoopWindows, NEW q \in Seq(LoopWindows), NEW strides \in Coordinates
    PROVE  /\ LoopsOf(q, strides) \in Seq(Seq(Records))
           /\ <<v>> \o q \in Seq(LoopWindows)
           /\ FlattenSeq(LoopsOf(<<v>> \o q, strides))
                = ExecuteWindowLoop(v, strides) \o FlattenSeq(LoopsOf(q, strides))
<1> DEFINE L == LoopsOf(q, strides)
           l == ExecuteWindowLoop(v, strides)
           r == <<v>> \o q
           M == LoopsOf(r, strides)
           n == Len(q)
<1>1. n \in Nat /\ DOMAIN q = 1..n /\ \A i \in 1..n : q[i] \in LoopWindows OBVIOUS
<1>2. \A i \in 1..n : ExecuteWindowLoop(q[i], strides) \in Seq(Records)
  <2>1. \A u \in LoopWindows : ExecuteWindowLoop(u, strides) \in Seq(Records) BY LoopLists DEF Lists
  <2> QED BY <1>1, <2>1
<1>3. l \in Seq(Records) BY LoopLists DEF Lists
<1>4. L = [i \in 1..n |-> ExecuteWindowLoop(q[i], strides)] BY <1>1, Zenon DEF LoopsOf
<1>5. /\ r \in Seq(LoopWindows) /\ Len(r) = n + 1 /\ DOMAIN r = 1..n+1 /\ r[1] = v
      /\ \A i \in 2..n+1 : r[i] = q[i - 1]
  BY <1>1
<1> HIDE DEF L, M, r, n
<1>6. M = [i \in 1..n+1 |-> ExecuteWindowLoop(r[i], strides)] BY <1>5, Zenon DEF LoopsOf, M
<1>7. L \in Seq(Seq(Records)) /\ Len(L) = n /\ DOMAIN L = 1..n BY <1>1, <1>2, <1>4
<1>8. M = <<l>> \o L
  <2> HIDE DEF l
  <2>1. \A i \in 1..n : L[i] = ExecuteWindowLoop(q[i], strides) BY <1>4
  <2>2. M[1] = l
    <3>1. 1 \in 1..n+1 BY <1>1
    <3>2. M[1] = ExecuteWindowLoop(r[1], strides) BY <1>6, <3>1
    <3> QED BY <1>5, <3>2, Zenon DEF l
  <2>3. \A i \in 2..n+1 : M[i] = L[i - 1]
    <3> SUFFICES ASSUME NEW i \in 2..n+1 PROVE M[i] = L[i - 1] OBVIOUS
    <3>1. i \in 1..n+1 /\ i - 1 \in 1..n BY <1>1
    <3>2. M[i] = ExecuteWindowLoop(r[i], strides) BY <1>6, <3>1
    <3>3. L[i - 1] = ExecuteWindowLoop(q[i - 1], strides) BY <2>1, <3>1
    <3>4. r[i] = q[i - 1] BY <1>5
    <3> QED BY <3>2, <3>3, <3>4, Zenon
  <2>4. DOMAIN M = 1..n+1 /\ M = [i \in 1..n+1 |-> M[i]] BY <1>6
  <2> DEFINE N == <<l>> \o L
  <2>5. /\ DOMAIN N = 1..n+1 /\ N = [i \in 1..n+1 |-> N[i]]
        /\ N[1] = l /\ \A i \in 2..n+1 : N[i] = L[i - 1]
    BY <1>1, <1>3, <1>7
  <2>6. \A i \in 1..n+1 : i = 1 \/ i \in 2..n+1 BY <1>1
  <2> HIDE DEF N
  <2> QED BY <2>2, <2>3, <2>4, <2>5, <2>6 DEF N
<1>9. FlattenSeq(M) = l \o FlattenSeq(L) BY <1>3, <1>7, <1>8, FlattenOneMore
<1> QED BY <1>5, <1>7, <1>9 DEF L, M, r

(* The slices from p on lead through all that is left of the window.       *)
LEMMA SlicesFrom ==
    ASSUME NEW w \in LoopWindows, NEW k \in 1..3, Cuttable(w, k), NEW strides \in Coordinates, NEW from,
           \A s \in SliceTypes : from[s] = <<s>> \o (IF Movable(w, k, s) = {} THEN <<>>
                                                      ELSE from[Slid(w, k, s)]),
           NEW p \in Places(w, k)
    PROVE  Lists(FlattenSeq(LoopsOf(from[SliceAt(w, k, p)], strides)), FromPlace(w, p), strides)
<1> DEFINE Fine(x) == /\ from[SliceAt(w, k, x)] \in Seq(LoopWindows)
                      /\ Lists(FlattenSeq(LoopsOf(from[SliceAt(w, k, x)], strides)), FromPlace(w, x), strides)
           Bad == {x \in Places(w, k) : ~Fine(x)}
<1>0. SUFFICES ASSUME Bad # {} PROVE FALSE OBVIOUS
<1> DEFINE a == [x \in Bad |-> w[4].end - x[4]]
           b == [x \in Bad |-> w[3].end - x[3]]
           c == [x \in Bad |-> w[2].end - x[2]]
<1>1. \A x \in Places(w, k) : /\ x[1] \in Int /\ x[2] \in Int /\ x[3] \in Int /\ x[4] \in Int
                              /\ w[2].end - x[2] \in Nat /\ w[3].end - x[3] \in Nat /\ w[4].end - x[4] \in Nat
  <2> SUFFICES ASSUME NEW x \in Places(w, k)
               PROVE  \A n \in 1..4 : x[n] \in Int /\ w[n].end - x[n] \in Nat
    OBVIOUS
  <2> SUFFICES ASSUME NEW n \in 1..4 PROVE x[n] \in Int /\ w[n].end - x[n] \in Nat OBVIOUS
  <2>1. n \in Dims BY DEF Dims
  <2>2. x[n] \in Int /\ w[n].start \in Int /\ w[n].end \in Int /\ w[n].start <= w[n].end
    BY <2>1, DimensionTypes DEF Places, Coordinates, Dimension
  <2>3. CASE n \in 1..k
    <3>1. x[n] = w[n].start BY <2>3 DEF Places
    <3> QED BY <2>2, <3>1
  <2>4. CASE n \in k+1..4
    <3>1. x[n] < w[n].end BY <2>4 DEF Places
    <3> QED BY <2>2, <3>1
  <2> QED BY <2>3, <2>4
<1>2. \A x \in Bad : x \in Places(w, k) /\ ~Fine(x) OBVIOUS
<1>3. \A x \in Places(w, k) : x \notin Bad => Fine(x) OBVIOUS
<1> HIDE DEF Bad
<1>4. a \in [Bad -> Nat] /\ b \in [Bad -> Nat] /\ c \in [Bad -> Nat] BY <1>1, <1>2
<1>5. PICK x \in Bad : HasLeast(Bad, a, b, c, x)
  <2> HIDE DEF a, b, c
  <2> QED BY <1>0, <1>4, LexicallyLeast
<1> DEFINE s == SliceAt(w, k, x)
           l == ExecuteWindowLoop(s, strides)
<1>6. x \in Places(w, k) /\ s \in LoopWindows /\ s \in SliceTypes BY <1>2, <1>5, SliceIsWindow
<1>7. Lists(l, Inside(s), strides) BY <1>6, LoopLists
<1>8. from[s] = <<s>> \o (IF Movable(w, k, s) = {} THEN <<>> ELSE from[Slid(w, k, s)]) BY <1>6
<1>9. Movable(w, k, s) # {}
  <2> SUFFICES ASSUME Movable(w, k, s) = {} PROVE FALSE OBVIOUS
  <2>1. <<>> \in Seq(LoopWindows) OBVIOUS
  <2>2. from[s] = <<s>> \o <<>> BY <1>8
  <2>3. /\ from[s] \in Seq(LoopWindows)
        /\ FlattenSeq(LoopsOf(from[s], strides)) = l \o FlattenSeq(LoopsOf(<<>>, strides))
    <3> HIDE DEF s
    <3> QED BY <1>6, <2>1, <2>2, LoopsOneMore
  <2>4. FlattenSeq(LoopsOf(<<>>, strides)) = <<>>
    <3>1. LoopsOf(<<>>, strides) = <<>> BY DEF LoopsOf
    <3> QED BY <3>1 DEF FlattenSeq
  <2>5. l \o <<>> = l
    <3>1. l \in Seq(Records) BY <1>7 DEF Lists
    <3> HIDE DEF l
    <3> QED BY <3>1
  <2>6. FromPlace(w, x) = Inside(s) BY <1>6, LastSlice
  <2>7. Fine(x)
    <3> HIDE DEF l
    <3> QED BY <1>7, <2>3, <2>4, <2>5, <2>6
  <2> QED BY <1>2, <1>5, <2>7
<1>10. PICK n \in k+1..4 : Moving(w, k, s, n) /\ Slid(w, k, s) = SlideSlice(w, k, s, n)
  BY <1>6, <1>9, SlidIs
<1> DEFINE y == NextPlace(w, k, x, n)
           t == SliceAt(w, k, y)
<1>11. /\ y \in Places(w, k) /\ SlideSlice(w, k, s, n) = t
       /\ FromPlace(w, x) = Inside(s) \union FromPlace(w, y)
       /\ \A u \in Inside(s), v \in FromPlace(w, y) : Earlier(u, v)
  BY <1>6, <1>10, NextSlice
<1>12. from[s] = <<s>> \o from[t] BY <1>8, <1>9, <1>10, <1>11
<1>13. y \notin Bad
  <2> SUFFICES ASSUME y \in Bad PROVE FALSE OBVIOUS
  <2>1. a[x] < a[y] \/ (a[x] = a[y] /\ (b[x] < b[y] \/ (b[x] = b[y] /\ c[x] <= c[y])))
    BY <1>5 DEF HasLeast
  <2>2. /\ a[x] = w[4].end - x[4] /\ b[x] = w[3].end - x[3] /\ c[x] = w[2].end - x[2]
        /\ a[y] = w[4].end - y[4] /\ b[y] = w[3].end - y[3] /\ c[y] = w[2].end - y[2]
    BY <1>5
  <2>3. \A m \in 1..4 : y[m] = IF m = n THEN x[m] + 1 ELSE IF k < m /\ m < n THEN w[m].start ELSE x[m]
    BY DEF NextPlace, Dims
  <2>4. /\ y[4] = IF 4 = n THEN x[4] + 1 ELSE IF k < 4 /\ 4 < n THEN w[4].start ELSE x[4]
        /\ y[3] = IF 3 = n THEN x[3] + 1 ELSE IF k < 3 /\ 3 < n THEN w[3].start ELSE x[3]
        /\ y[2] = IF 2 = n THEN x[2] + 1 ELSE IF k < 2 /\ 2 < n THEN w[2].start ELSE x[2]
    BY <2>3
  <2>5. /\ x[2] \in Int /\ x[3] \in Int /\ x[4] \in Int
        /\ w[2].end - x[2] \in Nat /\ w[3].end - x[3] \in Nat /\ w[4].end - x[4] \in Nat
    BY <1>1, <1>6
  <2>6. w[2].end \in Int /\ w[3].end \in Int /\ w[4].end \in Int
    BY DimensionTypes DEF Dims
  <2>7. n = 2 \/ n = 3 \/ n = 4 OBVIOUS
  <2> HIDE DEF a, b, c, y
  <2> QED BY ONLY <2>1, <2>2, <2>4, <2>5, <2>6, <2>7
<1>14. Fine(y) BY <1>3, <1>11, <1>13
<1> HIDE DEF Bad, y
<1>15. /\ from[s] \in Seq(LoopWindows)
       /\ FlattenSeq(LoopsOf(from[s], strides)) = l \o FlattenSeq(LoopsOf(from[t], strides))
  <2>1. from[t] \in Seq(LoopWindows) BY <1>14
  <2> HIDE DEF s, t
  <2> QED BY <1>6, <1>12, <2>1, LoopsOneMore
<1>16. Lists(l \o FlattenSeq(LoopsOf(from[t], strides)), Inside(s) \union FromPlace(w, y), strides)
  <2>1. Inside(s) \in SUBSET Coordinates /\ FromPlace(w, y) \in SUBSET Coordinates BY DEF Inside, FromPlace
  <2>2. Lists(FlattenSeq(LoopsOf(from[t], strides)), FromPlace(w, y), strides) BY <1>14
  <2> HIDE DEF s, t, l
  <2> QED BY <1>7, <1>11, <2>1, <2>2, ListsJoin
<1>17. Fine(x)
  <2> HIDE DEF l
  <2> QED BY <1>11, <1>15, <1>16
<1> QED BY <1>2, <1>5, <1>17

LEMMA SlicesLead ==
    ASSUME NEW w \in LoopWindows, NEW k \in 1..3, Cuttable(w, k), NEW strides \in Coordinates
    PROVE  FlattenSeq(LoopsOf(Slices(w, k), strides)) = ExecuteWindowLoop(w, strides)
<1> DEFINE p == [n \in Dims |-> w[n].start]
<1>1. PICK from : /\ Slices(w, k) = from[FirstSlice(w, k)]
                  /\ \A s \in SliceTypes : from[s] = <<s>> \o (IF Movable(w, k, s) = {} THEN <<>>
                                                                ELSE from[Slid(w, k, s)])
  BY SlicesRecurse
<1>2. p \in Places(w, k)
  <2>1. p \in Coordinates BY DimensionTypes DEF Coordinates
  <2>2. \A n \in 1..k : n \in Dims BY DEF Dims
  <2>3. \A n \in k+1..4 : n \in Dims BY DEF Dims
  <2>4. \A n \in k+1..4 : w[n].start <= p[n] /\ p[n] < w[n].end
    <3> SUFFICES ASSUME NEW n \in k+1..4 PROVE w[n].start <= p[n] /\ p[n] < w[n].end OBVIOUS
    <3>1. w[n].start \in Int /\ w[n].start < w[n].end BY <2>3, DimensionTypes DEF Cuttable
    <3> QED BY <2>3, <3>1
  <2> QED BY <2>1, <2>2, <2>4 DEF Places
<1>3. FirstSlice(w, k) = SliceAt(w, k, p)
  <2>1. \A n \in Dims : (IF n <= k THEN w[n] ELSE One(w[n].start)) = IF n <= k THEN w[n] ELSE One(p[n])
    OBVIOUS
  <2> HIDE DEF p
  <2> QED BY <2>1 DEF FirstSlice, SliceAt
<1>4. FromPlace(w, p) = Inside(w)
  <2> SUFFICES ASSUME NEW x \in Inside(w) PROVE ~Earlier(x, p) BY DEF FromPlace
  <2>1. x \in Coordinates /\ \A n \in 1..4 : w[n].start <= x[n] /\ x[n] < w[n].end BY <1>2, InsideSlice
  <2>2. \A n \in Dims : x[n] \in Int /\ p[n] \in Int /\ p[n] <= x[n]
    BY <2>1, DimensionTypes DEF Coordinates, Dims
  <2> HIDE DEF p
  <2> QED BY <2>2 DEF Earlier
<1> HIDE DEF p
<1>5. Lists(FlattenSeq(LoopsOf(from[SliceAt(w, k, p)], strides)), FromPlace(w, p), strides)
  BY <1>1, <1>2, SlicesFrom
<1>6. Lists(FlattenSeq(LoopsOf(Slices(w, k), strides)), Inside(w), strides) BY <1>1, <1>3, <1>4, <1>5
<1>7. Lists(ExecuteWindowLoop(w, strides), Inside(w), strides) BY LoopLists
<1>8. Inside(w) \in SUBSET Coordinates BY DEF Inside
<1> QED BY <1>6, <1>7, <1>8, ListedOnce

(* Whatever window a workload was given, going through it slice by slice   *)
(* is going through it, in the same order and with the iterators in the    *)
(* same places, if the dimensions that are cut have steps of 1 and are not *)
(* empty (Window::first_slice_window and slide_window_slice).              *)
THEOREM SlicesLeadThroughTheWindow == Spec => []SlicesAreTheWindow
<1>1. SInv => SlicesAreTheWindow
  <2> SUFFICES ASSUME SInv, Ready, NEW w \in DOMAIN windows, NEW k \in 1..3
               PROVE  LET all     == AllDimensions(windows[w])
                          strides == PackedStrides(AllDimensions(call.window))
                          slices  == Slices(all, k)
                      IN  (\A n \in k+1..4 : all[n].step = 1 /\ all[n].start < all[n].end) =>
                             FlattenSeq([s \in DOMAIN slices |-> ExecuteWindowLoop(slices[s], strides)])
                               = ExecuteWindowLoop(all, strides)
    BY DEF SlicesAreTheWindow
  <2> DEFINE all     == AllDimensions(windows[w])
             strides == PackedStrides(AllDimensions(call.window))
  <2>1. Cuts(windows, call.window) /\ strides \in Coordinates BY ReadyWindows
  <2>2. all \in LoopWindows BY <2>1, AllDimensionsAre DEF Cuts
  <2> HIDE DEF all, strides
  <2>3. Cuttable(all, k) => FlattenSeq(LoopsOf(Slices(all, k), strides)) = ExecuteWindowLoop(all, strides)
    BY <2>1, <2>2, SlicesLead
  <2> QED BY <2>3, Zenon DEF Cuttable, LoopsOf, all, strides
<1> QED BY <1>1, SInvAlways, PTL

-----------------------------------------------------------------------------
(* Collapsed windows                                                       *)

(* Dimension e of u, and those between, become part of dimension f.        *)
Mergeable(u, f, e, strides) ==
    /\ u[f].start = 0 /\ u[f].step = 1 /\ u[e].start = 0 /\ u[e].step = 1
    /\ \A m \in f+1..e-1 : u[m] = One(0)
    /\ strides[e] = strides[f] * u[f].end

Merged(u, f, e) == [d \in Dims |-> IF d = f THEN [u[f] EXCEPT !.end = u[f].end * u[e].end]
                                   ELSE IF d = e THEN One(0) ELSE u[d]]

(* What becomes of the coordinates.                                        *)
MergedId(u, f, e, x) == [d \in Dims |-> IF d = f THEN x[f] + u[f].end * x[e] ELSE IF d = e THEN 0 ELSE x[d]]

LEMMA MergedIsWindow ==
    ASSUME NEW u \in LoopWindows, NEW f \in Dims, NEW e \in Dims, f < e, NEW strides, Mergeable(u, f, e, strides)
    PROVE  /\ u[f].end \in Nat /\ u[e].end \in Nat
           /\ Merged(u, f, e) \in LoopWindows
           /\ \A x \in Int : /\ x \in Steps(u[f]) <=> 0 <= x /\ x < u[f].end
                             /\ x \in Steps(u[e]) <=> 0 <= x /\ x < u[e].end
                             /\ x \in Steps(Merged(u, f, e)[f]) <=> 0 <= x /\ x < u[f].end * u[e].end
                             /\ x \in Steps(Merged(u, f, e)[e]) <=> x = 0
           /\ \A d \in Dims \ {e, f} : Merged(u, f, e)[d] = u[d]
<1> DEFINE v == Merged(u, f, e)
           E == u[f].end
           G == u[e].end
<1>1. /\ u[f] \in Dimension /\ Valid(u[f]) /\ u[e] \in Dimension /\ Valid(u[e])
      /\ E \in Int /\ G \in Int /\ E >= 0 /\ G >= 0
  <2>1. u[f] \in Dimension /\ Valid(u[f]) /\ u[e] \in Dimension /\ Valid(u[e]) BY DimensionTypes
  <2>2. u[f].start = 0 /\ u[e].start = 0 BY DEF Mergeable
  <2> QED BY <2>1, <2>2 DEF Dimension
<1>2. E * G \in Nat BY <1>1
<1> DEFINE big == [u[f] EXCEPT !.end = E * G]
<1>3. /\ big \in Dimension /\ Valid(big) /\ big.start = 0 /\ big.end = E * G /\ big.step = 1
  <2>1. big = [start |-> u[f].start, end |-> E * G, step |-> u[f].step]
    <3> HIDE DEF E, G
    <3> QED BY <1>1 DEF Dimension
  <2>2. u[f].start = 0 /\ u[f].step = 1 BY DEF Mergeable
  <2> HIDE DEF big, E, G
  <2>3. (E * G - 0) % 1 = 0 BY <1>2
  <2> QED BY <1>2, <2>1, <2>2, <2>3 DEF Dimension, Valid
<1>4. \A d \in Dims : v[d] = IF d = f THEN big ELSE IF d = e THEN One(0) ELSE u[d] BY DEF Merged
<1>5. v[f] = big /\ v[e] = One(0) /\ \A d \in Dims \ {e, f} : v[d] = u[d]
  <2>1. e # f BY DEF Dims
  <2> HIDE DEF big, v
  <2> QED BY <1>4, <2>1
<1>6. One(0) \in Dimension /\ Valid(One(0)) /\ Steps(One(0)) = {0} BY StepsOfOne
<1>7. v \in LoopWindows
  <2>1. \A d \in Dims : u[d] \in Dimension /\ Valid(u[d]) BY DimensionTypes
  <2>2. DOMAIN v = Dims /\ v = [d \in Dims |-> v[d]] BY DEF Merged
  <2> HIDE DEF big, v
  <2>3. \A d \in Dims : v[d] \in Dimension /\ Valid(v[d]) BY <1>3, <1>4, <1>6, <2>1
  <2> QED BY <2>2, <2>3 DEF LoopWindows
<1>8. \A x \in Int : /\ x \in Steps(u[f]) <=> 0 <= x /\ x < E
                     /\ x \in Steps(u[e]) <=> 0 <= x /\ x < G
                     /\ x \in Steps(big) <=> 0 <= x /\ x < E * G
  <2>1. \A d \in Dimension, x \in Int : d.step = 1 => (x \in Steps(d) <=> d.start <= x /\ x < d.end)
    BY StepsOfOne
  <2>2. u[f].start = 0 /\ u[f].step = 1 /\ u[e].start = 0 /\ u[e].step = 1 BY DEF Mergeable
  <2> HIDE DEF big
  <2> QED BY <1>1, <1>3, <2>1, <2>2
<1> HIDE DEF v, big
<1> QED BY <1>1, <1>5, <1>6, <1>7, <1>8 DEF v

LEMMA MergedInside ==
    ASSUME NEW u \in LoopWindows, NEW f \in Dims, NEW e \in Dims, f < e, NEW strides, Mergeable(u, f, e, strides),
           NEW x \in Inside(u)
    PROVE  MergedId(u, f, e, x) \in Inside(Merged(u, f, e))
<1> DEFINE v == Merged(u, f, e)
           y == MergedId(u, f, e, x)
           E == u[f].end
           G == u[e].end
<1>1. e # f /\ e \in Dims /\ f \in Dims BY DEF Dims
<1>2. x \in Coordinates /\ \A d \in Dims : x[d] \in Int /\ x[d] \in Steps(u[d])
  BY DEF Inside, Coordinates
<1>3. E \in Nat /\ G \in Nat BY MergedIsWindow
<1>4. 0 <= x[f] /\ x[f] < E /\ 0 <= x[e] /\ x[e] < G BY <1>2, MergedIsWindow
<1>5. x[f] + E * x[e] \in Int /\ 0 <= x[f] + E * x[e] /\ x[f] + E * x[e] < E * G
  <2>1. x[e] \in Nat /\ x[e] + 1 <= G /\ x[e] + 1 \in Nat BY <1>2, <1>3, <1>4
  <2> DEFINE z == x[e]
  <2> HIDE DEF E, G, z
  <2>2. E * (z + 1) <= E * G
    <3>1. z \in Nat /\ z + 1 \in Nat /\ z + 1 <= G BY <2>1 DEF z
    <3>2. (z + 1) * E <= G * E BY <1>3, <3>1, ProductGrows
    <3>3. (z + 1) * E = E * (z + 1) /\ G * E = E * G BY <1>3, <3>1
    <3> QED BY <3>2, <3>3
  <2>3. E * (z + 1) = E * z + E /\ E * z \in Nat BY <1>3, <2>1 DEF z
  <2>4. E * G \in Nat BY <1>3
  <2> QED BY <1>2, <1>3, <1>4, <2>2, <2>3, <2>4 DEF z
<1>6. \A d \in Dims : y[d] = IF d = f THEN x[f] + E * x[e] ELSE IF d = e THEN 0 ELSE x[d] BY DEF MergedId
<1>7. y \in Coordinates
  <2>1. DOMAIN y = Dims /\ y = [d \in Dims |-> y[d]] BY DEF MergedId
  <2> HIDE DEF y, E
  <2>2. \A d \in Dims : y[d] \in Int BY <1>2, <1>5, <1>6
  <2> QED BY <2>1, <2>2 DEF Coordinates
<1> HIDE DEF y, E, G
<1>8. \A d \in Dims : y[d] \in Steps(v[d])
  <2> SUFFICES ASSUME NEW d \in Dims PROVE y[d] \in Steps(v[d]) OBVIOUS
  <2>1. CASE d = f
    <3>1. y[f] = x[f] + E * x[e] BY <1>6
    <3>2. y[f] \in Int /\ 0 <= y[f] /\ y[f] < u[f].end * u[e].end BY <1>5, <3>1 DEF E, G
    <3> QED BY <2>1, <3>2, MergedIsWindow
  <2>2. CASE d = e
    <3>1. y[e] = 0 BY <1>1, <1>6
    <3> QED BY <2>2, <3>1, MergedIsWindow
  <2>3. CASE d \in Dims \ {e, f}
    <3>1. y[d] = x[d] BY <1>6, <2>3
    <3>2. v[d] = u[d] BY <2>3, MergedIsWindow
    <3> QED BY <1>2, <3>1, <3>2
  <2> QED BY <2>1, <2>2, <2>3
<1> QED BY <1>7, <1>8 DEF Inside, y

(* Every coordinates come from some.                                       *)
LEMMA MergedOnto ==
    ASSUME NEW u \in LoopWindows, NEW f \in Dims, NEW e \in Dims, f < e, NEW strides, Mergeable(u, f, e, strides),
           NEW y \in Inside(Merged(u, f, e))
    PROVE  \E x \in Inside(u) : MergedId(u, f, e, x) = y
<1> DEFINE v == Merged(u, f, e)
           E == u[f].end
           G == u[e].end
           q == y[f] \div E
           r == y[f] % E
           x == [d \in Dims |-> IF d = f THEN r ELSE IF d = e THEN q ELSE y[d]]
<1>1. e # f /\ e \in Dims /\ f \in Dims BY DEF Dims
<1>2. y \in Coordinates /\ \A d \in Dims : y[d] \in Int /\ y[d] \in Steps(v[d])
  BY DEF Inside, Coordinates
<1>3. E \in Nat /\ G \in Nat BY MergedIsWindow
<1>4. 0 <= y[f] /\ y[f] < E * G /\ y[e] = 0 BY <1>2, MergedIsWindow
<1>5. E # 0
  <2> SUFFICES ASSUME E = 0 PROVE FALSE OBVIOUS
  <2>1. 0 * G = 0 BY <1>3
  <2> HIDE DEF E, G
  <2> QED BY <1>2, <1>4, <2>1
<1>6. q \in Nat /\ r \in Nat /\ r < E /\ y[f] = E * q + r
  <2>1. y[f] \in Nat BY <1>2, <1>4
  <2> HIDE DEF E, G
  <2> QED BY <1>3, <1>5, <2>1, DivMod
<1>7. q < G
  <2> DEFINE c == y[f]
  <2> HIDE DEF E, G, q, r, c
  <2>0. c < E * G /\ c = E * q + r BY <1>4, <1>6 DEF c
  <2> SUFFICES ASSUME G <= q PROVE FALSE BY <1>3, <1>6
  <2>1. G * E <= q * E BY <1>3, <1>6, ProductGrows
  <2>2. G * E = E * G /\ q * E = E * q /\ E * G \in Nat /\ E * q \in Nat BY <1>3, <1>6
  <2> QED BY <1>6, <2>0, <2>1, <2>2
<1> HIDE DEF q, r
<1>8. x \in Coordinates /\ x[f] = r /\ x[e] = q /\ \A d \in Dims \ {e, f} : x[d] = y[d]
  BY <1>1, <1>2, <1>6 DEF Coordinates
<1> HIDE DEF x
<1>9. x \in Inside(u)
  <2> SUFFICES ASSUME NEW d \in Dims PROVE x[d] \in Steps(u[d]) BY <1>8 DEF Inside
  <2>1. CASE d = f
    <3>1. r \in Int /\ 0 <= r /\ r < u[f].end BY <1>6
    <3> QED BY <1>8, <2>1, <3>1, MergedIsWindow
  <2>2. CASE d = e
    <3>1. q \in Int /\ 0 <= q /\ q < u[e].end BY <1>6, <1>7
    <3> QED BY <1>8, <2>2, <3>1, MergedIsWindow
  <2>3. CASE d \in Dims \ {e, f}
    <3>1. v[d] = u[d] BY <2>3, MergedIsWindow
    <3> HIDE DEF v
    <3> QED BY <1>2, <1>8, <2>3, <3>1
  <2> QED BY <2>1, <2>2, <2>3
<1>10. MergedId(u, f, e, x) = y
  <2>1. r + E * q = y[f]
    <3> HIDE DEF E
    <3>1. E * q \in Nat BY <1>3, <1>6
    <3> QED BY <1>6, <3>1
  <2> HIDE DEF E
  <2>2. \A d \in Dims : (IF d = f THEN x[f] + E * x[e] ELSE IF d = e THEN 0 ELSE x[d]) = y[d]
    BY <1>1, <1>4, <1>8, <2>1
  <2>3. y = [d \in Dims |-> y[d]] BY <1>2 DEF Coordinates
  <2>4. MergedId(u, f, e, x) = [d \in Dims |-> IF d = f THEN x[f] + E * x[e] ELSE IF d = e THEN 0 ELSE x[d]]
    BY DEF MergedId, E
  <2> QED BY <2>2, <2>3, <2>4
<1> QED BY <1>9, <1>10

(* In the same order.                                                      *)
LEMMA MergedInOrder ==
    ASSUME NEW u \in LoopWindows, NEW f \in Dims, NEW e \in Dims, f < e, NEW strides, Mergeable(u, f, e, strides),
           NEW x \in Inside(u), NEW y \in Inside(u), Earlier(x, y)
    PROVE  Earlier(MergedId(u, f, e, x), MergedId(u, f, e, y))
<1> DEFINE a == MergedId(u, f, e, x)
           b == MergedId(u, f, e, y)
           E == u[f].end
<1> SUFFICES Earlier(a, b) OBVIOUS
<1>1. e # f /\ e \in Int /\ f \in Int /\ \A d \in Dims : d \in Int /\ d \in 1..4 BY DEF Dims
<1>2. \A d \in Dims : x[d] \in Int /\ x[d] \in Steps(u[d]) /\ y[d] \in Int /\ y[d] \in Steps(u[d])
  BY DEF Inside, Coordinates
<1>3. E \in Nat BY MergedIsWindow
<1>4. 0 <= x[f] /\ x[f] < E /\ 0 <= x[e] /\ 0 <= y[f] /\ y[f] < E /\ 0 <= y[e] BY <1>2, MergedIsWindow
<1>5. \A d \in Dims : /\ a[d] = IF d = f THEN x[f] + E * x[e] ELSE IF d = e THEN 0 ELSE x[d]
                      /\ b[d] = IF d = f THEN y[f] + E * y[e] ELSE IF d = e THEN 0 ELSE y[d]
  BY DEF MergedId
<1>6. \A m \in f+1..e-1 : m \in Dims /\ x[m] = 0 /\ y[m] = 0
  <2> SUFFICES ASSUME NEW m \in f+1..e-1 PROVE m \in Dims /\ x[m] = 0 /\ y[m] = 0 OBVIOUS
  <2>1. m \in Dims BY <1>1 DEF Dims
  <2>2. u[m] = One(0) BY DEF Mergeable
  <2>3. Steps(u[m]) = {0} BY <2>2, StepsOfOne
  <2> QED BY <1>2, <2>1, <2>3
<1> HIDE DEF a, b, E
<1>7. PICK n \in Dims : x[n] < y[n] /\ \A m \in n+1..4 : x[m] = y[m] BY DEF Earlier
<1>8. \A m \in n+1..4 : m \in Dims /\ m # n BY <1>1 DEF Dims
<1>9. CASE n > e
  <2>1. a[n] < b[n] BY <1>1, <1>5, <1>7, <1>9
  <2>2. \A m \in n+1..4 : a[m] = b[m]
    <3>1. \A m \in n+1..4 : m # e /\ m # f BY <1>1, <1>9
    <3> QED BY <1>5, <1>7, <1>8, <3>1
  <2> QED BY <2>1, <2>2 DEF Earlier
<1>10. CASE n = e
  <2> DEFINE p == x[e]
             q == y[e]
  <2>1. p \in Nat /\ q \in Nat /\ p + 1 <= q /\ p + 1 \in Nat BY <1>2, <1>4, <1>7, <1>10
  <2>2. x[f] + E * p < y[f] + E * q
    <3>1. x[f] \in Nat /\ y[f] \in Nat /\ x[f] < E BY <1>2, <1>4
    <3> HIDE DEF p, q
    <3>2. (p + 1) * E <= q * E BY <1>3, <2>1, ProductGrows
    <3>3. (p + 1) * E = E * p + E /\ q * E = E * q /\ E * p \in Nat /\ E * q \in Nat BY <1>3, <2>1
    <3> QED BY <1>3, <3>1, <3>2, <3>3
  <2>3. a[f] < b[f] BY <1>5, <2>2
  <2>4. \A m \in f+1..4 : a[m] = b[m]
    <3> SUFFICES ASSUME NEW m \in f+1..4 PROVE a[m] = b[m] OBVIOUS
    <3>1. m \in Dims /\ m # f BY <1>1 DEF Dims
    <3>2. CASE m \in f+1..e-1 BY <1>5, <1>6, <3>1, <3>2
    <3>3. CASE m = e BY <1>5, <3>1, <3>3
    <3>4. CASE m \in e+1..4
      <4>1. x[m] = y[m] BY <1>7, <1>10, <3>4
      <4>2. m # e BY <1>1, <3>4
      <4> QED BY <1>5, <3>1, <4>1, <4>2
    <3> QED BY <1>1, <3>2, <3>3, <3>4
  <2> QED BY <2>3, <2>4 DEF Earlier
<1>11. ASSUME n < e PROVE Earlier(a, b)
  <2>1. n <= f
    <3> SUFFICES ASSUME n > f PROVE FALSE BY <1>1
    <3>1. n \in f+1..e-1 BY <1>1, <1>11
    <3> QED BY <1>6, <1>7, <3>1
  <2>2. x[e] = y[e]
    <3>1. e \in n+1..4 BY <1>1, <1>11
    <3> QED BY <1>7, <3>1
  <2>3. x[e] \in Int /\ E * x[e] \in Int BY <1>2, <1>3
  <2>4. a[n] < b[n]
    <3>1. CASE n = f
      <4>1. a[n] = x[f] + E * x[e] /\ b[n] = y[f] + E * x[e] BY <1>5, <2>2, <3>1
      <4>2. x[f] < y[f] /\ x[f] \in Int /\ y[f] \in Int BY <1>2, <1>7, <3>1
      <4> QED BY <2>3, <4>1, <4>2
    <3>2. CASE n # f
      <4>1. a[n] = x[n] /\ b[n] = y[n] BY <1>1, <1>5, <1>11, <3>2
      <4> QED BY <1>7, <4>1
    <3> QED BY <3>1, <3>2
  <2>5. \A m \in n+1..4 : a[m] = b[m]
    <3> SUFFICES ASSUME NEW m \in n+1..4 PROVE a[m] = b[m] OBVIOUS
    <3>1. m \in Dims /\ x[m] = y[m] BY <1>7, <1>8
    <3>2. CASE m = f
      <4>1. x[f] = y[f] BY <3>1, <3>2
      <4> QED BY <1>5, <2>2, <3>2, <4>1
    <3>3. CASE m # f BY <1>5, <3>1, <3>3
    <3> QED BY <3>2, <3>3
  <2> QED BY <2>4, <2>5 DEF Earlier
<1> QED BY <1>1, <1>9, <1>10, <1>11

(* At the same place.                                                      *)
LEMMA MergedOffset ==
    ASSUME NEW u \in LoopWindows, NEW f \in Dims, NEW e \in Dims, f < e, NEW strides \in Coordinates,
           Mergeable(u, f, e, strides), NEW x \in Inside(u)
    PROVE  Dot(strides, MergedId(u, f, e, x)) = Dot(strides, x)
<1> DEFINE a == MergedId(u, f, e, x)
           E == u[f].end
           t(n) == strides[n] * x[n]
           z(n) == strides[n] * a[n]
<1> SUFFICES Dot(strides, a) = Dot(strides, x) OBVIOUS
<1>1. e # f /\ \A d \in Dims : d \in Int BY DEF Dims
<1>2. \A d \in Dims : x[d] \in Int /\ strides[d] \in Int BY DEF Inside, Coordinates
<1>3. E \in Nat /\ strides[e] = strides[f] * E BY MergedIsWindow DEF Mergeable
<1>4. \A d \in Dims : a[d] = IF d = f THEN x[f] + E * x[e] ELSE IF d = e THEN 0 ELSE x[d] BY DEF MergedId
<1> HIDE DEF a, E
<1>5. \A d \in Dims \ {e, f} : z(d) = t(d) BY <1>4
<1>6. z(f) + z(e) = t(f) + t(e)
  <2> DEFINE g == strides[f]
             h == strides[e]
             p == x[f]
             q == x[e]
  <2>1. g \in Int /\ h \in Int /\ p \in Int /\ q \in Int /\ h = g * E BY <1>2, <1>3
  <2>2. a[f] = p + E * q /\ a[e] = 0 BY <1>1, <1>4
  <2> HIDE DEF g, h, p, q
  <2>3. g * (p + E * q) + h * 0 = g * p + (g * E) * q BY <1>3, <2>1
  <2>4. g * (p + E * q) + h * 0 = g * p + h * q BY <2>1, <2>3
  <2> QED BY <2>2, <2>4 DEF g, h, p, q
<1>7. \A d \in Dims : t(d) \in Int BY <1>2
<1>8. \A d \in Dims : z(d) \in Int
  <2>1. x[f] + E * x[e] \in Int BY <1>2, <1>3
  <2>2. \A d \in Dims : a[d] \in Int BY <1>2, <1>4, <2>1
  <2> QED BY <1>2, <2>2
<1>9. Dot(strides, a) = z(1) + z(2) + z(3) + z(4) /\ Dot(strides, x) = t(1) + t(2) + t(3) + t(4) BY DEF Dot
<1>10. /\ 1 \in Dims /\ 2 \in Dims /\ 3 \in Dims /\ 4 \in Dims
       /\ e \in {1, 2, 3, 4} /\ f \in {1, 2, 3, 4}
  BY DEF Dims
<1> HIDE DEF t, z
<1>11. CASE f = 1 /\ e = 2 BY <1>5, <1>6, <1>7, <1>8, <1>9, <1>10, <1>11
<1>12. CASE f = 1 /\ e = 3 BY <1>5, <1>6, <1>7, <1>8, <1>9, <1>10, <1>12
<1>13. CASE f = 1 /\ e = 4 BY <1>5, <1>6, <1>7, <1>8, <1>9, <1>10, <1>13
<1>14. CASE f = 2 /\ e = 3 BY <1>5, <1>6, <1>7, <1>8, <1>9, <1>10, <1>14
<1>15. CASE f = 2 /\ e = 4 BY <1>5, <1>6, <1>7, <1>8, <1>9, <1>10, <1>15
<1>16. CASE f = 3 /\ e = 4 BY <1>5, <1>6, <1>7, <1>8, <1>9, <1>10, <1>16
<1>17. \/ f = 1 /\ (e = 2 \/ e = 3 \/ e = 4)
       \/ f = 2 /\ (e = 3 \/ e = 4)
       \/ f = 3 /\ e = 4
  BY ONLY <1>10, f < e
<1> QED BY <1>11, <1>12, <1>13, <1>14, <1>15, <1>16, <1>17

(* Where the lambda finds its element of a tensor as large as the window.  *)
There(w, strides) == LET calls == ExecuteWindowLoop(w, strides)
                     IN  [k \in DOMAIN calls |-> calls[k].offset[{}]]

LEMMA MergedLeads ==
    ASSUME {} \in Broadcasts, NEW u \in LoopWindows, NEW f \in Dims, NEW e \in Dims, f < e,
           NEW strides \in Coordinates, Mergeable(u, f, e, strides)
    PROVE  There(Merged(u, f, e), strides) = There(u, strides)
<1> DEFINE v == Merged(u, f, e)
           cu == ExecuteWindowLoop(u, strides)
           cv == ExecuteWindowLoop(v, strides)
           at(k) == MergedId(u, f, e, cu[k].id)
           offsets(p) == [ones \in Broadcasts |-> Dot(strides, [n \in Dims |-> IF n \in ones THEN 0 ELSE p[n]])]
           d == [k \in DOMAIN cu |-> [id |-> at(k), offset |-> offsets(at(k))]]
<1>1. v \in LoopWindows BY MergedIsWindow
<1>2. Lists(cu, Inside(u), strides) BY LoopLists
<1>3. Lists(cv, Inside(v), strides) BY <1>1, LoopLists
<1> HIDE DEF cu, cv
<1>4. /\ cu \in Seq(Records) /\ Len(cu) \in Nat /\ DOMAIN cu = 1..Len(cu)
      /\ \A k \in DOMAIN cu : cu[k].id \in Inside(u)
  BY <1>2 DEF Lists
<1>5. \A k \in DOMAIN cu : at(k) \in Inside(v) BY <1>4, MergedInside
<1>6. \A p \in Coordinates : offsets(p) \in [Broadcasts -> Int]
  <2> SUFFICES ASSUME NEW p \in Coordinates, NEW ones \in Broadcasts
               PROVE  Dot(strides, [n \in Dims |-> IF n \in ones THEN 0 ELSE p[n]]) \in Int
    OBVIOUS
  <2> DEFINE b == [n \in Dims |-> IF n \in ones THEN 0 ELSE p[n]]
  <2>1. \A n \in Dims : b[n] \in Int /\ strides[n] \in Int BY DEF Coordinates
  <2> HIDE DEF b
  <2>2. /\ strides[1] * b[1] \in Int /\ strides[2] * b[2] \in Int
        /\ strides[3] * b[3] \in Int /\ strides[4] * b[4] \in Int
    BY <2>1 DEF Dims
  <2>3. Dot(strides, b) \in Int BY <2>2 DEF Dot
  <2> QED BY <2>3 DEF b
<1> HIDE DEF v, at, offsets
<1>7. /\ DOMAIN d = DOMAIN cu
      /\ \A k \in DOMAIN cu : d[k].id = at(k) /\ d[k].offset = offsets(at(k)) /\ d[k] \in Records
  <2>1. \A k \in DOMAIN cu : at(k) \in Coordinates /\ offsets(at(k)) \in [Broadcasts -> Int]
    BY <1>5, <1>6 DEF Inside
  <2> QED BY <2>1 DEF Records
<1>8. d \in Seq(Records)
  <2>1. d = [k \in 1..Len(cu) |-> d[k]] BY <1>4
  <2> HIDE DEF d
  <2> QED BY <1>4, <1>7, <2>1
<1> HIDE DEF d
<1>9. Lists(d, Inside(v), strides)
  <2>1. \A k \in DOMAIN d : d[k].id \in Inside(v) BY <1>5, <1>7
  <2>2. \A p \in Inside(v) : \E k \in DOMAIN d : d[k].id = p
    <3> SUFFICES ASSUME NEW p \in Inside(v) PROVE \E k \in DOMAIN d : d[k].id = p OBVIOUS
    <3>1. PICK x \in Inside(u) : MergedId(u, f, e, x) = p BY MergedOnto DEF v
    <3>2. PICK k \in DOMAIN cu : cu[k].id = x BY <1>2 DEF Lists
    <3>3. at(k) = p BY <3>1, <3>2 DEF at
    <3> QED BY <1>7, <3>3
  <2>3. \A k, l \in DOMAIN d : k < l => Earlier(d[k].id, d[l].id)
    <3> SUFFICES ASSUME NEW k \in DOMAIN cu, NEW l \in DOMAIN cu, k < l PROVE Earlier(at(k), at(l))
      BY <1>7
    <3>1. Earlier(cu[k].id, cu[l].id) BY <1>2 DEF Lists
    <3> QED BY <1>4, <3>1, MergedInOrder DEF at
  <2>4. \A k \in DOMAIN d, ones \in Broadcasts :
           d[k].offset[ones] = Dot(strides, [n \in Dims |-> IF n \in ones THEN 0 ELSE d[k].id[n]])
    <3> SUFFICES ASSUME NEW k \in DOMAIN d, NEW ones \in Broadcasts
                 PROVE  d[k].offset[ones] = Dot(strides, [n \in Dims |-> IF n \in ones THEN 0 ELSE d[k].id[n]])
      OBVIOUS
    <3> DEFINE p == d[k].id
    <3>1. d[k].offset = offsets(p) BY <1>7
    <3> HIDE DEF p
    <3>2. offsets(p)[ones] = Dot(strides, [n \in Dims |-> IF n \in ones THEN 0 ELSE p[n]]) BY DEF offsets
    <3> QED BY <3>1, <3>2 DEF p
  <2> QED BY <1>8, <2>1, <2>2, <2>3, <2>4 DEF Lists
<1>10. d = cv
  <2>1. Inside(v) \in SUBSET Coordinates BY DEF Inside
  <2> QED BY <1>3, <1>9, <2>1, ListedOnce
<1>11. ASSUME NEW k \in DOMAIN cu PROVE cv[k].offset[{}] = cu[k].offset[{}]
  <2> DEFINE x == cu[k].id
             y == MergedId(u, f, e, x)
  <2>1. x \in Inside(u) /\ x \in Coordinates BY <1>4 DEF Inside
  <2>2. y \in Coordinates BY <1>5 DEF at, Inside
  <2>3. cv[k].offset = offsets(y) BY <1>7, <1>10 DEF at
  <2>4. cu[k].offset[{}] = Dot(strides, [n \in Dims |-> IF n \in {} THEN 0 ELSE cu[k].id[n]])
    BY <1>2, {} \in Broadcasts DEF Lists
  <2>5. Dot(strides, y) = Dot(strides, x) BY <2>1, MergedOffset
  <2> HIDE DEF x, y
  <2>6. offsets(y)[{}] = Dot(strides, [n \in Dims |-> IF n \in {} THEN 0 ELSE y[n]])
    BY {} \in Broadcasts DEF offsets
  <2>7. [n \in Dims |-> IF n \in {} THEN 0 ELSE x[n]] = x /\ [n \in Dims |-> IF n \in {} THEN 0 ELSE y[n]] = y
    BY <2>1, <2>2 DEF Coordinates
  <2>8. cu[k].offset[{}] = Dot(strides, [n \in Dims |-> IF n \in {} THEN 0 ELSE x[n]]) BY <2>4 DEF x
  <2> QED BY <2>3, <2>5, <2>6, <2>7, <2>8
<1>12. DOMAIN cv = DOMAIN cu BY <1>7, <1>10
<1>13. [k \in DOMAIN cv |-> cv[k].offset[{}]] = [k \in DOMAIN cu |-> cu[k].offset[{}]] BY <1>11, <1>12
<1> QED BY <1>13, Zenon DEF There, cu, cv, v

(* Collapsing one dimension after the other.                               *)
Extent(w, first, last, d) ==
    LET end[n \in first..last] == IF n = first THEN w[n].end ELSE end[n - 1] * w[n].end IN end[d]

LEMMA ExtentIs ==
    ASSUME NEW w \in LoopWindows, NEW first \in 1..3, NEW last \in first+1..4
    PROVE  /\ Extent(w, first, last, first) = w[first].end
           /\ \A d \in first..last-1 :
                 Extent(w, first, last, d + 1) = Extent(w, first, last, d) * w[d + 1].end
<1> DEFINE Eq(end) == end = [n \in first..last |-> IF n = first THEN w[n].end ELSE end[n - 1] * w[n].end]
           end == CHOOSE g : Eq(g)
           e0 == w[first].end
           e1 == e0 * w[first + 1].end
           e2 == e1 * w[first + 2].end
           e3 == e2 * w[first + 3].end
           h == [n \in first..last |-> IF n = first THEN e0 ELSE IF n = first + 1 THEN e1
                                       ELSE IF n = first + 2 THEN e2 ELSE e3]
<1>1. \A d : Extent(w, first, last, d) = end[d] BY Zenon DEF Extent
<1>2. \A n \in first..last : n = first \/ n = first + 1 \/ n = first + 2 \/ n = first + 3 OBVIOUS
<1>3. \A n \in first..last : h[n] = IF n = first THEN w[n].end ELSE h[n - 1] * w[n].end
  <2> SUFFICES ASSUME NEW n \in first..last
               PROVE  h[n] = IF n = first THEN w[n].end ELSE h[n - 1] * w[n].end
    OBVIOUS
  <2>1. CASE n = first BY <2>1
  <2>2. ASSUME n # first PROVE h[n] = h[n - 1] * w[n].end
    <3>1. n - 1 \in first..last BY <2>2
    <3>2. CASE n = first + 1
      <4>1. h[n - 1] = e0 /\ h[n] = e1
        <5>1. n - 1 = first /\ n # first BY <3>2
        <5> HIDE DEF e0, e1, e2, e3
        <5> QED BY <3>1, <3>2, <5>1
      <4> QED BY <3>2, <4>1
    <3>3. CASE n = first + 2
      <4>1. h[n - 1] = e1 /\ h[n] = e2
        <5>1. n - 1 = first + 1 /\ n # first /\ n # first + 1 /\ n - 1 # first BY <3>3
        <5> HIDE DEF e0, e1, e2, e3
        <5> QED BY <3>1, <3>3, <5>1
      <4> HIDE DEF e1
      <4> QED BY <3>3, <4>1
    <3>4. CASE n = first + 3
      <4>1. h[n - 1] = e2 /\ h[n] = e3
        <5>1. n - 1 = first + 2 /\ n # first /\ n # first + 1 /\ n # first + 2 /\ n - 1 # first /\ n - 1 # first + 1
          BY <3>4
        <5> HIDE DEF e0, e1, e2, e3
        <5> QED BY <3>1, <3>4, <5>1
      <4> HIDE DEF e2
      <4> QED BY <3>4, <4>1
    <3> QED BY <1>2, <2>2, <3>2, <3>3, <3>4
  <2> QED BY <2>1, <2>2
<1>4. h = [n \in first..last |-> h[n]] OBVIOUS
<1> HIDE DEF h
<1>5. Eq(h) BY <1>3, <1>4
<1>6. Eq(end)
  <2> HIDE DEF Eq
  <2> QED BY <1>5
<1> HIDE DEF end
<1>7. \A n \in first..last : end[n] = IF n = first THEN w[n].end ELSE end[n - 1] * w[n].end BY <1>6
<1>8. first \in first..last /\ \A d \in first..last-1 : d + 1 \in first..last /\ d + 1 # first /\ (d + 1) - 1 = d
  OBVIOUS
<1> QED BY <1>1, <1>7, <1>8

UpTo(w, first, last, j) ==
    [d \in Dims |-> IF d = first THEN [w[d] EXCEPT !.end = Extent(w, first, last, j)]
                    ELSE IF first < d /\ d <= j THEN One(0) ELSE w[d]]

LEMMA CollapseIs ==
    ASSUME NEW w, NEW full, NEW first, NEW last
    PROVE  Collapse(w, full, first, last) =
             IF Collapsable(w, full, first, last) THEN UpTo(w, first, last, last) ELSE w
BY Zenon DEF Collapse, UpTo, Extent

LEMMA CollapsedLeads ==
    ASSUME {} \in Broadcasts, NEW w \in LoopWindows, NEW full \in LoopWindows,
           NEW first \in 1..3, NEW last \in first+1..4,
           w[first] = full[first], full[first].start = 0, full[first].step = 1,
           Collapsable(w, full, first, last)
    PROVE  There(UpTo(w, first, last, last), PackedStrides(full)) = There(w, PackedStrides(full))
<1> DEFINE strides == PackedStrides(full)
           E(j) == Extent(w, first, last, j)
           U(j) == UpTo(w, first, last, j)
           Same(j) == /\ U(j) \in LoopWindows /\ E(j) \in Nat /\ strides[j + 1] = strides[first] * E(j)
                      /\ There(U(j), strides) = There(w, strides)
           S == {i \in Nat : first + i < last => Same(first + i)}
<1>1. strides \in Coordinates /\ \A n \in 2..4 : strides[n] = strides[n - 1] * full[n - 1].end
  BY PackedStridesAre
<1> HIDE DEF strides
<1>2. \A d \in Dims : d \in Int /\ w[d] \in Dimension /\ Valid(w[d]) /\ w[d].end \in Int /\ w[d].step \in Nat \ {0}
  BY DimensionTypes DEF Dims
<1>3. /\ first \in Int /\ last \in Int /\ first < last /\ first \in Dims
      /\ \A d \in first+1..last : d \in Dims
  BY DEF Dims
<1>4. \A d \in first+1..last : w[d].start = 0 /\ w[d].step = 1 /\ full[d].end = w[d].end /\ w[d].end \in Nat
  <2> SUFFICES ASSUME NEW d \in first+1..last
               PROVE  w[d].start = 0 /\ w[d].step = 1 /\ full[d].end = w[d].end /\ w[d].end \in Nat
    OBVIOUS
  <2>1. w[d].start = 0 /\ w[d].step <= 1 /\ full[d].end = w[d].end BY DEF Collapsable
  <2>2. w[d].start <= w[d].end /\ w[d].end \in Int /\ w[d].step \in Nat \ {0} BY <1>2, <1>3 DEF Valid
  <2> QED BY <2>1, <2>2
<1>5. w[first].start = 0 /\ w[first].step = 1 /\ w[first].end = full[first].end /\ w[first].end \in Nat
  <2>1. w[first].start <= w[first].end /\ w[first].end \in Int BY <1>2, <1>3 DEF Valid
  <2> QED BY <2>1
<1>6. E(first) = w[first].end /\ \A d \in first..last-1 : E(d + 1) = E(d) * w[d + 1].end
  BY ExtentIs
<1> HIDE DEF E
<1>7. \A j : U(j) = [d \in Dims |-> IF d = first THEN [w[d] EXCEPT !.end = E(j)]
                                    ELSE IF first < d /\ d <= j THEN One(0) ELSE w[d]]
  BY DEF UpTo, E
<1>8. ASSUME NEW n \in Nat
      PROVE  LET x == [w[first] EXCEPT !.end = n]
             IN  x = [start |-> 0, end |-> n, step |-> 1] /\ x.start = 0 /\ x.end = n /\ x.step = 1
  <2>1. w[first] = [start |-> 0, end |-> w[first].end, step |-> 1]
    <3>1. w[first] \in Dimension BY <1>2, <1>3
    <3>2. w[first] = [start |-> w[first].start, end |-> w[first].end, step |-> w[first].step]
      BY <3>1 DEF Dimension
    <3> QED BY <1>5, <3>2
  <2> QED BY <2>1
<1> HIDE DEF U
<1>9. Same(first)
  <2>1. U(first) = w
    <3>1. [w[first] EXCEPT !.end = w[first].end] = w[first]
      <4>1. w[first] = [start |-> w[first].start, end |-> w[first].end, step |-> w[first].step]
        BY <1>2, <1>3 DEF Dimension
      <4> QED BY <4>1
    <3>2. \A d \in Dims : ~(first < d /\ d <= first) BY <1>2, <1>3
    <3>3. w = [d \in Dims |-> w[d]] BY DEF LoopWindows
    <3> QED BY <1>6, <1>7, <3>1, <3>2, <3>3
  <2>2. strides[first + 1] = strides[first] * E(first)
    <3>1. first + 1 \in 2..4 /\ (first + 1) - 1 = first OBVIOUS
    <3> QED BY <1>1, <1>5, <1>6, <3>1
  <2> QED BY <1>5, <1>6, <2>1, <2>2
<1>10. ASSUME NEW j \in first..last-1, Same(j)
       PROVE  /\ U(j + 1) \in LoopWindows /\ E(j + 1) \in Nat
              /\ There(U(j + 1), strides) = There(w, strides)
              /\ j + 1 <= 3 => strides[(j + 1) + 1] = strides[first] * E(j + 1)
  <2> DEFINE e == j + 1
             u == U(j)
  <2>1. e \in first+1..last /\ e \in Dims /\ e \in Int /\ first < e /\ first # e BY <1>3
  <2>2. \A d \in Dims : u[d] = IF d = first THEN [w[first] EXCEPT !.end = E(j)]
                               ELSE IF first < d /\ d <= j THEN One(0) ELSE w[d]
    BY <1>7
  <2>3. /\ u[first] = [start |-> 0, end |-> E(j), step |-> 1]
        /\ u[e] = w[e]
        /\ \A m \in first+1..j : u[m] = One(0)
    <3>1. ~(first < e /\ e <= j) BY <2>1
    <3>2. \A m \in first+1..j : m \in Dims /\ m # first /\ first < m /\ m <= j BY <1>3, <2>1 DEF Dims
    <3>3. [w[first] EXCEPT !.end = E(j)] = [start |-> 0, end |-> E(j), step |-> 1] BY <1>8, <1>10
    <3> HIDE DEF u, e
    <3> QED BY <1>3, <2>1, <2>2, <3>1, <3>2, <3>3
  <2>4. w[e].start = 0 /\ w[e].step = 1 /\ w[e].end \in Nat /\ full[e].end = w[e].end BY <1>4, <2>1
  <2>5. Mergeable(u, first, e, strides)
    <3>1. e - 1 = j BY <2>1
    <3>2. strides[e] = strides[first] * E(j) BY <1>10
    <3> HIDE DEF u, e
    <3> QED BY <2>3, <2>4, <3>1, <3>2 DEF Mergeable
  <2>6. E(e) = E(j) * w[e].end BY <1>6
  <2>7. E(e) \in Nat
    <3>1. E(j) \in Nat BY <1>10
    <3> HIDE DEF e
    <3> QED BY <2>4, <2>6, <3>1
  <2>8. Merged(u, first, e) = U(e)
    <3>1. Merged(u, first, e) = [d \in Dims |-> IF d = first THEN [u[first] EXCEPT !.end = u[first].end * u[e].end]
                                                ELSE IF d = e THEN One(0) ELSE u[d]]
      BY DEF Merged
    <3>2. U(e) = [d \in Dims |-> IF d = first THEN [w[d] EXCEPT !.end = E(e)]
                                 ELSE IF first < d /\ d <= e THEN One(0) ELSE w[d]]
      BY <1>7
    <3>3. [u[first] EXCEPT !.end = u[first].end * u[e].end] = [start |-> 0, end |-> E(e), step |-> 1]
      <4> HIDE DEF u, e
      <4> QED BY <2>3, <2>6
    <3>4. [w[first] EXCEPT !.end = E(e)] = [start |-> 0, end |-> E(e), step |-> 1] BY <1>8, <2>7
    <3>5. \A d \in Dims : d # first /\ d # e =>
             u[d] = IF first < d /\ d <= e THEN One(0) ELSE w[d]
      <4>1. \A d \in Dims : d # e => (d <= j <=> d <= e) BY <1>2, <1>3
      <4> HIDE DEF u, e
      <4> QED BY <2>2, <4>1
    <3>6. \A d \in Dims : (IF d = first THEN [u[first] EXCEPT !.end = u[first].end * u[e].end]
                                                ELSE IF d = e THEN One(0) ELSE u[d])
                        = IF d = first THEN [w[d] EXCEPT !.end = E(e)]
                                 ELSE IF first < d /\ d <= e THEN One(0) ELSE w[d]
      <4> HIDE DEF u, e
      <4> QED BY <2>1, <3>3, <3>4, <3>5
    <3> HIDE DEF u, e
    <3> QED BY <3>1, <3>2, <3>6
  <2>9. u \in LoopWindows BY <1>10
  <2>10. There(Merged(u, first, e), strides) = There(u, strides)
    <3> HIDE DEF u, e
    <3> QED BY <1>1, <1>3, <2>1, <2>5, <2>9, MergedLeads
  <2>11. Merged(u, first, e) \in LoopWindows
    <3> HIDE DEF u, e
    <3> QED BY <1>3, <2>1, <2>5, <2>9, MergedIsWindow
  <2>12. e <= 3 => strides[e + 1] = strides[first] * E(e)
    <3> SUFFICES ASSUME e <= 3 PROVE strides[e + 1] = strides[first] * E(e) OBVIOUS
    <3>1. e + 1 \in 2..4 /\ (e + 1) - 1 = e BY <2>1
    <3>2. strides[e + 1] = strides[e] * w[e].end BY <1>1, <2>4, <3>1
    <3>3. strides[e] = strides[first] * E(j) BY <1>10
    <3> DEFINE g == strides[first]
               x == E(j)
               y == w[e].end
    <3>4. g \in Int /\ x \in Int /\ y \in Int BY <1>1, <1>3, <1>10, <2>4 DEF Coordinates
    <3> HIDE DEF g, x, y
    <3>5. (g * x) * y = g * (x * y) BY <3>4
    <3> QED BY <2>6, <3>2, <3>3, <3>5 DEF g, x, y
  <2> QED BY <1>10, <2>7, <2>8, <2>10, <2>11, <2>12
<1> HIDE DEF Same
<1>11. 0 \in S
  <2>1. first + 0 = first BY <1>3
  <2> QED BY <1>9, <2>1
<1>12. ASSUME NEW i \in Nat, i \in S PROVE i + 1 \in S
  <2> SUFFICES ASSUME first + (i + 1) < last PROVE Same(first + (i + 1)) OBVIOUS
  <2>1. first + i < last /\ first + (i + 1) = (first + i) + 1 /\ (first + i) + 1 <= 3 /\ first + i \in first..last-1
    BY <1>3
  <2>2. Same(first + i) BY <1>12, <2>1
  <2>3. Same((first + i) + 1) BY <1>10, <2>1, <2>2 DEF Same
  <2> QED BY <2>1, <2>3
<1> HIDE DEF S
<1>13. Nat \subseteq S BY <1>11, <1>12, SetInduction
<1> DEFINE i == last - first - 1
<1>14. i \in Nat /\ first + i < last /\ first + i = last - 1 /\ (last - 1) + 1 = last /\ last - 1 \in first..last-1
  BY <1>3
<1>15. Same(last - 1)
  <2>1. i \in S BY <1>13, <1>14
  <2> HIDE DEF i
  <2> QED BY <1>14, <2>1 DEF S
<1> QED BY <1>10, <1>14, <1>15 DEF U, strides

(* Whatever window a workload was given, a collapsed window leads to the   *)
(* same elements in the same order, for a kernel that has a tensor as      *)
(* large as its window (Window::collapse_if_possible).                     *)
THEOREM CollapsedLeadsThroughTheWindow ==
    ASSUME {} \in Broadcasts
    PROVE  Spec => []CollapsedIsTheSame
<1>1. SInv => CollapsedIsTheSame
  <2> SUFFICES ASSUME SInv, Ready, NEW w \in DOMAIN windows, NEW first \in 1..3, NEW last \in first+1..4
               PROVE  LET all     == AllDimensions(windows[w])
                          full    == AllDimensions(call.window)
                          strides == PackedStrides(full)
                          there(c) == LET calls == ExecuteWindowLoop(c, strides)
                                      IN  [k \in DOMAIN calls |-> calls[k].offset[{}]]
                      IN  all[first] = full[first] /\ full[first].start = 0 /\ full[first].step = 1
                          => there(Collapse(all, full, first, last)) = there(all)
    BY DEF CollapsedIsTheSame
  <2> DEFINE all  == AllDimensions(windows[w])
             full == AllDimensions(call.window)
  <2>1. Cuts(windows, call.window) /\ WindowOK(call.window) BY ReadyWindows
  <2>2. all \in LoopWindows /\ full \in LoopWindows BY <2>1, AllDimensionsAre DEF Cuts
  <2> HIDE DEF all, full
  <2>3. ASSUME all[first] = full[first], full[first].start = 0, full[first].step = 1
        PROVE  There(Collapse(all, full, first, last), PackedStrides(full)) = There(all, PackedStrides(full))
    <3>1. CASE Collapsable(all, full, first, last)
      <4>1. Collapse(all, full, first, last) = UpTo(all, first, last, last) BY <3>1, CollapseIs
      <4> QED BY <2>2, <2>3, <3>1, <4>1, CollapsedLeads
    <3>2. CASE ~Collapsable(all, full, first, last)
      <4>1. Collapse(all, full, first, last) = all BY <3>2, CollapseIs
      <4> QED BY <4>1
    <3> QED BY <3>1, <3>2
  <2> QED BY <2>3, Zenon DEF There, all, full
<1> QED BY <1>1, SInvAlways, PTL
=============================================================================
