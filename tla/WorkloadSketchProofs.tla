------------------------ MODULE WorkloadSketchProofs ------------------------
(***************************************************************************)
(* Theorems about the dependency graphs of a sketch and the fusion of its  *)
(* operators, for every number of operators and tensors.                   *)
(***************************************************************************)
EXTENDS WorkloadSketch, DataInduction, FiniteSetTheorems

Lists == UNION {[S -> Seq(Nat)] : S \in SUBSET Nat}

LEMMA ListIs ==
    ASSUME NEW f
    PROVE  f \in Lists <=> /\ DOMAIN f \in SUBSET Nat /\ f = [x \in DOMAIN f |-> f[x]]
                           /\ \A x \in DOMAIN f : f[x] \in Seq(Nat)
<1>1. ASSUME f \in Lists
      PROVE  /\ DOMAIN f \in SUBSET Nat /\ f = [x \in DOMAIN f |-> f[x]]
             /\ \A x \in DOMAIN f : f[x] \in Seq(Nat)
  <2>1. PICK S \in SUBSET Nat : f \in [S -> Seq(Nat)] BY <1>1 DEF Lists
  <2> QED BY <2>1
<1>2. ASSUME DOMAIN f \in SUBSET Nat, f = [x \in DOMAIN f |-> f[x]],
             \A x \in DOMAIN f : f[x] \in Seq(Nat)
      PROVE  f \in Lists
  <2>1. f \in [DOMAIN f -> Seq(Nat)] BY <1>2
  <2> QED BY <1>2, <2>1 DEF Lists
<1> QED BY <1>1, <1>2

LEMMA ToSetAppend ==
    ASSUME NEW s \in Seq(Nat), NEW e \in Nat
    PROVE  Append(s, e) \in Seq(Nat) /\ ToSet(Append(s, e)) = ToSet(s) \union {e}
<1>1. DOMAIN Append(s, e) = DOMAIN s \union {Len(s) + 1} OBVIOUS
<1>2. \A i \in DOMAIN s : Append(s, e)[i] = s[i] OBVIOUS
<1>3. Append(s, e)[Len(s) + 1] = e OBVIOUS
<1> QED BY <1>1, <1>2, <1>3 DEF ToSet

LEMMA WithListFacts ==
    ASSUME NEW f \in Lists, NEW x \in Nat
    PROVE  /\ WithList(f, x) \in Lists /\ DOMAIN WithList(f, x) = DOMAIN f \union {x}
           /\ WithList(f, x)[x] = <<>> /\ \A y \in DOMAIN f : y # x => WithList(f, x)[y] = f[y]
<1>1. DOMAIN f \in SUBSET Nat /\ \A y \in DOMAIN f : f[y] \in Seq(Nat) BY ListIs
<1> DEFINE h == WithList(f, x)
<1>2. h = [y \in DOMAIN f \union {x} |-> IF y = x THEN <<>> ELSE f[y]] BY DEF WithList
<1> HIDE DEF h
<1>3. \A y \in DOMAIN h : h[y] \in Seq(Nat) BY <1>1, <1>2
<1>4. h \in Lists BY <1>1, <1>2, <1>3, ListIs
<1> QED BY <1>2, <1>4 DEF h

AppendedAt(f, x, e) == [f EXCEPT ![x] = Append(@, e)]

Grown(h, f, x, e) ==
    /\ h \in Lists /\ DOMAIN h = DOMAIN f
    /\ ToSet(h[x]) = ToSet(f[x]) \union {e}
    /\ \A y \in DOMAIN f : y # x => h[y] = f[y]

LEMMA AppendAt ==
    ASSUME NEW f \in Lists, NEW x \in DOMAIN f, NEW e \in Nat
    PROVE  Grown(AppendedAt(f, x, e), f, x, e)
<1>1. DOMAIN f \in SUBSET Nat /\ \A y \in DOMAIN f : f[y] \in Seq(Nat) BY ListIs
<1> DEFINE h == AppendedAt(f, x, e)
<1>2. h = [y \in DOMAIN f |-> IF y = x THEN Append(f[x], e) ELSE f[y]] BY DEF AppendedAt
<1> HIDE DEF h
<1>3. Append(f[x], e) \in Seq(Nat) /\ ToSet(Append(f[x], e)) = ToSet(f[x]) \union {e}
  BY <1>1, ToSetAppend
<1>4. \A y \in DOMAIN h : h[y] \in Seq(Nat) BY <1>1, <1>2, <1>3
<1>5. h \in Lists
  <2>1. DOMAIN h = DOMAIN f /\ h = [y \in DOMAIN h |-> h[y]] BY <1>2
  <2> QED BY <1>1, <1>4, <2>1, ListIs
<1> QED BY <1>2, <1>3, <1>5 DEF h, Grown

-----------------------------------------------------------------------------
(* Graphs that an operator is linked into                                  *)

WellFormed(g) ==
    /\ g \in [srcTensors : Lists, dstTensors : Lists, srcOps : Lists, dstOps : Lists, lastOp : Int]
    /\ DOMAIN g.dstTensors = AllOps(g) /\ DOMAIN g.dstOps = AllTensors(g)

MakersOf(g, t)  == IF t \in AllTensors(g) THEN ToSet(g.srcOps[t]) ELSE {}
ReadersOf(g, t) == IF t \in AllTensors(g) THEN ToSet(g.dstOps[t]) ELSE {}

(* h is g and an operator that reads and writes so far these tensors.      *)
Linked(h, g, op, reads, writes) ==
    /\ WellFormed(h) /\ h.lastOp = g.lastOp
    /\ AllOps(h) = AllOps(g) \union {op}
    /\ AllTensors(h) = AllTensors(g) \union reads \union writes
    /\ \A t \in Nat : MakersOf(h, t) = MakersOf(g, t) \union (IF t \in writes THEN {op} ELSE {})
    /\ \A t \in Nat : ReadersOf(h, t) = ReadersOf(g, t) \union (IF t \in reads THEN {op} ELSE {})
    /\ ToSet(h.srcTensors[op]) = reads /\ ToSet(h.dstTensors[op]) = writes
    /\ \A o \in AllOps(g) : h.srcTensors[o] = g.srcTensors[o] /\ h.dstTensors[o] = g.dstTensors[o]

LEMMA ToSetNothing == ToSet(<<>>) = {}
BY DEF ToSet

LEMMA ToSetEmpty ==
    ASSUME NEW s \in Seq(Nat)
    PROVE  s = <<>> <=> ToSet(s) = {}
<1>1. DOMAIN s = 1..Len(s) /\ Len(s) \in Nat OBVIOUS
<1>2. CASE s = <<>> BY <1>2 DEF ToSet
<1>3. CASE s # <<>>
  <2>1. 1 \in DOMAIN s BY <1>3
  <2>2. s[1] \in ToSet(s) BY <2>1 DEF ToSet
  <2> QED BY <1>3, <2>2
<1> QED BY <1>2, <1>3

LEMMA NewIsLinked ==
    ASSUME NEW g, WellFormed(g), NEW op \in Nat, op \notin AllOps(g)
    PROVE  Linked([g EXCEPT !.srcTensors = WithList(@, op), !.dstTensors = WithList(@, op)], g, op, {}, {})
<1> DEFINE h == [g EXCEPT !.srcTensors = WithList(@, op), !.dstTensors = WithList(@, op)]
<1>0. h = [g EXCEPT !.srcTensors = WithList(@, op), !.dstTensors = WithList(@, op)] OBVIOUS
<1> HIDE DEF h
<1>1. h = [srcTensors |-> WithList(g.srcTensors, op), dstTensors |-> WithList(g.dstTensors, op),
           srcOps |-> g.srcOps, dstOps |-> g.dstOps, lastOp |-> g.lastOp]
  BY <1>0 DEF WellFormed
<1>2. /\ h.srcTensors = WithList(g.srcTensors, op) /\ h.dstTensors = WithList(g.dstTensors, op)
      /\ h.srcOps = g.srcOps /\ h.dstOps = g.dstOps /\ h.lastOp = g.lastOp
      /\ h = [srcTensors |-> h.srcTensors, dstTensors |-> h.dstTensors, srcOps |-> h.srcOps,
               dstOps |-> h.dstOps, lastOp |-> h.lastOp]
  <2> HIDE DEF h
  <2> QED BY <1>1
<1>3. g.srcTensors \in Lists /\ g.dstTensors \in Lists /\ g.srcOps \in Lists /\ g.dstOps \in Lists /\ g.lastOp \in Int
      /\ DOMAIN g.dstTensors = AllOps(g) /\ DOMAIN g.dstOps = AllTensors(g)
  BY DEF WellFormed
<1> HIDE DEF h
<1>4. /\ h.srcTensors \in Lists /\ DOMAIN h.srcTensors = DOMAIN g.srcTensors \union {op}
      /\ h.srcTensors[op] = <<>> /\ \A o \in AllOps(g) : h.srcTensors[o] = g.srcTensors[o]
  <2>1. /\ WithList(g.srcTensors, op) \in Lists
        /\ DOMAIN WithList(g.srcTensors, op) = DOMAIN g.srcTensors \union {op}
        /\ WithList(g.srcTensors, op)[op] = <<>>
        /\ \A o \in DOMAIN g.srcTensors : o # op => WithList(g.srcTensors, op)[o] = g.srcTensors[o]
    BY <1>3, WithListFacts
  <2> QED BY <1>2, <1>3, <2>1 DEF AllOps
<1>5. /\ h.dstTensors \in Lists /\ DOMAIN h.dstTensors = DOMAIN g.dstTensors \union {op}
      /\ h.dstTensors[op] = <<>> /\ \A o \in AllOps(g) : h.dstTensors[o] = g.dstTensors[o]
  <2>1. /\ WithList(g.dstTensors, op) \in Lists
        /\ DOMAIN WithList(g.dstTensors, op) = DOMAIN g.dstTensors \union {op}
        /\ WithList(g.dstTensors, op)[op] = <<>>
        /\ \A o \in DOMAIN g.dstTensors : o # op => WithList(g.dstTensors, op)[o] = g.dstTensors[o]
    BY <1>3, WithListFacts
  <2> QED BY <1>2, <1>3, <2>1 DEF AllOps
<1>6. h \in [srcTensors : Lists, dstTensors : Lists, srcOps : Lists, dstOps : Lists, lastOp : Int]
  BY <1>2, <1>3, <1>4, <1>5
<1>7. WellFormed(h) BY <1>2, <1>3, <1>4, <1>5, <1>6 DEF WellFormed, AllOps, AllTensors
<1>8. AllTensors(h) = AllTensors(g) /\ AllOps(h) = AllOps(g) \union {op}
  BY <1>2, <1>4 DEF AllTensors, AllOps
<1>9. \A t \in Nat : MakersOf(h, t) = MakersOf(g, t) /\ ReadersOf(h, t) = ReadersOf(g, t)
  BY <1>2, <1>8 DEF MakersOf, ReadersOf
<1>10. Linked(h, g, op, {}, {}) BY <1>2, <1>4, <1>5, <1>7, <1>8, <1>9, ToSetNothing DEF Linked
<1> QED BY <1>10 DEF h

LEMMA WithTensorFacts ==
    ASSUME NEW g, WellFormed(g), NEW t \in Nat
    PROVE  LET h == WithTensor(g, t)
           IN  /\ WellFormed(h) /\ AllTensors(h) = AllTensors(g) \union {t}
               /\ h.srcTensors = g.srcTensors /\ h.dstTensors = g.dstTensors /\ h.lastOp = g.lastOp
               /\ \A x \in Nat : MakersOf(h, x) = MakersOf(g, x) /\ ReadersOf(h, x) = ReadersOf(g, x)
<1> DEFINE h == WithTensor(g, t)
<1>1. CASE t \in AllTensors(g) BY <1>1 DEF WithTensor
<1>2. CASE t \notin AllTensors(g)
  <2>0. h = [g EXCEPT !.srcOps = WithList(@, t), !.dstOps = WithList(@, t)] BY <1>2 DEF WithTensor
  <2>1. /\ h.srcOps = WithList(g.srcOps, t) /\ h.dstOps = WithList(g.dstOps, t)
        /\ h.srcTensors = g.srcTensors /\ h.dstTensors = g.dstTensors /\ h.lastOp = g.lastOp
    BY <2>0 DEF WellFormed
  <2>2. h = [srcTensors |-> h.srcTensors, dstTensors |-> h.dstTensors, srcOps |-> h.srcOps,
             dstOps |-> h.dstOps, lastOp |-> h.lastOp]
    BY <2>0 DEF WellFormed
  <2>3. g.srcTensors \in Lists /\ g.dstTensors \in Lists /\ g.srcOps \in Lists /\ g.dstOps \in Lists /\ g.lastOp \in Int
        /\ DOMAIN g.dstTensors = AllOps(g) /\ DOMAIN g.dstOps = AllTensors(g)
    BY DEF WellFormed
  <2> HIDE DEF h
  <2>4. /\ h.srcOps \in Lists /\ DOMAIN h.srcOps = DOMAIN g.srcOps \union {t}
        /\ h.srcOps[t] = <<>> /\ \A o \in AllTensors(g) : h.srcOps[o] = g.srcOps[o]
    <3>1. /\ WithList(g.srcOps, t) \in Lists
          /\ DOMAIN WithList(g.srcOps, t) = DOMAIN g.srcOps \union {t}
          /\ WithList(g.srcOps, t)[t] = <<>>
          /\ \A o \in DOMAIN g.srcOps : o # t => WithList(g.srcOps, t)[o] = g.srcOps[o]
      BY <2>3, WithListFacts
    <3> QED BY <1>2, <2>1, <2>3, <3>1 DEF AllTensors
  <2>5. /\ h.dstOps \in Lists /\ DOMAIN h.dstOps = DOMAIN g.dstOps \union {t}
        /\ h.dstOps[t] = <<>> /\ \A o \in AllTensors(g) : h.dstOps[o] = g.dstOps[o]
    <3>1. /\ WithList(g.dstOps, t) \in Lists
          /\ DOMAIN WithList(g.dstOps, t) = DOMAIN g.dstOps \union {t}
          /\ WithList(g.dstOps, t)[t] = <<>>
          /\ \A o \in DOMAIN g.dstOps : o # t => WithList(g.dstOps, t)[o] = g.dstOps[o]
      BY <2>3, WithListFacts
    <3> QED BY <1>2, <2>1, <2>3, <3>1 DEF AllTensors
  <2>6. h \in [srcTensors : Lists, dstTensors : Lists, srcOps : Lists, dstOps : Lists, lastOp : Int]
    BY <2>1, <2>2, <2>3, <2>4, <2>5
  <2>7. WellFormed(h) BY <2>1, <2>3, <2>4, <2>5, <2>6 DEF WellFormed, AllOps, AllTensors
  <2>8. AllTensors(h) = AllTensors(g) \union {t} BY <2>4 DEF AllTensors
  <2>9. \A x \in Nat : MakersOf(h, x) = MakersOf(g, x) /\ ReadersOf(h, x) = ReadersOf(g, x)
    BY <1>2, <2>4, <2>5, <2>8, ToSetNothing DEF MakersOf, ReadersOf
  <2> QED BY <2>1, <2>7, <2>8, <2>9 DEF h
<1> QED BY <1>1, <1>2
LEMMA InputIsLinked ==
    ASSUME NEW g, NEW op \in Nat, op \notin AllOps(g), NEW reads, NEW writes, NEW h,
           Linked(h, g, op, reads, writes), NEW t \in Nat
    PROVE  Linked(LinkInput(h, op, t), g, op, reads \union {t}, writes)
<1> DEFINE w == WithTensor(h, t)
           r == LinkInput(h, op, t)
<1>1. WellFormed(h) /\ op \in AllOps(h) BY DEF Linked
<1>2. /\ WellFormed(w) /\ AllTensors(w) = AllTensors(h) \union {t}
      /\ w.srcTensors = h.srcTensors /\ w.dstTensors = h.dstTensors /\ w.lastOp = h.lastOp
      /\ \A x \in Nat : MakersOf(w, x) = MakersOf(h, x) /\ ReadersOf(w, x) = ReadersOf(h, x)
  BY <1>1, WithTensorFacts
<1>3. r = [w EXCEPT !.srcTensors[op] = Append(@, t), !.dstOps[t] = Append(@, op)] BY DEF LinkInput
<1> HIDE DEF w
<1>4. w.srcTensors \in Lists /\ w.dstTensors \in Lists /\ w.srcOps \in Lists /\ w.dstOps \in Lists /\ w.lastOp \in Int
      /\ DOMAIN w.dstTensors = AllOps(w) /\ DOMAIN w.dstOps = AllTensors(w)
  BY <1>2 DEF WellFormed
<1>5. w = [srcTensors |-> w.srcTensors, dstTensors |-> w.dstTensors, srcOps |-> w.srcOps,
           dstOps |-> w.dstOps, lastOp |-> w.lastOp]
  BY <1>2 DEF WellFormed
<1>6. r = [srcTensors |-> [w.srcTensors EXCEPT ![op] = Append(@, t)], dstTensors |-> w.dstTensors, srcOps |-> w.srcOps,
           dstOps |-> [w.dstOps EXCEPT ![t] = Append(@, op)], lastOp |-> w.lastOp]
  BY <1>3, <1>5
<1> HIDE DEF r
<1>7. op \in DOMAIN w.srcTensors /\ t \in DOMAIN w.dstOps
  BY <1>1, <1>2, <1>4 DEF AllOps
<1>8. /\ r.srcTensors \in Lists /\ DOMAIN r.srcTensors = DOMAIN w.srcTensors
      /\ ToSet(r.srcTensors[op]) = ToSet(w.srcTensors[op]) \union {t}
      /\ \A o \in DOMAIN w.srcTensors : o # op => r.srcTensors[o] = w.srcTensors[o]
  <2>1. r.srcTensors = AppendedAt(w.srcTensors, op, t) BY <1>6 DEF AppendedAt
  <2>2. w.srcTensors \in Lists /\ op \in DOMAIN w.srcTensors BY <1>4, <1>7
  <2>3. Grown(AppendedAt(w.srcTensors, op, t), w.srcTensors, op, t) BY <2>2, AppendAt
  <2>4. Grown(r.srcTensors, w.srcTensors, op, t) BY <2>1, <2>3
  <2> QED BY <2>4 DEF Grown
<1>9. /\ r.dstOps \in Lists /\ DOMAIN r.dstOps = DOMAIN w.dstOps
      /\ ToSet(r.dstOps[t]) = ToSet(w.dstOps[t]) \union {op}
      /\ \A x \in DOMAIN w.dstOps : x # t => r.dstOps[x] = w.dstOps[x]
  <2>1. r.dstOps = AppendedAt(w.dstOps, t, op) BY <1>6 DEF AppendedAt
  <2>2. w.dstOps \in Lists /\ t \in DOMAIN w.dstOps BY <1>4, <1>7
  <2>3. Grown(AppendedAt(w.dstOps, t, op), w.dstOps, t, op) BY <2>2, AppendAt
  <2>4. Grown(r.dstOps, w.dstOps, t, op) BY <2>1, <2>3
  <2> QED BY <2>4 DEF Grown
<1>10. r.dstTensors = w.dstTensors /\ r.srcOps = w.srcOps /\ r.lastOp = w.lastOp BY <1>6
<1>11. r \in [srcTensors : Lists, dstTensors : Lists, srcOps : Lists, dstOps : Lists, lastOp : Int]
  <2>1. r = [srcTensors |-> r.srcTensors, dstTensors |-> r.dstTensors, srcOps |-> r.srcOps,
             dstOps |-> r.dstOps, lastOp |-> r.lastOp]
    BY <1>6
  <2> QED BY <1>4, <1>8, <1>9, <1>10, <2>1
<1>12. AllOps(r) = AllOps(h) /\ AllTensors(r) = AllTensors(h) \union {t}
  BY <1>2, <1>8, <1>10 DEF AllOps, AllTensors
<1>13. WellFormed(r)
  BY <1>4, <1>8, <1>9, <1>10, <1>11 DEF WellFormed, AllOps, AllTensors
<1>14. ASSUME NEW x \in Nat
       PROVE  /\ MakersOf(r, x) = MakersOf(h, x)
              /\ ReadersOf(r, x) = ReadersOf(h, x) \union (IF x = t THEN {op} ELSE {})
  <2>1. MakersOf(w, x) = MakersOf(h, x) /\ ReadersOf(w, x) = ReadersOf(h, x) BY <1>2
  <2>2. MakersOf(r, x) = MakersOf(w, x) BY <1>10 DEF MakersOf, AllTensors
  <2>3. ReadersOf(r, x) = ReadersOf(w, x) \union (IF x = t THEN {op} ELSE {})
    BY <1>4, <1>7, <1>9, <1>10 DEF ReadersOf, AllTensors
  <2> QED BY <2>1, <2>2, <2>3
<1>15. ToSet(r.srcTensors[op]) = reads \union {t} /\ ToSet(r.dstTensors[op]) = writes
  BY <1>2, <1>8, <1>10 DEF Linked
<1>16. \A o \in AllOps(g) : r.srcTensors[o] = g.srcTensors[o] /\ r.dstTensors[o] = g.dstTensors[o]
  <2> SUFFICES ASSUME NEW o \in AllOps(g)
               PROVE  r.srcTensors[o] = g.srcTensors[o] /\ r.dstTensors[o] = g.dstTensors[o]
    OBVIOUS
  <2>1. o # op /\ o \in DOMAIN w.srcTensors BY <1>2 DEF Linked, AllOps
  <2> QED BY <1>2, <1>8, <1>10, <2>1 DEF Linked
<1> QED BY <1>2, <1>10, <1>12, <1>13, <1>14, <1>15, <1>16 DEF Linked, r

LEMMA OutputIsLinked ==
    ASSUME NEW g, NEW op \in Nat, op \notin AllOps(g), NEW reads, NEW writes, NEW h,
           Linked(h, g, op, reads, writes), NEW t \in Nat
    PROVE  Linked(LinkOutput(h, op, t), g, op, reads, writes \union {t})
<1> DEFINE w == WithTensor(h, t)
           r == LinkOutput(h, op, t)
<1>1. WellFormed(h) /\ op \in AllOps(h) BY DEF Linked
<1>2. /\ WellFormed(w) /\ AllTensors(w) = AllTensors(h) \union {t}
      /\ w.dstTensors = h.dstTensors /\ w.srcTensors = h.srcTensors /\ w.lastOp = h.lastOp
      /\ \A x \in Nat : ReadersOf(w, x) = ReadersOf(h, x) /\ MakersOf(w, x) = MakersOf(h, x)
  BY <1>1, WithTensorFacts
<1>3. r = [w EXCEPT !.dstTensors[op] = Append(@, t), !.srcOps[t] = Append(@, op)] BY DEF LinkOutput
<1> HIDE DEF w
<1>4. w.srcTensors \in Lists /\ w.dstTensors \in Lists /\ w.srcOps \in Lists /\ w.dstOps \in Lists /\ w.lastOp \in Int
      /\ DOMAIN w.dstTensors = AllOps(w) /\ DOMAIN w.dstOps = AllTensors(w)
  BY <1>2 DEF WellFormed
<1>5. w = [srcTensors |-> w.srcTensors, dstTensors |-> w.dstTensors, srcOps |-> w.srcOps,
           dstOps |-> w.dstOps, lastOp |-> w.lastOp]
  BY <1>2 DEF WellFormed
<1>6. r = [srcTensors |-> w.srcTensors, dstTensors |-> [w.dstTensors EXCEPT ![op] = Append(@, t)],
           srcOps |-> [w.srcOps EXCEPT ![t] = Append(@, op)], dstOps |-> w.dstOps, lastOp |-> w.lastOp]
  BY <1>3, <1>5
<1> HIDE DEF r
<1>7. op \in DOMAIN w.dstTensors /\ t \in DOMAIN w.srcOps
  BY <1>1, <1>2, <1>4 DEF AllOps, AllTensors
<1>8. /\ r.dstTensors \in Lists /\ DOMAIN r.dstTensors = DOMAIN w.dstTensors
      /\ ToSet(r.dstTensors[op]) = ToSet(w.dstTensors[op]) \union {t}
      /\ \A o \in DOMAIN w.dstTensors : o # op => r.dstTensors[o] = w.dstTensors[o]
  <2>1. r.dstTensors = AppendedAt(w.dstTensors, op, t) BY <1>6 DEF AppendedAt
  <2>2. w.dstTensors \in Lists /\ op \in DOMAIN w.dstTensors BY <1>4, <1>7
  <2>3. Grown(AppendedAt(w.dstTensors, op, t), w.dstTensors, op, t) BY <2>2, AppendAt
  <2>4. Grown(r.dstTensors, w.dstTensors, op, t) BY <2>1, <2>3
  <2> QED BY <2>4 DEF Grown
<1>9. /\ r.srcOps \in Lists /\ DOMAIN r.srcOps = DOMAIN w.srcOps
      /\ ToSet(r.srcOps[t]) = ToSet(w.srcOps[t]) \union {op}
      /\ \A x \in DOMAIN w.srcOps : x # t => r.srcOps[x] = w.srcOps[x]
  <2>1. r.srcOps = AppendedAt(w.srcOps, t, op) BY <1>6 DEF AppendedAt
  <2>2. w.srcOps \in Lists /\ t \in DOMAIN w.srcOps BY <1>4, <1>7
  <2>3. Grown(AppendedAt(w.srcOps, t, op), w.srcOps, t, op) BY <2>2, AppendAt
  <2>4. Grown(r.srcOps, w.srcOps, t, op) BY <2>1, <2>3
  <2> QED BY <2>4 DEF Grown
<1>10. r.srcTensors = w.srcTensors /\ r.dstOps = w.dstOps /\ r.lastOp = w.lastOp BY <1>6
<1>11. r \in [srcTensors : Lists, dstTensors : Lists, srcOps : Lists, dstOps : Lists, lastOp : Int]
  <2>1. r = [srcTensors |-> r.srcTensors, dstTensors |-> r.dstTensors, srcOps |-> r.srcOps,
             dstOps |-> r.dstOps, lastOp |-> r.lastOp]
    BY <1>6
  <2> QED BY <1>4, <1>8, <1>9, <1>10, <2>1
<1>12. AllOps(r) = AllOps(h) /\ AllTensors(r) = AllTensors(h) \union {t}
  BY <1>2, <1>4, <1>9, <1>10 DEF AllOps, AllTensors
<1>13. WellFormed(r)
  BY <1>4, <1>8, <1>9, <1>10, <1>11 DEF WellFormed, AllOps, AllTensors
<1>14. ASSUME NEW x \in Nat
       PROVE  /\ ReadersOf(r, x) = ReadersOf(h, x)
              /\ MakersOf(r, x) = MakersOf(h, x) \union (IF x = t THEN {op} ELSE {})
  <2>1. ReadersOf(w, x) = ReadersOf(h, x) /\ MakersOf(w, x) = MakersOf(h, x) BY <1>2
  <2>2. ReadersOf(r, x) = ReadersOf(w, x) BY <1>9, <1>10 DEF ReadersOf, AllTensors
  <2>3. MakersOf(r, x) = MakersOf(w, x) \union (IF x = t THEN {op} ELSE {})
    BY <1>4, <1>7, <1>9, <1>10 DEF MakersOf, AllTensors
  <2> QED BY <2>1, <2>2, <2>3
<1>15. ToSet(r.dstTensors[op]) = writes \union {t} /\ ToSet(r.srcTensors[op]) = reads
  BY <1>2, <1>8, <1>10 DEF Linked
<1>16. \A o \in AllOps(g) : r.dstTensors[o] = g.dstTensors[o] /\ r.srcTensors[o] = g.srcTensors[o]
  <2> SUFFICES ASSUME NEW o \in AllOps(g)
               PROVE  r.dstTensors[o] = g.dstTensors[o] /\ r.srcTensors[o] = g.srcTensors[o]
    OBVIOUS
  <2>1. o # op /\ o \in DOMAIN w.dstTensors BY <1>2, <1>4 DEF Linked, AllOps, WellFormed
  <2> QED BY <1>2, <1>8, <1>10, <2>1 DEF Linked
<1> QED BY <1>2, <1>10, <1>12, <1>13, <1>14, <1>15, <1>16 DEF Linked, r

Kept(s, o, op) == IF o = op THEN s ELSE Append(s, o)

LEMMA WithoutSteps ==
    ASSUME NEW ops \in Seq(Nat), NEW op
    PROVE  \E f \in [0..Len(ops) -> Seq(Nat)] :
              /\ f[0] = <<>> /\ \A k \in 1..Len(ops) : f[k] = Kept(f[k - 1], ops[k], op)
              /\ Without(ops, op) = f[Len(ops)]
<1> DEFINE n == Len(ops)
           Step == [x \in (Seq(Nat)) \X (1..n) |-> Kept(x[1], ops[x[2]], op)]
<1>1. n \in Nat /\ DOMAIN ops = 1..n OBVIOUS
<1>2. /\ <<>> \in Seq(Nat)
      /\ \A x \in Seq(Nat), k \in 1..n : Kept(x, ops[k], op) \in Seq(Nat)
  BY <1>1 DEF Kept
<1>3. Step \in [(Seq(Nat)) \X (1..n) -> Seq(Nat)] /\ \A x \in Seq(Nat), k \in 1..n : Step[<<x, k>>] = Kept(x, ops[k], op)
  BY <1>2
<1> HIDE DEF n, Step
<1> DEFINE Eq(it) == it = [s \in SUBSET DOMAIN ops |->
                             IF s = {} THEN <<>> ELSE Kept(it[s \ {Max(s)}], ops[Max(s)], op)]
           g == CHOOSE it : Eq(it)
<1>4. Without(ops, op) = g[DOMAIN ops]
  BY Zenon DEF FoldLeft, MapThenFoldSet, Without, Kept
<1>5. PICK it \in [SUBSET (1..n) -> Seq(Nat)] : FoldsBy(it, 1..n, <<>>, Step)
  <2>1. HasFold(n, Seq(Nat), <<>>, Step) BY <1>1, <1>2, <1>3, FoldOfSet
  <2> QED BY <2>1 DEF HasFold
<1>6. Eq(it)
  <2>1. ASSUME NEW s \in SUBSET (1..n)
        PROVE  it[s] = IF s = {} THEN <<>> ELSE Kept(it[s \ {Max(s)}], ops[Max(s)], op)
    <3>1. CASE s = {} BY <1>5, <3>1 DEF FoldsBy
    <3>2. CASE s # {}
      <4>1. Max(s) \in 1..n BY <1>1, <3>2, MaxOfSome
      <4>2. it[s \ {Max(s)}] \in Seq(Nat)
        <5>1. s \ {Max(s)} \in SUBSET (1..n) OBVIOUS
        <5> QED BY <1>5, <5>1
      <4>3. it[s] = Step[<<it[s \ {Max(s)}], Max(s)>>] BY <1>5, <3>2 DEF FoldsBy
      <4> QED BY <1>3, <3>2, <4>1, <4>2, <4>3
    <3> QED BY <3>1, <3>2
  <2> QED BY <1>1, <1>5, <2>1
<1>7. Eq(g)
  <2> HIDE DEF Eq
  <2> QED BY <1>6
<1> HIDE DEF g
<1>8. g[{}] = <<>> BY <1>1, <1>7
<1>9. ASSUME NEW k \in 1..n, g[1..k-1] \in Seq(Nat) PROVE g[1..k] = Step[<<g[1..k-1], k>>]
  <2>1. 1..k \in SUBSET (1..n) /\ 1..k # {} /\ Max(1..k) = k /\ (1..k) \ {k} = 1..k-1
    BY <1>1, FirstNumbers
  <2>2. g[1..k] = Kept(g[(1..k) \ {Max(1..k)}], ops[Max(1..k)], op) BY <1>1, <1>7, <2>1
  <2>3. Step[<<g[1..k-1], k>>] = Kept(g[1..k-1], ops[k], op) BY <1>3, <1>9
  <2>4. g[1..k] = Kept(g[1..k-1], ops[k], op)
    <3> HIDE DEF Step
    <3> QED BY <2>1, <2>2
  <2> QED BY <2>3, <2>4
<1> DEFINE f == OfPrefixes(g, n)
<1>10. f \in [0..n -> Seq(Nat)] /\ Stepwise(f, n, <<>>, Step)
  <2>1. Folding(g, Seq(Nat), n, <<>>, Step) BY <1>2, <1>3, <1>8, <1>9 DEF Folding
  <2> QED BY <1>1, <2>1, FoldStays
<1>11. f[n] = g[DOMAIN ops] BY <1>1 DEF OfPrefixes
<1> HIDE DEF f
<1>12. ASSUME NEW k \in 1..n PROVE f[k] = Kept(f[k - 1], ops[k], op)
  <2>1. k - 1 \in 0..n BY <1>1
  <2>2. f[k - 1] \in Seq(Nat) BY <1>10, <2>1
  <2> QED BY <1>3, <1>10, <2>2 DEF Stepwise
<1>13. f[0] = <<>> BY <1>10 DEF Stepwise
<1> QED BY <1>4, <1>10, <1>11, <1>12, <1>13 DEF n

LEMMA WithoutFacts ==
    ASSUME NEW ops \in Seq(Nat), NEW op
    PROVE  /\ Without(ops, op) \in Seq(Nat) /\ ToSet(Without(ops, op)) = ToSet(ops) \ {op}
           /\ Without(ops, op) = <<>> <=> ToSet(Without(ops, op)) = {}
<1>1. PICK f \in [0..Len(ops) -> Seq(Nat)] :
            /\ f[0] = <<>> /\ \A k \in 1..Len(ops) : f[k] = Kept(f[k - 1], ops[k], op)
            /\ Without(ops, op) = f[Len(ops)]
  BY WithoutSteps
<1> DEFINE First(m) == {ops[i] : i \in 1..m}
           Good == {m \in Nat : m <= Len(ops) => ToSet(f[m]) = First(m) \ {op}}
<1>2. 0 \in Good BY <1>1, ToSetNothing
<1>3. ASSUME NEW m \in Nat, m \in Good PROVE m + 1 \in Good
  <2> SUFFICES ASSUME m + 1 <= Len(ops) PROVE ToSet(f[m + 1]) = First(m + 1) \ {op} OBVIOUS
  <2>1. ToSet(f[m]) = First(m) \ {op} /\ f[m] \in Seq(Nat)
    <3> HIDE DEF First
    <3>1. m <= Len(ops) /\ m \in 0..Len(ops) OBVIOUS
    <3>2. ToSet(f[m]) = First(m) \ {op} BY <1>3, <3>1 DEF Good
    <3> HIDE DEF Good
    <3>3. f[m] \in Seq(Nat) BY <1>1, <3>1
    <3> QED BY <3>2, <3>3
  <2>2. m + 1 \in 1..Len(ops) /\ ops[m + 1] \in Nat /\ (m + 1) - 1 = m OBVIOUS
  <2>3. f[m + 1] = Kept(f[m], ops[m + 1], op) BY <1>1, <2>2
  <2>4. First(m + 1) = First(m) \union {ops[m + 1]} BY <2>2
  <2> HIDE DEF First
  <2>5. CASE ops[m + 1] = op BY <2>1, <2>3, <2>4, <2>5 DEF Kept
  <2>6. CASE ops[m + 1] # op
    <3>1. ToSet(Append(f[m], ops[m + 1])) = ToSet(f[m]) \union {ops[m + 1]} BY <2>1, <2>2, ToSetAppend
    <3> QED BY <2>1, <2>3, <2>4, <2>6, <3>1 DEF Kept
  <2> QED BY <2>5, <2>6
<1> HIDE DEF Good
<1>4. Nat \subseteq Good BY <1>2, <1>3, SetInduction
<1>5. Len(ops) \in Nat /\ DOMAIN ops = 1..Len(ops) OBVIOUS
<1>7. First(Len(ops)) = ToSet(ops) BY <1>5 DEF ToSet
<1> HIDE DEF First
<1>6. ToSet(f[Len(ops)]) = First(Len(ops)) \ {op}
  <2>1. Len(ops) \in Good BY <1>4, <1>5
  <2> QED BY <1>5, <2>1 DEF Good
<1>8. f[Len(ops)] \in Seq(Nat) BY <1>1, <1>5
<1>9. f[Len(ops)] = <<>> <=> ToSet(f[Len(ops)]) = {} BY <1>8, ToSetEmpty
<1> QED BY <1>1, <1>6, <1>7, <1>8, <1>9

(* What the reader of a graph sees of it is the same.                      *)
Same(h, g) ==
    /\ WellFormed(h) /\ h.lastOp = g.lastOp
    /\ AllOps(h) = AllOps(g) /\ AllTensors(h) = AllTensors(g)
    /\ \A t \in Nat : MakersOf(h, t) = MakersOf(g, t) /\ ReadersOf(h, t) = ReadersOf(g, t)
    /\ \A o \in AllOps(g) : h.srcTensors[o] = g.srcTensors[o] /\ h.dstTensors[o] = g.dstTensors[o]

(* Each tensor belongs to an operator, and only known operators appear.    *)
NothingIsolated(g) ==
    /\ AllTensors(g) \subseteq Nat
    /\ \A t \in AllTensors(g) : MakersOf(g, t) \union ReadersOf(g, t) # {}
    /\ \A t \in Nat : MakersOf(g, t) \union ReadersOf(g, t) \subseteq AllOps(g)

LEMMA RemovalLeavesSame ==
    ASSUME NEW g, NothingIsolated(g), NEW op \in Nat, op \notin AllOps(g), NEW reads \in SUBSET Nat,
           NEW writes \in SUBSET Nat, NEW h, Linked(h, g, op, reads, writes)
    PROVE  Same(RemoveOperator(h, op), g)
<1> DEFINE r == RemoveOperator(h, op)
           kept == {t \in AllTensors(h) : \/ Without(h.srcOps[t], op) # <<>>
                                         \/ Without(h.dstOps[t], op) # <<>>}
           others == AllOps(h) \ {op}
<1>1. h.srcTensors \in Lists /\ h.dstTensors \in Lists /\ h.srcOps \in Lists /\ h.dstOps \in Lists /\ h.lastOp \in Int
      /\ DOMAIN h.dstTensors = AllOps(h) /\ DOMAIN h.dstOps = AllTensors(h)
  BY DEF Linked, WellFormed
<1>2. h = [srcTensors |-> h.srcTensors, dstTensors |-> h.dstTensors, srcOps |-> h.srcOps,
           dstOps |-> h.dstOps, lastOp |-> h.lastOp]
  BY DEF Linked, WellFormed
<1>3. r = [h EXCEPT !.srcOps = [t \in kept |-> Without(@[t], op)],
                    !.dstOps = [t \in kept |-> Without(@[t], op)],
                    !.srcTensors = [o \in others |-> @[o]],
                    !.dstTensors = [o \in others |-> @[o]]]
  BY DEF RemoveOperator
<1> HIDE DEF r, kept, others
<1>4. r = [srcTensors |-> [o \in others |-> h.srcTensors[o]], dstTensors |-> [o \in others |-> h.dstTensors[o]],
           srcOps |-> [t \in kept |-> Without(h.srcOps[t], op)],
           dstOps |-> [t \in kept |-> Without(h.dstOps[t], op)], lastOp |-> h.lastOp]
  BY <1>2, <1>3
<1>5. /\ AllOps(h) \subseteq Nat /\ AllTensors(h) \subseteq Nat
      /\ \A o \in AllOps(h) : h.srcTensors[o] \in Seq(Nat) /\ h.dstTensors[o] \in Seq(Nat)
      /\ \A t \in AllTensors(h) : h.srcOps[t] \in Seq(Nat) /\ h.dstOps[t] \in Seq(Nat)
  BY <1>1, ListIs DEF AllOps, AllTensors
<1>6. others = AllOps(g) BY DEF others, Linked
<1>7. ASSUME NEW t \in AllTensors(h)
      PROVE  /\ Without(h.srcOps[t], op) \in Seq(Nat) /\ Without(h.dstOps[t], op) \in Seq(Nat)
             /\ ToSet(Without(h.srcOps[t], op)) = MakersOf(g, t)
             /\ ToSet(Without(h.dstOps[t], op)) = ReadersOf(g, t)
             /\ Without(h.srcOps[t], op) = <<>> <=> MakersOf(g, t) = {}
             /\ Without(h.dstOps[t], op) = <<>> <=> ReadersOf(g, t) = {}
  <2>1. t \in Nat /\ h.srcOps[t] \in Seq(Nat) /\ h.dstOps[t] \in Seq(Nat) BY <1>5
  <2>2. op \notin MakersOf(g, t) /\ op \notin ReadersOf(g, t) BY <2>1 DEF NothingIsolated
  <2>3. ToSet(h.srcOps[t]) = MakersOf(g, t) \union (IF t \in writes THEN {op} ELSE {})
    BY <2>1 DEF Linked, MakersOf
  <2>4. ToSet(h.dstOps[t]) = ReadersOf(g, t) \union (IF t \in reads THEN {op} ELSE {})
    BY <2>1 DEF Linked, ReadersOf
  <2>5. /\ Without(h.srcOps[t], op) \in Seq(Nat)
        /\ ToSet(Without(h.srcOps[t], op)) = ToSet(h.srcOps[t]) \ {op}
        /\ Without(h.srcOps[t], op) = <<>> <=> ToSet(Without(h.srcOps[t], op)) = {}
    BY <2>1, WithoutFacts
  <2>6. /\ Without(h.dstOps[t], op) \in Seq(Nat)
        /\ ToSet(Without(h.dstOps[t], op)) = ToSet(h.dstOps[t]) \ {op}
        /\ Without(h.dstOps[t], op) = <<>> <=> ToSet(Without(h.dstOps[t], op)) = {}
    BY <2>1, WithoutFacts
  <2>7. ToSet(h.srcOps[t]) \ {op} = MakersOf(g, t) BY <2>2, <2>3
  <2>8. ToSet(h.dstOps[t]) \ {op} = ReadersOf(g, t) BY <2>2, <2>4
  <2> QED BY <2>5, <2>6, <2>7, <2>8
<1>8. kept = AllTensors(g)
  <2>1. ASSUME NEW t \in AllTensors(g) PROVE t \in kept
    <3>1. t \in AllTensors(h) BY DEF Linked
    <3>2. MakersOf(g, t) # {} \/ ReadersOf(g, t) # {} BY DEF NothingIsolated
    <3> QED BY <1>7, <3>1, <3>2 DEF kept
  <2>2. ASSUME NEW t \in kept PROVE t \in AllTensors(g)
    <3>1. t \in AllTensors(h) BY DEF kept
    <3>2. MakersOf(g, t) # {} \/ ReadersOf(g, t) # {} BY <1>7, <3>1 DEF kept
    <3> QED BY <3>2 DEF MakersOf, ReadersOf
  <2> QED BY <2>1, <2>2
<1>9. kept \subseteq AllTensors(h) /\ others \subseteq AllOps(h) BY DEF kept, others
<1>10. /\ DOMAIN r.srcTensors = AllOps(g) /\ DOMAIN r.dstTensors = AllOps(g)
       /\ DOMAIN r.srcOps = AllTensors(g) /\ DOMAIN r.dstOps = AllTensors(g)
       /\ r.lastOp = h.lastOp
  BY <1>4, <1>6, <1>8
<1>11. /\ \A o \in AllOps(g) : r.srcTensors[o] = h.srcTensors[o] /\ r.dstTensors[o] = h.dstTensors[o]
       /\ \A t \in AllTensors(g) : /\ r.srcOps[t] = Without(h.srcOps[t], op)
                                    /\ r.dstOps[t] = Without(h.dstOps[t], op)
  BY <1>4, <1>6, <1>8
<1>12. /\ r.srcTensors \in Lists /\ r.dstTensors \in Lists /\ r.srcOps \in Lists /\ r.dstOps \in Lists
  <2>1. r.srcTensors \in [others -> Seq(Nat)] /\ r.dstTensors \in [others -> Seq(Nat)]
    BY <1>4, <1>5, <1>9
  <2>2. r.srcOps \in [kept -> Seq(Nat)] /\ r.dstOps \in [kept -> Seq(Nat)]
    BY <1>4, <1>7, <1>9
  <2>3. others \in SUBSET Nat /\ kept \in SUBSET Nat BY <1>5, <1>9
  <2> QED BY <2>1, <2>2, <2>3 DEF Lists
<1>13. r \in [srcTensors : Lists, dstTensors : Lists, srcOps : Lists, dstOps : Lists, lastOp : Int]
  <2>1. r = [srcTensors |-> r.srcTensors, dstTensors |-> r.dstTensors, srcOps |-> r.srcOps,
             dstOps |-> r.dstOps, lastOp |-> r.lastOp]
    BY <1>4
  <2> QED BY <1>1, <1>10, <1>12, <2>1
<1>14. AllOps(r) = AllOps(g) /\ AllTensors(r) = AllTensors(g) BY <1>10 DEF AllOps, AllTensors
<1>15. WellFormed(r) BY <1>10, <1>13, <1>14 DEF WellFormed
<1>16. \A t \in Nat : MakersOf(r, t) = MakersOf(g, t) /\ ReadersOf(r, t) = ReadersOf(g, t)
  <2> SUFFICES ASSUME NEW t \in Nat
               PROVE  MakersOf(r, t) = MakersOf(g, t) /\ ReadersOf(r, t) = ReadersOf(g, t)
    OBVIOUS
  <2>1. CASE t \in AllTensors(g)
    <3>1. t \in AllTensors(h) BY <2>1, <1>8, <1>9
    <3> QED BY <1>7, <1>11, <1>14, <2>1, <3>1 DEF MakersOf, ReadersOf
  <2>2. CASE t \notin AllTensors(g) BY <1>14, <2>2 DEF MakersOf, ReadersOf
  <2> QED BY <2>1, <2>2
<1> QED BY <1>10, <1>11, <1>14, <1>15, <1>16 DEF Same, Linked, r

Edges == [srcTensors : Lists, dstTensors : Lists, srcOps : Lists, dstOps : Lists, lastOp : Int]

(* Graphs that g may be while op reads more and more tensors.              *)
Reading(g, op) == {h \in Edges : \E reads \in SUBSET Nat : Linked(h, g, op, reads, {})}

LEMMA InputsSteps ==
    ASSUME NEW inputs \in Seq(Nat), NEW g, NEW op \in Nat, op \notin AllOps(g),
           NEW new \in Reading(g, op)
    PROVE  \E steps \in [0..Len(inputs) -> Reading(g, op)] :
              /\ steps[0] = new /\ \A k \in 1..Len(inputs) : steps[k] = LinkInput(steps[k - 1], op, inputs[k])
              /\ LinkInputs(new, op, inputs) = steps[Len(inputs)]
<1> DEFINE n == Len(inputs)
           Step == [x \in (Reading(g, op)) \X (1..n) |-> LinkInput(x[1], op, inputs[x[2]])]
<1>1. n \in Nat /\ DOMAIN inputs = 1..n OBVIOUS
<1>2. /\ new \in Reading(g, op)
      /\ \A x \in Reading(g, op), k \in 1..n : LinkInput(x, op, inputs[k]) \in Reading(g, op)
  <2>1. ASSUME NEW x \in Reading(g, op), NEW k \in 1..n
        PROVE  LinkInput(x, op, inputs[k]) \in Reading(g, op)
    <3>1. PICK reads \in SUBSET Nat : Linked(x, g, op, reads, {}) BY DEF Reading
    <3>2. inputs[k] \in Nat BY <1>1
    <3>3. Linked(LinkInput(x, op, inputs[k]), g, op, reads \union {inputs[k]}, {})
      BY <3>1, <3>2, InputIsLinked
    <3>4. LinkInput(x, op, inputs[k]) \in Edges BY <3>3 DEF Linked, WellFormed, Edges
    <3>5. reads \union {inputs[k]} \in SUBSET Nat BY <3>2
    <3> QED BY <3>3, <3>4, <3>5 DEF Reading
  <2> QED BY <2>1
<1>3. Step \in [(Reading(g, op)) \X (1..n) -> Reading(g, op)] /\ \A x \in Reading(g, op), k \in 1..n : Step[<<x, k>>] = LinkInput(x, op, inputs[k])
  BY <1>2
<1> HIDE DEF n, Step
<1> DEFINE Eq(it) == it = [s \in SUBSET DOMAIN inputs |->
                             IF s = {} THEN new ELSE LinkInput(it[s \ {Max(s)}], op, inputs[Max(s)])]
           tab == CHOOSE it : Eq(it)
<1>4. LinkInputs(new, op, inputs) = tab[DOMAIN inputs]
  BY Zenon DEF FoldLeft, MapThenFoldSet, LinkInputs
<1>5. PICK it \in [SUBSET (1..n) -> Reading(g, op)] : FoldsBy(it, 1..n, new, Step)
  <2>1. HasFold(n, Reading(g, op), new, Step) BY <1>1, <1>2, <1>3, FoldOfSet
  <2> QED BY <2>1 DEF HasFold
<1>6. Eq(it)
  <2>1. ASSUME NEW s \in SUBSET (1..n)
        PROVE  it[s] = IF s = {} THEN new ELSE LinkInput(it[s \ {Max(s)}], op, inputs[Max(s)])
    <3>1. CASE s = {} BY <1>5, <3>1 DEF FoldsBy
    <3>2. CASE s # {}
      <4>1. Max(s) \in 1..n BY <1>1, <3>2, MaxOfSome
      <4>2. it[s \ {Max(s)}] \in Reading(g, op)
        <5>1. s \ {Max(s)} \in SUBSET (1..n) OBVIOUS
        <5> QED BY <1>5, <5>1
      <4>3. it[s] = Step[<<it[s \ {Max(s)}], Max(s)>>] BY <1>5, <3>2 DEF FoldsBy
      <4> QED BY <1>3, <3>2, <4>1, <4>2, <4>3
    <3> QED BY <3>1, <3>2
  <2> QED BY <1>1, <1>5, <2>1
<1>7. Eq(tab)
  <2> HIDE DEF Eq
  <2> QED BY <1>6
<1> HIDE DEF tab
<1>8. tab[{}] = new BY <1>1, <1>7
<1>9. ASSUME NEW k \in 1..n, tab[1..k-1] \in Reading(g, op) PROVE tab[1..k] = Step[<<tab[1..k-1], k>>]
  <2>1. 1..k \in SUBSET (1..n) /\ 1..k # {} /\ Max(1..k) = k /\ (1..k) \ {k} = 1..k-1
    BY <1>1, FirstNumbers
  <2>2. tab[1..k] = LinkInput(tab[(1..k) \ {Max(1..k)}], op, inputs[Max(1..k)]) BY <1>1, <1>7, <2>1
  <2>3. Step[<<tab[1..k-1], k>>] = LinkInput(tab[1..k-1], op, inputs[k]) BY <1>3, <1>9
  <2>4. tab[1..k] = LinkInput(tab[1..k-1], op, inputs[k])
    <3> HIDE DEF Step
    <3> QED BY <2>1, <2>2
  <2> QED BY <2>3, <2>4
<1> DEFINE steps == OfPrefixes(tab, n)
<1>10. steps \in [0..n -> Reading(g, op)] /\ Stepwise(steps, n, new, Step)
  <2>1. Folding(tab, Reading(g, op), n, new, Step) BY <1>2, <1>3, <1>8, <1>9 DEF Folding
  <2> QED BY <1>1, <2>1, FoldStays
<1>11. steps[n] = tab[DOMAIN inputs] BY <1>1 DEF OfPrefixes
<1> HIDE DEF steps
<1>12. ASSUME NEW k \in 1..n PROVE steps[k] = LinkInput(steps[k - 1], op, inputs[k])
  <2>1. k - 1 \in 0..n BY <1>1
  <2>2. steps[k - 1] \in Reading(g, op) BY <1>10, <2>1
  <2> QED BY <1>3, <1>10, <2>2 DEF Stepwise
<1>13. steps[0] = new BY <1>10 DEF Stepwise
<1> QED BY <1>4, <1>10, <1>11, <1>12, <1>13 DEF n

LEMMA InputsAreLinked ==
    ASSUME NEW inputs \in Seq(Nat), NEW g, NEW op \in Nat, op \notin AllOps(g),
           NEW new, Linked(new, g, op, {}, {})
    PROVE  Linked(LinkInputs(new, op, inputs), g, op, ToSet(inputs), {})
<1>0. new \in Reading(g, op) BY DEF Linked, WellFormed, Edges, Reading
<1>1. PICK steps \in [0..Len(inputs) -> Reading(g, op)] :
            /\ steps[0] = new /\ \A k \in 1..Len(inputs) : steps[k] = LinkInput(steps[k - 1], op, inputs[k])
            /\ LinkInputs(new, op, inputs) = steps[Len(inputs)]
  BY <1>0, InputsSteps
<1> DEFINE First(m) == {inputs[i] : i \in 1..m}
           Good == {m \in Nat : m <= Len(inputs) => Linked(steps[m], g, op, First(m), {})}
<1>2. 0 \in Good
  <2>1. First(0) = {} OBVIOUS
  <2> QED BY <1>1, <2>1
<1>3. ASSUME NEW m \in Nat, m \in Good PROVE m + 1 \in Good
  <2> SUFFICES ASSUME m + 1 <= Len(inputs) PROVE Linked(steps[m + 1], g, op, First(m + 1), {}) OBVIOUS
  <2>1. Linked(steps[m], g, op, First(m), {}) BY <1>3
  <2>2. m + 1 \in 1..Len(inputs) /\ inputs[m + 1] \in Nat /\ (m + 1) - 1 = m OBVIOUS
  <2>3. steps[m + 1] = LinkInput(steps[m], op, inputs[m + 1]) BY <1>1, <2>2
  <2>4. First(m + 1) = First(m) \union {inputs[m + 1]} BY <2>2
  <2> HIDE DEF First
  <2> QED BY <2>1, <2>2, <2>3, <2>4, InputIsLinked
<1> HIDE DEF Good
<1>4. Nat \subseteq Good BY <1>2, <1>3, SetInduction
<1>5. Len(inputs) \in Nat /\ DOMAIN inputs = 1..Len(inputs) OBVIOUS
<1>6. First(Len(inputs)) = ToSet(inputs) BY <1>5 DEF ToSet
<1> HIDE DEF First
<1>7. Linked(steps[Len(inputs)], g, op, First(Len(inputs)), {})
  <2>1. Len(inputs) \in Good BY <1>4, <1>5
  <2> QED BY <1>5, <2>1 DEF Good
<1> QED BY <1>1, <1>6, <1>7

(* The tensors of operators are known, and so are the readers of tensors.  *)
Closed(g) ==
    /\ IsFiniteSet(AllOps(g))
    /\ \A o \in AllOps(g) : ToSet(g.dstTensors[o]) \subseteq AllTensors(g)
    /\ \A t \in AllTensors(g) : ToSet(g.dstOps[t]) \subseteq AllOps(g)

LEMMA PathToReader ==
    ASSUME NEW g, Closed(g), NEW t \in AllTensors(g), NEW op \in ToSet(g.dstOps[t])
    PROVE  PathExists(g, t, op)
<1> DEFINE Readers(tensors) == UNION {ToSet(g.dstOps[x]) : x \in tensors}
           Written(ops)     == UNION {ToSet(g.dstTensors[o]) : o \in ops}
           n == Cardinality(AllOps(g))
           Typ == SUBSET AllOps(g)
           Step == [x \in Typ \X (1..n) |-> x[1] \union Readers(Written(x[1]))]
           Eq(w) == w = [k \in 0..n |-> IF k = 0 THEN Readers({t})
                                        ELSE w[k-1] \union Readers(Written(w[k-1]))]
           within == CHOOSE w : Eq(w)
<1>1. PathExists(g, t, op) <=> t \in AllTensors(g) /\ op \in within[n]
  BY Zenon DEF PathExists
<1>2. n \in Nat BY FS_CardinalityType DEF Closed
<1>3. Readers({t}) \in Typ /\ op \in Readers({t}) BY DEF Closed
<1>4. ASSUME NEW x \in Typ PROVE x \union Readers(Written(x)) \in Typ
  <2>1. Written(x) \subseteq AllTensors(g) BY DEF Closed
  <2> QED BY <2>1 DEF Closed
<1> HIDE DEF n, Readers, Written
<1>5. Step \in [Typ \X (1..n) -> Typ]
      /\ \A x \in Typ, k \in 1..n : Step[<<x, k>>] = x \union Readers(Written(x))
  BY <1>4
<1> HIDE DEF Step, Typ
<1>6. PICK w \in [0..n -> Typ] : Stepwise(w, n, Readers({t}), Step) BY <1>2, <1>3, <1>5, StepByStep
<1>7. ASSUME NEW k \in 1..n PROVE w[k] = w[k-1] \union Readers(Written(w[k-1]))
  <2>1. k - 1 \in 0..n BY <1>2
  <2>2. w[k - 1] \in Typ BY <1>6, <2>1
  <2> QED BY <1>5, <1>6, <2>2 DEF Stepwise
<1>8. w[0] = Readers({t}) BY <1>6 DEF Stepwise
<1>9. Eq(w)
  <2>1. \A k \in 0..n : w[k] = IF k = 0 THEN Readers({t})
                                ELSE w[k-1] \union Readers(Written(w[k-1]))
    <3> SUFFICES ASSUME NEW k \in 0..n
                 PROVE  w[k] = IF k = 0 THEN Readers({t}) ELSE w[k-1] \union Readers(Written(w[k-1]))
      OBVIOUS
    <3>1. CASE k = 0 BY <1>8, <3>1
    <3>2. CASE k # 0
      <4>1. k \in 1..n BY <1>2, <3>2
      <4> QED BY <1>7, <3>2, <4>1
    <3> QED BY <3>1, <3>2
  <2> QED BY <1>6, <2>1
<1>10. Eq(within)
  <2> HIDE DEF Eq
  <2> QED BY <1>9
<1> HIDE DEF within
<1> DEFINE Good == {m \in Nat : m <= n => op \in within[m]}
<1>11. 0 \in Good BY <1>2, <1>3, <1>10
<1>12. ASSUME NEW m \in Nat, m \in Good PROVE m + 1 \in Good
  <2> SUFFICES ASSUME m + 1 <= n PROVE op \in within[m + 1] OBVIOUS
  <2>1. m + 1 \in 0..n /\ m + 1 # 0 /\ (m + 1) - 1 = m /\ op \in within[m] BY <1>2, <1>12
  <2>2. within[m + 1] = within[m] \union Readers(Written(within[m])) BY <1>10, <2>1
  <2> QED BY <2>1, <2>2
<1> HIDE DEF Good
<1>13. Nat \subseteq Good BY <1>11, <1>12, SetInduction
<1>14. op \in within[n]
  <2>1. n \in Good BY <1>2, <1>13
  <2> QED BY <1>2, <2>1 DEF Good
<1> QED BY <1>1, <1>14

LEMMA LinkedIsClosed ==
    ASSUME NEW g, NothingIsolated(g), Closed(g), NEW op \in Nat, op \notin AllOps(g),
           NEW reads \in SUBSET Nat, NEW writes \in SUBSET Nat, NEW h, Linked(h, g, op, reads, writes)
    PROVE  Closed(h)
<1>1. IsFiniteSet(AllOps(h))
  <2>1. IsFiniteSet(AllOps(g) \union {op}) BY FS_AddElement DEF Closed
  <2> QED BY <2>1 DEF Linked
<1>2. ASSUME NEW o \in AllOps(h) PROVE ToSet(h.dstTensors[o]) \subseteq AllTensors(h)
  <2>1. CASE o = op BY <2>1 DEF Linked
  <2>2. CASE o # op
    <3>1. o \in AllOps(g) BY <2>2 DEF Linked
    <3>2. h.dstTensors[o] = g.dstTensors[o] BY <3>1 DEF Linked
    <3>3. ToSet(g.dstTensors[o]) \subseteq AllTensors(g) BY <3>1 DEF Closed
    <3> QED BY <3>2, <3>3 DEF Linked
  <2> QED BY <2>1, <2>2
<1>3. ASSUME NEW t \in AllTensors(h) PROVE ToSet(h.dstOps[t]) \subseteq AllOps(h)
  <2>1. t \in Nat BY DEF Linked, NothingIsolated
  <2>2. ToSet(h.dstOps[t]) = ReadersOf(h, t) BY DEF ReadersOf
  <2>3. ReadersOf(h, t) \subseteq ReadersOf(g, t) \union {op} BY <2>1 DEF Linked
  <2>4. ReadersOf(g, t) \subseteq AllOps(g) BY <2>1 DEF NothingIsolated
  <2> QED BY <2>2, <2>3, <2>4 DEF Linked
<1> QED BY <1>1, <1>2, <1>3 DEF Closed

(* What add_operator has so far when it links outputs.                     *)
Writing(g, op, reads) ==
    {r \in [added : BOOLEAN, graph : Edges] :
        IF r.added THEN \E writes \in SUBSET Nat : Linked(r.graph, g, op, reads, writes)
        ELSE Same(r.graph, g)}

LEMMA OutputStays ==
    ASSUME NEW g, NothingIsolated(g), NEW op \in Nat, op \notin AllOps(g),
           NEW reads \in SUBSET Nat, NEW r \in Writing(g, op, reads), NEW t \in Nat
    PROVE  TryLinkOutput(r, op, t) \in Writing(g, op, reads)
<1>1. CASE ~r.added BY <1>1 DEF TryLinkOutput
<1>2. CASE r.added
  <2>1. PICK writes \in SUBSET Nat : Linked(r.graph, g, op, reads, writes) BY <1>2 DEF Writing
  <2>2. CASE PathExists(r.graph, t, op)
    <3> DEFINE x == RemoveOperator(r.graph, op)
    <3>1. TryLinkOutput(r, op, t) = [added |-> FALSE, graph |-> x] BY <1>2, <2>2 DEF TryLinkOutput
    <3>2. Same(x, g) BY <2>1, RemovalLeavesSame
    <3> HIDE DEF x
    <3>3. x \in Edges BY <3>2 DEF Same, WellFormed, Edges
    <3> QED BY <3>1, <3>2, <3>3 DEF Writing
  <2>3. CASE ~PathExists(r.graph, t, op)
    <3> DEFINE x == LinkOutput(r.graph, op, t)
    <3>1. TryLinkOutput(r, op, t) = [added |-> TRUE, graph |-> x] BY <1>2, <2>3 DEF TryLinkOutput
    <3>2. Linked(x, g, op, reads, writes \union {t}) BY <2>1, OutputIsLinked
    <3> HIDE DEF x
    <3>3. x \in Edges BY <3>2 DEF Linked, WellFormed, Edges
    <3>4. writes \union {t} \in SUBSET Nat OBVIOUS
    <3> QED BY <3>1, <3>2, <3>3, <3>4 DEF Writing
  <2> QED BY <2>2, <2>3
<1>3. r.added \in BOOLEAN BY DEF Writing
<1> QED BY <1>1, <1>2, <1>3

LEMMA OutputsSteps ==
    ASSUME NEW outputs \in Seq(Nat), NEW g, NothingIsolated(g), NEW op \in Nat, op \notin AllOps(g),
           NEW reads \in SUBSET Nat, NEW h, [added |-> TRUE, graph |-> h] \in Writing(g, op, reads)
    PROVE  \E steps \in [0..Len(outputs) -> Writing(g, op, reads)] :
              /\ steps[0] = [added |-> TRUE, graph |-> h] /\ \A k \in 1..Len(outputs) : steps[k] = TryLinkOutput(steps[k - 1], op, outputs[k])
              /\ TryLinkOutputs(h, op, outputs) = steps[Len(outputs)]
<1> DEFINE n == Len(outputs)
           Step == [x \in (Writing(g, op, reads)) \X (1..n) |-> TryLinkOutput(x[1], op, outputs[x[2]])]
<1>1. n \in Nat /\ DOMAIN outputs = 1..n OBVIOUS
<1>2. /\ [added |-> TRUE, graph |-> h] \in Writing(g, op, reads)
      /\ \A x \in Writing(g, op, reads), k \in 1..n : TryLinkOutput(x, op, outputs[k]) \in Writing(g, op, reads)
  BY <1>1, OutputStays
<1>3. Step \in [(Writing(g, op, reads)) \X (1..n) -> Writing(g, op, reads)] /\ \A x \in Writing(g, op, reads), k \in 1..n : Step[<<x, k>>] = TryLinkOutput(x, op, outputs[k])
  BY <1>2
<1> HIDE DEF n, Step
<1> DEFINE Eq(it) == it = [s \in SUBSET DOMAIN outputs |->
                             IF s = {} THEN [added |-> TRUE, graph |-> h] ELSE TryLinkOutput(it[s \ {Max(s)}], op, outputs[Max(s)])]
           tab == CHOOSE it : Eq(it)
<1>4. TryLinkOutputs(h, op, outputs) = tab[DOMAIN outputs]
  BY Zenon DEF FoldLeft, MapThenFoldSet, TryLinkOutputs
<1>5. PICK it \in [SUBSET (1..n) -> Writing(g, op, reads)] : FoldsBy(it, 1..n, [added |-> TRUE, graph |-> h], Step)
  <2>1. HasFold(n, Writing(g, op, reads), [added |-> TRUE, graph |-> h], Step) BY <1>1, <1>2, <1>3, FoldOfSet
  <2> QED BY <2>1 DEF HasFold
<1>6. Eq(it)
  <2>1. ASSUME NEW s \in SUBSET (1..n)
        PROVE  it[s] = IF s = {} THEN [added |-> TRUE, graph |-> h] ELSE TryLinkOutput(it[s \ {Max(s)}], op, outputs[Max(s)])
    <3>1. CASE s = {} BY <1>5, <3>1 DEF FoldsBy
    <3>2. CASE s # {}
      <4>1. Max(s) \in 1..n BY <1>1, <3>2, MaxOfSome
      <4>2. it[s \ {Max(s)}] \in Writing(g, op, reads)
        <5>1. s \ {Max(s)} \in SUBSET (1..n) OBVIOUS
        <5> QED BY <1>5, <5>1
      <4>3. it[s] = Step[<<it[s \ {Max(s)}], Max(s)>>] BY <1>5, <3>2 DEF FoldsBy
      <4> QED BY <1>3, <3>2, <4>1, <4>2, <4>3
    <3> QED BY <3>1, <3>2
  <2> QED BY <1>1, <1>5, <2>1
<1>7. Eq(tab)
  <2> HIDE DEF Eq
  <2> QED BY <1>6
<1> HIDE DEF tab
<1>8. tab[{}] = [added |-> TRUE, graph |-> h] BY <1>1, <1>7
<1>9. ASSUME NEW k \in 1..n, tab[1..k-1] \in Writing(g, op, reads) PROVE tab[1..k] = Step[<<tab[1..k-1], k>>]
  <2>1. 1..k \in SUBSET (1..n) /\ 1..k # {} /\ Max(1..k) = k /\ (1..k) \ {k} = 1..k-1
    BY <1>1, FirstNumbers
  <2>2. tab[1..k] = TryLinkOutput(tab[(1..k) \ {Max(1..k)}], op, outputs[Max(1..k)]) BY <1>1, <1>7, <2>1
  <2>3. Step[<<tab[1..k-1], k>>] = TryLinkOutput(tab[1..k-1], op, outputs[k]) BY <1>3, <1>9
  <2>4. tab[1..k] = TryLinkOutput(tab[1..k-1], op, outputs[k])
    <3> HIDE DEF Step
    <3> QED BY <2>1, <2>2
  <2> QED BY <2>3, <2>4
<1> DEFINE steps == OfPrefixes(tab, n)
<1>10. steps \in [0..n -> Writing(g, op, reads)] /\ Stepwise(steps, n, [added |-> TRUE, graph |-> h], Step)
  <2>1. Folding(tab, Writing(g, op, reads), n, [added |-> TRUE, graph |-> h], Step) BY <1>2, <1>3, <1>8, <1>9 DEF Folding
  <2> QED BY <1>1, <2>1, FoldStays
<1>11. steps[n] = tab[DOMAIN outputs] BY <1>1 DEF OfPrefixes
<1> HIDE DEF steps
<1>12. ASSUME NEW k \in 1..n PROVE steps[k] = TryLinkOutput(steps[k - 1], op, outputs[k])
  <2>1. k - 1 \in 0..n BY <1>1
  <2>2. steps[k - 1] \in Writing(g, op, reads) BY <1>10, <2>1
  <2> QED BY <1>3, <1>10, <2>2 DEF Stepwise
<1>13. steps[0] = [added |-> TRUE, graph |-> h] BY <1>10 DEF Stepwise
<1> QED BY <1>4, <1>10, <1>11, <1>12, <1>13 DEF n

LEMMA OutputsAreWriting ==
    ASSUME NEW outputs \in Seq(Nat), NEW g, NothingIsolated(g), NEW op \in Nat, op \notin AllOps(g),
           NEW reads \in SUBSET Nat, NEW h, Linked(h, g, op, reads, {})
    PROVE  TryLinkOutputs(h, op, outputs) \in Writing(g, op, reads)
<1>1. [added |-> TRUE, graph |-> h] \in Writing(g, op, reads)
  BY DEF Linked, WellFormed, Edges, Writing
<1>2. PICK steps \in [0..Len(outputs) -> Writing(g, op, reads)] :
            TryLinkOutputs(h, op, outputs) = steps[Len(outputs)]
  BY <1>1, OutputsSteps
<1>3. Len(outputs) \in 0..Len(outputs) OBVIOUS
<1> QED BY <1>2, <1>3

(* An operator that was added reads none of its outputs.                   *)
LEMMA OutputsAreLinked ==
    ASSUME NEW outputs \in Seq(Nat), NEW g, NothingIsolated(g), Closed(g),
           NEW op \in Nat, op \notin AllOps(g),
           NEW reads \in SUBSET Nat, NEW h, Linked(h, g, op, reads, {})
    PROVE  LET r == TryLinkOutputs(h, op, outputs)
           IN  IF r.added THEN Linked(r.graph, g, op, reads, ToSet(outputs)) /\ ToSet(outputs) \intersect reads = {}
               ELSE Same(r.graph, g)
<1>0. [added |-> TRUE, graph |-> h] \in Writing(g, op, reads)
  BY DEF Linked, WellFormed, Edges, Writing
<1>1. PICK steps \in [0..Len(outputs) -> Writing(g, op, reads)] :
            /\ steps[0] = [added |-> TRUE, graph |-> h]
            /\ \A k \in 1..Len(outputs) : steps[k] = TryLinkOutput(steps[k - 1], op, outputs[k])
            /\ TryLinkOutputs(h, op, outputs) = steps[Len(outputs)]
  BY <1>0, OutputsSteps
<1> DEFINE First(m) == {outputs[i] : i \in 1..m}
           Result(r, writes) ==
               IF r.added THEN Linked(r.graph, g, op, reads, writes) /\ writes \intersect reads = {}
               ELSE Same(r.graph, g)
           Good == {m \in Nat : m <= Len(outputs) => Result(steps[m], First(m))}
<1>2. 0 \in Good
  <2>1. First(0) = {} OBVIOUS
  <2> HIDE DEF First
  <2>2. steps[0].added /\ steps[0].graph = h BY <1>1
  <2>3. Result(steps[0], First(0)) BY <2>1, <2>2
  <2> HIDE DEF Result
  <2> QED BY <2>3
<1>3. ASSUME NEW m \in Nat, m \in Good PROVE m + 1 \in Good
  <2> SUFFICES ASSUME m + 1 <= Len(outputs) PROVE Result(steps[m + 1], First(m + 1)) OBVIOUS
  <2>1. Result(steps[m], First(m)) BY <1>3
  <2>2. m + 1 \in 1..Len(outputs) /\ outputs[m + 1] \in Nat /\ (m + 1) - 1 = m OBVIOUS
  <2> DEFINE r == steps[m]
             t == outputs[m + 1]
  <2>3. steps[m + 1] = TryLinkOutput(r, op, t) BY <1>1, <2>2
  <2>4. First(m + 1) = First(m) \union {t} BY <2>2
  <2>5. First(m) \in SUBSET Nat BY <2>2
  <2>6. r.added \in BOOLEAN
    <3> HIDE DEF First
    <3>1. m \in 0..Len(outputs) OBVIOUS
    <3> HIDE DEF Result, Good
    <3>2. r \in Writing(g, op, reads) BY <1>1, <3>1
    <3> HIDE DEF r
    <3> QED BY <3>2 DEF Writing
  <2>7. t \in Nat BY <2>2
  <2> HIDE DEF First, r, t
  <2>8. CASE ~r.added
    <3>1. steps[m + 1] = r BY <2>3, <2>8 DEF TryLinkOutput
    <3> QED BY <2>1, <2>8, <3>1 DEF r
  <2>9. CASE r.added
    <3>1. Linked(r.graph, g, op, reads, First(m)) /\ First(m) \intersect reads = {} BY <2>1, <2>9 DEF r
    <3>2. CASE PathExists(r.graph, t, op)
      <4>1. steps[m + 1] = [added |-> FALSE, graph |-> RemoveOperator(r.graph, op)]
        BY <2>3, <2>9, <3>2 DEF TryLinkOutput
      <4>2. Same(RemoveOperator(r.graph, op), g) BY <2>5, <3>1, RemovalLeavesSame
      <4> QED BY <4>1, <4>2
    <3>3. CASE ~PathExists(r.graph, t, op)
      <4>1. steps[m + 1] = [added |-> TRUE, graph |-> LinkOutput(r.graph, op, t)]
        BY <2>3, <2>9, <3>3 DEF TryLinkOutput
      <4>2. Linked(LinkOutput(r.graph, op, t), g, op, reads, First(m) \union {t})
        BY <2>7, <3>1, OutputIsLinked
      <4>3. t \notin reads
        <5> SUFFICES ASSUME t \in reads PROVE FALSE OBVIOUS
        <5>1. Closed(r.graph) BY <2>5, <3>1, LinkedIsClosed
        <5>2. t \in AllTensors(r.graph) BY <3>1 DEF Linked
        <5>3. op \in ReadersOf(r.graph, t) BY <2>7, <3>1 DEF Linked
        <5>4. op \in ToSet(r.graph.dstOps[t]) BY <5>2, <5>3 DEF ReadersOf
        <5> QED BY <3>3, <5>1, <5>2, <5>4, PathToReader
      <4>4. First(m + 1) \intersect reads = {} BY <2>4, <3>1, <4>3
      <4>5. Linked(LinkOutput(r.graph, op, t), g, op, reads, First(m + 1)) BY <2>4, <4>2
      <4>6. steps[m + 1].added /\ steps[m + 1].graph = LinkOutput(r.graph, op, t) BY <4>1
      <4> QED BY <4>4, <4>5, <4>6
    <3> QED BY <3>2, <3>3
  <2> QED BY <2>6, <2>8, <2>9
<1> HIDE DEF Good
<1>4. Nat \subseteq Good BY <1>2, <1>3, SetInduction
<1>5. Len(outputs) \in Nat /\ DOMAIN outputs = 1..Len(outputs) OBVIOUS
<1>6. First(Len(outputs)) = ToSet(outputs) BY <1>5 DEF ToSet
<1> HIDE DEF First, Result
<1>7. Result(steps[Len(outputs)], First(Len(outputs)))
  <2>1. Len(outputs) \in Good BY <1>4, <1>5
  <2> QED BY <1>5, <2>1 DEF Good
<1> QED BY <1>1, <1>6, <1>7 DEF Result

-----------------------------------------------------------------------------
(* A graph and the operators that it was made of                           *)

Wired(added) == \A i \in 1..Len(added) : added[i].srcs \in Seq(Nat) /\ added[i].dsts \in Seq(Nat)

MakersIn(added, t)  == {o \in 0..Len(added)-1 : t \in ToSet(added[o + 1].dsts)}
ReadersIn(added, t) == {o \in 0..Len(added)-1 : t \in ToSet(added[o + 1].srcs)}
TensorsOf(added)    == UNION {ToSet(added[i].srcs) \union ToSet(added[i].dsts) : i \in 1..Len(added)}

Reflects(g, added) ==
    /\ WellFormed(g)
    /\ AllOps(g) = 0..Len(added)-1 /\ AllTensors(g) = TensorsOf(added)
    /\ \A t \in Nat : MakersOf(g, t) = MakersIn(added, t) /\ ReadersOf(g, t) = ReadersIn(added, t)
    /\ \A i \in 1..Len(added) : /\ ToSet(g.srcTensors[i - 1]) = ToSet(added[i].srcs)
                                /\ ToSet(g.dstTensors[i - 1]) = ToSet(added[i].dsts)

LEMMA ToSetOfNumbers == ASSUME NEW s \in Seq(Nat) PROVE ToSet(s) \in SUBSET Nat
BY DEF ToSet

LEMMA TensorsAreNumbers ==
    ASSUME NEW S, NEW added \in Seq(S), Wired(added)
    PROVE  TensorsOf(added) \subseteq Nat
BY ToSetOfNumbers DEF TensorsOf, Wired

LEMMA ReflectsSane ==
    ASSUME NEW S, NEW added \in Seq(S), Wired(added), NEW g, Reflects(g, added)
    PROVE  NothingIsolated(g) /\ Closed(g)
<1>1. AllTensors(g) \subseteq Nat BY TensorsAreNumbers DEF Reflects
<1>2. ASSUME NEW t \in AllTensors(g) PROVE MakersOf(g, t) \union ReadersOf(g, t) # {}
  <2>1. PICK i \in 1..Len(added) : t \in ToSet(added[i].srcs) \union ToSet(added[i].dsts)
    BY DEF Reflects, TensorsOf
  <2>2. i - 1 \in 0..Len(added)-1 /\ (i - 1) + 1 = i OBVIOUS
  <2>3. i - 1 \in MakersIn(added, t) \/ i - 1 \in ReadersIn(added, t)
    BY <2>1, <2>2 DEF MakersIn, ReadersIn
  <2> QED BY <1>1, <2>3 DEF Reflects
<1>3. \A t \in Nat : MakersOf(g, t) \union ReadersOf(g, t) \subseteq AllOps(g)
  BY DEF Reflects, MakersIn, ReadersIn
<1>4. IsFiniteSet(AllOps(g))
  <2>1. IsFiniteSet(0..Len(added)-1) BY FS_Interval
  <2> QED BY <2>1 DEF Reflects
<1>5. ASSUME NEW o \in AllOps(g) PROVE ToSet(g.dstTensors[o]) \subseteq AllTensors(g)
  <2>1. o + 1 \in 1..Len(added) /\ (o + 1) - 1 = o BY DEF Reflects
  <2>2. ToSet(g.dstTensors[o]) = ToSet(added[o + 1].dsts) BY <2>1 DEF Reflects
  <2>3. ToSet(added[o + 1].dsts) \subseteq TensorsOf(added) BY <2>1 DEF TensorsOf
  <2> QED BY <2>2, <2>3 DEF Reflects
<1>6. ASSUME NEW t \in AllTensors(g) PROVE ToSet(g.dstOps[t]) \subseteq AllOps(g)
  <2>1. ToSet(g.dstOps[t]) = ReadersOf(g, t) BY DEF ReadersOf
  <2> QED BY <1>1, <1>3, <2>1
<1> QED BY <1>1, <1>2, <1>3, <1>4, <1>5, <1>6 DEF NothingIsolated, Closed

LEMMA ReflectsSame ==
    ASSUME NEW S, NEW added \in Seq(S), NEW g, Reflects(g, added), NEW h, Same(h, g)
    PROVE  Reflects(h, added)
<1>1. ASSUME NEW i \in 1..Len(added)
      PROVE  /\ ToSet(h.srcTensors[i - 1]) = ToSet(added[i].srcs)
             /\ ToSet(h.dstTensors[i - 1]) = ToSet(added[i].dsts)
  <2>1. i - 1 \in AllOps(g) BY DEF Reflects
  <2>2. h.srcTensors[i - 1] = g.srcTensors[i - 1] /\ h.dstTensors[i - 1] = g.dstTensors[i - 1]
    BY <2>1 DEF Same
  <2> QED BY <2>2 DEF Reflects
<1> QED BY <1>1 DEF Reflects, Same

LEMMA AppendedElements ==
    ASSUME NEW S, NEW s \in Seq(S), NEW e \in S
    PROVE  /\ Append(s, e) \in Seq(S) /\ Len(Append(s, e)) = Len(s) + 1
           /\ Append(s, e)[Len(s) + 1] = e
           /\ \A i \in 1..Len(s) : Append(s, e)[i] = s[i]
OBVIOUS

LEMMA ReflectsOneMore ==
    ASSUME NEW S, NEW added \in Seq(S), Wired(added), NEW g, Reflects(g, added), NEW e \in S,
           e.srcs \in Seq(Nat), e.dsts \in Seq(Nat),
           NEW h, Linked(h, g, Len(added), ToSet(e.srcs), ToSet(e.dsts))
    PROVE  Reflects(h, Append(added, e)) /\ Wired(Append(added, e))
<1> DEFINE more == Append(added, e)
           n == Len(added)
<1>1. /\ n \in Nat /\ more \in Seq(S) /\ Len(more) = n + 1 /\ more[n + 1] = e
      /\ \A i \in 1..n : more[i] = added[i]
  BY AppendedElements
<1> HIDE DEF more, n
<1>2. AllOps(h) = 0..Len(more)-1
  <2>1. AllOps(h) = (0..n-1) \union {n} BY DEF Linked, Reflects, n
  <2> QED BY <1>1, <2>1
<1>3. TensorsOf(more) = TensorsOf(added) \union ToSet(e.srcs) \union ToSet(e.dsts)
  <2>1. ASSUME NEW t \in TensorsOf(more)
        PROVE  t \in TensorsOf(added) \union ToSet(e.srcs) \union ToSet(e.dsts)
    <3>1. PICK i \in 1..Len(more) : t \in ToSet(more[i].srcs) \union ToSet(more[i].dsts)
      BY DEF TensorsOf
    <3>2. CASE i = n + 1 BY <1>1, <3>1, <3>2
    <3>3. CASE i # n + 1
      <4>1. i \in 1..Len(added) /\ more[i] = added[i] BY <1>1, <3>3 DEF n
      <4> QED BY <3>1, <4>1 DEF TensorsOf
    <3> QED BY <3>2, <3>3
  <2>2. ASSUME NEW t \in TensorsOf(added) PROVE t \in TensorsOf(more)
    <3>1. PICK i \in 1..Len(added) : t \in ToSet(added[i].srcs) \union ToSet(added[i].dsts)
      BY DEF TensorsOf
    <3>2. i \in 1..Len(more) /\ more[i] = added[i] BY <1>1 DEF n
    <3> QED BY <3>1, <3>2 DEF TensorsOf
  <2>3. ToSet(e.srcs) \union ToSet(e.dsts) \subseteq TensorsOf(more)
    <3>1. n + 1 \in 1..Len(more) BY <1>1
    <3> QED BY <1>1, <3>1 DEF TensorsOf
  <2> QED BY <2>1, <2>2, <2>3
<1>4. AllTensors(h) = TensorsOf(more) BY <1>3 DEF Linked, Reflects
<1>5. ASSUME NEW t \in Nat
      PROVE  /\ MakersIn(more, t) = MakersIn(added, t) \union (IF t \in ToSet(e.dsts) THEN {n} ELSE {})
             /\ ReadersIn(more, t) = ReadersIn(added, t) \union (IF t \in ToSet(e.srcs) THEN {n} ELSE {})
  <2>1. 0..Len(more)-1 = (0..n-1) \union {n} BY <1>1
  <2>2. \A o \in 0..n-1 : more[o + 1] = added[o + 1] BY <1>1
  <2> QED BY <1>1, <2>1, <2>2 DEF MakersIn, ReadersIn, n
<1>6. ASSUME NEW t \in Nat
      PROVE  MakersOf(h, t) = MakersIn(more, t) /\ ReadersOf(h, t) = ReadersIn(more, t)
  BY <1>5 DEF Linked, Reflects, n
<1>7. ASSUME NEW i \in 1..Len(more)
      PROVE  /\ ToSet(h.srcTensors[i - 1]) = ToSet(more[i].srcs)
             /\ ToSet(h.dstTensors[i - 1]) = ToSet(more[i].dsts)
  <2>1. CASE i = n + 1
    <3>1. i - 1 = n /\ more[i] = e BY <1>1, <2>1
    <3> QED BY <3>1 DEF Linked, n
  <2>2. CASE i # n + 1
    <3>1. i \in 1..n /\ i - 1 \in 0..n-1 BY <1>1, <2>2
    <3>2. i - 1 \in AllOps(g) BY <3>1 DEF Reflects, n
    <3>3. h.srcTensors[i - 1] = g.srcTensors[i - 1] /\ h.dstTensors[i - 1] = g.dstTensors[i - 1]
      BY <3>2 DEF Linked
    <3>4. more[i] = added[i] BY <1>1, <3>1
    <3> QED BY <3>1, <3>3, <3>4 DEF Reflects, n
  <2> QED BY <2>1, <2>2
<1>8. Wired(more)
  <2> SUFFICES ASSUME NEW i \in 1..Len(more) PROVE more[i].srcs \in Seq(Nat) /\ more[i].dsts \in Seq(Nat)
    BY DEF Wired
  <2>1. i = n + 1 \/ i \in 1..n BY <1>1
  <2> QED BY <1>1, <2>1 DEF Wired, n
<1> QED BY <1>2, <1>4, <1>6, <1>7, <1>8 DEF Reflects, Linked, more

LEMMA ReflectsLastOp ==
    ASSUME NEW g, NEW added, Reflects(g, added), NEW op \in Int
    PROVE  Reflects([g EXCEPT !.lastOp = op], added) /\ [g EXCEPT !.lastOp = op].lastOp = op
<1> DEFINE h == [g EXCEPT !.lastOp = op]
<1>1. h = [g EXCEPT !.lastOp = op] OBVIOUS
<1> HIDE DEF h
<1>2. /\ h = [srcTensors |-> g.srcTensors, dstTensors |-> g.dstTensors, srcOps |-> g.srcOps,
              dstOps |-> g.dstOps, lastOp |-> op]
  BY <1>1 DEF Reflects, WellFormed
<1>3. /\ h.srcTensors = g.srcTensors /\ h.dstTensors = g.dstTensors /\ h.srcOps = g.srcOps
      /\ h.dstOps = g.dstOps /\ h.lastOp = op
  BY <1>2
<1>4. AllOps(h) = AllOps(g) /\ AllTensors(h) = AllTensors(g) BY <1>3 DEF AllOps, AllTensors
<1>5. WellFormed(h) BY <1>2, <1>3, <1>4 DEF Reflects, WellFormed
<1>6. \A t \in Nat : MakersOf(h, t) = MakersOf(g, t) /\ ReadersOf(h, t) = ReadersOf(g, t)
  BY <1>3, <1>4 DEF MakersOf, ReadersOf
<1> QED BY <1>3, <1>4, <1>5, <1>6 DEF Reflects, h

(* add_operator either adds the operator, which then reads none of its     *)
(* outputs, or leaves no trace of it.                                      *)
Outcome(r, g, added, e, isOutput) ==
    IF r.added
    THEN /\ Reflects(r.graph, Append(added, e)) /\ Wired(Append(added, e))
         /\ r.graph.lastOp = IF isOutput THEN g.lastOp ELSE Len(added)
         /\ ToSet(e.dsts) \intersect ToSet(e.srcs) = {}
    ELSE Reflects(r.graph, added) /\ r.graph.lastOp = g.lastOp

LEMMA AddOperatorFacts ==
    ASSUME NEW S, NEW added \in Seq(S), Wired(added), NEW g, Reflects(g, added), NEW e \in S,
           e.srcs \in Seq(Nat), e.dsts \in Seq(Nat), NEW isOutput \in BOOLEAN
    PROVE  Outcome(AddOperator(g, Len(added), e.srcs, e.dsts, isOutput), g, added, e, isOutput)
<1> DEFINE op == Len(added)
           new == [g EXCEPT !.srcTensors = WithList(@, op), !.dstTensors = WithList(@, op)]
           linked == LinkInputs(new, op, e.srcs)
           r == TryLinkOutputs(linked, op, e.dsts)
           result == AddOperator(g, op, e.srcs, e.dsts, isOutput)
<1>1. op \in Nat /\ op \notin AllOps(g) BY DEF Reflects
<1>2. NothingIsolated(g) /\ Closed(g) BY ReflectsSane
<1>3. Linked(new, g, op, {}, {})
  <2>1. WellFormed(g) BY DEF Reflects
  <2> HIDE DEF op
  <2> QED BY <1>1, <2>1, NewIsLinked
<1>4. result = IF r.added /\ ~isOutput
               THEN [added |-> TRUE, graph |-> [r.graph EXCEPT !.lastOp = op]] ELSE r
  BY <1>1, Zenon DEF AddOperator
<1> HIDE DEF new, op, result
<1>5. Linked(linked, g, op, ToSet(e.srcs), {}) BY <1>1, <1>3, InputsAreLinked
<1> HIDE DEF linked
<1>6. IF r.added THEN /\ Linked(r.graph, g, op, ToSet(e.srcs), ToSet(e.dsts))
                      /\ ToSet(e.dsts) \intersect ToSet(e.srcs) = {}
      ELSE Same(r.graph, g)
  <2>1. ToSet(e.srcs) \in SUBSET Nat BY ToSetOfNumbers
  <2> QED BY <1>1, <1>2, <1>5, <2>1, OutputsAreLinked
<1> HIDE DEF r
<1>7. CASE r.added
  <2>1. Reflects(r.graph, Append(added, e)) /\ Wired(Append(added, e)) BY <1>6, <1>7, ReflectsOneMore DEF op
  <2>2. r.graph.lastOp = g.lastOp BY <1>6, <1>7 DEF Linked
  <2>3. CASE isOutput BY <1>4, <1>6, <1>7, <2>1, <2>2, <2>3 DEF Outcome, result, op
  <2>4. CASE ~isOutput
    <3> DEFINE x == [r.graph EXCEPT !.lastOp = op]
    <3>1. Reflects(x, Append(added, e)) /\ x.lastOp = op BY <1>1, <2>1, ReflectsLastOp
    <3> HIDE DEF x
    <3>2. result.added /\ result.graph = x
      <4>1. result = [added |-> TRUE, graph |-> x] BY <1>4, <1>7, <2>4 DEF x
      <4> QED BY <4>1
    <3> QED BY <1>6, <1>7, <2>1, <2>4, <3>1, <3>2 DEF Outcome, result, op
  <2> QED BY <2>3, <2>4
<1>8. CASE ~r.added
  <2>1. Reflects(r.graph, added) BY <1>6, <1>8, ReflectsSame
  <2>2. r.graph.lastOp = g.lastOp BY <1>6, <1>8 DEF Same
  <2>3. result = r BY <1>4, <1>8
  <2> QED BY <1>8, <2>1, <2>2, <2>3 DEF Outcome, result, op
<1> QED BY <1>7, <1>8

LEMMA AddOperatorBoolean ==
    ASSUME NEW S, NEW added \in Seq(S), Wired(added), NEW g, Reflects(g, added),
           NEW srcs \in Seq(Nat), NEW dsts \in Seq(Nat), NEW isOutput \in BOOLEAN
    PROVE  AddOperator(g, Len(added), srcs, dsts, isOutput).added \in BOOLEAN
<1> DEFINE op == Len(added)
           new == [g EXCEPT !.srcTensors = WithList(@, op), !.dstTensors = WithList(@, op)]
           linked == LinkInputs(new, op, srcs)
           r == TryLinkOutputs(linked, op, dsts)
           result == AddOperator(g, op, srcs, dsts, isOutput)
<1>1. op \in Nat /\ op \notin AllOps(g) BY DEF Reflects
<1>2. NothingIsolated(g) BY ReflectsSane
<1>3. Linked(new, g, op, {}, {})
  <2>1. WellFormed(g) BY DEF Reflects
  <2> HIDE DEF op
  <2> QED BY <1>1, <2>1, NewIsLinked
<1>4. result = IF r.added /\ ~isOutput
               THEN [added |-> TRUE, graph |-> [r.graph EXCEPT !.lastOp = op]] ELSE r
  BY <1>1, Zenon DEF AddOperator
<1> HIDE DEF new, op, result
<1>5. Linked(linked, g, op, ToSet(srcs), {}) BY <1>1, <1>3, InputsAreLinked
<1> HIDE DEF linked
<1>6. ToSet(srcs) \in SUBSET Nat BY ToSetOfNumbers
<1>7. r \in Writing(g, op, ToSet(srcs)) BY <1>1, <1>2, <1>5, <1>6, OutputsAreWriting
<1>8. r.added \in BOOLEAN BY <1>7 DEF Writing
<1> HIDE DEF r
<1>9. result.added \in BOOLEAN BY <1>4, <1>8
<1> QED BY <1>9 DEF result, op

-----------------------------------------------------------------------------
(* The sketch                                                              *)

Infos      == [shape : {"full", "row"}, type : {"F32", "F16"}]
Kinds      == {"Complex", "Simple", "Output", "Unfusable"}
Operators  == [type : Kinds, srcs : Seq(Nat), dsts : Seq(Nat), isOutput : BOOLEAN]
KernelNames == {"conv", "depthwise", "activation", "cast", "elementwise_binary", "store", "exp_sum", "norm"}
Components == [type : Kinds, kernel : KernelNames, srcs : Seq(Nat), dsts : Seq(Nat)]

LEMMA TypedIsWired ==
    /\ \A added \in Seq(Operators) : Wired(added)
    /\ \A added \in Seq(Components) : Wired(added)
<1>1. ASSUME NEW added \in Seq(Operators) PROVE Wired(added)
  <2>1. \A i \in 1..Len(added) : added[i] \in Operators OBVIOUS
  <2> QED BY <2>1 DEF Operators, Wired
<1>2. ASSUME NEW added \in Seq(Components) PROVE Wired(added)
  <2>1. \A i \in 1..Len(added) : added[i] \in Components OBVIOUS
  <2> QED BY <2>1 DEF Components, Wired
<1> QED BY <1>1, <1>2

(* What is known of the component graph while components are added.        *)
Adding == {r \in [added : BOOLEAN, graph : Edges, components : Seq(Components)] :
             Reflects(r.graph, r.components)}

LEMMA AddComponentFacts ==
    ASSUME NEW r \in Adding, NEW c \in Components
    PROVE  AddComponent(r, c) \in Adding
<1>1. /\ r.added \in BOOLEAN /\ r.graph \in Edges /\ r.components \in Seq(Components)
      /\ Reflects(r.graph, r.components)
  BY DEF Adding
<1>2. Wired(r.components) BY <1>1, TypedIsWired
<1>3. CASE ~r.added BY <1>3 DEF AddComponent
<1>4. CASE r.added
  <2> DEFINE new == AddOperator(r.graph, Len(r.components), c.srcs, c.dsts, FALSE)
             more == IF new.added THEN Append(r.components, c) ELSE r.components
  <2>1. AddComponent(r, c) = [added |-> new.added, graph |-> new.graph, components |-> more]
    BY <1>4 DEF AddComponent
  <2>2. c.srcs \in Seq(Nat) /\ c.dsts \in Seq(Nat) BY DEF Components
  <2>3. Outcome(new, r.graph, r.components, c, FALSE) BY <1>1, <1>2, <2>2, AddOperatorFacts
  <2>4. new.added \in BOOLEAN
    BY <1>1, <1>2, <2>2, AddOperatorBoolean
  <2> HIDE DEF new
  <2>5. more \in Seq(Components) BY <1>1
  <2>6. Reflects(new.graph, more) BY <2>3, <2>4 DEF Outcome
  <2> HIDE DEF more
  <2>7. new.graph \in Edges BY <2>6 DEF Reflects, WellFormed, Edges
  <2> QED BY <2>1, <2>4, <2>5, <2>6, <2>7 DEF Adding
<1> QED BY <1>1, <1>3, <1>4

LEMMA ComponentsSteps ==
    ASSUME NEW comps \in Seq(Components), NEW base \in Adding,
           base = [added |-> TRUE, graph |-> graph, components |-> components]
    PROVE  \E steps \in [0..Len(comps) -> Adding] :
              /\ steps[0] = base /\ \A k \in 1..Len(comps) : steps[k] = AddComponent(steps[k - 1], comps[k])
              /\ AddComponents(comps) = steps[Len(comps)]
<1> DEFINE n == Len(comps)
           Step == [x \in (Adding) \X (1..n) |-> AddComponent(x[1], comps[x[2]])]
<1>1. n \in Nat /\ DOMAIN comps = 1..n OBVIOUS
<1>2. /\ base \in Adding
      /\ \A x \in Adding, k \in 1..n : AddComponent(x, comps[k]) \in Adding
  BY <1>1, AddComponentFacts
<1>3. Step \in [(Adding) \X (1..n) -> Adding] /\ \A x \in Adding, k \in 1..n : Step[<<x, k>>] = AddComponent(x, comps[k])
  BY <1>2
<1> HIDE DEF n, Step
<1> DEFINE Eq(it) == it = [s \in SUBSET DOMAIN comps |->
                             IF s = {} THEN base ELSE AddComponent(it[s \ {Max(s)}], comps[Max(s)])]
           tab == CHOOSE it : Eq(it)
<1>4. AddComponents(comps) = tab[DOMAIN comps]
  BY Zenon DEF FoldLeft, MapThenFoldSet, AddComponents
<1>5. PICK it \in [SUBSET (1..n) -> Adding] : FoldsBy(it, 1..n, base, Step)
  <2>1. HasFold(n, Adding, base, Step) BY <1>1, <1>2, <1>3, FoldOfSet
  <2> QED BY <2>1 DEF HasFold
<1>6. Eq(it)
  <2>1. ASSUME NEW s \in SUBSET (1..n)
        PROVE  it[s] = IF s = {} THEN base ELSE AddComponent(it[s \ {Max(s)}], comps[Max(s)])
    <3>1. CASE s = {} BY <1>5, <3>1 DEF FoldsBy
    <3>2. CASE s # {}
      <4>1. Max(s) \in 1..n BY <1>1, <3>2, MaxOfSome
      <4>2. it[s \ {Max(s)}] \in Adding
        <5>1. s \ {Max(s)} \in SUBSET (1..n) OBVIOUS
        <5> QED BY <1>5, <5>1
      <4>3. it[s] = Step[<<it[s \ {Max(s)}], Max(s)>>] BY <1>5, <3>2 DEF FoldsBy
      <4> QED BY <1>3, <3>2, <4>1, <4>2, <4>3
    <3> QED BY <3>1, <3>2
  <2> QED BY <1>1, <1>5, <2>1
<1>7. Eq(tab)
  <2> HIDE DEF Eq
  <2> QED BY <1>6
<1> HIDE DEF tab
<1>8. tab[{}] = base BY <1>1, <1>7
<1>9. ASSUME NEW k \in 1..n, tab[1..k-1] \in Adding PROVE tab[1..k] = Step[<<tab[1..k-1], k>>]
  <2>1. 1..k \in SUBSET (1..n) /\ 1..k # {} /\ Max(1..k) = k /\ (1..k) \ {k} = 1..k-1
    BY <1>1, FirstNumbers
  <2>2. tab[1..k] = AddComponent(tab[(1..k) \ {Max(1..k)}], comps[Max(1..k)]) BY <1>1, <1>7, <2>1
  <2>3. Step[<<tab[1..k-1], k>>] = AddComponent(tab[1..k-1], comps[k]) BY <1>3, <1>9
  <2>4. tab[1..k] = AddComponent(tab[1..k-1], comps[k])
    <3> HIDE DEF Step
    <3> QED BY <2>1, <2>2
  <2> QED BY <2>3, <2>4
<1> DEFINE steps == OfPrefixes(tab, n)
<1>10. steps \in [0..n -> Adding] /\ Stepwise(steps, n, base, Step)
  <2>1. Folding(tab, Adding, n, base, Step) BY <1>2, <1>3, <1>8, <1>9 DEF Folding
  <2> QED BY <1>1, <2>1, FoldStays
<1>11. steps[n] = tab[DOMAIN comps] BY <1>1 DEF OfPrefixes
<1> HIDE DEF steps
<1>12. ASSUME NEW k \in 1..n PROVE steps[k] = AddComponent(steps[k - 1], comps[k])
  <2>1. k - 1 \in 0..n BY <1>1
  <2>2. steps[k - 1] \in Adding BY <1>10, <2>1
  <2> QED BY <1>3, <1>10, <2>2 DEF Stepwise
<1>13. steps[0] = base BY <1>10 DEF Stepwise
<1> QED BY <1>4, <1>10, <1>11, <1>12, <1>13 DEF n

LEMMA ComponentsFacts ==
    ASSUME NEW comps \in Seq(Components), graph \in Edges, components \in Seq(Components),
           Reflects(graph, components)
    PROVE  AddComponents(comps) \in Adding
<1> DEFINE base == [added |-> TRUE, graph |-> graph, components |-> components]
<1>1. base \in Adding BY DEF Adding
<1> HIDE DEF base
<1>2. PICK steps \in [0..Len(comps) -> Adding] : AddComponents(comps) = steps[Len(comps)]
  BY <1>1, ComponentsSteps DEF base
<1>3. Len(comps) \in 0..Len(comps) OBVIOUS
<1> QED BY <1>2, <1>3

-----------------------------------------------------------------------------
(* The order of the operators of a group                                   *)

(* _last_op is the last operator that is not an output.                    *)
LastIs(g, added) ==
    IF g.lastOp = NoOperator THEN \A j \in 1..Len(added) : added[j].isOutput
    ELSE /\ g.lastOp + 1 \in 1..Len(added) /\ ~added[g.lastOp + 1].isOutput
         /\ \A j \in g.lastOp+2..Len(added) : added[j].isOutput

MadeInputs(added, i) ==
    {k \in DOMAIN added[i].srcs : \E j \in DOMAIN added : added[i].srcs[k] \in ToSet(added[j].dsts)}

LinearAt(added, i) ==
    \E l \in 1..i-1 : /\ ~added[l].isOutput /\ \A j \in l+1..i-1 : added[j].isOutput
                      /\ Cardinality(MadeInputs(added, i)) = 1
                      /\ \A k \in MadeInputs(added, i) : added[i].srcs[k] \in ToSet(added[l].dsts)

Linear(added) ==
    added # <<>> /\ ~added[1].isOutput => \A i \in 2..Len(added) : LinearAt(added, i)

LEMMA LastIsOneMore ==
    ASSUME NEW added \in Seq(Operators), NEW e \in Operators, NEW g, g.lastOp \in Int,
           LastIs(g, added), NEW h, h.lastOp = IF e.isOutput THEN g.lastOp ELSE Len(added)
    PROVE  LastIs(h, Append(added, e))
<1> DEFINE more == Append(added, e)
           n == Len(added)
<1>1. /\ n \in Nat /\ Len(more) = n + 1 /\ more[n + 1] = e /\ \A i \in 1..n : more[i] = added[i]
  BY AppendedElements
<1> HIDE DEF more
<1>2. CASE ~e.isOutput
  <2>1. h.lastOp = n BY <1>2
  <2>2. h.lastOp # NoOperator /\ h.lastOp + 1 = Len(more) BY <1>1, <2>1 DEF NoOperator
  <2> QED BY <1>1, <1>2, <2>1, <2>2 DEF LastIs, more
<1>3. CASE e.isOutput
  <2>1. h.lastOp = g.lastOp BY <1>3
  <2>2. CASE g.lastOp = NoOperator
    <3>1. \A j \in 1..n : added[j].isOutput BY <2>2 DEF LastIs
    <3>2. \A j \in 1..Len(more) : j \in 1..n \/ j = n + 1 BY <1>1
    <3>3. \A j \in 1..Len(more) : more[j].isOutput BY <1>1, <1>3, <3>1, <3>2
    <3> QED BY <2>1, <2>2, <3>3 DEF LastIs, more
  <2>3. CASE g.lastOp # NoOperator
    <3>1. /\ g.lastOp + 1 \in 1..n /\ ~added[g.lastOp + 1].isOutput
          /\ \A j \in g.lastOp+2..n : added[j].isOutput
      BY <2>3 DEF LastIs
    <3>2. \A j \in g.lastOp+2..Len(more) : (j \in g.lastOp+2..n /\ j \in 1..n) \/ j = n + 1 BY <1>1, <3>1
    <3>3. \A j \in g.lastOp+2..Len(more) : more[j].isOutput BY <1>1, <1>3, <3>1, <3>2
    <3>4. g.lastOp + 1 \in 1..Len(more) /\ ~more[g.lastOp + 1].isOutput BY <1>1, <3>1
    <3> QED BY <2>1, <2>3, <3>3, <3>4 DEF LastIs, more
  <2> QED BY <2>2, <2>3
<1> QED BY <1>2, <1>3 DEF Operators

LEMMA HasSourceIsMade ==
    ASSUME NEW g, NEW added, Reflects(g, added), NEW t \in Nat
    PROVE  HasSource(g, t) <=> MakersIn(added, t) # {}
<1>1. MakersOf(g, t) = MakersIn(added, t) BY DEF Reflects
<1>2. CASE t \in AllTensors(g)
  <2>1. g.srcOps[t] \in Seq(Nat) BY <1>2, ListIs DEF Reflects, WellFormed, AllTensors
  <2> QED BY <1>1, <1>2, <2>1, ToSetEmpty DEF MakersOf, HasSource
<1>3. CASE t \notin AllTensors(g) BY <1>1, <1>3 DEF MakersOf, HasSource
<1> QED BY <1>2, <1>3

LEMMA FirstIsElement ==
    ASSUME NEW s \in Seq(Nat), s # <<>>
    PROVE  s[1] \in ToSet(s)
<1>1. 1 \in DOMAIN s OBVIOUS
<1> QED BY <1>1 DEF ToSet

(* The new operator's inputs that operators make, by the guard of          *)
(* try_add_operator_as_linear.                                             *)
LEMMA LinearOneMore ==
    ASSUME NEW added \in Seq(Operators), NEW e \in Operators, NEW g, Reflects(g, added),
           LastIs(g, added), Linear(added), TryAddOperatorAsLinear(g, e.srcs, e.dsts),
           ToSet(e.dsts) \intersect ToSet(e.srcs) = {}
    PROVE  Linear(Append(added, e))
<1> DEFINE more == Append(added, e)
           n == Len(added)
<1>1. /\ n \in Nat /\ Len(more) = n + 1 /\ more[n + 1] = e /\ \A i \in 1..n : more[i] = added[i]
      /\ more \in Seq(Operators)
  BY AppendedElements
<1>2. DOMAIN more = 1..n+1 /\ DOMAIN added = 1..n BY <1>1
<1> HIDE DEF more, n
<1> SUFFICES ASSUME ~more[1].isOutput, NEW i \in 2..n+1
             PROVE  LinearAt(more, i)
  BY <1>1 DEF Linear, more
<1>3. n >= 1 /\ added[1] = more[1] /\ n \in 1..n BY <1>1
<1>4. AllOps(g) # {}
  <2>1. AllOps(g) = 0..n-1 BY DEF Reflects, n
  <2>2. 0 \in 0..n-1 BY <1>3
  <2> QED BY <2>1, <2>2
<1>5. g.lastOp \in Int BY DEF Reflects, WellFormed
<1>6. g.lastOp # NoOperator
  <2>1. 1 \in 1..n BY <1>3
  <2> QED BY <1>3, <2>1 DEF LastIs, n
<1>7. /\ g.lastOp + 1 \in 1..n /\ ~added[g.lastOp + 1].isOutput
      /\ \A j \in g.lastOp+2..n : added[j].isOutput
  BY <1>6 DEF LastIs, n
<1> DEFINE made == {k \in DOMAIN e.srcs : HasSource(g, e.srcs[k])}
<1>8. /\ Cardinality(made) = 1 /\ \A k \in made : g.srcOps[e.srcs[k]][1] = g.lastOp
      /\ \A k \in DOMAIN e.dsts : e.dsts[k] \notin AllTensors(g)
  BY <1>4, <1>6 DEF TryAddOperatorAsLinear
<1>9. ToSet(e.dsts) \intersect TensorsOf(added) = {}
  BY <1>8 DEF ToSet, Reflects
<1>10. CASE i = n + 1
  <2>1. ASSUME NEW k \in DOMAIN e.srcs
        PROVE  (\E j \in 1..n+1 : e.srcs[k] \in ToSet(more[j].dsts)) <=> HasSource(g, e.srcs[k])
    <3> DEFINE t == e.srcs[k]
    <3>1. t \in Nat BY DEF Operators
    <3>2. t \in ToSet(e.srcs) BY DEF ToSet
    <3> HIDE DEF t
    <3>3. t \notin ToSet(more[n + 1].dsts) BY <1>1, <3>2
    <3>4. ASSUME HasSource(g, t) PROVE \E j \in 1..n+1 : t \in ToSet(more[j].dsts)
      <4>1. PICK o \in 0..n-1 : t \in ToSet(added[o + 1].dsts)
        BY <3>1, <3>4, HasSourceIsMade DEF MakersIn, n
      <4>2. o + 1 \in 1..n /\ o + 1 \in 1..n+1 BY <1>1, <4>1
      <4> QED BY <1>1, <4>1, <4>2
    <3>5. ASSUME NEW j \in 1..n+1, t \in ToSet(more[j].dsts) PROVE HasSource(g, t)
      <4>1. j \in 1..n BY <1>1, <3>3, <3>5
      <4>2. j - 1 \in 0..n-1 /\ (j - 1) + 1 = j BY <1>1, <4>1
      <4>3. t \in ToSet(added[j].dsts) BY <1>1, <3>5, <4>1
      <4>4. j - 1 \in MakersIn(added, t) BY <4>2, <4>3 DEF MakersIn, n
      <4> QED BY <3>1, <4>4, HasSourceIsMade
    <3> QED BY <3>4, <3>5 DEF t
  <2>2. MadeInputs(more, i) = made BY <1>1, <1>2, <1>10, <2>1 DEF MadeInputs
  <2> DEFINE l == g.lastOp + 1
  <2>3. l \in 1..i-1 /\ ~more[l].isOutput BY <1>1, <1>7, <1>10
  <2>4. \A j \in l+1..i-1 : more[j].isOutput
    <3>1. \A j \in l+1..i-1 : j \in 1..n /\ j \in g.lastOp+2..n BY <1>1, <1>5, <1>7, <1>10
    <3> QED BY <1>1, <1>7, <3>1
  <2>5. ASSUME NEW k \in made PROVE e.srcs[k] \in ToSet(more[l].dsts)
    <3> DEFINE t == e.srcs[k]
    <3>1. t \in Nat BY DEF Operators
    <3>2. HasSource(g, t) OBVIOUS
    <3>3. t \in AllTensors(g) /\ g.srcOps[t] # <<>> BY <3>2 DEF HasSource
    <3>4. g.srcOps[t] \in Seq(Nat) BY <3>3, ListIs DEF Reflects, WellFormed, AllTensors
    <3>5. g.srcOps[t][1] \in MakersOf(g, t) BY <3>3, <3>4, FirstIsElement DEF MakersOf
    <3>6. g.lastOp \in MakersIn(added, t) BY <1>8, <3>1, <3>5 DEF Reflects
    <3>7. t \in ToSet(added[g.lastOp + 1].dsts) BY <3>6 DEF MakersIn
    <3> QED BY <1>1, <1>7, <3>7
  <2>6. Cardinality(MadeInputs(more, i)) = 1 BY <1>8, <2>2
  <2>7. \A k \in MadeInputs(more, i) : more[i].srcs[k] \in ToSet(more[l].dsts)
    <3> HIDE DEF made, l
    <3> QED BY <1>1, <1>10, <2>2, <2>5
  <2> HIDE DEF made, l
  <2> QED BY <2>3, <2>4, <2>6, <2>7 DEF LinearAt
<1>11. CASE i # n + 1
  <2>1. i \in 2..n /\ i \in 1..n BY <1>1, <1>11
  <2>2. LinearAt(added, i)
    <3>1. added # <<>> BY <1>3 DEF n
    <3>2. ~added[1].isOutput BY <1>3
    <3> HIDE DEF made
    <3>3. \A k \in 2..n : LinearAt(added, k) BY <3>1, <3>2 DEF Linear, n
    <3> QED BY <2>1, <3>3
  <2>3. PICK l \in 1..i-1 :
              /\ ~added[l].isOutput /\ \A j \in l+1..i-1 : added[j].isOutput
              /\ Cardinality(MadeInputs(added, i)) = 1
              /\ \A k \in MadeInputs(added, i) : added[i].srcs[k] \in ToSet(added[l].dsts)
    BY <2>2 DEF LinearAt
  <2>4. MadeInputs(more, i) = MadeInputs(added, i)
    <3>1. ToSet(added[i].srcs) \subseteq TensorsOf(added) BY <2>1 DEF TensorsOf, n
    <3>2. \A k \in DOMAIN added[i].srcs : added[i].srcs[k] \notin ToSet(more[n + 1].dsts)
      <4>1. \A k \in DOMAIN added[i].srcs : added[i].srcs[k] \in ToSet(added[i].srcs) BY DEF ToSet
      <4> QED BY <1>1, <1>9, <3>1, <4>1
    <3>3. \A j \in DOMAIN more : j \in DOMAIN added \/ j = n + 1 BY <1>1, <1>2
    <3>4. \A j \in DOMAIN added : j \in DOMAIN more /\ more[j] = added[j] BY <1>1, <1>2
    <3>5. more[i] = added[i] BY <1>1, <2>1
    <3> QED BY <3>2, <3>3, <3>4, <3>5 DEF MadeInputs
  <2>5. more[i] = added[i] /\ more[l] = added[l] /\ \A j \in l+1..i-1 : more[j] = added[j]
    BY <1>1, <2>1
  <2> QED BY <2>3, <2>4, <2>5 DEF LinearAt
<1> QED BY <1>10, <1>11

(* The inductive invariant: both graphs reflect what was added to them,    *)
(* and the operators were added in a linear order.                         *)
SketchInv ==
    /\ info \in Seq(Infos) /\ operators \in Seq(Operators) /\ components \in Seq(Components)
    /\ Reflects(group, operators) /\ Reflects(graph, components)
    /\ LastIs(group, operators) /\ Linear(operators)

LEMMA ReflectsEmpty == Reflects(EmptyGraph, <<>>)
<1> DEFINE e == EmptyGraph
<1>1. /\ e.srcTensors = NoEdges /\ e.dstTensors = NoEdges /\ e.srcOps = NoEdges
      /\ e.dstOps = NoEdges /\ e.lastOp = -1 /\ DOMAIN NoEdges = {}
  BY DEF EmptyGraph, NoEdges, NoOperator
<1>2. NoEdges \in Lists
  <2>1. NoEdges \in [{} -> Seq(Nat)] BY DEF NoEdges
  <2>2. {} \in SUBSET Nat OBVIOUS
  <2> QED BY <2>1, <2>2 DEF Lists
<1>3. WellFormed(e)
  <2>1. e \in [srcTensors : Lists, dstTensors : Lists, srcOps : Lists, dstOps : Lists, lastOp : Int]
    BY <1>2 DEF EmptyGraph, NoOperator
  <2> QED BY <1>1, <2>1 DEF WellFormed, AllOps, AllTensors
<1>4. AllOps(e) = {} /\ AllTensors(e) = {} BY <1>1 DEF AllOps, AllTensors
<1> HIDE DEF e
<1>5. Len(<<>>) = 0 /\ 1..0 = {} /\ 0..0-1 = {} OBVIOUS
<1>6. TensorsOf(<<>>) = {} BY <1>5 DEF TensorsOf
<1>7. \A t \in Nat : /\ MakersOf(e, t) = {} /\ ReadersOf(e, t) = {}
                     /\ MakersIn(<<>>, t) = {} /\ ReadersIn(<<>>, t) = {}
  BY <1>4, <1>5 DEF MakersOf, ReadersOf, MakersIn, ReadersIn
<1>8. Reflects(e, <<>>) BY <1>3, <1>4, <1>5, <1>6, <1>7 DEF Reflects
<1> QED BY <1>8 DEF e

(* create_op, whatever becomes of the operator.                            *)
LEMMA CreateOpKeepsSketch ==
    ASSUME SketchInv, NEW op \in Operators, NEW comps \in Seq(Components), NEW infos \in Seq(Infos),
           NEW means, CreateOp(op, comps, infos, means)
    PROVE  SketchInv'
<1> DEFINE parts == AddComponents(comps)
           new   == AddOperator(group, Len(operators), op.srcs, op.dsts, op.isOutput)
<1>1. parts \in Adding
  <2>1. graph \in Edges BY DEF SketchInv, Reflects, WellFormed, Edges
  <2> QED BY <2>1, ComponentsFacts DEF SketchInv
<1>2. op.srcs \in Seq(Nat) /\ op.dsts \in Seq(Nat) /\ op.isOutput \in BOOLEAN BY DEF Operators
<1>3. Wired(operators) BY TypedIsWired DEF SketchInv
<1>4. Outcome(new, group, operators, op, op.isOutput) BY <1>2, <1>3, AddOperatorFacts DEF SketchInv
<1>5. /\ info' = infos /\ graph' = parts.graph /\ components' = parts.components
      /\ \/ new.added /\ group' = new.graph /\ operators' = Append(operators, op)
         \/ ~new.added /\ group' = new.graph /\ operators' = operators
         \/ group' = group /\ operators' = operators
  BY DEF CreateOp, Answer
<1> HIDE DEF parts, new
<1>6. info' \in Seq(Infos) BY <1>5
<1>7. components' \in Seq(Components) /\ Reflects(graph', components') BY <1>1, <1>5 DEF Adding
<1>8. operators' \in Seq(Operators)
  <2>1. operators \in Seq(Operators) BY DEF SketchInv
  <2>2. Append(operators, op) \in Seq(Operators) BY <2>1, AppendedElements
  <2> QED BY <1>5, <2>1, <2>2
<1>9. Reflects(group', operators') BY <1>4, <1>5 DEF Outcome, SketchInv
<1>10. LastIs(group', operators') /\ Linear(operators')
  <2>1. /\ operators \in Seq(Operators) /\ Reflects(group, operators) /\ LastIs(group, operators)
        /\ Linear(operators) /\ group.lastOp \in Int
    BY DEF SketchInv, Reflects, WellFormed
  <2>2. CASE new.added /\ group' = new.graph /\ operators' = Append(operators, op)
    <3>1. /\ group'.lastOp = IF op.isOutput THEN group.lastOp ELSE Len(operators)
          /\ ToSet(op.dsts) \intersect ToSet(op.srcs) = {}
      BY <1>4, <2>2 DEF Outcome
    <3>2. TryAddOperatorAsLinear(group, op.srcs, op.dsts) BY DEF CreateOp, TryAddOperator
    <3>3. LastIs(group', Append(operators, op)) BY <2>1, <3>1, LastIsOneMore
    <3>4. Linear(Append(operators, op)) BY <2>1, <3>1, <3>2, LinearOneMore
    <3> QED BY <2>2, <3>3, <3>4
  <2>3. CASE operators' = operators /\ group'.lastOp = group.lastOp
    BY <2>1, <2>3 DEF LastIs
  <2>4. CASE ~new.added /\ group' = new.graph /\ operators' = operators
    BY <1>4, <2>3, <2>4 DEF Outcome
  <2> QED BY <1>5, <2>2, <2>3, <2>4
<1> QED BY <1>6, <1>7, <1>8, <1>9, <1>10 DEF SketchInv

LEMMA KnownIsInfo ==
    ASSUME SketchInv, NEW src \in Known
    PROVE  src \in Nat /\ src \in 1..Len(info) /\ info[src] \in Infos /\ Len(info) \in Nat
BY DEF Known, SketchInv

LEMMA ShortSequences ==
    ASSUME NEW S, NEW a \in S, NEW b \in S
    PROVE  <<a>> \in Seq(S) /\ <<a, b>> \in Seq(S)
OBVIOUS

LEMMA CreateFusableKeepsSketch ==
    ASSUME SketchInv, NEW type \in Kinds, NEW kernel \in KernelNames, NEW srcs \in Seq(Nat),
           NEW dstInfo \in Infos, CreateFusable(type, kernel, srcs, dstInfo)
    PROVE  SketchInv'
<1> DEFINE dst   == Len(info) + 1
           op    == Op(type, srcs, <<dst>>, FALSE)
           comps == <<Comp(type, kernel, srcs, <<dst>>)>>
           infos == Append(info, dstInfo)
<1>1. info \in Seq(Infos) BY DEF SketchInv
<1>2. dst \in Nat /\ infos \in Seq(Infos) BY <1>1
<1> HIDE DEF dst
<1>3. <<dst>> \in Seq(Nat) BY <1>2
<1>4. op \in Operators BY <1>3 DEF Op, Operators
<1>5. comps \in Seq(Components)
  <2>1. Comp(type, kernel, srcs, <<dst>>) \in Components BY <1>3 DEF Comp, Components
  <2> QED BY <2>1, ShortSequences
<1>6. \E means : CreateOp(op, comps, infos, means) BY DEF CreateFusable, dst
<1> HIDE DEF op, comps, infos
<1> QED BY <1>2, <1>4, <1>5, <1>6, CreateOpKeepsSketch

LEMMA CreateComplexKeepsSketch ==
    ASSUME SketchInv, NEW src \in Known, NEW kernel \in {"conv", "depthwise"}, CreateComplex(kernel, src)
    PROVE  SketchInv'
<1>1. src \in Nat /\ info[src] \in Infos BY KnownIsInfo
<1>2. [info[src] EXCEPT !.shape = "full"] \in Infos BY <1>1 DEF Infos
<1>3. <<src>> \in Seq(Nat) BY <1>1
<1>4. "Complex" \in Kinds /\ kernel \in KernelNames BY DEF Kinds, KernelNames
<1>5. CreateFusable("Complex", kernel, <<src>>, [info[src] EXCEPT !.shape = "full"]) BY DEF CreateComplex
<1> QED BY <1>2, <1>3, <1>4, <1>5, CreateFusableKeepsSketch

LEMMA CreateActivationKeepsSketch ==
    ASSUME SketchInv, NEW src \in Known, CreateActivation(src)
    PROVE  SketchInv'
<1>1. src \in Nat /\ info[src] \in Infos BY KnownIsInfo
<1>2. <<src>> \in Seq(Nat) BY <1>1
<1>3. "Simple" \in Kinds /\ "activation" \in KernelNames BY DEF Kinds, KernelNames
<1>4. CreateFusable("Simple", "activation", <<src>>, info[src]) BY DEF CreateActivation
<1> QED BY <1>1, <1>2, <1>3, <1>4, CreateFusableKeepsSketch

LEMMA CreateCastKeepsSketch ==
    ASSUME SketchInv, NEW src \in Known, CreateCast(src)
    PROVE  SketchInv'
<1> DEFINE to == [info[src] EXCEPT !.type = IF @ = "F32" THEN "F16" ELSE "F32"]
<1>1. src \in Nat /\ info[src] \in Infos BY KnownIsInfo
<1>2. to \in Infos BY <1>1 DEF Infos
<1>3. <<src>> \in Seq(Nat) BY <1>1
<1>4. "Simple" \in Kinds /\ "cast" \in KernelNames BY DEF Kinds, KernelNames
<1>5. CreateFusable("Simple", "cast", <<src>>, to) BY DEF CreateCast
<1> HIDE DEF to
<1> QED BY <1>2, <1>3, <1>4, <1>5, CreateFusableKeepsSketch

LEMMA CreateElementwiseBinaryKeepsSketch ==
    ASSUME SketchInv, NEW lhs \in Known, NEW rhs \in Known, CreateElementwiseBinary(lhs, rhs)
    PROVE  SketchInv'
<1> DEFINE to == IF info[lhs].shape = "full" THEN info[lhs] ELSE info[rhs]
<1>1. lhs \in Nat /\ rhs \in Nat /\ info[lhs] \in Infos /\ info[rhs] \in Infos BY KnownIsInfo
<1>2. to \in Infos BY <1>1
<1>3. <<lhs, rhs>> \in Seq(Nat) BY <1>1
<1>4. "Simple" \in Kinds /\ "elementwise_binary" \in KernelNames BY DEF Kinds, KernelNames
<1>5. CreateFusable("Simple", "elementwise_binary", <<lhs, rhs>>, to) BY DEF CreateElementwiseBinary
<1> HIDE DEF to
<1> QED BY <1>2, <1>3, <1>4, <1>5, CreateFusableKeepsSketch

LEMMA StoreIsTyped ==
    ASSUME NEW src \in Nat, NEW dst \in Nat
    PROVE  /\ Op("Simple", <<src>>, <<dst>>, TRUE) \in Operators
           /\ <<Comp("Output", "store", <<src>>, <<dst>>)>> \in Seq(Components)
<1>1. <<src>> \in Seq(Nat) /\ <<dst>> \in Seq(Nat) OBVIOUS
<1>2. Op("Simple", <<src>>, <<dst>>, TRUE) \in Operators BY <1>1 DEF Op, Operators, Kinds
<1>3. Comp("Output", "store", <<src>>, <<dst>>) \in Components BY <1>1 DEF Comp, Components, Kinds, KernelNames
<1>4. <<Comp("Output", "store", <<src>>, <<dst>>)>> \in Seq(Components) BY <1>3, ShortSequences
<1> QED BY <1>2, <1>4

LEMMA CreateOutputKeepsSketch ==
    ASSUME SketchInv, NEW src \in Known, CreateOutput(src)
    PROVE  SketchInv'
<1>1. src \in Nat /\ info[src] \in Infos /\ Len(info) + 1 \in Nat BY KnownIsInfo
<1>2. info \in Seq(Infos) /\ Append(info, info[src]) \in Seq(Infos)
  <2>1. info \in Seq(Infos) BY DEF SketchInv
  <2> QED BY <1>1, <2>1
<1>3. CASE \E means : CreateOp(Op("Simple", <<src>>, <<Len(info) + 1>>, TRUE),
                               <<Comp("Output", "store", <<src>>, <<Len(info) + 1>>)>>,
                               Append(info, info[src]), means)
  <2> DEFINE dst == Len(info) + 1
  <2>1. /\ Op("Simple", <<src>>, <<dst>>, TRUE) \in Operators
        /\ <<Comp("Output", "store", <<src>>, <<dst>>)>> \in Seq(Components)
    BY <1>1, StoreIsTyped
  <2> QED BY <1>2, <1>3, <2>1, CreateOpKeepsSketch
<1>4. CASE \E dst \in Known : \E means : CreateOp(Op("Simple", <<src>>, <<dst>>, TRUE),
                               <<Comp("Output", "store", <<src>>, <<dst>>)>>, info, means)
  <2>1. PICK dst \in Known : \E means : CreateOp(Op("Simple", <<src>>, <<dst>>, TRUE),
                               <<Comp("Output", "store", <<src>>, <<dst>>)>>, info, means)
    BY <1>4
  <2>2. dst \in Nat BY KnownIsInfo
  <2>3. /\ Op("Simple", <<src>>, <<dst>>, TRUE) \in Operators
        /\ <<Comp("Output", "store", <<src>>, <<dst>>)>> \in Seq(Components)
    BY <1>1, <2>2, StoreIsTyped
  <2> QED BY <1>2, <2>1, <2>3, CreateOpKeepsSketch
<1> QED BY <1>3, <1>4 DEF CreateOutput

LEMMA CreateSoftmaxKeepsSketch ==
    ASSUME SketchInv, NEW src \in Known, CreateSoftmax(src)
    PROVE  SketchInv'
<1>1. /\ src \in Nat /\ info[src] \in Infos /\ Len(info) + 1 \in Nat /\ Len(info) + 2 \in Nat
      /\ Len(info) + 3 \in Nat
  BY KnownIsInfo
<1>2. info \in Seq(Infos) BY DEF SketchInv
<1> DEFINE sum    == Len(info) + 1
           logits == Len(info) + 2
           aux    == <<[info[src] EXCEPT !.shape = "row"], info[src]>>
           Of(dst)    == Op("Unfusable", <<src>>, <<dst>>, FALSE)
           Parts(dst) == <<Comp("Unfusable", "exp_sum", <<src>>, <<sum, logits>>),
                           Comp("Unfusable", "norm", <<logits, sum>>, <<dst>>)>>
           more(dst)  == IF dst \in DOMAIN info THEN <<>> ELSE <<info[src]>>
<1>3. PICK dst \in {Len(info) + 3} \union (Known \ virtual) : \E means :
          CreateOp(Of(dst), Parts(dst), info \o aux \o more(dst), means)
  BY Zenon DEF CreateSoftmax
<1>4. dst \in Nat BY <1>1, KnownIsInfo
<1>5. info \o aux \o more(dst) \in Seq(Infos)
  <2>1. [info[src] EXCEPT !.shape = "row"] \in Infos BY <1>1 DEF Infos
  <2>2. aux \in Seq(Infos) BY <1>1, <2>1
  <2>3. more(dst) \in Seq(Infos) BY <1>1
  <2> HIDE DEF aux, more
  <2> QED BY <1>2, <2>2, <2>3
<1>6. Of(dst) \in Operators
  <2>1. <<src>> \in Seq(Nat) /\ <<dst>> \in Seq(Nat) BY <1>1, <1>4
  <2> QED BY <2>1 DEF Op, Operators, Kinds
<1>7. Parts(dst) \in Seq(Components)
  <2>1. sum \in Nat /\ logits \in Nat BY <1>1
  <2> HIDE DEF sum, logits
  <2>2. /\ <<src>> \in Seq(Nat) /\ <<dst>> \in Seq(Nat) /\ <<sum, logits>> \in Seq(Nat)
        /\ <<logits, sum>> \in Seq(Nat)
    BY <1>1, <1>4, <2>1
  <2>3. Comp("Unfusable", "exp_sum", <<src>>, <<sum, logits>>) \in Components
    BY <2>2 DEF Comp, Components, Kinds, KernelNames
  <2>4. Comp("Unfusable", "norm", <<logits, sum>>, <<dst>>) \in Components
    BY <2>2 DEF Comp, Components, Kinds, KernelNames
  <2> QED BY <2>3, <2>4, ShortSequences
<1> HIDE DEF Of, Parts, aux, more
<1> QED BY <1>3, <1>5, <1>6, <1>7, CreateOpKeepsSketch

LEMMA SketchInitially == Init => SketchInv
<1> SUFFICES ASSUME Init PROVE SketchInv OBVIOUS
<1>1. PICK n \in 1..MaxInputs : info \in [1..n -> InputInfos] BY DEF Init
<1>2. n \in Nat /\ InputInfos \subseteq Infos BY SketchAssumption DEF Infos
<1>3. info \in Seq(Infos)
  <2>1. info \in [1..n -> Infos] BY <1>1, <1>2
  <2> QED BY <1>2, <2>1
<1>4. operators = <<>> /\ components = <<>> /\ group = EmptyGraph /\ graph = EmptyGraph BY DEF Init
<1>5. operators = <<>> /\ group.lastOp = NoOperator /\ Len(operators) = 0
  BY <1>4 DEF EmptyGraph
<1>6. LastIs(group, operators) /\ Linear(operators) BY <1>5 DEF LastIs, Linear
<1> QED BY <1>3, <1>4, <1>6, ReflectsEmpty DEF SketchInv

LEMMA SketchStep == SketchInv /\ [Next]_vars => SketchInv'
<1> SUFFICES ASSUME SketchInv, [Next]_vars PROVE SketchInv' OBVIOUS
<1>1. CASE \E src \in Known : \E kernel \in {"conv", "depthwise"} : CreateComplex(kernel, src)
  BY <1>1, CreateComplexKeepsSketch
<1>2. CASE \E src \in Known : CreateActivation(src) BY <1>2, CreateActivationKeepsSketch
<1>3. CASE \E src \in Known : CreateCast(src) BY <1>3, CreateCastKeepsSketch
<1>4. CASE \E src \in Known : CreateOutput(src) BY <1>4, CreateOutputKeepsSketch
<1>5. CASE \E src \in Known : CreateSoftmax(src) BY <1>5, CreateSoftmaxKeepsSketch
<1>6. CASE \E src, rhs \in Known : CreateElementwiseBinary(src, rhs)
  BY <1>6, CreateElementwiseBinaryKeepsSketch
<1>7. CASE UNCHANGED sketchVars BY <1>7 DEF sketchVars, SketchInv
<1>8. CASE Configure \/ ConfigureFails \/ EnqueueOp \/ RunAgain \/ UNCHANGED vars
  <2>1. UNCHANGED sketchVars
    BY <1>8, Zenon DEF Configure, ConfigureFails, GenerateSourceCode, EnqueueOp, RunAgain, vars
  <2> QED BY <1>7, <2>1
<1> QED BY <1>1, <1>2, <1>3, <1>4, <1>5, <1>6, <1>8 DEF Next

LEMMA SketchAlways == Spec => []SketchInv
BY SketchInitially, SketchStep, PTL DEF Spec

LEMMA ReflectsKnows ==
    ASSUME NEW S, NEW added \in Seq(S), Wired(added), NEW g, Reflects(g, added)
    PROVE  Knows(g, added)
<1>1. DOMAIN added = 1..Len(added) /\ Len(added) \in Nat OBVIOUS
<1>2. AllOps(g) = {i - 1 : i \in DOMAIN added}
  <2>1. AllOps(g) = 0..Len(added)-1 BY DEF Reflects
  <2>2. \A o \in 0..Len(added)-1 : o + 1 \in DOMAIN added /\ o = (o + 1) - 1 BY <1>1
  <2>3. \A i \in DOMAIN added : i - 1 \in 0..Len(added)-1 BY <1>1
  <2> QED BY <2>1, <2>2, <2>3
<1>3. AllTensors(g) = TensorsOf(added) /\ DOMAIN g.dstOps = AllTensors(g) BY DEF Reflects, WellFormed
<1>4. TensorsOf(added) \subseteq Nat BY TensorsAreNumbers
<1>5. ASSUME NEW t \in AllTensors(g)
      PROVE  /\ ToSet(g.srcOps[t]) = {op \in AllOps(g) : t \in ToSet(added[op + 1].dsts)}
             /\ ToSet(g.dstOps[t]) = {op \in AllOps(g) : t \in ToSet(added[op + 1].srcs)}
  <2>1. t \in Nat BY <1>3, <1>4
  <2>2. MakersOf(g, t) = MakersIn(added, t) /\ ReadersOf(g, t) = ReadersIn(added, t) BY <2>1 DEF Reflects
  <2>3. AllOps(g) = 0..Len(added)-1 BY DEF Reflects
  <2> QED BY <2>2, <2>3 DEF MakersOf, ReadersOf, MakersIn, ReadersIn
<1> QED BY <1>1, <1>2, <1>3, <1>5 DEF Knows, TensorsOf

(* An operator or a component that is refused leaves no trace in the graph *)
(* (DependencyGraph::add_operator takes it out again, its tensors too).    *)
THEOREM RefusedLeaveNoTrace == Spec => []RefusedLeavesNoTrace
<1>1. SketchInv => RefusedLeavesNoTrace
  <2> SUFFICES ASSUME SketchInv PROVE RefusedLeavesNoTrace OBVIOUS
  <2>1. operators \in Seq(Operators) /\ Wired(operators) BY TypedIsWired DEF SketchInv
  <2>2. components \in Seq(Components) /\ Wired(components) BY TypedIsWired DEF SketchInv
  <2> QED BY <2>1, <2>2, ReflectsKnows DEF SketchInv, RefusedLeavesNoTrace
<1> QED BY <1>1, SketchAlways, PTL

(* GpuOperatorGroup accepts a linear sequence of operators: apart from     *)
(* outputs each reads, once, what the one before it made.                  *)
THEOREM OperatorsStayLinear == Spec => []OperatorsAreLinear
<1>1. SketchInv => OperatorsAreLinear
  <2> SUFFICES ASSUME SketchInv, ~StartsWithOutput, NEW i \in 2..Len(operators)
               PROVE  LET before == {j \in 1..i-1 : ~operators[j].isOutput}
                          last   == CHOOSE j \in before : \A k \in before : k <= j
                      IN  /\ Cardinality(MadeInputs(operators, i)) = 1
                          /\ \A k \in MadeInputs(operators, i) :
                                operators[i].srcs[k] \in ToSet(operators[last].dsts)
    BY DEF OperatorsAreLinear, MadeInputs
  <2> DEFINE before == {j \in 1..i-1 : ~operators[j].isOutput}
             last   == CHOOSE j \in before : \A k \in before : k <= j
  <2>1. operators \in Seq(Operators) /\ Linear(operators) BY DEF SketchInv
  <2>2. operators # <<>> /\ Len(operators) \in Nat BY <2>1
  <2>3. ~operators[1].isOutput BY <2>2 DEF StartsWithOutput
  <2>4. LinearAt(operators, i) BY <2>1, <2>2, <2>3 DEF Linear
  <2>5. PICK l \in 1..i-1 :
              /\ ~operators[l].isOutput /\ \A j \in l+1..i-1 : operators[j].isOutput
              /\ Cardinality(MadeInputs(operators, i)) = 1
              /\ \A k \in MadeInputs(operators, i) : operators[i].srcs[k] \in ToSet(operators[l].dsts)
    BY <2>4 DEF LinearAt
  <2>6. i \in Nat BY <2>2
  <2>7. l \in before /\ \A k \in before : k <= l
    <3>1. ASSUME NEW k \in before PROVE k <= l
      <4>1. k \in 1..i-1 /\ ~operators[k].isOutput OBVIOUS
      <4>2. k \notin l+1..i-1 BY <2>5, <4>1
      <4> QED BY <2>6, <4>1, <4>2
    <3> QED BY <2>5, <3>1
  <2>8. last = l
    <3>1. last \in before /\ \A k \in before : k <= last BY <2>7, Zenon
    <3>2. before \subseteq Int BY <2>6
    <3> HIDE DEF before, last
    <3> QED BY <2>7, <3>1, <3>2
  <2> QED BY <2>5, <2>8
<1> QED BY <1>1, SketchAlways, PTL
-----------------------------------------------------------------------------
(* The order in which the operators of a graph are built                   *)

(* What is visited after each of the calls.                                *)
Calling(calls, ops, visited, steps) ==
    /\ steps[0] = visited /\ \A k \in 1..Len(ops) : steps[k] = calls[<<ops[k], steps[k - 1]>>]
    /\ CallEach(calls, ops, visited) = steps[Len(ops)]

(* Calls one after the other, if all of them stay in V.                    *)
LEMMA CallsSteps ==
    ASSUME NEW V, NEW calls, NEW S, NEW ops \in Seq(S), NEW visited \in V,
           \A o \in S, v \in V : calls[<<o, v>>] \in V
    PROVE  \E steps \in [0..Len(ops) -> V] : Calling(calls, ops, visited, steps)
<1> DEFINE n == Len(ops)
           Step == [x \in (V) \X (1..n) |-> calls[<<ops[x[2]], x[1]>>]]
<1>1. n \in Nat /\ DOMAIN ops = 1..n OBVIOUS
<1>2. /\ visited \in V
      /\ \A x \in V, k \in 1..n : calls[<<ops[k], x>>] \in V
  BY <1>1
<1>3. Step \in [(V) \X (1..n) -> V] /\ \A x \in V, k \in 1..n : Step[<<x, k>>] = calls[<<ops[k], x>>]
  BY <1>2
<1> HIDE DEF n, Step
<1> DEFINE Eq(it) == it = [z \in SUBSET DOMAIN ops |->
                             IF z = {} THEN visited ELSE calls[<<ops[Max(z)], it[z \ {Max(z)}]>>]]
           tab == CHOOSE it : Eq(it)
<1>4. CallEach(calls, ops, visited) = tab[DOMAIN ops]
  BY Zenon DEF FoldLeft, MapThenFoldSet, CallEach
<1>5. PICK it \in [SUBSET (1..n) -> V] : FoldsBy(it, 1..n, visited, Step)
  <2>1. HasFold(n, V, visited, Step) BY <1>1, <1>2, <1>3, FoldOfSet
  <2> QED BY <2>1 DEF HasFold
<1>6. Eq(it)
  <2>1. ASSUME NEW z \in SUBSET (1..n)
        PROVE  it[z] = IF z = {} THEN visited ELSE calls[<<ops[Max(z)], it[z \ {Max(z)}]>>]
    <3>1. CASE z = {} BY <1>5, <3>1 DEF FoldsBy
    <3>2. CASE z # {}
      <4>1. Max(z) \in 1..n BY <1>1, <3>2, MaxOfSome
      <4>2. it[z \ {Max(z)}] \in V
        <5>1. z \ {Max(z)} \in SUBSET (1..n) OBVIOUS
        <5> QED BY <1>5, <5>1
      <4>3. it[z] = Step[<<it[z \ {Max(z)}], Max(z)>>] BY <1>5, <3>2 DEF FoldsBy
      <4> QED BY <1>3, <3>2, <4>1, <4>2, <4>3
    <3> QED BY <3>1, <3>2
  <2> QED BY <1>1, <1>5, <2>1
<1>7. Eq(tab)
  <2> HIDE DEF Eq
  <2> QED BY <1>6
<1> HIDE DEF tab
<1>8. ASSUME NEW z \in SUBSET (1..n), z # {}, tab[z \ {Max(z)}] \in V
      PROVE  tab[z] = Step[<<tab[z \ {Max(z)}], Max(z)>>]
  <2>1. Max(z) \in 1..n BY <1>1, <1>8, MaxOfSome
  <2>2. tab[z] = calls[<<ops[Max(z)], tab[z \ {Max(z)}]>>] BY <1>1, <1>7, <1>8
  <2> QED BY <1>3, <1>8, <2>1, <2>2
<1>9. tab[{}] = visited BY <1>1, <1>7
<1>10. Folded(tab[1..n], n, V, visited, Step) BY <1>1, <1>2, <1>3, <1>8, <1>9, FoldTable
<1>11. PICK steps \in [0..n -> V] : Stepwise(steps, n, visited, Step) /\ tab[1..n] = steps[n]
  BY <1>10 DEF Folded
<1>12. ASSUME NEW k \in 1..n PROVE steps[k] = calls[<<ops[k], steps[k - 1]>>]
  <2>1. k - 1 \in 0..n BY <1>1
  <2>2. steps[k - 1] \in V BY <1>11, <2>1
  <2> QED BY <1>3, <1>11, <2>2 DEF Stepwise
<1>13. steps[0] = visited BY <1>11 DEF Stepwise
<1>14. CallEach(calls, ops, visited) = steps[n] BY <1>1, <1>4, <1>11
<1> HIDE <1>2, <1>7, <1>8
<1>15. Calling(calls, ops, visited, steps) BY <1>12, <1>13, <1>14 DEF Calling, n
<1> QED BY <1>11, <1>15 DEF n

Reads(g, o) == ToSet(g.srcTensors[o])
Makes(g, o) == ToSet(g.dstTensors[o])
Roots(g)    == {t \in AllTensors(g) : ~HasSource(g, t)}

(* Each of the n operators reads something, and only what was there or     *)
(* what operators with a smaller id make.                                  *)
Layered(g, n) ==
    /\ n \in Nat /\ AllOps(g) = 0..n-1
    /\ \A o \in AllOps(g) :
          /\ g.dstTensors[o] \in Seq(AllTensors(g))
          /\ Reads(g, o) \subseteq AllTensors(g) /\ Reads(g, o) # {}
          /\ \A t \in Reads(g, o) : t \in Roots(g) \/ \E m \in 0..o-1 : t \in Makes(g, m)
    /\ \A t \in AllTensors(g) : /\ g.dstOps[t] \in Seq(AllOps(g))
                                /\ ToSet(g.dstOps[t]) = {o \in AllOps(g) : t \in Reads(g, o)}

(* A tensor that is there before the i-th operator of a sequence.          *)
MadeBefore(g, sequence, i, t) ==
    t \in Roots(g) \/ \E k \in 1..i-1 : t \in Makes(g, sequence[k])

(* What a traversal has visited: operators once, and after what they read. *)
Traversed(g) ==
    {v \in Visits(g) :
        /\ \A i, j \in 1..Len(v.sequence) : v.sequence[i] = v.sequence[j] => i = j
        /\ \A i \in 1..Len(v.sequence) :
              /\ Makes(g, v.sequence[i]) \subseteq v.tensors
              /\ \A t \in Reads(g, v.sequence[i]) : MadeBefore(g, v.sequence, i, t)
        /\ \A t \in v.tensors : MadeBefore(g, v.sequence, Len(v.sequence) + 1, t)}

(* The operators that were not visited though nothing is missing.          *)
Waiting(g, v) == {o \in AllOps(g) : Ready(g, o, v)}

(* After the calls for ops, none of them waits, nor any that did not wait  *)
(* before.                                                                 *)
Further(g, v, w, ops) ==
    /\ w \in Traversed(g)
    /\ Len(v.sequence) <= Len(w.sequence) /\ v.tensors \subseteq w.tensors
    /\ Waiting(g, w) \subseteq Waiting(g, v) \ ops

(* The elements of the lists are those of the flat one.                    *)
LEMMA FlattenHas ==
    ASSUME NEW V, NEW R \in Seq(Seq(V))
    PROVE  /\ FlattenSeq(R) \in Seq(V)
           /\ \A k \in 1..Len(R) : ToSet(R[k]) \subseteq ToSet(FlattenSeq(R))
<1> DEFINE n == Len(R)
<1>1. n \in Nat /\ \A k \in 1..n : R[k] \in Seq(V) OBVIOUS
<1>2. PICK F \in [0..n -> Seq(V)] : Joining(F, R, n) /\ FlattenSeq(R) = F[n] BY FlattenIsJoining
<1> HIDE DEF n
<1> DEFINE Has == {m \in Nat : m <= n => \A k \in 1..m : ToSet(R[k]) \subseteq ToSet(F[m])}
<1>3. 0 \in Has OBVIOUS
<1>4. ASSUME NEW m \in Nat, m \in Has PROVE m + 1 \in Has
  <2> SUFFICES ASSUME m + 1 <= n PROVE \A k \in 1..m+1 : ToSet(R[k]) \subseteq ToSet(F[m + 1]) OBVIOUS
  <2>1. m + 1 \in 1..n /\ (m + 1) - 1 = m /\ m \in 0..n /\ m <= n BY <1>1
  <2>2. F[m + 1] = F[m] \o R[m + 1] BY <1>2, <2>1 DEF Joining
  <2>3. F[m] \in Seq(V) /\ R[m + 1] \in Seq(V) BY <1>1, <1>2, <2>1
  <2>4. ToSet(F[m] \o R[m + 1]) = ToSet(F[m]) \union ToSet(R[m + 1])
    <3> DEFINE a == F[m]
               b == R[m + 1]
    <3>1. a \in Seq(V) /\ b \in Seq(V) BY <2>3
    <3> HIDE DEF a, b
    <3>2. ToSet(a \o b) = ToSet(a) \union ToSet(b)
      <4>1. /\ DOMAIN (a \o b) = 1..Len(a)+Len(b) /\ Len(a) \in Nat /\ Len(b) \in Nat
            /\ DOMAIN a = 1..Len(a) /\ DOMAIN b = 1..Len(b)
        BY <3>1
      <4>2. \A i \in 1..Len(a) : (a \o b)[i] = a[i] BY <3>1
      <4>3. \A i \in 1..Len(b) : (a \o b)[Len(a) + i] = b[i] /\ Len(a) + i \in 1..Len(a)+Len(b)
        BY <3>1, <4>1
      <4>4. ASSUME NEW i \in 1..Len(a)+Len(b), i \notin 1..Len(a)
            PROVE  i - Len(a) \in 1..Len(b) /\ Len(a) + (i - Len(a)) = i
        <5> DEFINE p == Len(a)
                   q == Len(b)
        <5>1. p \in Nat /\ q \in Nat /\ i \in 1..p+q /\ i \notin 1..p BY <4>1, <4>4
        <5> HIDE DEF p, q
        <5>2. i - p \in 1..q /\ p + (i - p) = i BY <5>1
        <5> QED BY <5>2 DEF p, q
      <4>5. \A i \in 1..Len(a) : i \in 1..Len(a)+Len(b) BY <4>1
      <4>6. ToSet(a) \union ToSet(b) \subseteq ToSet(a \o b) BY <4>1, <4>2, <4>3, <4>5 DEF ToSet
      <4>7. ASSUME NEW x \in ToSet(a \o b) PROVE x \in ToSet(a) \union ToSet(b)
        <5>1. PICK i \in 1..Len(a)+Len(b) : x = (a \o b)[i] BY <4>1 DEF ToSet
        <5>2. CASE i \in 1..Len(a) BY <4>1, <4>2, <5>1, <5>2 DEF ToSet
        <5>3. CASE i \notin 1..Len(a)
          <6>1. x = b[i - Len(a)] BY <4>3, <4>4, <5>1, <5>3
          <6> QED BY <4>1, <4>4, <5>3, <6>1 DEF ToSet
        <5> QED BY <5>2, <5>3
      <4> QED BY <4>6, <4>7
    <3> QED BY <3>2 DEF a, b
  <2>5. \A k \in 1..m+1 : k = m + 1 \/ k \in 1..m OBVIOUS
  <2>6. \A k \in 1..m : ToSet(R[k]) \subseteq ToSet(F[m]) BY <1>4, <2>1
  <2> QED BY <2>2, <2>4, <2>5, <2>6
<1> HIDE DEF Has
<1>5. n \in Has BY <1>1, <1>3, <1>4, SetInduction
<1>6. n \in 0..n BY <1>1
<1> QED BY <1>1, <1>2, <1>5, <1>6 DEF Has, n

LEMMA SinksAre ==
    ASSUME NEW g, NEW n, Layered(g, n), NEW op \in AllOps(g)
    PROVE  /\ Sinks(g, op) \in Seq(AllOps(g))
           /\ \A o \in AllOps(g) : Reads(g, o) \intersect Makes(g, op) # {} => o \in ToSet(Sinks(g, op))
<1> DEFINE made == g.dstTensors[op]
           R == [i \in DOMAIN made |-> g.dstOps[made[i]]]
<1>1. made \in Seq(AllTensors(g)) /\ DOMAIN made = 1..Len(made) /\ Len(made) \in Nat
  BY DEF Layered
<1>2. \A i \in DOMAIN made : made[i] \in AllTensors(g) BY <1>1
<1> HIDE DEF made
<1>3. R \in Seq(Seq(AllOps(g))) /\ Len(R) = Len(made)
  <2>1. \A i \in 1..Len(made) : g.dstOps[made[i]] \in Seq(AllOps(g)) BY <1>1, <1>2 DEF Layered
  <2> QED BY <1>1, <2>1
<1>4. Sinks(g, op) = FlattenSeq(R) BY DEF Sinks, made
<1>5. ASSUME NEW o \in AllOps(g), NEW t \in Reads(g, o), t \in Makes(g, op)
      PROVE  o \in ToSet(FlattenSeq(R))
  <2>1. PICK i \in DOMAIN made : t = made[i] BY <1>5 DEF Makes, ToSet, made
  <2>2. o \in ToSet(g.dstOps[t]) BY <1>2, <2>1 DEF Layered
  <2>3. R[i] = g.dstOps[t] /\ i \in 1..Len(R) BY <1>1, <1>3, <2>1
  <2> HIDE DEF R
  <2>4. ToSet(R[i]) \subseteq ToSet(FlattenSeq(R)) BY <1>3, <2>3, FlattenHas
  <2> QED BY <2>2, <2>3, <2>4
<1>6. FlattenSeq(R) \in Seq(AllOps(g))
  <2> HIDE DEF R
  <2> QED BY <1>3, FlattenHas
<1> HIDE DEF R
<1> QED BY <1>4, <1>5, <1>6

LEMMA MadeStays ==
    ASSUME NEW g, NEW s, NEW r, NEW i \in Nat, NEW j \in Nat, i <= j,
           \A k \in 1..i-1 : r[k] = s[k], NEW t, MadeBefore(g, s, i, t)
    PROVE  MadeBefore(g, r, j, t)
<1>1. CASE t \in Roots(g) BY <1>1 DEF MadeBefore
<1>2. CASE t \notin Roots(g)
  <2>1. PICK k \in 1..i-1 : t \in Makes(g, s[k]) BY <1>2 DEF MadeBefore
  <2>2. k \in 1..j-1 OBVIOUS
  <2> QED BY <2>1, <2>2 DEF MadeBefore
<1> QED BY <1>1, <1>2

LEMMA ReadyMeans ==
    ASSUME NEW g, NEW o, NEW v
    PROVE  Ready(g, o, v) <=> o \notin ToSet(v.sequence) /\ Reads(g, o) \subseteq v.tensors
BY DEF Ready, Reads

(* A visit puts an operator that is ready behind the others; what waits    *)
(* then and did not before reads what it makes.                            *)
LEMMA VisitIs ==
    ASSUME NEW g, NEW n, Layered(g, n), NEW v \in Traversed(g), NEW op \in AllOps(g), Ready(g, op, v)
    PROVE  /\ Visit(g, op, v) \in Traversed(g)
           /\ Len(Visit(g, op, v).sequence) = Len(v.sequence) + 1
           /\ v.tensors \subseteq Visit(g, op, v).tensors
           /\ Waiting(g, Visit(g, op, v))
                \subseteq (Waiting(g, v) \ {op}) \union ToSet(Sinks(g, op))
<1> DEFINE w == Visit(g, op, v)
           s == v.sequence
           r == w.sequence
           m == Len(s)
<1>1. v \in Visits(g) /\ s \in Seq(AllOps(g)) /\ v.tensors \in SUBSET AllTensors(g) BY DEF Traversed, Visits
<1>2. /\ r = Append(s, op) /\ w.tensors = v.tensors \union Makes(g, op)
      /\ w = [sequence |-> r, tensors |-> w.tensors]
  BY DEF Visit, Makes
<1>3. /\ m \in Nat /\ r \in Seq(AllOps(g)) /\ Len(r) = m + 1 /\ r[m + 1] = op
      /\ \A i \in 1..m : r[i] = s[i] /\ s[i] \in AllOps(g)
  BY <1>1, <1>2
<1>4. Makes(g, op) \subseteq AllTensors(g)
  <2>1. g.dstTensors[op] \in Seq(AllTensors(g)) BY DEF Layered
  <2> QED BY <2>1 DEF Makes, ToSet
<1>5. /\ \A i, j \in 1..m : s[i] = s[j] => i = j
      /\ \A i \in 1..m : /\ Makes(g, s[i]) \subseteq v.tensors
                         /\ \A t \in Reads(g, s[i]) : MadeBefore(g, s, i, t)
      /\ \A t \in v.tensors : MadeBefore(g, s, m + 1, t)
  BY DEF Traversed
<1>6. op \notin ToSet(s) /\ Reads(g, op) \subseteq v.tensors BY ReadyMeans
<1>7. ToSet(s) = {s[i] : i \in 1..m} /\ ToSet(r) = ToSet(s) \union {op}
  <2>1. DOMAIN s = 1..m /\ DOMAIN r = 1..m+1 /\ 1..m+1 = (1..m) \union {m + 1} BY <1>1, <1>3
  <2> HIDE DEF w, s, r, m
  <2> QED BY <1>3, <2>1 DEF ToSet
<1> HIDE DEF w, s, r, m
<1>8. \A k \in 1..m+1 : k \in 1..m \/ k = m + 1 BY <1>3
<1>9. ASSUME NEW i \in 1..m+1, NEW j \in 1..m+1, r[i] = r[j] PROVE i = j
  <2>1. \A k \in 1..m : s[k] # op BY <1>6, <1>7
  <2> QED BY <1>3, <1>5, <1>8, <1>9, <2>1
<1>10. ASSUME NEW i \in 1..m+1
       PROVE  /\ Makes(g, r[i]) \subseteq w.tensors
              /\ \A t \in Reads(g, r[i]) : MadeBefore(g, r, i, t)
  <2>1. CASE i \in 1..m
    <3>1. i \in Nat /\ i <= i /\ \A k \in 1..i-1 : r[k] = s[k] BY <1>3, <2>1
    <3>2. ASSUME NEW t \in Reads(g, r[i]) PROVE MadeBefore(g, r, i, t)
      <4>1. MadeBefore(g, s, i, t) BY <1>3, <1>5, <2>1, <3>2
      <4> QED BY <3>1, <4>1, MadeStays
    <3> QED BY <1>2, <1>3, <1>5, <2>1, <3>2
  <2>2. CASE i = m + 1
    <3>1. i \in Nat /\ i <= i /\ \A k \in 1..i-1 : r[k] = s[k] BY <1>3, <2>2
    <3>2. ASSUME NEW t \in Reads(g, r[i]) PROVE MadeBefore(g, r, i, t)
      <4>1. MadeBefore(g, s, i, t) BY <1>3, <1>5, <1>6, <2>2, <3>2
      <4> QED BY <3>1, <4>1, MadeStays
    <3> QED BY <1>2, <1>3, <2>2, <3>2
  <2> QED BY <1>8, <2>1, <2>2
<1>11. ASSUME NEW t \in w.tensors PROVE MadeBefore(g, r, Len(r) + 1, t)
  <2>1. CASE t \in v.tensors
    <3>1. m + 1 \in Nat /\ Len(r) + 1 \in Nat /\ m + 1 <= Len(r) + 1 /\ \A k \in 1..(m+1)-1 : r[k] = s[k]
      BY <1>3
    <3>2. MadeBefore(g, s, m + 1, t) BY <1>5, <2>1
    <3> QED BY <3>1, <3>2, MadeStays
  <2>2. CASE t \in Makes(g, op)
    <3>1. m + 1 \in 1..(Len(r)+1)-1 BY <1>3
    <3> QED BY <1>3, <2>2, <3>1 DEF MadeBefore
  <2> QED BY <1>2, <1>11, <2>1, <2>2
<1>12. w \in Visits(g)
  <2> DEFINE z == w.tensors
  <2>1. z \in SUBSET AllTensors(g) BY <1>1, <1>2, <1>4
  <2>2. w = [sequence |-> r, tensors |-> z] BY <1>2
  <2> HIDE DEF z
  <2>3. [sequence |-> r, tensors |-> z] \in Visits(g) BY <1>3, <2>1 DEF Visits
  <2> QED BY <2>2, <2>3
<1>13. w \in Traversed(g)
  <2>1. /\ \A i, j \in 1..Len(r) : r[i] = r[j] => i = j
        /\ \A i \in 1..Len(r) : /\ Makes(g, r[i]) \subseteq w.tensors
                                /\ \A t \in Reads(g, r[i]) : MadeBefore(g, r, i, t)
        /\ \A t \in w.tensors : MadeBefore(g, r, Len(r) + 1, t)
    BY <1>3, <1>9, <1>10, <1>11
  <2> QED BY <1>12, <2>1 DEF Traversed, r
<1>14. ASSUME NEW o \in Waiting(g, w), o \notin ToSet(Sinks(g, op)) PROVE o \in Waiting(g, v) \ {op}
  <2>1. o \in AllOps(g) /\ o \notin ToSet(r) /\ Reads(g, o) \subseteq w.tensors
    BY <1>14, ReadyMeans DEF Waiting, r
  <2>2. Reads(g, o) \intersect Makes(g, op) = {} BY <1>14, <2>1, SinksAre
  <2>3. Reads(g, o) \subseteq v.tensors BY <1>2, <2>1, <2>2
  <2>4. o # op /\ o \notin ToSet(s) BY <1>7, <2>1
  <2>5. Ready(g, o, v) BY <2>3, <2>4, ReadyMeans DEF s
  <2> QED BY <2>1, <2>4, <2>5 DEF Waiting
<1>15. v.tensors \subseteq w.tensors BY <1>2
<1> QED BY <1>3, <1>13, <1>14, <1>15 DEF w, r, s, m

(* What calls that get further do one after the other.                     *)
LEMMA CallsGoFurther ==
    ASSUME NEW g, NEW b \in Nat, NEW calls,
           \A o \in AllOps(g), v \in Traversed(g) : Len(v.sequence) >= b => Further(g, v, calls[<<o, v>>], {o}),
           NEW ops \in Seq(AllOps(g)), NEW v \in Traversed(g), Len(v.sequence) >= b
    PROVE  Further(g, v, CallEach(calls, ops, v), ToSet(ops))
<1> DEFINE Later == {x \in Traversed(g) : Len(x.sequence) >= b}
           n == Len(ops)
<1>1. \A x \in Traversed(g) : Len(x.sequence) \in Nat BY DEF Traversed, Visits
<1>2. \A o \in AllOps(g), x \in Later : Further(g, x, calls[<<o, x>>], {o}) OBVIOUS
<1>3. \A o \in AllOps(g), x \in Later : calls[<<o, x>>] \in Later
  <2> SUFFICES ASSUME NEW o \in AllOps(g), NEW x \in Later PROVE calls[<<o, x>>] \in Later OBVIOUS
  <2> DEFINE y == calls[<<o, x>>]
  <2>1. y \in Traversed(g) /\ Len(x.sequence) <= Len(y.sequence) BY <1>2 DEF Further
  <2>2. Len(x.sequence) \in Nat /\ Len(y.sequence) \in Nat /\ Len(x.sequence) >= b BY <1>1, <2>1
  <2> HIDE DEF y
  <2>3. Len(y.sequence) >= b BY <2>1, <2>2
  <2> QED BY <2>1, <2>3 DEF y
<1>4. v \in Later /\ n \in Nat /\ \A k \in 1..n : ops[k] \in AllOps(g) OBVIOUS
<1> HIDE DEF Later
<1>5. PICK steps \in [0..n -> Later] : Calling(calls, ops, v, steps)
  <2>1. \A o \in AllOps(g), x \in Later : calls[<<o, x>>] \in Later BY <1>3
  <2> QED BY <1>4, <2>1, CallsSteps
<1>6. ToSet(ops) = {ops[k] : k \in 1..n}
  <2>1. DOMAIN ops = 1..n OBVIOUS
  <2> QED BY <2>1 DEF ToSet
<1> DEFINE So == {k \in Nat : k <= n => Further(g, v, steps[k], {ops[i] : i \in 1..k})}
<1> HIDE DEF n
<1>7. 0 \in So
  <2>1. {ops[i] : i \in 1..0} = {} OBVIOUS
  <2>2. Further(g, v, v, {}) BY <1>1 DEF Further
  <2>3. steps[0] = v BY <1>5 DEF Calling
  <2> QED BY <2>1, <2>2, <2>3
<1>8. ASSUME NEW k \in Nat, k \in So PROVE k + 1 \in So
  <2> SUFFICES ASSUME k + 1 <= n PROVE Further(g, v, steps[k + 1], {ops[i] : i \in 1..k+1}) OBVIOUS
  <2>1. k + 1 \in 1..n /\ (k + 1) - 1 = k /\ k \in 0..n /\ k <= n BY <1>4
  <2>2. steps[k + 1] = calls[<<ops[k + 1], steps[k]>>] BY <1>5, <2>1 DEF Calling, n
  <2>3. steps[k] \in Later /\ ops[k + 1] \in AllOps(g) BY <1>4, <1>5, <2>1
  <2>4. Further(g, steps[k], steps[k + 1], {ops[k + 1]}) BY <1>2, <2>2, <2>3
  <2>5. Further(g, v, steps[k], {ops[i] : i \in 1..k}) BY <1>8, <2>1
  <2>6. {ops[i] : i \in 1..k+1} = {ops[i] : i \in 1..k} \union {ops[k + 1]}
    <3>1. 1..k+1 = (1..k) \union {k + 1} OBVIOUS
    <3> QED BY <3>1
  <2>7. /\ Len(v.sequence) \in Nat /\ Len(steps[k].sequence) \in Nat
        /\ Len(steps[k + 1].sequence) \in Nat
    <3>1. steps[k] \in Traversed(g) /\ steps[k + 1] \in Traversed(g) BY <2>4, <2>5 DEF Further
    <3> QED BY <1>1, <3>1
  <2>8. Len(v.sequence) <= Len(steps[k + 1].sequence) BY <2>4, <2>5, <2>7 DEF Further
  <2> QED BY <2>4, <2>5, <2>6, <2>8 DEF Further
<1> HIDE DEF So
<1>9. n \in So BY <1>4, <1>7, <1>8, SetInduction
<1> QED BY <1>4, <1>5, <1>6, <1>9 DEF So, Calling, n

(* One level of calls, given the level below.                              *)
Level(g, calls) ==
    [call \in AllOps(g) \X Visits(g) |->
        IF ~Ready(g, call[1], call[2]) THEN call[2]
        ELSE CallEach(calls, Sinks(g, call[1]), Visit(g, call[1], call[2]))]

LEMMA LevelIs ==
    ASSUME NEW g, NEW n, Layered(g, n), NEW calls \in [AllOps(g) \X Visits(g) -> Visits(g)]
    PROVE  Level(g, calls) \in [AllOps(g) \X Visits(g) -> Visits(g)]
<1> DEFINE V == Visits(g)
           O == AllOps(g)
<1>1. ASSUME NEW o \in O, NEW v \in V PROVE CallEach(calls, Sinks(g, o), Visit(g, o, v)) \in V
  <2>1. Visit(g, o, v) \in V
    <3>1. /\ v.sequence \in Seq(O) /\ v.tensors \in SUBSET AllTensors(g)
      BY DEF Visits
    <3>2. Append(v.sequence, o) \in Seq(O) BY <3>1
    <3>3. ToSet(g.dstTensors[o]) \subseteq AllTensors(g)
      <4>1. g.dstTensors[o] \in Seq(AllTensors(g)) BY DEF Layered
      <4> QED BY <4>1 DEF ToSet
    <3>4. v.tensors \union ToSet(g.dstTensors[o]) \in SUBSET AllTensors(g) BY <3>1, <3>3
    <3> QED BY <3>2, <3>4 DEF Visit, Visits
  <2>2. Sinks(g, o) \in Seq(O) BY SinksAre
  <2> DEFINE s == Sinks(g, o)
             x == Visit(g, o, v)
  <2>3. \A p \in O, y \in V : calls[<<p, y>>] \in V OBVIOUS
  <2>4. s \in Seq(O) /\ x \in V BY <2>1, <2>2
  <2> HIDE DEF s, x, V, O
  <2>5. PICK steps \in [0..Len(s) -> V] : Calling(calls, s, x, steps) BY <2>3, <2>4, CallsSteps
  <2>6. Len(s) \in 0..Len(s) BY <2>4
  <2>7. CallEach(calls, s, x) \in V BY <2>5, <2>6 DEF Calling
  <2> QED BY <2>7 DEF s, x
<1>2. ASSUME NEW call \in O \X V
      PROVE  (IF ~Ready(g, call[1], call[2]) THEN call[2]
              ELSE CallEach(calls, Sinks(g, call[1]), Visit(g, call[1], call[2]))) \in V
  <2>1. call[1] \in O /\ call[2] \in V OBVIOUS
  <2> HIDE DEF V, O
  <2> QED BY <1>1, <2>1
<1> QED BY <1>2 DEF Level

LEMMA HowMany ==
    ASSUME NEW g, NEW n, Layered(g, n)
    PROVE  n \in Nat /\ AllOps(g) = 0..n-1 /\ IsFiniteSet(AllOps(g)) /\ Cardinality(AllOps(g)) = n
<1>1. n \in Nat /\ AllOps(g) = 0..n-1 BY DEF Layered
<1>2. 0 \in Int /\ n - 1 \in Int BY <1>1
<1>3. IsFiniteSet(0..n-1) /\ Cardinality(0..n-1) = IF 0 > n - 1 THEN 0 ELSE (n - 1) - 0 + 1
  BY <1>2, FS_Interval
<1>4. (IF 0 > n - 1 THEN 0 ELSE (n - 1) - 0 + 1) = n BY <1>1
<1> QED BY <1>1, <1>3, <1>4

(* The calls are nested as deep as there are operators.                    *)
Nested(g, n, from) ==
    /\ from[0] = [call \in AllOps(g) \X Visits(g) |-> call[2]]
    /\ \A k \in 1..n : from[k] = Level(g, from[k - 1])
    /\ From(g) = from[n]

LEMMA FromRecurs ==
    ASSUME NEW g, NEW n, Layered(g, n)
    PROVE  \E from \in [0..n -> [AllOps(g) \X Visits(g) -> Visits(g)]] : Nested(g, n, from)
<1> DEFINE D == AllOps(g) \X Visits(g)
           F == [D -> Visits(g)]
           base == [call \in D |-> call[2]]
           Step == [x \in F \X (1..n) |-> Level(g, x[1])]
           N == Cardinality(AllOps(g))
           Eq(h) == h = [m \in 0..N |-> [call \in AllOps(g) \X Visits(g) |->
                            IF m = 0 \/ ~Ready(g, call[1], call[2]) THEN call[2]
                            ELSE CallEach(h[m-1], Sinks(g, call[1]), Visit(g, call[1], call[2]))]]
<1>1. n \in Nat /\ N = n BY HowMany
<1>2. base \in F OBVIOUS
<1>3. \A f \in F : Level(g, f) \in F BY LevelIs
<1> HIDE DEF F
<1>4. Step \in [F \X (1..n) -> F] /\ \A f \in F, k \in 1..n : Step[<<f, k>>] = Level(g, f) BY <1>3
<1> HIDE DEF Step, base
<1>5. PICK from \in [0..n -> F] : Stepwise(from, n, base, Step) BY <1>1, <1>2, <1>4, StepByStep
<1>6. ASSUME NEW k \in 1..n PROVE from[k] = Level(g, from[k - 1])
  <2>1. k - 1 \in 0..n BY <1>1
  <2>2. from[k - 1] \in F BY <1>5, <2>1
  <2> QED BY <1>4, <1>5, <2>2 DEF Stepwise
<1>7. from[0] = [call \in AllOps(g) \X Visits(g) |-> call[2]] BY <1>5 DEF Stepwise, base
<1>8. Eq(from)
  <2>1. DOMAIN from = 0..n /\ from = [m \in 0..n |-> from[m]] BY <1>5
  <2>2. ASSUME NEW m \in 0..n
        PROVE  from[m] = [call \in AllOps(g) \X Visits(g) |->
                            IF m = 0 \/ ~Ready(g, call[1], call[2]) THEN call[2]
                            ELSE CallEach(from[m-1], Sinks(g, call[1]), Visit(g, call[1], call[2]))]
    <3>1. CASE m = 0 BY <1>7, <3>1
    <3>2. CASE m # 0
      <4>1. m \in 1..n BY <1>1, <3>2
      <4>2. from[m] = Level(g, from[m - 1]) BY <1>6, <4>1
      <4> QED BY <3>2, <4>2 DEF Level
    <3> QED BY <3>1, <3>2
  <2> QED BY <1>1, <2>1, <2>2
<1>9. From(g) = (CHOOSE h : Eq(h))[N] BY Zenon DEF From
<1>10. Eq(CHOOSE h : Eq(h))
  <2> HIDE DEF Eq
  <2> QED BY <1>8
<1> DEFINE h == CHOOSE h : Eq(h)
<1>11. From(g) = h[N] /\ Eq(h) BY <1>9, <1>10
<1> HIDE DEF h
<1> DEFINE S == {m \in Nat : m <= n => h[m] = from[m]}
<1>12. ASSUME NEW m \in 0..n
       PROVE  h[m] = [call \in AllOps(g) \X Visits(g) |->
                            IF m = 0 \/ ~Ready(g, call[1], call[2]) THEN call[2]
                            ELSE CallEach(h[m-1], Sinks(g, call[1]), Visit(g, call[1], call[2]))]
  <2> DEFINE B(k) == [call \in AllOps(g) \X Visits(g) |->
                            IF k = 0 \/ ~Ready(g, call[1], call[2]) THEN call[2]
                            ELSE CallEach(h[k-1], Sinks(g, call[1]), Visit(g, call[1], call[2]))]
  <2>1. h = [k \in 0..N |-> B(k)] BY <1>11
  <2> HIDE DEF B
  <2>2. h[m] = B(m) BY <1>1, <2>1
  <2> QED BY <2>2 DEF B
<1> HIDE DEF Eq, N
<1>13. 0 \in S
  <2>1. 0 \in 0..n BY <1>1
  <2>2. h[0] = [call \in AllOps(g) \X Visits(g) |-> call[2]]
    <3>1. h[0] = [call \in AllOps(g) \X Visits(g) |->
                            IF 0 = 0 \/ ~Ready(g, call[1], call[2]) THEN call[2]
                            ELSE CallEach(h[0-1], Sinks(g, call[1]), Visit(g, call[1], call[2]))]
      BY <1>12, <2>1
    <3> QED BY <3>1
  <2> QED BY <1>7, <2>2
<1>14. ASSUME NEW m \in Nat, m \in S PROVE m + 1 \in S
  <2> SUFFICES ASSUME m + 1 <= n PROVE h[m + 1] = from[m + 1] OBVIOUS
  <2> DEFINE p == m + 1
  <2>1. p \in 0..n /\ p \in 1..n /\ p # 0 /\ p - 1 = m /\ m <= n BY <1>1
  <2> HIDE DEF p
  <2>2. h[p] = [call \in AllOps(g) \X Visits(g) |->
                            IF p = 0 \/ ~Ready(g, call[1], call[2]) THEN call[2]
                            ELSE CallEach(h[p-1], Sinks(g, call[1]), Visit(g, call[1], call[2]))]
    BY <1>12, <2>1
  <2>3. h[p] = Level(g, h[p - 1]) BY <2>1, <2>2 DEF Level
  <2>4. h[p - 1] = from[p - 1] BY <1>14, <2>1
  <2>5. h[p] = from[p] BY <1>6, <2>1, <2>3, <2>4
  <2> QED BY <2>5 DEF p
<1> HIDE DEF S
<1>15. n \in S BY <1>1, <1>13, <1>14, SetInduction
<1>16. From(g) = from[n] BY <1>1, <1>11, <1>15 DEF S
<1> QED BY <1>5, <1>6, <1>7, <1>16 DEF Nested, F

(* A traversal that is as long as there are operators has visited them     *)
(* all, and nothing waits.                                                 *)
LEMMA LongEnough ==
    ASSUME NEW g, NEW n, Layered(g, n), NEW v \in Traversed(g)
    PROVE  /\ Len(v.sequence) \in Nat /\ Len(v.sequence) <= n
           /\ Len(v.sequence) >= n => AllOps(g) = ToSet(v.sequence)
           /\ AllOps(g) = ToSet(v.sequence) => Len(v.sequence) = n
<1> DEFINE s == v.sequence
           O == AllOps(g)
<1>1. s \in Seq(O) /\ \A i, j \in 1..Len(s) : s[i] = s[j] => i = j BY DEF Traversed, Visits
<1>2. n \in Nat /\ IsFiniteSet(O) /\ Cardinality(O) = n BY HowMany
<1> HIDE DEF s, O
<1>3. Len(s) \in Nat /\ DOMAIN s = 1..Len(s) /\ s \in [1..Len(s) -> O] BY <1>1
<1>4. s \in Injection(1..Len(s), O) BY <1>1, <1>3 DEF Injection, IsInjective
<1>5. Cardinality(1..Len(s)) = Len(s)
  <2>1. 1 \in Int /\ Len(s) \in Int BY <1>3
  <2>2. Cardinality(1..Len(s)) = IF 1 > Len(s) THEN 0 ELSE Len(s) - 1 + 1 BY <2>1, FS_Interval
  <2> QED BY <1>3, <2>2
<1>6. /\ Cardinality(1..Len(s)) <= Cardinality(O)
      /\ Cardinality(1..Len(s)) = Cardinality(O) <=> s \in Surjection(1..Len(s), O)
  BY <1>2, <1>4, FS_Injection
<1>7. s \in Surjection(1..Len(s), O) <=> O = ToSet(s)
  <2>1. ToSet(s) \subseteq O BY <1>3 DEF ToSet
  <2>2. s \in Surjection(1..Len(s), O) <=> \A y \in O : \E x \in 1..Len(s) : s[x] = y
    BY <1>3 DEF Surjection
  <2>3. (\A y \in O : \E x \in 1..Len(s) : s[x] = y) <=> O \subseteq ToSet(s) BY <1>3 DEF ToSet
  <2> QED BY <2>1, <2>2, <2>3
<1> QED BY <1>2, <1>3, <1>5, <1>6, <1>7 DEF s, O

(* A call gets further as far as there are operators left to visit.        *)
LEMMA FromGoesFurther ==
    ASSUME NEW g, NEW n, Layered(g, n)
    PROVE  \A o \in AllOps(g), v \in Traversed(g) : Further(g, v, From(g)[<<o, v>>], {o})
<1>1. n \in Nat BY HowMany
<1>2. PICK from \in [0..n -> [AllOps(g) \X Visits(g) -> Visits(g)]] : Nested(g, n, from)
  BY FromRecurs
<1> DEFINE Goes(k) == \A o \in AllOps(g), v \in Traversed(g) :
                         Len(v.sequence) >= n - k => Further(g, v, from[k][<<o, v>>], {o})
           S == {k \in Nat : k <= n => Goes(k)}
<1>3. \A v \in Traversed(g) : v \in Visits(g) BY DEF Traversed
<1>4. 0 \in S
  <2> SUFFICES ASSUME NEW o \in AllOps(g), NEW v \in Traversed(g), Len(v.sequence) >= n - 0
               PROVE  Further(g, v, from[0][<<o, v>>], {o})
    OBVIOUS
  <2>1. <<o, v>> \in AllOps(g) \X Visits(g) /\ <<o, v>>[2] = v BY <1>3
  <2>2. from[0][<<o, v>>] = v BY <1>2, <2>1 DEF Nested
  <2>3. Len(v.sequence) \in Nat /\ AllOps(g) = ToSet(v.sequence)
    <3>1. Len(v.sequence) >= n BY <1>1
    <3> QED BY <3>1, LongEnough
  <2>4. Waiting(g, v) = {} BY <2>3, ReadyMeans DEF Waiting
  <2> QED BY <2>2, <2>3, <2>4 DEF Further
<1>5. ASSUME NEW k \in Nat, k \in S PROVE k + 1 \in S
  <2> SUFFICES ASSUME k + 1 <= n PROVE Goes(k + 1)
    <3> HIDE DEF Goes
    <3> QED OBVIOUS
  <2> SUFFICES ASSUME NEW o \in AllOps(g), NEW v \in Traversed(g), Len(v.sequence) >= n - (k + 1)
               PROVE  Further(g, v, from[k + 1][<<o, v>>], {o})
    OBVIOUS
  <2>1. k + 1 \in 1..n /\ (k + 1) - 1 = k /\ k <= n /\ k \in 0..n /\ n - k \in Nat BY <1>1
  <2>2. Goes(k) BY <1>5, <2>1
  <2> DEFINE calls == from[k]
  <2>3. from[k + 1] = Level(g, calls) BY <1>2, <2>1 DEF Nested
  <2>4. <<o, v>> \in AllOps(g) \X Visits(g) /\ <<o, v>>[1] = o /\ <<o, v>>[2] = v BY <1>3
  <2>5. from[k + 1][<<o, v>>] = IF ~Ready(g, o, v) THEN v ELSE CallEach(calls, Sinks(g, o), Visit(g, o, v))
    BY <2>3, <2>4 DEF Level
  <2>6. \A p \in AllOps(g), y \in Traversed(g) : Len(y.sequence) >= n - k => Further(g, y, calls[<<p, y>>], {p})
    BY <2>2
  <2> HIDE DEF calls, Goes
  <2>7. Len(v.sequence) \in Nat BY LongEnough
  <2>8. CASE ~Ready(g, o, v)
    <3>1. o \notin Waiting(g, v) BY <2>8 DEF Waiting
    <3> QED BY <2>5, <2>7, <2>8, <3>1 DEF Further
  <2>9. CASE Ready(g, o, v)
    <3> DEFINE w == Visit(g, o, v)
               s == Sinks(g, o)
               y == CallEach(calls, s, w)
    <3>1. /\ w \in Traversed(g) /\ Len(w.sequence) = Len(v.sequence) + 1
          /\ v.tensors \subseteq w.tensors
          /\ Waiting(g, w) \subseteq (Waiting(g, v) \ {o}) \union ToSet(s)
      BY <2>9, VisitIs
    <3>2. s \in Seq(AllOps(g)) BY SinksAre
    <3> HIDE DEF w, s
    <3>3. Len(w.sequence) >= n - k BY <1>1, <2>1, <2>7, <3>1
    <3>4. Further(g, w, y, ToSet(s)) BY <2>1, <2>6, <3>1, <3>2, <3>3, CallsGoFurther
    <3>5. from[k + 1][<<o, v>>] = y BY <2>5, <2>9 DEF w, s
    <3> HIDE DEF y
    <3>6. Len(y.sequence) \in Nat BY <3>4, LongEnough DEF Further
    <3>7. Len(v.sequence) <= Len(y.sequence) BY <2>7, <3>1, <3>4, <3>6 DEF Further
    <3>8. Further(g, v, y, {o}) BY <3>1, <3>4, <3>7 DEF Further
    <3> QED BY <3>5, <3>8
  <2> QED BY <2>8, <2>9
<1> HIDE DEF S
<1>6. n \in S BY <1>1, <1>4, <1>5, SetInduction
<1>7. ASSUME NEW o \in AllOps(g), NEW v \in Traversed(g) PROVE Further(g, v, From(g)[<<o, v>>], {o})
  <2>1. Len(v.sequence) \in Nat BY LongEnough
  <2>2. Len(v.sequence) >= n - n /\ n <= n BY <1>1, <2>1
  <2>3. From(g) = from[n] BY <1>2 DEF Nested
  <2> QED BY <1>6, <2>2, <2>3 DEF S
<1> QED BY <1>7

(* The tensors that the order is built from.                               *)
Ids(g) == [t \in 1..Max(AllTensors(g) \union {0}) |-> t]

Starting == [sequence |-> <<>>, tensors |-> {}]

Building(g, steps) ==
    /\ steps[0] = Starting /\ \A k \in 1..Len(Ids(g)) : steps[k] = FromTensor(g, steps[k - 1], k)
    /\ BuildOperatorsSequence(g) = steps[Len(Ids(g))].sequence

(* From one tensor after the other, if it stays in V.                      *)
LEMMA BuildingSteps ==
    ASSUME NEW V, NEW g, Ids(g) \in Seq(Nat), Starting \in V,
           \A t \in Nat, v \in V : FromTensor(g, v, t) \in V
    PROVE  \E steps \in [0..Len(Ids(g)) -> V] : Building(g, steps)
<1> DEFINE n == Len(Ids(g))
           Step == [x \in (V) \X (1..n) |-> FromTensor(g, x[1], Ids(g)[x[2]])]
<1>1. n \in Nat /\ DOMAIN Ids(g) = 1..n OBVIOUS
<1>2. /\ Starting \in V
      /\ \A x \in V, k \in 1..n : FromTensor(g, x, Ids(g)[k]) \in V
  <2>1. ASSUME NEW x \in V, NEW k \in 1..n PROVE FromTensor(g, x, Ids(g)[k]) \in V
    <3>1. Ids(g)[k] \in Nat BY <1>1
    <3> QED BY <3>1
  <2> QED BY <2>1
<1>3. Step \in [(V) \X (1..n) -> V] /\ \A x \in V, k \in 1..n : Step[<<x, k>>] = FromTensor(g, x, Ids(g)[k])
  BY <1>2
<1> HIDE DEF n, Step
<1> DEFINE Eq(it) == it = [z \in SUBSET DOMAIN Ids(g) |->
                             IF z = {} THEN Starting ELSE FromTensor(g, it[z \ {Max(z)}], Ids(g)[Max(z)])]
           tab == CHOOSE it : Eq(it)
<1>4. BuildOperatorsSequence(g) = tab[DOMAIN Ids(g)].sequence
  BY Zenon DEF FoldLeft, MapThenFoldSet, BuildOperatorsSequence, Ids, Starting
<1>5. PICK it \in [SUBSET (1..n) -> V] : FoldsBy(it, 1..n, Starting, Step)
  <2>1. HasFold(n, V, Starting, Step) BY <1>1, <1>2, <1>3, FoldOfSet
  <2> QED BY <2>1 DEF HasFold
<1>6. Eq(it)
  <2>1. ASSUME NEW z \in SUBSET (1..n)
        PROVE  it[z] = IF z = {} THEN Starting ELSE FromTensor(g, it[z \ {Max(z)}], Ids(g)[Max(z)])
    <3>1. CASE z = {} BY <1>5, <3>1 DEF FoldsBy
    <3>2. CASE z # {}
      <4>1. Max(z) \in 1..n BY <1>1, <3>2, MaxOfSome
      <4>2. it[z \ {Max(z)}] \in V
        <5>1. z \ {Max(z)} \in SUBSET (1..n) OBVIOUS
        <5> QED BY <1>5, <5>1
      <4>3. it[z] = Step[<<it[z \ {Max(z)}], Max(z)>>] BY <1>5, <3>2 DEF FoldsBy
      <4> QED BY <1>3, <3>2, <4>1, <4>2, <4>3
    <3> QED BY <3>1, <3>2
  <2> QED BY <1>1, <1>5, <2>1
<1>7. Eq(tab)
  <2> HIDE DEF Eq
  <2> QED BY <1>6
<1> HIDE DEF tab
<1>8. ASSUME NEW z \in SUBSET (1..n), z # {}, tab[z \ {Max(z)}] \in V
      PROVE  tab[z] = Step[<<tab[z \ {Max(z)}], Max(z)>>]
  <2>1. Max(z) \in 1..n BY <1>1, <1>8, MaxOfSome
  <2>2. tab[z] = FromTensor(g, tab[z \ {Max(z)}], Ids(g)[Max(z)]) BY <1>1, <1>7, <1>8
  <2> QED BY <1>3, <1>8, <2>1, <2>2
<1>9. tab[{}] = Starting BY <1>1, <1>7
<1>10. Folded(tab[1..n], n, V, Starting, Step) BY <1>1, <1>2, <1>3, <1>8, <1>9, FoldTable
<1>11. PICK steps \in [0..n -> V] : Stepwise(steps, n, Starting, Step) /\ tab[1..n] = steps[n]
  BY <1>10 DEF Folded
<1>12. ASSUME NEW k \in 1..n PROVE steps[k] = FromTensor(g, steps[k - 1], Ids(g)[k])
  <2>1. k - 1 \in 0..n BY <1>1
  <2>2. steps[k - 1] \in V BY <1>11, <2>1
  <2> QED BY <1>3, <1>11, <2>2 DEF Stepwise
<1>13. steps[0] = Starting BY <1>11 DEF Stepwise
<1>14. BuildOperatorsSequence(g) = steps[n].sequence BY <1>1, <1>4, <1>11
<1> HIDE <1>2, <1>7, <1>8
<1>15. \A k \in 1..n : Ids(g)[k] = k
  <2> DEFINE m == Max(AllTensors(g) \union {0})
  <2>1. Ids(g) = [t \in 1..m |-> t] BY DEF Ids
  <2> HIDE DEF m
  <2>2. 1..m = 1..n BY <1>1, <2>1
  <2> QED BY <2>1, <2>2
<1>16. Building(g, steps) BY <1>12, <1>13, <1>14, <1>15 DEF Building, n
<1> QED BY <1>11, <1>16 DEF n

(* What a traversal is between two tensors that it starts from.            *)
Settled(g) == {v \in Traversed(g) : Waiting(g, v) = {}}

LEMMA FromTensorIs ==
    ASSUME NEW g, NEW n, Layered(g, n), NEW t, NEW v \in Settled(g)
    PROVE  /\ FromTensor(g, v, t) \in Settled(g)
           /\ v.tensors \subseteq FromTensor(g, v, t).tensors
           /\ t \in Roots(g) => t \in FromTensor(g, v, t).tensors
<1>1. v \in Traversed(g) /\ Waiting(g, v) = {} BY DEF Settled
<1>2. CASE t \notin Roots(g)
  <2>1. FromTensor(g, v, t) = v BY <1>2 DEF FromTensor, Roots
  <2> QED BY <1>2, <2>1
<1>3. CASE t \in Roots(g)
  <2> DEFINE w == [v EXCEPT !.tensors = @ \union {t}]
             ops == g.dstOps[t]
             y == CallEach(From(g), ops, w)
  <2>1. t \in AllTensors(g) /\ FromTensor(g, v, t) = y BY <1>3 DEF FromTensor, Roots
  <2>2. ops \in Seq(AllOps(g)) /\ ToSet(ops) = {o \in AllOps(g) : t \in Reads(g, o)} BY <2>1 DEF Layered
  <2>3. v \in Visits(g) BY <1>1 DEF Traversed
  <2>4. w.sequence = v.sequence /\ w.tensors = v.tensors \union {t} /\ w \in Visits(g)
    BY <2>1, <2>3 DEF Visits
  <2> HIDE DEF w, ops
  <2>5. MadeBefore(g, w.sequence, Len(w.sequence) + 1, t) BY <1>3 DEF MadeBefore
  <2>6. w \in Traversed(g)
    <3>1. /\ \A i, j \in 1..Len(v.sequence) : v.sequence[i] = v.sequence[j] => i = j
          /\ \A i \in 1..Len(v.sequence) :
                /\ Makes(g, v.sequence[i]) \subseteq v.tensors
                /\ \A x \in Reads(g, v.sequence[i]) : MadeBefore(g, v.sequence, i, x)
          /\ \A x \in v.tensors : MadeBefore(g, v.sequence, Len(v.sequence) + 1, x)
      BY <1>1 DEF Traversed
    <3>2. \A i \in 1..Len(v.sequence) : Makes(g, v.sequence[i]) \subseteq w.tensors BY <2>4, <3>1
    <3>3. \A x \in w.tensors : MadeBefore(g, w.sequence, Len(w.sequence) + 1, x) BY <2>4, <2>5, <3>1
    <3> QED BY <2>4, <3>1, <3>2, <3>3 DEF Traversed
  <2>7. ASSUME NEW o \in Waiting(g, w) PROVE o \in ToSet(ops)
    <3>1. o \in AllOps(g) /\ o \notin ToSet(v.sequence) /\ Reads(g, o) \subseteq v.tensors \union {t}
      BY <2>4, ReadyMeans DEF Waiting
    <3>2. ~Ready(g, o, v) BY <1>1, <3>1 DEF Waiting
    <3>3. t \in Reads(g, o) BY <3>1, <3>2, ReadyMeans
    <3> QED BY <2>2, <3>1, <3>3
  <2>8. Len(w.sequence) \in Nat /\ Len(w.sequence) >= 0 /\ 0 \in Nat
    <3>1. Len(w.sequence) \in Nat BY <2>6, LongEnough
    <3> QED BY <3>1
  <2>9. Further(g, w, y, ToSet(ops))
    <3>1. \A o \in AllOps(g), x \in Traversed(g) :
             Len(x.sequence) >= 0 => Further(g, x, From(g)[<<o, x>>], {o})
      BY FromGoesFurther
    <3> QED BY <2>2, <2>6, <2>8, <3>1, CallsGoFurther
  <2> HIDE DEF y
  <2>10. Waiting(g, y) = {} BY <2>7, <2>9 DEF Further
  <2>11. y \in Settled(g) BY <2>9, <2>10 DEF Further, Settled
  <2>12. v.tensors \subseteq y.tensors /\ t \in y.tensors BY <2>4, <2>9 DEF Further
  <2> QED BY <2>1, <2>11, <2>12
<1> QED BY <1>2, <1>3

LEMMA StartingIsSettled ==
    ASSUME NEW g, NEW n, Layered(g, n)
    PROVE  Starting \in Settled(g)
<1>1. Starting.sequence = <<>> /\ Starting.tensors = {} /\ Len(<<>>) = 0 /\ <<>> \in Seq(AllOps(g))
  BY DEF Starting
<1>2. Starting \in Visits(g) BY <1>1 DEF Starting, Visits
<1>3. \A i : i \notin 1..0 OBVIOUS
<1>4. Starting \in Traversed(g) BY <1>1, <1>2, <1>3 DEF Traversed
<1>5. ASSUME NEW o \in AllOps(g) PROVE ~Ready(g, o, Starting)
  <2>1. Reads(g, o) # {} BY DEF Layered
  <2> QED BY <1>1, <2>1, ReadyMeans
<1> QED BY <1>4, <1>5 DEF Settled, Waiting

(* Of a set of numbers without numbers beyond n.                           *)
LEMMA MaxBelow ==
    ASSUME NEW n \in Nat, NEW S \in SUBSET (1..n)
    PROVE  /\ Max(S \union {0}) \in 0..n
           /\ \A x \in S : x \in 1..Max(S \union {0})
<1> DEFINE T == S \union {0}
           Below == {n - x : x \in T}
<1>1. T \subseteq 0..n /\ 0 \in T OBVIOUS
<1> HIDE DEF T
<1>2. Below \subseteq Nat /\ Below # {} BY <1>1
<1>3. PICK d \in Below : \A e \in Below : d <= e BY <1>2, SmallestExists
<1>4. PICK m \in T : d = n - m BY <1>3
<1>5. \A x \in T : m >= x
  <2> SUFFICES ASSUME NEW x \in T PROVE m >= x OBVIOUS
  <2>1. n - x \in Below OBVIOUS
  <2>2. n - m <= n - x BY <1>3, <1>4, <2>1
  <2>3. x \in 0..n /\ m \in 0..n BY <1>1
  <2> HIDE DEF Below
  <2> QED BY <2>2, <2>3
<1> DEFINE M == Max(T)
<1>6. M \in T /\ \A x \in T : M >= x BY <1>5, Zenon DEF Max
<1> HIDE DEF M
<1>7. M \in 0..n BY <1>1, <1>6
<1>8. \A x \in S : x \in 1..M
  <2> SUFFICES ASSUME NEW x \in S PROVE x \in 1..M OBVIOUS
  <2>1. x \in T /\ x \in 1..n BY DEF T
  <2> QED BY <1>6, <1>7, <2>1
<1> QED BY <1>7, <1>8 DEF M, T

(* build_operators_sequence names each operator once, and after those that *)
(* make what it reads.                                                     *)
LEMMA SequenceIsOrder ==
    ASSUME NEW g, NEW n, Layered(g, n), NEW top \in Nat, AllTensors(g) \subseteq 1..top
    PROVE  LET s == BuildOperatorsSequence(g) IN
           /\ s \in Seq(AllOps(g)) /\ Len(s) = n /\ ToSet(s) = AllOps(g)
           /\ \A i, j \in 1..Len(s) : s[i] = s[j] => i = j
           /\ \A i \in 1..Len(s) : \A t \in Reads(g, s[i]) : MadeBefore(g, s, i, t)
<1> DEFINE m == Max(AllTensors(g) \union {0})
<1>1. m \in Nat /\ \A x \in AllTensors(g) : x \in 1..m BY MaxBelow
<1>2. Ids(g) = [t \in 1..m |-> t] BY DEF Ids
<1> HIDE DEF m
<1>3. Ids(g) \in Seq(Nat) /\ Len(Ids(g)) = m BY <1>1, <1>2
<1>4. \A t \in Nat, v \in Settled(g) : FromTensor(g, v, t) \in Settled(g) BY FromTensorIs
<1>5. PICK steps \in [0..Len(Ids(g)) -> Settled(g)] : Building(g, steps)
  BY <1>3, <1>4, StartingIsSettled, BuildingSteps
<1> DEFINE S == {k \in Nat : k <= m => \A t \in Roots(g) : t <= k => t \in steps[k].tensors}
<1>6. \A t \in Roots(g) : t \in 1..m BY <1>1 DEF Roots
<1>7. 0 \in S BY <1>6
<1>8. ASSUME NEW k \in Nat, k \in S PROVE k + 1 \in S
  <2> SUFFICES ASSUME k + 1 <= m, NEW t \in Roots(g), t <= k + 1 PROVE t \in steps[k + 1].tensors
    OBVIOUS
  <2>1. k + 1 \in 1..m /\ (k + 1) - 1 = k /\ k \in 0..m /\ k <= m /\ t \in Nat BY <1>1, <1>6
  <2>2. steps[k + 1] = FromTensor(g, steps[k], k + 1) BY <1>3, <1>5, <2>1 DEF Building
  <2>3. steps[k] \in Settled(g) BY <1>3, <1>5, <2>1
  <2>4. /\ steps[k].tensors \subseteq steps[k + 1].tensors
        /\ k + 1 \in Roots(g) => k + 1 \in steps[k + 1].tensors
    BY <2>2, <2>3, FromTensorIs
  <2>5. CASE t = k + 1 BY <2>4, <2>5
  <2>6. CASE t # k + 1
    <3>1. t <= k BY <2>1, <2>6
    <3>2. t \in steps[k].tensors BY <1>8, <2>1, <3>1
    <3> QED BY <2>4, <3>2
  <2> QED BY <2>5, <2>6
<1> HIDE DEF S
<1>9. m \in S BY <1>1, <1>7, <1>8, SetInduction
<1> DEFINE v == steps[m]
           s == v.sequence
<1>10. m \in 0..m BY <1>1
<1>11. v \in Settled(g) /\ BuildOperatorsSequence(g) = s BY <1>3, <1>5, <1>10 DEF Building
<1>12. Roots(g) \subseteq v.tensors BY <1>1, <1>6, <1>9 DEF S
<1> HIDE DEF v
<1>13. v \in Traversed(g) /\ Waiting(g, v) = {} BY <1>11 DEF Settled
<1>14. /\ s \in Seq(AllOps(g))
       /\ \A i, j \in 1..Len(s) : s[i] = s[j] => i = j
       /\ \A i \in 1..Len(s) : /\ Makes(g, s[i]) \subseteq v.tensors
                               /\ \A t \in Reads(g, s[i]) : MadeBefore(g, s, i, t)
  BY <1>13 DEF Traversed, Visits
<1>15. AllOps(g) \subseteq ToSet(s)
  <2> DEFINE Left == AllOps(g) \ ToSet(s)
  <2> SUFFICES ASSUME Left # {} PROVE FALSE OBVIOUS
  <2>1. AllOps(g) \subseteq Nat BY HowMany
  <2>2. Left \subseteq Nat BY <2>1
  <2>3. PICK o \in Left : \A p \in Left : o <= p BY <2>2, SmallestExists
  <2>4. ASSUME NEW t \in Reads(g, o) PROVE t \in v.tensors
    <3>1. CASE t \in Roots(g) BY <1>12, <3>1
    <3>2. CASE t \notin Roots(g)
      <4>1. PICK p \in 0..o-1 : t \in Makes(g, p) BY <3>2 DEF Layered
      <4>2. p \in AllOps(g) /\ ~(o <= p) BY <2>1, HowMany
      <4>3. p \in ToSet(s) BY <2>3, <4>2
      <4>4. DOMAIN s = 1..Len(s) BY <1>14
      <4>5. PICK i \in 1..Len(s) : s[i] = p BY <4>3, <4>4 DEF ToSet
      <4> QED BY <1>14, <4>1, <4>5
    <3> QED BY <3>1, <3>2
  <2>5. Ready(g, o, v) BY <2>3, <2>4, ReadyMeans
  <2>6. o \in Waiting(g, v) BY <2>3, <2>5 DEF Waiting
  <2> QED BY <1>13, <2>6
<1>16. ToSet(s) = AllOps(g)
  <2>1. ToSet(s) \subseteq AllOps(g) BY <1>14 DEF ToSet
  <2> QED BY <1>15, <2>1
<1>17. Len(s) = n BY <1>13, <1>16, LongEnough
<1> HIDE DEF s
<1> QED BY <1>11, <1>14, <1>16, <1>17

-----------------------------------------------------------------------------
(* The groups that the components are fused into                           *)

LEMMA FlattenAppend ==
    ASSUME NEW V, NEW R \in Seq(Seq(V)), NEW a \in Seq(V)
    PROVE  FlattenSeq(Append(R, a)) = FlattenSeq(R) \o a
<1> DEFINE n == Len(R)
           Q == Append(R, a)
<1>1. n \in Nat /\ Q \in Seq(Seq(V)) /\ Len(Q) = n + 1 /\ Q[n + 1] = a
      /\ \A k \in 1..n : Q[k] = R[k] /\ R[k] \in Seq(V)
  OBVIOUS
<1> HIDE DEF n, Q
<1>2. PICK F \in [0..n -> Seq(V)] : Joining(F, R, n) /\ FlattenSeq(R) = F[n]
  BY FlattenIsJoining DEF n
<1>3. PICK G \in [0..n+1 -> Seq(V)] : Joining(G, Q, n + 1) /\ FlattenSeq(Q) = G[n + 1]
  BY <1>1, FlattenIsJoining
<1> DEFINE S == {i \in Nat : i <= n => G[i] = F[i]}
<1>4. 0 \in S BY <1>2, <1>3 DEF Joining
<1>5. ASSUME NEW i \in Nat, i \in S PROVE i + 1 \in S
  <2> SUFFICES ASSUME i + 1 <= n PROVE G[i + 1] = F[i + 1] OBVIOUS
  <2> DEFINE j == i + 1
  <2>1. j \in 1..n /\ j \in 1..n+1 /\ j - 1 = i /\ i <= n BY <1>1
  <2> HIDE DEF j
  <2>2. G[j] = G[j - 1] \o Q[j] BY <1>3, <2>1 DEF Joining
  <2>3. F[j] = F[j - 1] \o R[j] BY <1>2, <2>1 DEF Joining
  <2>4. G[j - 1] = F[j - 1] BY <1>5, <2>1
  <2>5. G[j] = F[j] BY <1>1, <2>1, <2>2, <2>3, <2>4
  <2> QED BY <2>5 DEF j
<1> HIDE DEF S
<1>6. n \in S BY <1>1, <1>4, <1>5, SetInduction
<1>7. G[n + 1] = F[n] \o a
  <2> DEFINE j == n + 1
  <2>1. j \in 1..n+1 /\ j - 1 = n /\ n <= n BY <1>1
  <2> HIDE DEF j
  <2>2. G[j] = G[j - 1] \o Q[j] BY <1>3, <2>1 DEF Joining
  <2>3. G[n] = F[n] /\ Q[j] = a BY <1>1, <1>6, <2>1 DEF S, j
  <2>4. G[j] = F[n] \o a BY <2>1, <2>2, <2>3
  <2> QED BY <2>4 DEF j
<1> QED BY <1>2, <1>3, <1>7 DEF Q

LEMMA EndOfList ==
    ASSUME NEW V, NEW s \in Seq(V), s # <<>>
    PROVE  /\ Len(s) \in Nat /\ Len(s) >= 1 /\ Last(s) \in V /\ Last(s) = s[Len(s)]
           /\ Front(s) \in Seq(V) /\ Len(Front(s)) = Len(s) - 1 /\ \A k \in 1..Len(s)-1 : Front(s)[k] = s[k]
           /\ s = Append(Front(s), Last(s))
           /\ \A x \in V : ReplaceAt(s, Len(s), x) = Append(Front(s), x)
<1>1. Len(s) \in Nat /\ Len(s) >= 1 OBVIOUS
<1>2. Last(s) = s[Len(s)] /\ Last(s) \in V BY <1>1 DEF Last
<1>3. /\ Front(s) \in Seq(V) /\ Len(Front(s)) = Len(s) - 1 /\ \A k \in 1..Len(s)-1 : Front(s)[k] = s[k]
  <2> DEFINE m == Len(s) - 1
  <2>1. m \in Nat /\ m <= Len(s) BY <1>1
  <2>2. Front(s) = SubSeq(s, 1, m) BY DEF Front
  <2> HIDE DEF m
  <2>3. /\ SubSeq(s, 1, m) \in Seq(V) /\ Len(SubSeq(s, 1, m)) = m
        /\ \A k \in 1..m : SubSeq(s, 1, m)[k] = s[k]
    BY <1>1, <2>1
  <2> QED BY <2>2, <2>3 DEF m
<1> DEFINE f == Front(s)
           n == Len(s)
<1>4. f \in Seq(V) /\ Len(f) = n - 1 /\ \A k \in 1..n-1 : f[k] = s[k] BY <1>3
<1> HIDE DEF f, n
<1>5. ASSUME NEW x \in V PROVE ReplaceAt(s, n, x) = Append(f, x)
  <2> DEFINE a == ReplaceAt(s, n, x)
             b == Append(f, x)
  <2>1. a = [k \in 1..n |-> IF k = n THEN x ELSE s[k]] BY DEF ReplaceAt, n
  <2>2. n \in Nat /\ n >= 1 BY <1>1 DEF n
  <2>3. /\ b \in Seq(V) /\ Len(b) = n /\ b[n] = x /\ \A k \in 1..n-1 : b[k] = f[k]
    BY <1>4, <2>2
  <2> HIDE DEF a, b
  <2>4. b = [k \in 1..n |-> b[k]] BY <2>3
  <2>5. \A k \in 1..n : k = n \/ k \in 1..n-1 BY <2>2
  <2>6. \A k \in 1..n : b[k] = IF k = n THEN x ELSE s[k] BY <1>4, <2>3, <2>5
  <2>7. a = b BY <2>1, <2>4, <2>6
  <2> QED BY <2>7 DEF a, b
<1>6. s = Append(f, Last(s))
  <2>1. ReplaceAt(s, n, Last(s)) = s BY <1>2 DEF ReplaceAt, n
  <2> QED BY <1>2, <1>5, <2>1
<1> QED BY <1>1, <1>2, <1>3, <1>5, <1>6 DEF f, n

LEMMA AppendOne ==
    ASSUME NEW V, NEW a \in Seq(V), NEW b \in Seq(V), NEW c \in V
    PROVE  a \o Append(b, c) = Append(a \o b, c) /\ a \o <<c>> = Append(a, c)
OBVIOUS

(* A component that is fused comes last.                                   *)
LEMMA FuseAppends ==
    ASSUME NEW V, NEW groups \in Seq(Seq(V)), groups # <<>>, NEW c \in V
    PROVE  /\ Fuse(groups, c) \in Seq(Seq(V)) /\ Fuse(groups, c) # <<>>
           /\ FlattenSeq(Fuse(groups, c)) = Append(FlattenSeq(groups), c)
<1> DEFINE l == Last(groups)
           f == Front(groups)
<1>1. /\ l \in Seq(V) /\ f \in Seq(Seq(V)) /\ groups = Append(f, l)
      /\ \A x \in Seq(V) : ReplaceAt(groups, Len(groups), x) = Append(f, x)
  BY EndOfList
<1>2. FlattenSeq(f) \in Seq(V) /\ FlattenSeq(groups) \in Seq(V) BY <1>1, FlattenHas
<1> HIDE DEF l, f
<1>3. CASE Accepts(l, c, info)
  <2>1. Append(l, c) \in Seq(V) BY <1>1
  <2>2. Fuse(groups, c) = Append(f, Append(l, c)) BY <1>1, <1>3, <2>1 DEF Fuse, l
  <2>3. FlattenSeq(Append(f, Append(l, c))) = FlattenSeq(f) \o Append(l, c) BY <1>1, <2>1, FlattenAppend
  <2>4. FlattenSeq(groups) = FlattenSeq(f) \o l BY <1>1, FlattenAppend
  <2> DEFINE p == FlattenSeq(f)
  <2>5. p \in Seq(V) BY <1>2
  <2> HIDE DEF p
  <2>6. p \o Append(l, c) = Append(p \o l, c) BY ONLY <1>1, <2>5, c \in V, AppendOne
  <2>7. Append(f, Append(l, c)) \in Seq(Seq(V)) /\ Append(f, Append(l, c)) # <<>> BY <1>1, <2>1
  <2> QED BY <2>2, <2>3, <2>4, <2>6, <2>7 DEF p
<1>4. CASE ~Accepts(l, c, info)
  <2>1. Fuse(groups, c) = Append(groups, <<c>>) BY <1>4 DEF Fuse, l
  <2>2. <<c>> \in Seq(V) OBVIOUS
  <2>3. FlattenSeq(Append(groups, <<c>>)) = FlattenSeq(groups) \o <<c>> BY <2>2, FlattenAppend
  <2> DEFINE p == FlattenSeq(groups)
  <2>4. p \in Seq(V) BY <1>2
  <2> HIDE DEF p
  <2>5. p \o <<c>> = Append(p, c) BY ONLY <2>4, c \in V, AppendOne
  <2>6. Append(groups, <<c>>) \in Seq(Seq(V)) /\ Append(groups, <<c>>) # <<>> BY <2>2
  <2> QED BY <2>1, <2>3, <2>5, <2>6 DEF p
<1> QED BY <1>3, <1>4

(* The components in the order in which they are built.                    *)
BuiltOrder ==
    LET order == BuildOperatorsSequence(graph)
    IN  [i \in DOMAIN order |-> components[order[i] + 1]]

Fusing(steps) ==
    /\ steps[0] = <<<<>>>> /\ \A k \in 1..Len(BuiltOrder) : steps[k] = Fuse(steps[k - 1], BuiltOrder[k])
    /\ ComponentGroups = steps[Len(BuiltOrder)]

(* One component after the other, if it stays in V.                        *)
LEMMA FusingSteps ==
    ASSUME NEW V, NEW C, BuiltOrder \in Seq(C), <<<<>>>> \in V,
           \A c \in C, v \in V : Fuse(v, c) \in V
    PROVE  \E steps \in [0..Len(BuiltOrder) -> V] : Fusing(steps)
<1> DEFINE n == Len(BuiltOrder)
           Step == [x \in (V) \X (1..n) |-> Fuse(x[1], BuiltOrder[x[2]])]
<1>1. n \in Nat /\ DOMAIN BuiltOrder = 1..n OBVIOUS
<1>2. /\ <<<<>>>> \in V
      /\ \A x \in V, k \in 1..n : Fuse(x, BuiltOrder[k]) \in V
  <2>1. ASSUME NEW x \in V, NEW k \in 1..n PROVE Fuse(x, BuiltOrder[k]) \in V
    <3>1. BuiltOrder[k] \in C BY <1>1
    <3> QED BY <3>1
  <2> QED BY <2>1
<1>3. Step \in [(V) \X (1..n) -> V] /\ \A x \in V, k \in 1..n : Step[<<x, k>>] = Fuse(x, BuiltOrder[k])
  BY <1>2
<1> HIDE DEF n, Step
<1> DEFINE Eq(it) == it = [z \in SUBSET DOMAIN BuiltOrder |->
                             IF z = {} THEN <<<<>>>> ELSE Fuse(it[z \ {Max(z)}], BuiltOrder[Max(z)])]
           tab == CHOOSE it : Eq(it)
<1>4. ComponentGroups = tab[DOMAIN BuiltOrder]
  BY Zenon DEF FoldLeft, MapThenFoldSet, ComponentGroups, BuiltOrder
<1>5. PICK it \in [SUBSET (1..n) -> V] : FoldsBy(it, 1..n, <<<<>>>>, Step)
  <2>1. HasFold(n, V, <<<<>>>>, Step) BY <1>1, <1>2, <1>3, FoldOfSet
  <2> QED BY <2>1 DEF HasFold
<1>6. Eq(it)
  <2>1. ASSUME NEW z \in SUBSET (1..n)
        PROVE  it[z] = IF z = {} THEN <<<<>>>> ELSE Fuse(it[z \ {Max(z)}], BuiltOrder[Max(z)])
    <3>1. CASE z = {} BY <1>5, <3>1 DEF FoldsBy
    <3>2. CASE z # {}
      <4>1. Max(z) \in 1..n BY <1>1, <3>2, MaxOfSome
      <4>2. it[z \ {Max(z)}] \in V
        <5>1. z \ {Max(z)} \in SUBSET (1..n) OBVIOUS
        <5> QED BY <1>5, <5>1
      <4>3. it[z] = Step[<<it[z \ {Max(z)}], Max(z)>>] BY <1>5, <3>2 DEF FoldsBy
      <4> QED BY <1>3, <3>2, <4>1, <4>2, <4>3
    <3> QED BY <3>1, <3>2
  <2> QED BY <1>1, <1>5, <2>1
<1>7. Eq(tab)
  <2> HIDE DEF Eq
  <2> QED BY <1>6
<1> HIDE DEF tab
<1>8. ASSUME NEW z \in SUBSET (1..n), z # {}, tab[z \ {Max(z)}] \in V
      PROVE  tab[z] = Step[<<tab[z \ {Max(z)}], Max(z)>>]
  <2>1. Max(z) \in 1..n BY <1>1, <1>8, MaxOfSome
  <2>2. tab[z] = Fuse(tab[z \ {Max(z)}], BuiltOrder[Max(z)]) BY <1>1, <1>7, <1>8
  <2> QED BY <1>3, <1>8, <2>1, <2>2
<1>9. tab[{}] = <<<<>>>> BY <1>1, <1>7
<1>10. Folded(tab[1..n], n, V, <<<<>>>>, Step) BY <1>1, <1>2, <1>3, <1>8, <1>9, FoldTable
<1>11. PICK steps \in [0..n -> V] : Stepwise(steps, n, <<<<>>>>, Step) /\ tab[1..n] = steps[n]
  BY <1>10 DEF Folded
<1>12. ASSUME NEW k \in 1..n PROVE steps[k] = Fuse(steps[k - 1], BuiltOrder[k])
  <2>1. k - 1 \in 0..n BY <1>1
  <2>2. steps[k - 1] \in V BY <1>11, <2>1
  <2> QED BY <1>3, <1>11, <2>2 DEF Stepwise
<1>13. steps[0] = <<<<>>>> BY <1>11 DEF Stepwise
<1>14. ComponentGroups = steps[n] BY <1>1, <1>4, <1>11
<1> HIDE <1>2, <1>7, <1>8
<1>15. Fusing(steps) BY <1>12, <1>13, <1>14 DEF Fusing, n
<1> QED BY <1>11, <1>15 DEF n

LEMMA GroupsAreFlat ==
    ASSUME NEW C, NEW list \in Seq(C), list = BuiltOrder
    PROVE  /\ ComponentGroups \in Seq(Seq(C)) /\ ComponentGroups # <<>>
           /\ FlattenSeq(ComponentGroups) = list
<1> DEFINE V == {v \in Seq(Seq(C)) : v # <<>>}
           n == Len(list)
<1>1. n \in Nat /\ \A k \in 1..n : list[k] \in C OBVIOUS
<1>2. <<<<>>>> \in Seq(Seq(C)) /\ <<<<>>>> # <<>> /\ Len(<<<<>>>>) = 1 /\ <<<<>>>>[1] = <<>> OBVIOUS
<1>3. <<<<>>>> \in V BY <1>2
<1>4. \A c \in C, v \in V : Fuse(v, c) \in V BY FuseAppends
<1> HIDE DEF V, n
<1>5. PICK steps \in [0..n -> V] : Fusing(steps)
  BY <1>3, <1>4, FusingSteps DEF n
<1> DEFINE S == {k \in Nat : k <= n => FlattenSeq(steps[k]) = SubSeq(list, 1, k)}
<1>6. 0 \in S
  <2>1. PICK F \in [0..1 -> Seq(C)] : Joining(F, <<<<>>>>, 1) /\ FlattenSeq(<<<<>>>>) = F[1]
    BY <1>2, FlattenIsJoining
  <2>2. 1 \in 1..1 /\ 1 - 1 = 0 OBVIOUS
  <2>3. F[1] = F[1 - 1] \o <<<<>>>>[1] BY <2>1, <2>2 DEF Joining
  <2>4. F[0] = <<>> BY <2>1 DEF Joining
  <2>5. F[1] = <<>> \o <<>> BY <1>2, <2>2, <2>3, <2>4
  <2>6. FlattenSeq(<<<<>>>>) = <<>> BY <2>1, <2>5
  <2>7. SubSeq(list, 1, 0) = <<>> OBVIOUS
  <2> QED BY <1>5, <2>6, <2>7 DEF Fusing
<1>7. ASSUME NEW k \in Nat, k \in S PROVE k + 1 \in S
  <2> SUFFICES ASSUME k + 1 <= n PROVE FlattenSeq(steps[k + 1]) = SubSeq(list, 1, k + 1) OBVIOUS
  <2>1. k + 1 \in 1..n /\ (k + 1) - 1 = k /\ k \in 0..n /\ k <= n BY <1>1
  <2>2. steps[k + 1] = Fuse(steps[k], list[k + 1]) BY <1>5, <2>1 DEF Fusing, n
  <2>3. steps[k] \in Seq(Seq(C)) /\ steps[k] # <<>> BY <1>5, <2>1 DEF V
  <2>4. list[k + 1] \in C BY <1>1, <2>1
  <2>5. FlattenSeq(steps[k + 1]) = Append(FlattenSeq(steps[k]), list[k + 1]) BY <2>2, <2>3, <2>4, FuseAppends
  <2>6. FlattenSeq(steps[k]) = SubSeq(list, 1, k) BY <1>7, <2>1
  <2>7. Append(SubSeq(list, 1, k), list[k + 1]) = SubSeq(list, 1, k + 1) BY <2>1 DEF n
  <2> QED BY <2>5, <2>6, <2>7
<1> HIDE DEF S
<1>8. n \in S BY <1>1, <1>6, <1>7, SetInduction
<1>9. FlattenSeq(steps[n]) = SubSeq(list, 1, n) BY <1>1, <1>8 DEF S
<1>10. SubSeq(list, 1, n) = list BY DEF n
<1>11. steps[n] \in V /\ ComponentGroups = steps[n] BY <1>1, <1>5 DEF Fusing, n
<1> QED BY <1>9, <1>10, <1>11 DEF V

-----------------------------------------------------------------------------
(* The components of a sketch that was not refused                         *)

(* What a component makes is new, and it does not read it itself.          *)
Ordered(added) ==
    \A j \in 1..Len(added) :
        /\ added[j].srcs # <<>>
        /\ \A i \in 1..j : ToSet(added[j].dsts) \intersect ToSet(added[i].srcs) = {}
        /\ \A i \in 1..j-1 : ToSet(added[j].dsts) \intersect ToSet(added[i].dsts) = {}

LEMMA JoinedElements ==
    ASSUME NEW S, NEW a \in Seq(S), NEW b \in Seq(S)
    PROVE  /\ a \o b \in Seq(S) /\ Len(a \o b) = Len(a) + Len(b)
           /\ Len(a) \in Nat /\ Len(b) \in Nat
           /\ \A i \in 1..Len(a) : (a \o b)[i] = a[i] /\ i \in 1..Len(a)+Len(b)
           /\ \A i \in 1..Len(b) : (a \o b)[Len(a) + i] = b[i] /\ Len(a) + i \in 1..Len(a)+Len(b)
           /\ \A i \in 1..Len(a)+Len(b) : i \in 1..Len(a) \/ \E k \in 1..Len(b) : i = Len(a) + k
<1>1. Len(a) \in Nat /\ Len(b) \in Nat OBVIOUS
<1>2. ASSUME NEW i \in 1..Len(a)+Len(b), i \notin 1..Len(a) PROVE \E k \in 1..Len(b) : i = Len(a) + k
  <2> DEFINE p == Len(a)
             q == Len(b)
  <2>1. p \in Nat /\ q \in Nat /\ i \in 1..p+q /\ i \notin 1..p BY <1>1, <1>2
  <2> HIDE DEF p, q
  <2>2. i - p \in 1..q /\ i = p + (i - p) BY <2>1
  <2> QED BY <2>2 DEF p, q
<1> QED BY <1>1, <1>2

LEMMA OrderedJoins ==
    ASSUME NEW S, NEW a \in Seq(S), NEW b \in Seq(S), Ordered(a), Ordered(b),
           \A j \in 1..Len(b) : ToSet(b[j].dsts) \intersect TensorsOf(a) = {}
    PROVE  Ordered(a \o b)
<1> DEFINE c == a \o b
           m == Len(a)
           n == Len(b)
<1>1. /\ m \in Nat /\ n \in Nat /\ Len(c) = m + n
      /\ \A i \in 1..m : c[i] = a[i]
      /\ \A i \in 1..n : c[m + i] = b[i]
      /\ \A i \in 1..m+n : i \in 1..m \/ \E k \in 1..n : i = m + k
  BY JoinedElements
<1> HIDE DEF c, m, n
<1>2. ASSUME NEW i \in 1..m, NEW k \in 1..n
      PROVE  /\ ToSet(b[k].dsts) \intersect ToSet(a[i].srcs) = {}
             /\ ToSet(b[k].dsts) \intersect ToSet(a[i].dsts) = {}
  <2>1. ToSet(a[i].srcs) \subseteq TensorsOf(a) /\ ToSet(a[i].dsts) \subseteq TensorsOf(a)
    BY DEF TensorsOf, m
  <2> QED BY <2>1 DEF n
<1>3. ASSUME NEW j \in 1..m+n
      PROVE  /\ c[j].srcs # <<>>
             /\ \A i \in 1..j : ToSet(c[j].dsts) \intersect ToSet(c[i].srcs) = {}
             /\ \A i \in 1..j-1 : ToSet(c[j].dsts) \intersect ToSet(c[i].dsts) = {}
  <2>1. CASE j \in 1..m
    <3>1. /\ a[j].srcs # <<>>
          /\ \A i \in 1..j : ToSet(a[j].dsts) \intersect ToSet(a[i].srcs) = {}
          /\ \A i \in 1..j-1 : ToSet(a[j].dsts) \intersect ToSet(a[i].dsts) = {}
      BY <2>1 DEF Ordered, m
    <3>2. c[j] = a[j] /\ \A i \in 1..j : c[i] = a[i] BY <1>1, <2>1
    <3>3. \A i \in 1..j-1 : c[i] = a[i] BY <1>1, <2>1
    <3> QED BY <3>1, <3>2, <3>3
  <2>2. CASE j \notin 1..m
    <3>1. PICK k \in 1..n : j = m + k BY <1>1, <2>2
    <3>2. c[j] = b[k] BY <1>1, <3>1
    <3>3. /\ b[k].srcs # <<>>
          /\ \A i \in 1..k : ToSet(b[k].dsts) \intersect ToSet(b[i].srcs) = {}
          /\ \A i \in 1..k-1 : ToSet(b[k].dsts) \intersect ToSet(b[i].dsts) = {}
      BY DEF Ordered, n
    <3>4. ASSUME NEW i \in 1..j PROVE ToSet(c[j].dsts) \intersect ToSet(c[i].srcs) = {}
      <4>1. CASE i \in 1..m BY <1>1, <1>2, <3>2, <4>1
      <4>2. CASE i \notin 1..m
        <5>1. i \in 1..m+n BY <1>1, <3>1
        <5>2. PICK l \in 1..n : i = m + l BY <1>1, <4>2, <5>1
        <5>3. l \in 1..k BY <1>1, <3>1, <5>2
        <5> QED BY <1>1, <3>2, <3>3, <5>2, <5>3
      <4> QED BY <4>1, <4>2
    <3>5. ASSUME NEW i \in 1..j-1 PROVE ToSet(c[j].dsts) \intersect ToSet(c[i].dsts) = {}
      <4>1. CASE i \in 1..m BY <1>1, <1>2, <3>2, <4>1
      <4>2. CASE i \notin 1..m
        <5>1. i \in 1..m+n BY <1>1, <3>1
        <5>2. PICK l \in 1..n : i = m + l BY <1>1, <4>2, <5>1
        <5>3. l \in 1..k-1 BY <1>1, <3>1, <5>2
        <5> QED BY <1>1, <3>2, <3>3, <5>2, <5>3
      <4> QED BY <4>1, <4>2
    <3> QED BY <3>2, <3>3, <3>4, <3>5
  <2> QED BY <2>1, <2>2
<1>4. Ordered(c) BY <1>1, <1>3 DEF Ordered
<1> QED BY <1>4 DEF c

LEMMA TensorsJoin ==
    ASSUME NEW S, NEW a \in Seq(S), NEW b \in Seq(S)
    PROVE  TensorsOf(a \o b) = TensorsOf(a) \union TensorsOf(b)
<1> DEFINE c == a \o b
           m == Len(a)
           n == Len(b)
<1>1. /\ m \in Nat /\ n \in Nat /\ Len(c) = m + n
      /\ \A i \in 1..m : c[i] = a[i] /\ i \in 1..m+n
      /\ \A i \in 1..n : c[m + i] = b[i] /\ m + i \in 1..m+n
      /\ \A i \in 1..m+n : i \in 1..m \/ \E k \in 1..n : i = m + k
  BY JoinedElements
<1> HIDE DEF c, m, n
<1>2. ASSUME NEW t \in TensorsOf(c) PROVE t \in TensorsOf(a) \union TensorsOf(b)
  <2>1. PICK i \in 1..m+n : t \in ToSet(c[i].srcs) \union ToSet(c[i].dsts) BY <1>1 DEF TensorsOf
  <2>2. CASE i \in 1..m BY <1>1, <2>1, <2>2 DEF TensorsOf, m
  <2>3. CASE i \notin 1..m
    <3>1. PICK k \in 1..n : i = m + k BY <1>1, <2>3
    <3>2. c[i] = b[k] BY <1>1, <3>1
    <3> QED BY <2>1, <3>2 DEF TensorsOf, n
  <2> QED BY <2>2, <2>3
<1>3. ASSUME NEW t \in TensorsOf(a) PROVE t \in TensorsOf(c)
  <2>1. PICK i \in 1..m : t \in ToSet(a[i].srcs) \union ToSet(a[i].dsts) BY DEF TensorsOf, m
  <2>2. c[i] = a[i] /\ i \in 1..Len(c) BY <1>1
  <2> QED BY <2>1, <2>2 DEF TensorsOf
<1>4. ASSUME NEW t \in TensorsOf(b) PROVE t \in TensorsOf(c)
  <2>1. PICK i \in 1..n : t \in ToSet(b[i].srcs) \union ToSet(b[i].dsts) BY DEF TensorsOf, n
  <2>2. c[m + i] = b[i] /\ m + i \in 1..Len(c) BY <1>1
  <2> QED BY <2>1, <2>2 DEF TensorsOf
<1>5. TensorsOf(c) = TensorsOf(a) \union TensorsOf(b) BY <1>2, <1>3, <1>4
<1> QED BY <1>5 DEF c

(* Unless one of them is refused, the components of an operator follow     *)
(* those of the operators before.                                          *)
LEMMA AllAreAdded ==
    ASSUME NEW comps \in Seq(Components), graph \in Edges, components \in Seq(Components),
           Reflects(graph, components), AddComponents(comps).added
    PROVE  AddComponents(comps).components = components \o comps
<1> DEFINE base == [added |-> TRUE, graph |-> graph, components |-> components]
           n == Len(comps)
<1>1. base \in Adding BY DEF Adding
<1>2. base.components = components OBVIOUS
<1> HIDE DEF base
<1>3. PICK steps \in [0..n -> Adding] :
           /\ steps[0] = base /\ \A k \in 1..n : steps[k] = AddComponent(steps[k - 1], comps[k])
           /\ AddComponents(comps) = steps[n]
  BY <1>1, ComponentsSteps DEF base
<1>4. n \in Nat /\ \A k \in 1..n : comps[k] \in Components OBVIOUS
<1> DEFINE S == {k \in Nat : k <= n /\ steps[k].added => steps[k].components = components \o SubSeq(comps, 1, k)}
<1> HIDE DEF n
<1>5. 0 \in S
  <2>1. SubSeq(comps, 1, 0) = <<>> /\ components \o <<>> = components OBVIOUS
  <2> QED BY <1>2, <1>3, <2>1
<1>6. ASSUME NEW k \in Nat, k \in S PROVE k + 1 \in S
  <2> SUFFICES ASSUME k + 1 <= n, steps[k + 1].added
               PROVE  steps[k + 1].components = components \o SubSeq(comps, 1, k + 1)
    OBVIOUS
  <2>1. k + 1 \in 1..n /\ (k + 1) - 1 = k /\ k \in 0..n /\ k <= n BY <1>4
  <2> DEFINE r == steps[k]
             c == comps[k + 1]
  <2>2. steps[k + 1] = AddComponent(r, c) BY <1>3, <2>1
  <2>3. c \in Components /\ r \in Adding BY <1>3, <1>4, <2>1
  <2>4. r.added => r.components = components \o SubSeq(comps, 1, k) BY <1>6, <2>1
  <2>5. Append(SubSeq(comps, 1, k), c) = SubSeq(comps, 1, k + 1) /\ SubSeq(comps, 1, k) \in Seq(Components)
    BY <2>1 DEF n
  <2> HIDE DEF r, c
  <2>6. r.added BY <2>2 DEF AddComponent
  <2> DEFINE new == AddOperator(r.graph, Len(r.components), c.srcs, c.dsts, FALSE)
             more == IF new.added THEN Append(r.components, c) ELSE r.components
  <2>7. AddComponent(r, c) = [added |-> new.added, graph |-> new.graph, components |-> more]
    BY <2>6 DEF AddComponent
  <2> HIDE DEF new
  <2>8. steps[k + 1].components = Append(r.components, c) BY <2>2, <2>7
  <2> DEFINE p == SubSeq(comps, 1, k)
  <2>9. p \in Seq(Components) /\ Append(p, c) = SubSeq(comps, 1, k + 1) BY <2>5
  <2>10. r.components = components \o p BY <2>4, <2>6
  <2> HIDE DEF p
  <2>11. components \o Append(p, c) = Append(components \o p, c)
    BY ONLY <2>3, <2>9, components \in Seq(Components), AppendOne
  <2> QED BY <2>8, <2>9, <2>10, <2>11
<1> HIDE DEF S
<1>7. n \in S BY <1>4, <1>5, <1>6, SetInduction
<1>8. SubSeq(comps, 1, n) = comps BY DEF n
<1>9. n <= n /\ steps[n].added BY <1>3, <1>4
<1>10. steps[n].components = components \o SubSeq(comps, 1, n) BY <1>7, <1>9 DEF S
<1> QED BY <1>3, <1>8, <1>10

(* The components of a sketch are in an order to which the graph of        *)
(* components keeps, all their tensors exist, and those that no operator   *)
(* knows have no meaning for the user.                                     *)
Arranged ==
    /\ Ordered(components)
    /\ operators = <<>> => components = <<>>
    /\ \A t \in TensorsOf(components) : /\ t \in 1..Len(info)
                                        /\ t \in TensorsOf(operators) \/ meaning[t] = <<>>

(* An operator that can be fused is one component, with its tensors.       *)
Mirrors(c, op, infos) ==
    /\ c.srcs = op.srcs /\ c.dsts = op.dsts /\ Len(op.dsts) = 1 /\ op.dsts[1] \in 1..Len(infos)
    /\ \/ c.type \in {"Simple", "Output"}
       \/ c.type = "Complex" /\ op.type = "Complex" /\ ~op.isOutput

Splits(c) == c.type = "Unfusable" /\ Len(c.dsts) < MaxDstTensors

(* Unless they are those of one unfusable operator, the components are the *)
(* operators one by one, all of one shape, and a complex one is the first. *)
Mirrored(ops, comps, infos) ==
    IF ops[1].type = "Unfusable" THEN \A i \in 1..Len(comps) : Splits(comps[i])
    ELSE /\ Len(comps) = Len(ops) /\ Len(ops) <= MaxFusedOperators
         /\ \A i \in 1..Len(ops) : /\ Mirrors(comps[i], ops[i], infos)
                                   /\ infos[ops[i].dsts[1]].shape = infos[ops[1].dsts[1]].shape
         /\ \A i \in 2..Len(ops) : comps[i].type # "Complex"

OrderInv ==
    /\ \E S : meaning \in Seq(S)
    /\ Len(meaning) = Len(info)
    /\ stage # "raised" => Arranged /\ (operators # <<>> => Mirrored(operators, components, info))
    /\ StreamIsOrdered /\ OnlyUnfusableSplits

(* What a create_op brings: a component writes new tensors, or the output  *)
(* of the operator.                                                        *)
Supplies(op, comps, infos, means) ==
    /\ \E S : means \in Seq(S)
    /\ Len(means) = Len(infos) /\ Len(info) <= Len(infos)
    /\ \A t \in 1..Len(info) : meaning[t] = <<>> => means[t] = <<>>
    /\ \A t \in TensorsOf(comps) : /\ t \in 1..Len(infos)
                                   /\ t \in ToSet(op.srcs) \union ToSet(op.dsts) \/ means[t] = <<>>
    /\ \A j \in 1..Len(comps) : \A t \in ToSet(comps[j].dsts) :
          t > Len(info) \/ (t \in ToSet(op.dsts) /\ meaning[t] # <<>>)
    /\ ToSet(op.dsts) \intersect ToSet(op.srcs) = {} => Ordered(comps)
    /\ \A t \in 1..Len(info) : infos[t] = info[t]
    /\ IF op.type = "Unfusable" THEN \A j \in 1..Len(comps) : Splits(comps[j])
       ELSE Len(comps) = 1 /\ Mirrors(comps[1], op, infos)

LEMMA OneMoreTensors ==
    ASSUME NEW S, NEW added \in Seq(S), NEW e \in S
    PROVE  TensorsOf(Append(added, e)) = TensorsOf(added) \union ToSet(e.srcs) \union ToSet(e.dsts)
<1> DEFINE c == Append(added, e)
           n == Len(added)
<1>1. n \in Nat /\ Len(c) = n + 1 /\ c[n + 1] = e /\ \A i \in 1..n : c[i] = added[i] /\ i \in 1..n+1
  BY AppendedElements
<1>2. \A i \in 1..n+1 : i \in 1..n \/ i = n + 1 BY <1>1
<1>3. n + 1 \in 1..n+1 BY <1>1
<1> HIDE DEF c, n
<1>4. \A i \in 1..n : c[i] = added[i] /\ i \in 1..Len(c) BY <1>1
<1>5. ASSUME NEW t \in TensorsOf(c) PROVE t \in TensorsOf(added) \union ToSet(e.srcs) \union ToSet(e.dsts)
  <2>1. PICK i \in 1..n+1 : t \in ToSet(c[i].srcs) \union ToSet(c[i].dsts) BY <1>1 DEF TensorsOf
  <2>2. CASE i \in 1..n BY <1>4, <2>1, <2>2 DEF TensorsOf, n
  <2>3. CASE i = n + 1 BY <1>1, <2>1, <2>3
  <2> QED BY <1>2, <2>2, <2>3
<1>6. ASSUME NEW t \in TensorsOf(added) PROVE t \in TensorsOf(c)
  <2>1. PICK i \in 1..n : t \in ToSet(added[i].srcs) \union ToSet(added[i].dsts) BY DEF TensorsOf, n
  <2> QED BY <1>4, <2>1 DEF TensorsOf
<1>7. ToSet(e.srcs) \union ToSet(e.dsts) \subseteq TensorsOf(c) BY <1>1, <1>3 DEF TensorsOf
<1>8. TensorsOf(c) = TensorsOf(added) \union ToSet(e.srcs) \union ToSet(e.dsts) BY <1>5, <1>6, <1>7
<1> QED BY <1>8 DEF c

LEMMA OneOfTwo ==
    ASSUME NEW a, NEW b
    PROVE  /\ ToSet(<<a>>) = {a} /\ ToSet(<<a, b>>) = {a, b}
           /\ Len(<<a>>) = 1 /\ <<a>>[1] = a /\ <<a>> # <<>> /\ <<a, b>> # <<>>
           /\ Len(<<a, b>>) = 2 /\ <<a, b>>[1] = a /\ <<a, b>>[2] = b
<1>1. DOMAIN <<a>> = 1..1 /\ DOMAIN <<a, b>> = 1..2 OBVIOUS
<1>2. ToSet(<<a>>) = {a} BY <1>1 DEF ToSet
<1>3. ToSet(<<a, b>>) = {a, b}
  <2>1. \A i \in 1..2 : i = 1 \/ i = 2 OBVIOUS
  <2>2. 1 \in 1..2 /\ 2 \in 1..2 OBVIOUS
  <2> QED BY <1>1, <2>1, <2>2 DEF ToSet
<1> QED BY <1>2, <1>3

LEMMA OnlyElement ==
    ASSUME NEW S, NEW s \in Seq(S), Len(s) = 1
    PROVE  s[1] \in S /\ s = <<s[1]>>
<1> DEFINE a == <<s[1]>>
<1>1. s[1] \in S OBVIOUS
<1>2. a \in Seq(S) /\ Len(a) = 1 /\ a[1] = s[1] BY <1>1
<1> HIDE DEF a
<1>3. \A i \in 1..1 : i = 1 OBVIOUS
<1>4. s = [i \in 1..1 |-> s[i]] /\ a = [i \in 1..1 |-> a[i]] BY <1>2
<1>5. \A i \in 1..1 : s[i] = a[i] BY <1>2, <1>3
<1>6. s = a BY <1>4, <1>5
<1> QED BY <1>1, <1>6 DEF a

(* What try_add_operator of the group looks at: the root, the kind and the *)
(* shape.                                                                  *)
LEMMA OneMoreIsMirrored ==
    ASSUME SketchInv, NEW op \in Operators, NEW comps \in Seq(Components), NEW infos \in Seq(Infos),
           NEW means, Supplies(op, comps, infos, means), TryAddOperator(op, infos), Arranged,
           operators # <<>> => Mirrored(operators, components, info)
    PROVE  Mirrored(Append(operators, op), components \o comps, infos)
<1> DEFINE ops == Append(operators, op)
           all == components \o comps
           n == Len(operators)
<1>0. operators \in Seq(Operators) /\ components \in Seq(Components) /\ info \in Seq(Infos) BY DEF SketchInv
<1>1. n \in Nat /\ Len(ops) = n + 1 /\ ops[n + 1] = op /\ \A i \in 1..n : ops[i] = operators[i]
  BY <1>0, AppendedElements
<1>2. n < MaxFusedOperators /\ MaxFusedOperators \in Nat BY SketchAssumption DEF TryAddOperator
<1>3. /\ \A t \in 1..Len(info) : infos[t] = info[t]
      /\ Len(info) \in Nat /\ Len(infos) \in Nat /\ Len(info) <= Len(infos)
      /\ IF op.type = "Unfusable" THEN \A j \in 1..Len(comps) : Splits(comps[j])
         ELSE Len(comps) = 1 /\ Mirrors(comps[1], op, infos)
  BY <1>0 DEF Supplies
<1> HIDE DEF ops, n
<1>4. CASE operators = <<>>
  <2>1. components = <<>> BY <1>4 DEF Arranged
  <2>2. all = comps BY <2>1
  <2>3. n = 0 BY <1>4 DEF n
  <2> HIDE DEF all
  <2>4. Len(ops) = 1 /\ ops[1] = op BY <1>1, <2>3
  <2>5. \A i \in 1..1 : i = 1 OBVIOUS
  <2>6. \A i : i \notin 2..1 OBVIOUS
  <2>7. Mirrored(ops, comps, infos) BY <1>2, <1>3, <2>3, <2>4, <2>5, <2>6 DEF Mirrored
  <2> QED BY <2>2, <2>7 DEF ops, all
<1>5. CASE operators # <<>>
  <2>1. /\ operators[1].type # "Unfusable" /\ op.type = "Simple"
        /\ \A t \in ToSet(operators[1].dsts) \union ToSet(op.dsts) :
              infos[t].shape = infos[operators[1].dsts[1]].shape
    BY <1>5 DEF TryAddOperator
  <2>2. n >= 1
    <3>1. Len(operators) # 0 BY <1>0, <1>5
    <3> QED BY <1>1, <3>1 DEF n
  <2>3. /\ Len(components) = n
        /\ \A i \in 1..n : /\ Mirrors(components[i], operators[i], info)
                            /\ info[operators[i].dsts[1]].shape = info[operators[1].dsts[1]].shape
        /\ \A i \in 2..n : components[i].type # "Complex"
    BY <1>5, <2>1 DEF Mirrored, n
  <2>4. Len(comps) = 1 /\ Mirrors(comps[1], op, infos) BY <1>3, <2>1
  <2>5. /\ Len(all) = n + 1 /\ all[n + 1] = comps[1] /\ \A i \in 1..n : all[i] = components[i]
    <3>1. comps = <<comps[1]>> /\ comps[1] \in Components BY <2>4, OnlyElement
    <3> DEFINE c == comps[1]
    <3>2. c \in Components /\ all = components \o <<c>> BY <3>1
    <3> HIDE DEF c, all
    <3>3. all = Append(components, c) BY <1>0, <3>2, AppendOne
    <3>4. /\ Len(all) = Len(components) + 1 /\ all[Len(components) + 1] = c
          /\ \A i \in 1..Len(components) : all[i] = components[i]
      BY <1>0, <3>2, <3>3, AppendedElements
    <3> QED BY <2>3, <3>4 DEF c
  <2> HIDE DEF all
  <2>6. ops[1] = operators[1] /\ 1 \in 1..n BY <1>1, <2>2
  <2> DEFINE r == operators[1].dsts[1]
  <2>7. r \in 1..Len(info) /\ infos[r] = info[r] BY <1>3, <2>3, <2>6 DEF Mirrors
  <2>8. ASSUME NEW i \in 1..n+1
        PROVE  Mirrors(all[i], ops[i], infos) /\ infos[ops[i].dsts[1]].shape = infos[r].shape
    <3>1. CASE i \in 1..n
      <4>1. all[i] = components[i] /\ ops[i] = operators[i] BY <1>1, <2>5, <3>1
      <4>2. Mirrors(components[i], operators[i], info) /\ info[operators[i].dsts[1]].shape = info[r].shape
        BY <2>3, <3>1
      <4>3. operators[i].dsts[1] \in 1..Len(info) BY <4>2 DEF Mirrors
      <4>4. operators[i].dsts[1] \in 1..Len(infos) BY <1>3, <4>3
      <4>5. Mirrors(components[i], operators[i], infos) BY <4>2, <4>4 DEF Mirrors
      <4> QED BY <1>3, <2>7, <4>1, <4>2, <4>3, <4>5
    <3>2. CASE i = n + 1
      <4>1. all[i] = comps[1] /\ ops[i] = op BY <1>1, <2>5, <3>2
      <4>2. op.dsts[1] \in ToSet(op.dsts)
        <5>1. Len(op.dsts) = 1 /\ op.dsts \in Seq(Nat) BY <2>4 DEF Mirrors, Operators
        <5>2. 1 \in DOMAIN op.dsts BY <5>1
        <5> QED BY <5>2 DEF ToSet
      <4> QED BY <2>1, <2>4, <4>1, <4>2
    <3> QED BY <1>1, <3>1, <3>2
  <2> HIDE DEF r
  <2>9. ASSUME NEW i \in 2..n+1 PROVE all[i].type # "Complex"
    <3>1. CASE i \in 2..n
      <4>1. i \in 1..n BY <1>1, <3>1
      <4> QED BY <2>3, <2>5, <3>1, <4>1
    <3>2. CASE i = n + 1
      <4>1. all[i] = comps[1] BY <2>5, <3>2
      <4>2. comps[1].type # "Complex" BY <2>1, <2>4 DEF Mirrors
      <4> QED BY <4>1, <4>2
    <3> QED BY <1>1, <3>1, <3>2
  <2>10. infos[ops[1].dsts[1]].shape = infos[r].shape BY <2>6 DEF r
  <2>11. n + 1 <= MaxFusedOperators BY <1>1, <1>2
  <2>12. Mirrored(ops, all, infos) BY <1>1, <2>1, <2>5, <2>6, <2>8, <2>9, <2>10, <2>11 DEF Mirrored
  <2> QED BY <2>12 DEF ops, all
<1> QED BY <1>4, <1>5

LEMMA CreateOpKeepsOrder ==
    ASSUME SketchInv, OrderInv, NEW op \in Operators, NEW comps \in Seq(Components), NEW infos \in Seq(Infos),
           NEW means, Supplies(op, comps, infos, means), CreateOp(op, comps, infos, means)
    PROVE  OrderInv'
<1> DEFINE parts == AddComponents(comps)
           new   == AddOperator(group, Len(operators), op.srcs, op.dsts, op.isOutput)
<1>0. /\ info \in Seq(Infos) /\ operators \in Seq(Operators) /\ components \in Seq(Components)
      /\ Reflects(group, operators) /\ Reflects(graph, components)
  BY DEF SketchInv
<1>1. parts.added => parts.components = components \o comps
  <2>1. graph \in Edges BY DEF SketchInv, Reflects, WellFormed, Edges
  <2> QED BY <1>0, <2>1, AllAreAdded
<1>2. op.srcs \in Seq(Nat) /\ op.dsts \in Seq(Nat) /\ op.isOutput \in BOOLEAN BY DEF Operators
<1>3. Wired(operators) BY <1>0, TypedIsWired
<1>4. Outcome(new, group, operators, op, op.isOutput) BY <1>0, <1>2, <1>3, AddOperatorFacts
<1>5. /\ info' = infos /\ meaning' = means /\ components' = parts.components /\ stage = "sketch"
      /\ \/ parts.added /\ new.added /\ operators' = Append(operators, op) /\ stage' = stage
         \/ stage' = "raised"
  BY DEF CreateOp, Answer
<1>6. TryAddOperatorAsLinear(group, op.srcs, op.dsts) BY DEF CreateOp, TryAddOperator
<1> HIDE DEF parts, new
<1>7. (\E S : meaning' \in Seq(S)) /\ Len(meaning') = Len(info') BY <1>5 DEF Supplies
<1>8. StreamIsOrdered' /\ OnlyUnfusableSplits' BY <1>5 DEF StreamIsOrdered, OnlyUnfusableSplits, Fused
<1>9. CASE stage' = "raised" BY <1>7, <1>8, <1>9 DEF OrderInv
<1>10. CASE parts.added /\ new.added /\ operators' = Append(operators, op) /\ stage' = stage
  <2>1. ToSet(op.dsts) \intersect ToSet(op.srcs) = {} BY <1>4, <1>10 DEF Outcome
  <2>2. Arranged /\ (operators # <<>> => Mirrored(operators, components, info)) BY <1>5 DEF OrderInv
  <2>3. components' = components \o comps BY <1>1, <1>5, <1>10
  <2>4. Ordered(comps) BY <2>1 DEF Supplies
  <2>5. ASSUME NEW t \in ToSet(op.dsts), t \in TensorsOf(operators) PROVE components = <<>>
    <3>1. t \in AllTensors(group) BY <1>0, <2>5 DEF Reflects
    <3>2. AllOps(group) = {} BY <1>6, <3>1 DEF TryAddOperatorAsLinear, ToSet
    <3>3. Len(operators) = 0
      <4> DEFINE n == Len(operators)
      <4>1. AllOps(group) = 0..n-1 /\ n \in Nat BY <1>0 DEF Reflects
      <4> HIDE DEF n
      <4>2. n # 0 => 0 \in 0..n-1 BY <4>1
      <4>3. n = 0 BY <3>2, <4>1, <4>2
      <4> QED BY <4>3 DEF n
    <3>4. operators = <<>> BY <1>0, <3>3
    <3> QED BY <2>2, <3>4 DEF Arranged
  <2>6. ASSUME NEW j \in 1..Len(comps) PROVE ToSet(comps[j].dsts) \intersect TensorsOf(components) = {}
    <3> SUFFICES ASSUME NEW t \in ToSet(comps[j].dsts), t \in TensorsOf(components) PROVE FALSE OBVIOUS
    <3>1. t \in 1..Len(info) /\ (t \in TensorsOf(operators) \/ meaning[t] = <<>>) BY <2>2 DEF Arranged
    <3>2. t \in ToSet(op.dsts) /\ meaning[t] # <<>> BY <1>0, <3>1 DEF Supplies
    <3>3. components = <<>> BY <2>5, <3>1, <3>2
    <3>4. TensorsOf(<<>>) = {}
      <4>1. Len(<<>>) = 0 /\ \A i : i \notin 1..0 OBVIOUS
      <4> QED BY <4>1 DEF TensorsOf
    <3> QED BY <3>3, <3>4
  <2>7. Ordered(components') BY <1>0, <2>2, <2>3, <2>4, <2>6, OrderedJoins DEF Arranged
  <2>8. operators' # <<>>
    <3> DEFINE a == Append(operators, op)
    <3>1. Len(a) = Len(operators) + 1 /\ Len(operators) \in Nat BY <1>0, AppendedElements
    <3> HIDE DEF a
    <3>2. a # <<>>
      <4>1. a = <<>> => Len(a) = 0 OBVIOUS
      <4>2. Len(a) # 0 BY <3>1
      <4> QED BY <4>1, <4>2
    <3> QED BY <1>10, <3>2
  <2>9. TensorsOf(operators') = TensorsOf(operators) \union ToSet(op.srcs) \union ToSet(op.dsts)
    BY <1>0, <1>10, OneMoreTensors
  <2>10. TensorsOf(components') = TensorsOf(components) \union TensorsOf(comps)
    BY <1>0, <2>3, TensorsJoin
  <2>11. Len(info) \in Nat /\ Len(infos) \in Nat /\ Len(info) <= Len(infos) BY <1>0 DEF Supplies
  <2>12. ASSUME NEW t \in TensorsOf(components')
         PROVE  t \in 1..Len(info') /\ (t \in TensorsOf(operators') \/ meaning'[t] = <<>>)
    <3>1. CASE t \in TensorsOf(components)
      <4>1. t \in 1..Len(info) /\ (t \in TensorsOf(operators) \/ meaning[t] = <<>>) BY <2>2, <3>1 DEF Arranged
      <4>2. t \in 1..Len(infos) BY <2>11, <4>1
      <4>3. meaning[t] = <<>> => means[t] = <<>> BY <4>1 DEF Supplies
      <4> QED BY <1>5, <2>9, <4>1, <4>2, <4>3
    <3>2. CASE t \in TensorsOf(comps) BY <1>5, <2>9, <3>2 DEF Supplies
    <3> QED BY <2>10, <3>1, <3>2
  <2>13. Arranged' BY <2>7, <2>8, <2>12 DEF Arranged
  <2>14. Mirrored(operators', components', info')
    <3>1. TryAddOperator(op, infos) BY DEF CreateOp
    <3>2. Mirrored(Append(operators, op), components \o comps, infos) BY <2>2, <3>1, OneMoreIsMirrored
    <3> QED BY <1>5, <1>10, <2>3, <3>2
  <2>15. (operators # <<>> => Mirrored(operators, components, info))'
    BY <2>14
  <2> QED BY <1>7, <1>8, <2>13, <2>15 DEF OrderInv
<1> QED BY <1>5, <1>9, <1>10

(* The graph of components is one that build_operators_sequence orders.    *)
LEMMA ArrangedIsLayered ==
    ASSUME SketchInv, Arranged
    PROVE  Layered(graph, Len(components)) /\ AllTensors(graph) \subseteq 1..Len(info)
<1> DEFINE n == Len(components)
           g == graph
           added == components
<1>1. added \in Seq(Components) /\ Reflects(g, added) /\ Wired(added) BY TypedIsWired DEF SketchInv
<1>2. n \in Nat /\ AllOps(g) = 0..n-1 /\ AllTensors(g) = TensorsOf(added) BY <1>1 DEF Reflects
<1>3. AllTensors(g) \subseteq Nat BY <1>1, <1>2, TensorsAreNumbers
<1>4. Ordered(added) BY DEF Arranged
<1> HIDE DEF g, added, n
<1>5. ASSUME NEW o \in 0..n-1
      PROVE  /\ o + 1 \in 1..n /\ o + 1 \in 1..Len(added)
             /\ Reads(g, o) = ToSet(added[o + 1].srcs) /\ Makes(g, o) = ToSet(added[o + 1].dsts)
  <2>1. o + 1 \in 1..n /\ (o + 1) - 1 = o BY <1>2
  <2>2. o + 1 \in 1..Len(added) BY <2>1 DEF n, added
  <2>3. ToSet(g.srcTensors[(o + 1) - 1]) = ToSet(added[o + 1].srcs) /\ ToSet(g.dstTensors[(o + 1) - 1]) = ToSet(added[o + 1].dsts)
    BY <1>1, <2>2 DEF Reflects
  <2> QED BY <2>1, <2>2, <2>3 DEF Reads, Makes
<1>6. /\ g.dstTensors \in Lists /\ DOMAIN g.dstTensors = AllOps(g)
      /\ g.dstOps \in Lists /\ DOMAIN g.dstOps = AllTensors(g)
  BY <1>1 DEF Reflects, WellFormed
<1>7. ASSUME NEW o \in AllOps(g)
      PROVE  /\ g.dstTensors[o] \in Seq(AllTensors(g))
             /\ Reads(g, o) \subseteq AllTensors(g) /\ Reads(g, o) # {}
             /\ \A t \in Reads(g, o) : t \in Roots(g) \/ \E m \in 0..o-1 : t \in Makes(g, m)
  <2>1. o \in 0..n-1 /\ o \in Int BY <1>2
  <2>2. o + 1 \in 1..Len(added) /\ Reads(g, o) = ToSet(added[o + 1].srcs) /\ Makes(g, o) = ToSet(added[o + 1].dsts)
    BY <1>5, <2>1
  <2>3. Reads(g, o) \subseteq AllTensors(g) /\ Makes(g, o) \subseteq AllTensors(g) BY <1>2, <2>2 DEF TensorsOf
  <2>4. g.dstTensors[o] \in Seq(AllTensors(g))
    <3>1. g.dstTensors[o] \in Seq(Nat) BY <1>6, ListIs
    <3> QED BY <2>3, <3>1 DEF Makes, ToSet
  <2>5. Reads(g, o) # {}
    <3>1. added[o + 1].srcs \in Seq(Nat) /\ added[o + 1].srcs # <<>> BY <1>1, <1>4, <2>2 DEF Wired, Ordered
    <3> QED BY <2>2, <3>1, ToSetEmpty
  <2>6. ASSUME NEW t \in Reads(g, o), t \notin Roots(g) PROVE \E m \in 0..o-1 : t \in Makes(g, m)
    <3>1. t \in AllTensors(g) /\ t \in Nat /\ HasSource(g, t) BY <1>3, <2>3, <2>6 DEF Roots
    <3>2. PICK m \in 0..n-1 : t \in ToSet(added[m + 1].dsts)
      <4>1. MakersIn(added, t) # {} BY <1>1, <3>1, HasSourceIsMade
      <4> QED BY <4>1 DEF MakersIn, n, added
    <3>3. m + 1 \in 1..Len(added) /\ Makes(g, m) = ToSet(added[m + 1].dsts) BY <1>5
    <3>4. t \in ToSet(added[o + 1].srcs) BY <2>2
    <3>5. o + 1 \notin 1..m+1 BY <1>4, <3>2, <3>3, <3>4 DEF Ordered
    <3>6. m \in 0..o-1 BY <1>2, <2>1, <3>5
    <3> QED BY <3>2, <3>3, <3>6
  <2> QED BY <2>3, <2>4, <2>5, <2>6
<1>8. ASSUME NEW t \in AllTensors(g)
      PROVE  /\ g.dstOps[t] \in Seq(AllOps(g))
             /\ ToSet(g.dstOps[t]) = {o \in AllOps(g) : t \in Reads(g, o)}
  <2>1. t \in Nat BY <1>3
  <2>2. g.dstOps[t] \in Seq(Nat) BY <1>6, ListIs
  <2>3. ToSet(g.dstOps[t]) = ReadersIn(added, t) BY <1>1, <2>1 DEF Reflects, ReadersOf
  <2>4. ReadersIn(added, t) = {o \in AllOps(g) : t \in Reads(g, o)}
    <3>1. ReadersIn(added, t) = {o \in 0..n-1 : t \in ToSet(added[o + 1].srcs)} BY DEF ReadersIn, n, added
    <3> QED BY <1>2, <1>5, <3>1
  <2>5. g.dstOps[t] \in Seq(AllOps(g)) BY <2>2, <2>3, <2>4 DEF ToSet
  <2> QED BY <2>3, <2>4, <2>5
<1>9. Layered(g, n) BY <1>2, <1>7, <1>8 DEF Layered
<1>10. AllTensors(g) \subseteq 1..Len(info) BY <1>2 DEF Arranged, added
<1> QED BY <1>9, <1>10 DEF g, n

(* The list that fuse() goes through has every component once, and after   *)
(* those whose results it reads.                                           *)
InOrder(list) ==
    /\ list \in Seq(Components)
    /\ ToSet(list) = ToSet(components) /\ Len(list) = Len(components)
    /\ \A i, j \in DOMAIN list :
          /\ ToSet(list[i].dsts) \intersect ToSet(list[j].srcs) # {} => i < j
          /\ ToSet(list[i].dsts) \intersect ToSet(list[j].dsts) # {} => i = j

LEMMA BuiltInOrder ==
    ASSUME SketchInv, Arranged
    PROVE  InOrder(BuiltOrder)
<1> DEFINE n == Len(components)
           g == graph
           s == BuildOperatorsSequence(graph)
           list == BuiltOrder
<1>1. components \in Seq(Components) /\ Reflects(g, components) /\ Ordered(components) BY DEF SketchInv, Arranged
<1>2. n \in Nat /\ AllOps(g) = 0..n-1 BY <1>1 DEF Reflects
<1>3. Layered(g, n) /\ AllTensors(g) \subseteq 1..Len(info) BY ArrangedIsLayered
<1>4. /\ s \in Seq(AllOps(g)) /\ Len(s) = n /\ ToSet(s) = AllOps(g)
      /\ \A i, j \in 1..Len(s) : s[i] = s[j] => i = j
      /\ \A i \in 1..Len(s) : \A t \in Reads(g, s[i]) : MadeBefore(g, s, i, t)
  <2>1. Len(info) \in Nat BY DEF SketchInv
  <2> QED BY <1>3, <2>1, SequenceIsOrder
<1> HIDE DEF s
<1>5. DOMAIN s = 1..n BY <1>4
<1>6. list = [i \in 1..n |-> components[s[i] + 1]] BY <1>5, Zenon DEF BuiltOrder, s
<1>7. \A o \in AllOps(g) : o + 1 \in 1..n /\ o \in Int BY <1>2
<1>8. \A i \in 1..n : s[i] \in AllOps(g) BY <1>4
<1> HIDE DEF list, g
<1>9. ASSUME NEW o \in AllOps(g)
      PROVE  Reads(g, o) = ToSet(components[o + 1].srcs) /\ Makes(g, o) = ToSet(components[o + 1].dsts)
  <2>1. o + 1 \in 1..Len(components) /\ (o + 1) - 1 = o BY <1>7
  <2>2. /\ ToSet(g.srcTensors[(o + 1) - 1]) = ToSet(components[o + 1].srcs)
        /\ ToSet(g.dstTensors[(o + 1) - 1]) = ToSet(components[o + 1].dsts)
    BY <1>1, <2>1 DEF Reflects
  <2> QED BY <2>1, <2>2 DEF Reads, Makes
<1>10. list \in Seq(Components) /\ Len(list) = n /\ DOMAIN list = 1..n
  <2>1. \A i \in 1..n : components[s[i] + 1] \in Components BY <1>1, <1>7, <1>8
  <2> QED BY <1>2, <1>6, <2>1
<1>11. ToSet(list) = ToSet(components)
  <2>1. ASSUME NEW c \in ToSet(list) PROVE c \in ToSet(components)
    <3>1. PICK i \in 1..n : c = components[s[i] + 1] BY <1>6, <1>10 DEF ToSet
    <3>2. s[i] + 1 \in DOMAIN components BY <1>1, <1>7, <1>8
    <3> QED BY <3>1, <3>2 DEF ToSet
  <2>2. ASSUME NEW c \in ToSet(components) PROVE c \in ToSet(list)
    <3>1. PICK k \in 1..n : c = components[k] BY <1>1 DEF ToSet
    <3>2. k - 1 \in AllOps(g) /\ (k - 1) + 1 = k BY <1>2
    <3>3. PICK i \in 1..n : s[i] = k - 1 BY <1>4, <1>5, <3>2 DEF ToSet
    <3>4. list[i] = components[s[i] + 1] BY <1>6
    <3>5. list[i] = c BY <3>1, <3>2, <3>3, <3>4
    <3> QED BY <1>10, <3>5 DEF ToSet
  <2> QED BY <2>1, <2>2
<1>12. ASSUME NEW i \in 1..n, NEW j \in 1..n, NEW t \in ToSet(list[i].dsts) \intersect ToSet(list[j].dsts)
        PROVE  i = j
  <2> DEFINE p == s[i] + 1
             q == s[j] + 1
  <2>1. s[i] \in AllOps(g) /\ s[j] \in AllOps(g) BY <1>8
  <2>2. p \in 1..n /\ q \in 1..n /\ s[i] \in Int /\ s[j] \in Int BY <1>7, <2>1
  <2>3. t \in ToSet(components[p].dsts) /\ t \in ToSet(components[q].dsts) BY <1>6, <1>12
  <2> HIDE DEF p, q
  <2>4. p \notin 1..q-1 /\ q \notin 1..p-1 BY <1>1, <2>2, <2>3 DEF Ordered
  <2>5. p = q BY <1>2, <2>2, <2>4
  <2>6. s[i] = s[j] BY <2>2, <2>5 DEF p, q
  <2> QED BY <1>4, <2>6
<1>13. ASSUME NEW i \in 1..n, NEW j \in 1..n, NEW t \in ToSet(list[i].dsts) \intersect ToSet(list[j].srcs)
       PROVE  i < j
  <2>1. s[i] \in AllOps(g) /\ s[j] \in AllOps(g) BY <1>8
  <2>2. t \in Makes(g, s[i]) /\ t \in Reads(g, s[j]) BY <1>6, <1>9, <1>13, <2>1
  <2>3. MadeBefore(g, s, j, t) BY <1>4, <2>2
  <2>4. t \notin Roots(g)
    <3>1. t \in AllTensors(g) /\ t \in Nat
      <4>1. t \in AllTensors(g) BY <1>3, <2>1, <2>2 DEF Layered
      <4>2. AllTensors(g) \subseteq Nat BY <1>3
      <4> QED BY <4>1, <4>2
    <3>2. s[i] \in 0..n-1 /\ t \in ToSet(components[s[i] + 1].dsts) BY <1>2, <1>9, <2>1, <2>2
    <3>3. MakersIn(components, t) # {} BY <3>2 DEF MakersIn
    <3> QED BY <1>1, <3>1, <3>3, HasSourceIsMade DEF Roots
  <2>5. PICK k \in 1..j-1 : t \in Makes(g, s[k]) BY <2>3, <2>4 DEF MadeBefore
  <2>6. k \in 1..n /\ j \in Int BY <1>2
  <2>7. s[k] \in AllOps(g) BY <1>8, <2>6
  <2>8. \E x : x \in ToSet(list[k].dsts) \intersect ToSet(list[i].dsts)
    BY <1>6, <1>9, <2>1, <2>2, <2>5, <2>6, <2>7
  <2>9. k = i BY <1>12, <2>6, <2>8
  <2> QED BY <2>6, <2>9
<1>14. InOrder(list) BY <1>10, <1>11, <1>12, <1>13 DEF InOrder
<1> QED BY <1>14 DEF list

LEMMA StreamIsBuilt ==
    ASSUME SketchInv, Arranged
    PROVE  /\ ComponentGroups \in Seq(Seq(Components)) /\ FlattenSeq(ComponentGroups) = BuiltOrder
           /\ InOrder(BuiltOrder)
<1>1. InOrder(BuiltOrder) BY BuiltInOrder
<1> DEFINE list == BuiltOrder
<1>2. list \in Seq(Components) BY <1>1 DEF InOrder
<1>3. list = BuiltOrder OBVIOUS
<1> HIDE DEF list
<1>4. ComponentGroups \in Seq(Seq(Components)) /\ FlattenSeq(ComponentGroups) = list
  BY <1>2, <1>3, GroupsAreFlat
<1> QED BY <1>1, <1>3, <1>4

(* Groups that begin with an unfusable component.                          *)
Rooted(groups) == \A k \in 1..Len(groups) : groups[k] # <<>> /\ groups[k][1].type = "Unfusable"

LEMMA StartOfLonger ==
    ASSUME NEW V, NEW s \in Seq(V), NEW e \in V
    PROVE  Append(s, e) # <<>> /\ Append(s, e)[1] = IF s = <<>> THEN e ELSE s[1]
<1> DEFINE a == Append(s, e)
           n == Len(s)
<1>1. /\ a \in Seq(V) /\ Len(a) = n + 1 /\ n \in Nat /\ a[n + 1] = e /\ \A i \in 1..n : a[i] = s[i]
  BY AppendedElements
<1>2. s = <<>> => n = 0 OBVIOUS
<1>3. s # <<>> => n # 0 OBVIOUS
<1>4. a = <<>> => Len(a) = 0 OBVIOUS
<1> HIDE DEF a, n
<1>5. a # <<>> BY <1>1, <1>4
<1>6. CASE s = <<>> BY <1>1, <1>2, <1>5, <1>6 DEF a
<1>7. CASE s # <<>>
  <2>1. 1 \in 1..n BY <1>1, <1>3, <1>7
  <2> QED BY <1>1, <1>5, <1>7, <2>1 DEF a
<1> QED BY <1>6, <1>7

LEMMA RootedOneMore ==
    ASSUME NEW V, NEW f \in Seq(Seq(V)), Rooted(f), NEW g \in Seq(V), g # <<>>, g[1].type = "Unfusable"
    PROVE  Rooted(Append(f, g))
<1> DEFINE a == Append(f, g)
           n == Len(f)
<1>1. Len(a) = n + 1 /\ n \in Nat /\ a[n + 1] = g /\ \A i \in 1..n : a[i] = f[i] BY AppendedElements
<1> HIDE DEF a, n
<1>2. \A k \in 1..n+1 : k \in 1..n \/ k = n + 1 BY <1>1
<1>3. Rooted(a) BY <1>1, <1>2 DEF Rooted, n
<1> QED BY <1>3 DEF a

LEMMA FuseUnfusable ==
    ASSUME NEW groups \in Seq(Seq(Components)), groups # <<>>,
           groups = <<<<>>>> \/ Rooted(groups), NEW c \in Components, Splits(c)
    PROVE  Rooted(Fuse(groups, c))
<1> DEFINE l == Last(groups)
           f == Front(groups)
           n == Len(groups)
<1>1. /\ l \in Seq(Components) /\ f \in Seq(Seq(Components)) /\ groups = Append(f, l)
      /\ n \in Nat /\ n >= 1 /\ l = groups[n] /\ Len(f) = n - 1 /\ \A k \in 1..n-1 : f[k] = groups[k]
      /\ \A x \in Seq(Components) : ReplaceAt(groups, Len(groups), x) = Append(f, x)
  BY EndOfList
<1>2. Append(l, c) \in Seq(Components) /\ <<c>> \in Seq(Components) /\ <<c>> # <<>> /\ <<c>>[1] = c
  BY <1>1, ShortSequences, OneOfTwo
<1>3. c.type = "Unfusable" BY DEF Splits
<1> HIDE DEF l, f, n
<1>4. CASE Rooted(groups)
  <2>1. Rooted(f) BY <1>1, <1>4 DEF Rooted, n
  <2>2. l # <<>> /\ l[1].type = "Unfusable" BY <1>1, <1>4 DEF Rooted, n
  <2>3. CASE Accepts(l, c, info)
    <3>1. Fuse(groups, c) = Append(f, Append(l, c)) BY <1>1, <1>2, <2>3 DEF Fuse, l
    <3>2. Append(l, c) # <<>> /\ Append(l, c)[1].type = "Unfusable" BY <1>1, <2>2, StartOfLonger
    <3> QED BY <1>1, <1>2, <2>1, <3>1, <3>2, RootedOneMore
  <2>4. CASE ~Accepts(l, c, info)
    <3>1. Fuse(groups, c) = Append(groups, <<c>>) BY <2>4 DEF Fuse, l
    <3> QED BY <1>2, <1>3, <1>4, <3>1, RootedOneMore
  <2> QED BY <2>3, <2>4
<1>5. CASE groups = <<<<>>>>
  <2>1. Len(groups) = 1 /\ groups[1] = <<>> BY <1>5
  <2>2. n = 1 /\ l = <<>> BY <1>1, <2>1 DEF n
  <2>3. Accepts(l, c, info)
    <3>1. Len(l) = 0 /\ Len(c.dsts) < MaxDstTensors /\ 0 < MaxFusedComponents
      BY <2>2, SketchAssumption DEF Splits
    <3> QED BY <1>3, <2>2, <3>1 DEF Accepts
  <2>4. Fuse(groups, c) = Append(f, Append(l, c)) BY <1>1, <1>2, <2>3 DEF Fuse, l
  <2>5. Append(l, c) # <<>> /\ Append(l, c)[1].type = "Unfusable" BY <1>1, <1>3, <2>2, StartOfLonger
  <2>6. Rooted(f) BY <1>1, <2>2 DEF Rooted
  <2> QED BY <1>1, <1>2, <2>4, <2>5, <2>6, RootedOneMore
<1> QED BY <1>4, <1>5

(* A list of unfusable components makes groups with an unfusable root.     *)
LEMMA UnfusableGroups ==
    ASSUME NEW list \in Seq(Components), list = BuiltOrder, list # <<>>,
           \A k \in 1..Len(list) : Splits(list[k])
    PROVE  Rooted(ComponentGroups)
<1> DEFINE V == {v \in Seq(Seq(Components)) : v # <<>>}
           n == Len(list)
<1>1. n \in Nat /\ n >= 1 /\ \A k \in 1..n : list[k] \in Components OBVIOUS
<1>2. <<<<>>>> \in Seq(Seq(Components)) /\ <<<<>>>> # <<>> OBVIOUS
<1>3. <<<<>>>> \in V BY <1>2
<1>4. \A c \in Components, v \in V : Fuse(v, c) \in V BY FuseAppends
<1> HIDE DEF V, n
<1>5. PICK steps \in [0..n -> V] : Fusing(steps)
  BY <1>3, <1>4, FusingSteps DEF n
<1> DEFINE S == {k \in Nat : k <= n => IF k = 0 THEN steps[k] = <<<<>>>> ELSE Rooted(steps[k])}
<1>6. 0 \in S BY <1>5 DEF Fusing
<1>7. ASSUME NEW k \in Nat, k \in S PROVE k + 1 \in S
  <2> SUFFICES ASSUME k + 1 <= n PROVE Rooted(steps[k + 1]) OBVIOUS
  <2>1. k + 1 \in 1..n /\ (k + 1) - 1 = k /\ k \in 0..n /\ k <= n BY <1>1
  <2>2. steps[k + 1] = Fuse(steps[k], list[k + 1]) BY <1>5, <2>1 DEF Fusing, n
  <2>3. steps[k] \in Seq(Seq(Components)) /\ steps[k] # <<>> BY <1>5, <2>1 DEF V
  <2>4. list[k + 1] \in Components /\ Splits(list[k + 1]) BY <1>1, <2>1 DEF n
  <2>5. steps[k] = <<<<>>>> \/ Rooted(steps[k]) BY <1>7, <2>1
  <2> HIDE DEF S
  <2> QED BY <2>2, <2>3, <2>4, <2>5, FuseUnfusable
<1> HIDE DEF S
<1>8. n \in S BY <1>1, <1>6, <1>7, SetInduction
<1>9. Rooted(steps[n]) BY <1>1, <1>8 DEF S
<1> QED BY <1>5, <1>9 DEF Fusing, n

(* What GpuKernelComponentGroup::add_component accepts from the first      *)
(* component to the last.                                                  *)
Fits(list) ==
    /\ list # <<>> /\ Len(list) <= MaxFusedComponents /\ list[1].type # "Unfusable"
    /\ \A k \in 1..Len(list) : /\ Len(list[k].dsts) = 1
                               /\ info[list[k].dsts[1]].shape = info[list[1].dsts[1]].shape
    /\ \A k \in 2..Len(list) : list[k].type \in {"Simple", "Output"}

LEMMA OneDestination ==
    ASSUME NEW s \in Seq(Nat), Len(s) = 1
    PROVE  ToSet(s) = {s[1]}
<1>1. s = <<s[1]>> BY OnlyElement
<1> QED BY <1>1, OneOfTwo

LEMMA FitsIsAccepted ==
    ASSUME NEW list \in Seq(Components), Fits(list), NEW k \in Nat, k + 1 <= Len(list)
    PROVE  Accepts(SubSeq(list, 1, k), list[k + 1], info)
<1> DEFINE taken == SubSeq(list, 1, k)
           c == list[k + 1]
<1>1. /\ taken \in Seq(Components) /\ Len(taken) = k /\ \A i \in 1..k : taken[i] = list[i]
      /\ taken # <<>> => k # 0
  OBVIOUS
<1>2. k + 1 \in 1..Len(list) /\ 1 \in 1..Len(list) /\ Len(list) \in Nat OBVIOUS
<1>3. c \in Components /\ list[1] \in Components /\ Len(list) <= MaxFusedComponents BY <1>2 DEF Fits
<1>4. Len(c.dsts) = 1 /\ info[c.dsts[1]].shape = info[list[1].dsts[1]].shape /\ Len(list[1].dsts) = 1 BY <1>2 DEF Fits
<1>5. ToSet(c.dsts) = {c.dsts[1]} /\ ToSet(list[1].dsts) = {list[1].dsts[1]}
  BY <1>3, <1>4, OneDestination DEF Components
<1> HIDE DEF taken
<1>6. MaxFusedComponents \in Nat /\ MaxDstTensors \in Nat /\ 2 < MaxDstTensors
  BY SketchAssumption, LimitsAssumption
<1>7. k < MaxFusedComponents /\ k < MaxFusedComponents + MaxDstTensors BY <1>2, <1>3, <1>6
<1>8. Len(c.dsts) < MaxDstTensors BY <1>4, <1>6
<1>9. ASSUME taken # <<>>
      PROVE  /\ taken[1].type # "Unfusable"
             /\ c.type \in {"Simple", "Output"}
             /\ \A t \in ToSet(taken[1].dsts) \union ToSet(c.dsts) :
                    info[t].shape = info[taken[1].dsts[1]].shape
  <2>1. 1 \in 1..k /\ k + 1 \in 2..Len(list) BY <1>1, <1>2, <1>9
  <2>2. taken[1] = list[1] BY <1>1, <2>1
  <2>3. list[1].type # "Unfusable" BY DEF Fits
  <2>4. c.type \in {"Simple", "Output"} BY <2>1 DEF Fits
  <2> QED BY <1>4, <1>5, <2>2, <2>3, <2>4
<1> HIDE DEF c
<1>10. Accepts(taken, c, info) BY <1>1, <1>4, <1>7, <1>8, <1>9 DEF Accepts
<1> QED BY <1>10 DEF taken, c

LEMMA OneGroup ==
    ASSUME NEW list \in Seq(Components), list = BuiltOrder, Fits(list)
    PROVE  ComponentGroups = <<list>>
<1> DEFINE V == {v \in Seq(Seq(Components)) : v # <<>>}
           n == Len(list)
<1>1. n \in Nat /\ \A k \in 1..n : list[k] \in Components OBVIOUS
<1>2. <<<<>>>> \in Seq(Seq(Components)) /\ <<<<>>>> # <<>> OBVIOUS
<1>3. <<<<>>>> \in V BY <1>2
<1>4. \A c \in Components, v \in V : Fuse(v, c) \in V BY FuseAppends
<1> HIDE DEF V, n
<1>5. PICK steps \in [0..n -> V] : Fusing(steps)
  BY <1>3, <1>4, FusingSteps DEF n
<1> DEFINE S == {k \in Nat : k <= n => steps[k] = <<SubSeq(list, 1, k)>>}
<1>6. 0 \in S
  <2>1. SubSeq(list, 1, 0) = <<>> OBVIOUS
  <2> QED BY <1>5, <2>1 DEF Fusing
<1>7. ASSUME NEW k \in Nat, k \in S PROVE k + 1 \in S
  <2> SUFFICES ASSUME k + 1 <= n PROVE steps[k + 1] = <<SubSeq(list, 1, k + 1)>> OBVIOUS
  <2> DEFINE taken == SubSeq(list, 1, k)
             c == list[k + 1]
             x == Append(taken, c)
  <2>1. k + 1 \in 1..n /\ (k + 1) - 1 = k /\ k <= n BY <1>1
  <2>2. steps[k + 1] = Fuse(steps[k], c) BY <1>5, <2>1 DEF Fusing, n
  <2>3. steps[k] = <<taken>> BY <1>7, <2>1
  <2>4. Accepts(taken, c, info) BY <2>1, FitsIsAccepted DEF n
  <2>5. taken \in Seq(Components) /\ c \in Components /\ x = SubSeq(list, 1, k + 1) BY <1>1, <2>1 DEF n
  <2> HIDE DEF taken, c, S
  <2>6. x \in Seq(Components) BY <2>5, AppendedElements
  <2> HIDE DEF x
  <2> DEFINE one == <<taken>>
  <2>7. one \in Seq(Seq(Components)) /\ one # <<>> /\ Len(one) = 1 /\ one[1] = taken /\ one = steps[k]
    <3>1. one \in Seq(Seq(Components)) BY <2>5, ShortSequences
    <3> QED BY <2>3, <3>1, OneOfTwo
  <2>8. /\ Last(one) = one[Len(one)] /\ ReplaceAt(one, Len(one), x) = Append(Front(one), x)
        /\ Len(Front(one)) = Len(one) - 1 /\ Front(one) \in Seq(Seq(Components))
    <3> DEFINE Q == Seq(Components)
    <3>1. one \in Seq(Q) /\ one # <<>> /\ x \in Q BY <2>6, <2>7
    <3> HIDE DEF one, Q
    <3>2. /\ Last(one) = one[Len(one)] /\ Len(Front(one)) = Len(one) - 1 /\ Front(one) \in Seq(Q)
          /\ \A y \in Q : ReplaceAt(one, Len(one), y) = Append(Front(one), y)
      BY ONLY <3>1, EndOfList
    <3> QED BY <3>1, <3>2 DEF Q
  <2>9. Last(one) = taken BY <2>7, <2>8
  <2>10. Front(one) = <<>>
    <3>1. Len(Front(one)) = 0 BY <2>7, <2>8
    <3> HIDE DEF one
    <3> QED BY <2>8, <3>1
  <2> HIDE DEF one
  <2>11. Fuse(one, c) = Append(<<>>, x) BY <2>4, <2>8, <2>9, <2>10 DEF Fuse, x
  <2>12. Append(<<>>, x) = <<x>> BY <2>6
  <2> QED BY <2>2, <2>5, <2>7, <2>11, <2>12
<1> HIDE DEF S
<1>8. n \in S BY <1>1, <1>6, <1>7, SetInduction
<1>9. steps[n] = <<SubSeq(list, 1, n)>> BY <1>1, <1>8 DEF S
<1>10. SubSeq(list, 1, n) = list BY DEF n
<1> QED BY <1>5, <1>9, <1>10 DEF Fusing, n

LEMMA NoGroups ==
    ASSUME <<>> = BuiltOrder
    PROVE  ComponentGroups = <<<<>>>>
<1> DEFINE V == {v \in Seq(Seq(Components)) : v # <<>>}
           list == <<>>
           n == Len(list)
<1>1. n = 0 /\ list \in Seq(Components) /\ list = BuiltOrder OBVIOUS
<1>2. <<<<>>>> \in V OBVIOUS
<1>3. \A c \in Components, v \in V : Fuse(v, c) \in V BY FuseAppends
<1> HIDE DEF V, n, list
<1>4. PICK steps \in [0..n -> V] : Fusing(steps)
  BY <1>1, <1>2, <1>3, FusingSteps DEF n
<1> QED BY <1>1, <1>4 DEF Fusing, n

(* After the first component of a fused operator come only simple ones and *)
(* outputs: each reads something that another one makes, so that only the  *)
(* first one can be visited first.                                         *)
LEMMA ComplexIsFirst ==
    ASSUME SketchInv, Arranged, operators # <<>>, Mirrored(operators, components, info),
           operators[1].type # "Unfusable", InOrder(BuiltOrder), components[1].type = "Complex"
    PROVE  BuiltOrder[1] = components[1]
<1> DEFINE list == BuiltOrder
           n == Len(components)
<1>1. operators \in Seq(Operators) /\ components \in Seq(Components) /\ Linear(operators) BY DEF SketchInv
<1>2. /\ Len(operators) = n /\ n \in Nat /\ n >= 1
      /\ \A i \in 1..n : Mirrors(components[i], operators[i], info)
  <2>1. Len(operators) # 0 BY <1>1
  <2> QED BY <1>1, <2>1 DEF Mirrored
<1>3. ~operators[1].isOutput BY <1>2 DEF Mirrors
<1>4. /\ list \in Seq(Components) /\ ToSet(list) = ToSet(components) /\ Len(list) = n
      /\ \A i, j \in DOMAIN list : ToSet(list[i].dsts) \intersect ToSet(list[j].srcs) # {} => i < j
  BY DEF InOrder
<1> HIDE DEF list, n
<1>5. 1 \in DOMAIN list /\ DOMAIN list = 1..n BY <1>2, <1>4
<1>6. list[1] \in ToSet(components) BY <1>4, <1>5 DEF ToSet
<1>7. PICK i \in 1..n : list[1] = components[i] BY <1>1, <1>6 DEF ToSet, n
<1>8. CASE i = 1 BY <1>7, <1>8 DEF list
<1>9. CASE i # 1
  <2>1. i \in 2..Len(operators) BY <1>2, <1>9
  <2>2. LinearAt(operators, i) BY <1>1, <1>3, <2>1 DEF Linear
  <2>3. PICK k \in MadeInputs(operators, i) : TRUE
    <3>1. Cardinality(MadeInputs(operators, i)) = 1 BY <2>2 DEF LinearAt
    <3>2. MadeInputs(operators, i) # {} BY <3>1, FS_EmptySet
    <3> QED BY <3>2
  <2> DEFINE t == operators[i].srcs[k]
  <2>4. t \in ToSet(operators[i].srcs) BY <2>3 DEF MadeInputs, ToSet
  <2>5. PICK j \in 1..n : t \in ToSet(operators[j].dsts)
    <3>1. DOMAIN operators = 1..n BY <1>1, <1>2
    <3> QED BY <2>3, <3>1 DEF MadeInputs
  <2> HIDE DEF t
  <2>6. t \in ToSet(components[i].srcs) /\ t \in ToSet(components[j].dsts)
    BY <1>2, <2>4, <2>5 DEF Mirrors
  <2>7. components[j] \in ToSet(list)
    <3>1. DOMAIN components = 1..n BY <1>1 DEF n
    <3>2. components[j] \in ToSet(components) BY <3>1 DEF ToSet
    <3> QED BY <1>4, <3>2
  <2>8. PICK p \in DOMAIN list : list[p] = components[j] BY <2>7 DEF ToSet
  <2>9. p < 1 BY <1>4, <1>5, <1>7, <2>6, <2>8
  <2> QED BY <1>5, <2>8, <2>9
<1> QED BY <1>8, <1>9

LEMMA StreamFits ==
    ASSUME SketchInv, Arranged, operators # <<>>, Mirrored(operators, components, info),
           operators[1].type # "Unfusable", InOrder(BuiltOrder)
    PROVE  Fits(BuiltOrder)
<1> DEFINE list == BuiltOrder
           n == Len(components)
           r == operators[1].dsts[1]
<1>1. operators \in Seq(Operators) /\ components \in Seq(Components) BY DEF SketchInv
<1>2. /\ Len(operators) = n /\ n \in Nat /\ n >= 1 /\ n <= MaxFusedOperators
      /\ \A i \in 1..n : /\ Mirrors(components[i], operators[i], info)
                         /\ info[operators[i].dsts[1]].shape = info[r].shape
      /\ \A i \in 2..n : components[i].type # "Complex"
  <2>1. Len(operators) # 0 BY <1>1
  <2> QED BY <1>1, <2>1 DEF Mirrored
<1>3. /\ list \in Seq(Components) /\ ToSet(list) = ToSet(components) /\ Len(list) = n
      /\ \A i, j \in DOMAIN list : ToSet(list[i].dsts) \intersect ToSet(list[j].dsts) # {} => i = j
  BY DEF InOrder
<1>4. components[1].type = "Complex" => list[1] = components[1] BY ComplexIsFirst
<1> HIDE DEF list, n, r
<1>5. n <= MaxFusedComponents
  <2>1. {MaxFusedOperators, MaxFusedComponents} \subseteq Nat BY SketchAssumption
  <2> QED BY <1>2, <2>1, LimitsAssumption
<1>6. list # <<>> /\ 1 \in 1..n
  <2>1. list = <<>> => Len(list) = 0 OBVIOUS
  <2> QED BY <1>2, <1>3, <2>1
<1>7. ASSUME NEW k \in 1..n
      PROVE  /\ Len(list[k].dsts) = 1 /\ info[list[k].dsts[1]].shape = info[r].shape
             /\ list[k].type \in {"Simple", "Output", "Complex"}
             /\ \E i \in 1..n : list[k] = components[i]
  <2>1. list[k] \in ToSet(components)
    <3>1. DOMAIN list = 1..n BY <1>3
    <3>2. list[k] \in ToSet(list) BY <3>1 DEF ToSet
    <3> QED BY <1>3, <3>2
  <2>2. PICK i \in 1..n : list[k] = components[i] BY <1>1, <2>1 DEF ToSet, n
  <2> QED BY <1>2, <2>2 DEF Mirrors
<1>8. ASSUME NEW k \in 2..n PROVE list[k].type \in {"Simple", "Output"}
  <2>1. k \in 1..n BY <1>2
  <2>2. PICK i \in 1..n : list[k] = components[i] BY <1>7, <2>1
  <2>3. CASE i # 1
    <3>1. i \in 2..n BY <1>2, <2>3
    <3> QED BY <1>2, <1>7, <2>1, <2>2, <3>1
  <2>4. CASE i = 1 /\ components[1].type # "Complex" BY <1>7, <2>1, <2>2, <2>4
  <2>5. CASE i = 1 /\ components[1].type = "Complex"
    <3>1. list[k] = list[1] BY <1>4, <2>2, <2>5
    <3>2. list[k] \in Components BY <1>3, <2>1
    <3>3. ToSet(list[k].dsts) # {} BY <1>7, <2>1, <3>2, OneDestination DEF Components
    <3>4. k = 1
      <4>1. DOMAIN list = 1..n BY <1>3
      <4> QED BY <1>3, <1>6, <2>1, <3>1, <3>3, <4>1
    <3> QED BY <1>2, <3>4
  <2> QED BY <2>3, <2>4, <2>5
<1>9. list[1].type # "Unfusable" BY <1>6, <1>7
<1>10. \A k \in 1..n : info[list[k].dsts[1]].shape = info[list[1].dsts[1]].shape BY <1>6, <1>7
<1>11. Fits(list) BY <1>3, <1>5, <1>6, <1>7, <1>8, <1>9, <1>10 DEF Fits
<1> QED BY <1>11 DEF list

LEMMA ConfigureKeepsOrder ==
    ASSUME SketchInv, OrderInv, NEW next \in {"configured", "failed"}, GenerateSourceCode(next)
    PROVE  OrderInv'
<1> DEFINE groups == ComponentGroups
           list == BuiltOrder
<1>1. stage = "sketch" /\ stage' = next /\ UNCHANGED sketchVars /\ operators # <<>>
      /\ kernels' = [i \in DOMAIN groups |-> Finalized(groups[i], info)]
  BY Zenon DEF GenerateSourceCode
<1>2. info' = info /\ operators' = operators /\ components' = components /\ meaning' = meaning
  BY <1>1 DEF sketchVars
<1>3. Arranged /\ Mirrored(operators, components, info) BY <1>1 DEF OrderInv
<1>4. /\ groups \in Seq(Seq(Components)) /\ FlattenSeq(groups) = list /\ InOrder(list)
  BY <1>3, StreamIsBuilt
<1>5. operators[1].type # "Unfusable" => groups = <<list>>
  <2> SUFFICES ASSUME operators[1].type # "Unfusable" PROVE groups = <<list>> OBVIOUS
  <2>1. Fits(list) BY <1>1, <1>3, <1>4, StreamFits
  <2>2. list \in Seq(Components) BY <1>4 DEF InOrder
  <2> QED BY <2>1, <2>2, OneGroup
<1>6. ASSUME operators[1].type = "Unfusable" PROVE groups = <<<<>>>> \/ Rooted(groups)
  <2>1. CASE list = <<>> BY <2>1, NoGroups
  <2>2. CASE list # <<>>
    <3>1. list \in Seq(Components) /\ ToSet(list) = ToSet(components) BY <1>4 DEF InOrder
    <3>2. \A i \in 1..Len(components) : Splits(components[i]) BY <1>3, <1>6 DEF Mirrored
    <3>3. ASSUME NEW k \in 1..Len(list) PROVE Splits(list[k])
      <4>1. components \in Seq(Components) BY DEF SketchInv
      <4>2. list[k] \in ToSet(list) BY <3>1 DEF ToSet
      <4>3. list[k] \in ToSet(components) /\ DOMAIN components = 1..Len(components) BY <3>1, <4>1, <4>2
      <4>4. PICK i \in 1..Len(components) : list[k] = components[i]
        <5> DEFINE e == list[k]
        <5>1. e \in ToSet(components) BY <4>3
        <5> HIDE DEF e
        <5>2. \E i \in 1..Len(components) : e = components[i] BY <4>3, <5>1 DEF ToSet
        <5> QED BY <5>2 DEF e
      <4> QED BY <3>2, <4>4
    <3> QED BY <2>2, <3>1, <3>3, UnfusableGroups
  <2> QED BY <2>1, <2>2
<1> HIDE DEF groups, list
<1>7. [k \in DOMAIN kernels' |-> kernels'[k].components] = groups
      /\ DOMAIN kernels' = DOMAIN groups /\ Len(kernels') = Len(groups)
      /\ \A k \in DOMAIN groups : kernels'[k].components = groups[k]
  <2>1. DOMAIN kernels' = DOMAIN groups BY <1>1
  <2>2. \A k \in DOMAIN groups : kernels'[k].components = groups[k] BY <1>1 DEF Finalized
  <2>3. groups = [k \in DOMAIN groups |-> groups[k]] BY <1>4
  <2>4. Len(kernels') = Len(groups)
    <3>1. DOMAIN groups = 1..Len(groups) /\ Len(groups) \in Nat BY <1>4
    <3> QED BY <1>1, <3>1
  <2> QED BY <2>1, <2>2, <2>3, <2>4
<1>8. StreamIsOrdered'
  <2> DEFINE stream == FlattenSeq([k \in DOMAIN kernels' |-> kernels'[k].components])
  <2>1. stream = list BY <1>4, <1>7
  <2>2. InOrder(stream) BY <1>4, <2>1
  <2> HIDE DEF stream
  <2>3. /\ ToSet(stream) = ToSet(components') /\ Len(stream) = Len(components')
        /\ \A i, j \in DOMAIN stream :
                  ToSet(stream[i].dsts) \intersect ToSet(stream[j].srcs) # {} => i < j
    BY <1>2, <2>2 DEF InOrder
  <2> QED BY <2>3 DEF StreamIsOrdered, stream
<1>9. OnlyUnfusableSplits'
  <2>1. Len(groups) \in Nat /\ DOMAIN groups = 1..Len(groups) BY <1>4
  <2>2. ASSUME NEW k \in 2..Len(groups) PROVE groups[k - 1][1].type = "Unfusable"
    <3>1. k - 1 \in 1..Len(groups) BY <2>1
    <3>2. Len(groups) # 1 BY <2>1
    <3>3. \A x : Len(<<x>>) = 1 BY OneOfTwo
    <3>4. operators[1].type = "Unfusable" /\ groups # <<<<>>>> BY <1>5, <3>2, <3>3
    <3> QED BY <1>6, <3>1, <3>4 DEF Rooted
  <2>3. ASSUME NEW k \in 2..Len(kernels') PROVE kernels'[k - 1].components[1].type = "Unfusable"
    <3>1. k \in 2..Len(groups) /\ k - 1 \in DOMAIN groups BY <1>7, <2>1, <2>3
    <3> QED BY <1>7, <2>2, <3>1
  <2> QED BY <2>3 DEF OnlyUnfusableSplits
<1>10. Arranged' BY <1>2, <1>3 DEF Arranged
<1>11. (operators # <<>> => Mirrored(operators, components, info))' BY <1>2, <1>3
<1> QED BY <1>2, <1>8, <1>9, <1>10, <1>11 DEF OrderInv

(* One component that writes one tensor, which it does not read.           *)
LEMMA OneIsOrdered ==
    ASSUME NEW c, c.srcs # <<>>, ToSet(c.dsts) \intersect ToSet(c.srcs) = {}
    PROVE  Ordered(<<c>>) /\ TensorsOf(<<c>>) = ToSet(c.srcs) \union ToSet(c.dsts)
<1>1. Len(<<c>>) = 1 /\ <<c>>[1] = c OBVIOUS
<1>2. \A i \in 1..1 : i = 1 OBVIOUS
<1>3. \A i : i \notin 1..1-1 OBVIOUS
<1>4. Ordered(<<c>>) BY <1>1, <1>2, <1>3 DEF Ordered
<1>5. TensorsOf(<<c>>) = ToSet(c.srcs) \union ToSet(c.dsts)
  <2>1. 1 \in 1..1 OBVIOUS
  <2> QED BY <1>1, <1>2, <2>1 DEF TensorsOf
<1> QED BY <1>4, <1>5

LEMMA TensorsOfOne ==
    ASSUME NEW c
    PROVE  TensorsOf(<<c>>) = ToSet(c.srcs) \union ToSet(c.dsts)
<1>1. Len(<<c>>) = 1 /\ <<c>>[1] = c OBVIOUS
<1>2. \A i \in 1..1 : i = 1 OBVIOUS
<1>3. 1 \in 1..1 OBVIOUS
<1> QED BY <1>1, <1>2, <1>3 DEF TensorsOf

(* An operator of one component.                                           *)
LEMMA OneSupplies ==
    ASSUME SketchInv, OrderInv, NEW op, NEW c, c.srcs = op.srcs, c.dsts = op.dsts,
           op.srcs \in Seq(1..Len(info)), op.srcs # <<>>, NEW dst, op.dsts = <<dst>>,
           NEW infos \in Seq(Infos), NEW M, NEW means \in Seq(M),
           Len(means) = Len(infos), Len(info) <= Len(infos), dst \in 1..Len(infos),
           \A t \in 1..Len(info) : meaning[t] = <<>> => means[t] = <<>>,
           dst > Len(info) \/ meaning[dst] # <<>>,
           \A t \in 1..Len(info) : infos[t] = info[t], op.type # "Unfusable",
           c.type \in {"Simple", "Output"} \/ (c.type = "Complex" /\ op.type = "Complex" /\ ~op.isOutput)
    PROVE  Supplies(op, <<c>>, infos, means)
<1>1. info \in Seq(Infos) /\ Len(info) \in Nat /\ Len(infos) \in Nat BY DEF SketchInv
<1>2. ToSet(op.dsts) = {dst} BY OneOfTwo
<1>3. ToSet(op.srcs) \subseteq 1..Len(info) BY DEF ToSet
<1>4. TensorsOf(<<c>>) = ToSet(op.srcs) \union {dst} BY <1>2, TensorsOfOne
<1>5. \A t \in TensorsOf(<<c>>) : t \in 1..Len(infos) BY <1>1, <1>3, <1>4
<1>6. Len(<<c>>) = 1 /\ <<c>>[1] = c /\ \A j \in 1..1 : j = 1 BY OneOfTwo
<1>7. \A j \in 1..Len(<<c>>) : \A t \in ToSet(<<c>>[j].dsts) :
          t > Len(info) \/ (t \in ToSet(op.dsts) /\ meaning[t] # <<>>)
  BY <1>2, <1>6
<1>8. ToSet(op.dsts) \intersect ToSet(op.srcs) = {} => Ordered(<<c>>) BY OneIsOrdered
<1>9. \E S : means \in Seq(S) OBVIOUS
<1>10. Len(<<c>>) = 1 /\ Mirrors(<<c>>[1], op, infos)
  <2>1. Len(op.dsts) = 1 /\ op.dsts[1] = dst BY OneOfTwo
  <2> QED BY <1>6, <2>1 DEF Mirrors
<1> QED BY <1>2, <1>4, <1>5, <1>7, <1>8, <1>9, <1>10 DEF Supplies

LEMMA CreateFusableKeepsOrder ==
    ASSUME SketchInv, OrderInv, NEW type \in {"Complex", "Simple"}, NEW kernel \in KernelNames,
           NEW srcs \in Seq(1..Len(info)), srcs # <<>>,
           NEW dstInfo \in Infos, CreateFusable(type, kernel, srcs, dstInfo)
    PROVE  OrderInv'
<1> DEFINE dst   == Len(info) + 1
           op    == Op(type, srcs, <<dst>>, FALSE)
           c     == Comp(type, kernel, srcs, <<dst>>)
           infos == Append(info, dstInfo)
           value == <<kernel>> \o [i \in DOMAIN srcs |-> meaning[srcs[i]]]
           means == Append(meaning, value)
<1>1. info \in Seq(Infos) /\ Len(info) \in Nat BY DEF SketchInv
<1>2. dst \in Nat /\ infos \in Seq(Infos) /\ Len(infos) = dst /\ dst > Len(info)
      /\ \A t \in 1..Len(info) : infos[t] = info[t]
  BY <1>1
<1>3. srcs \in Seq(Nat)
  <2> DEFINE m == Len(info)
  <2>1. m \in Nat /\ srcs \in Seq(1..m) BY <1>1
  <2> HIDE DEF m
  <2> QED BY <2>1
<1>4. CreateOp(op, <<c>>, infos, means) BY DEF CreateFusable
<1>5. PICK M0 : meaning \in Seq(M0) BY DEF OrderInv
<1> DEFINE M == M0 \union {value}
<1>6. Len(meaning) = Len(info) BY DEF OrderInv
<1> HIDE DEF value
<1>7. /\ means \in Seq(M) /\ Len(means) = Len(meaning) + 1 /\ \A t \in 1..Len(meaning) : means[t] = meaning[t]
  <2>1. meaning \in Seq(M) /\ value \in M BY <1>5
  <2> HIDE DEF M
  <2> QED BY <2>1, AppendedElements
<1> HIDE DEF means, infos, M
<1>8. <<dst>> \in Seq(Nat) BY <1>2
<1>9. op.srcs = srcs /\ op.dsts = <<dst>> /\ c.srcs = srcs /\ c.dsts = <<dst>>
      /\ op.type = type /\ c.type = type /\ ~op.isOutput
  BY DEF Op, Comp
<1>10. op \in Operators BY <1>3, <1>8 DEF Op, Operators, Kinds
<1>11. <<c>> \in Seq(Components)
  <2>1. c \in Components BY <1>3, <1>8 DEF Comp, Components, Kinds
  <2> QED BY <2>1, ShortSequences
<1>12. dst \in 1..Len(infos) /\ Len(info) <= Len(infos) /\ Len(means) = Len(infos) BY <1>1, <1>2, <1>6, <1>7
<1>13. \A t \in 1..Len(info) : means[t] = meaning[t] BY <1>6, <1>7
<1> HIDE DEF op, c, dst
<1>14. Supplies(op, <<c>>, infos, means)
  BY <1>2, <1>7, <1>9, <1>12, <1>13, OneSupplies
<1> QED BY <1>2, <1>4, <1>10, <1>11, <1>14, CreateOpKeepsOrder

LEMMA CreateComplexKeepsOrder ==
    ASSUME SketchInv, OrderInv, NEW src \in Known, NEW kernel \in {"conv", "depthwise"},
           CreateComplex(kernel, src)
    PROVE  OrderInv'
<1>1. src \in 1..Len(info) /\ info[src] \in Infos BY KnownIsInfo
<1>2. [info[src] EXCEPT !.shape = "full"] \in Infos BY <1>1 DEF Infos
<1>3. <<src>> \in Seq(1..Len(info)) /\ <<src>> # <<>> BY <1>1, ShortSequences
<1>4. kernel \in KernelNames BY DEF KernelNames
<1>5. CreateFusable("Complex", kernel, <<src>>, [info[src] EXCEPT !.shape = "full"]) BY DEF CreateComplex
<1> QED BY <1>2, <1>3, <1>4, <1>5, CreateFusableKeepsOrder

LEMMA CreateActivationKeepsOrder ==
    ASSUME SketchInv, OrderInv, NEW src \in Known, CreateActivation(src)
    PROVE  OrderInv'
<1>1. src \in 1..Len(info) /\ info[src] \in Infos BY KnownIsInfo
<1>2. <<src>> \in Seq(1..Len(info)) /\ <<src>> # <<>> BY <1>1, ShortSequences
<1>3. "activation" \in KernelNames BY DEF KernelNames
<1>4. CreateFusable("Simple", "activation", <<src>>, info[src]) BY DEF CreateActivation
<1> QED BY <1>1, <1>2, <1>3, <1>4, CreateFusableKeepsOrder

LEMMA CreateCastKeepsOrder ==
    ASSUME SketchInv, OrderInv, NEW src \in Known, CreateCast(src)
    PROVE  OrderInv'
<1> DEFINE to == [info[src] EXCEPT !.type = IF @ = "F32" THEN "F16" ELSE "F32"]
<1>1. src \in 1..Len(info) /\ info[src] \in Infos BY KnownIsInfo
<1>2. to \in Infos BY <1>1 DEF Infos
<1>3. <<src>> \in Seq(1..Len(info)) /\ <<src>> # <<>> BY <1>1, ShortSequences
<1>4. "cast" \in KernelNames BY DEF KernelNames
<1>5. CreateFusable("Simple", "cast", <<src>>, to) BY DEF CreateCast
<1> HIDE DEF to
<1> QED BY <1>2, <1>3, <1>4, <1>5, CreateFusableKeepsOrder

LEMMA CreateElementwiseBinaryKeepsOrder ==
    ASSUME SketchInv, OrderInv, NEW lhs \in Known, NEW rhs \in Known, CreateElementwiseBinary(lhs, rhs)
    PROVE  OrderInv'
<1> DEFINE to == IF info[lhs].shape = "full" THEN info[lhs] ELSE info[rhs]
<1>1. lhs \in 1..Len(info) /\ rhs \in 1..Len(info) /\ info[lhs] \in Infos /\ info[rhs] \in Infos BY KnownIsInfo
<1>2. to \in Infos BY <1>1
<1>3. <<lhs, rhs>> \in Seq(1..Len(info)) /\ <<lhs, rhs>> # <<>>
  <2> DEFINE N == 1..Len(info)
  <2>1. lhs \in N /\ rhs \in N BY <1>1
  <2> HIDE DEF N
  <2>2. <<lhs, rhs>> \in Seq(N) BY <2>1, ShortSequences
  <2> QED BY <2>2, OneOfTwo DEF N
<1>4. "elementwise_binary" \in KernelNames BY DEF KernelNames
<1>5. CreateFusable("Simple", "elementwise_binary", <<lhs, rhs>>, to) BY DEF CreateElementwiseBinary
<1> HIDE DEF to
<1> QED BY <1>2, <1>3, <1>4, <1>5, CreateFusableKeepsOrder

LEMMA CreateOutputKeepsOrder ==
    ASSUME SketchInv, OrderInv, NEW src \in Known, CreateOutput(src)
    PROVE  OrderInv'
<1>1. src \in 1..Len(info) /\ src \in Nat /\ info[src] \in Infos /\ Len(info) \in Nat BY KnownIsInfo
<1>2. info \in Seq(Infos) BY DEF SketchInv
<1>3. PICK M : meaning \in Seq(M) BY DEF OrderInv
<1>4. Len(meaning) = Len(info) /\ meaning[src] \in M
  <2>1. Len(meaning) = Len(info) BY DEF OrderInv
  <2> QED BY <1>1, <1>3, <2>1
<1> DEFINE Of(dst) == Op("Simple", <<src>>, <<dst>>, TRUE)
           Part(dst) == Comp("Output", "store", <<src>>, <<dst>>)
<1>5. \A dst : /\ Of(dst).srcs = <<src>> /\ Of(dst).dsts = <<dst>>
               /\ Part(dst).srcs = <<src>> /\ Part(dst).dsts = <<dst>>
               /\ Of(dst).type # "Unfusable" /\ Part(dst).type = "Output"
  BY DEF Op, Comp
<1>6. \A dst \in Nat : Of(dst) \in Operators /\ <<Part(dst)>> \in Seq(Components) BY <1>1, StoreIsTyped
<1>7. <<src>> \in Seq(1..Len(info)) /\ <<src>> # <<>> BY <1>1, ShortSequences
<1>8. CASE CreateOp(Of(Len(info) + 1), <<Part(Len(info) + 1)>>,
                    Append(info, info[src]), Append(meaning, meaning[src]))
  <2> DEFINE dst == Len(info) + 1
             infos == Append(info, info[src])
             means == Append(meaning, meaning[src])
             op == Of(dst)
             c == Part(dst)
  <2>0. CreateOp(op, <<c>>, infos, means) BY <1>8
  <2>1. dst \in Nat /\ dst > Len(info) BY <1>1
  <2>2. /\ infos \in Seq(Infos) /\ Len(infos) = Len(info) + 1
        /\ \A t \in 1..Len(info) : infos[t] = info[t]
    BY <1>1, <1>2, AppendedElements
  <2>3. means \in Seq(M) /\ Len(means) = Len(meaning) + 1 /\ \A t \in 1..Len(meaning) : means[t] = meaning[t]
    BY <1>3, <1>4, AppendedElements
  <2> HIDE DEF infos, means
  <2>4. dst \in 1..Len(infos) /\ Len(info) <= Len(infos) /\ Len(means) = Len(infos) BY <1>1, <1>4, <2>2, <2>3
  <2>5. \A t \in 1..Len(info) : means[t] = meaning[t] BY <1>4, <2>3
  <2>6. op \in Operators /\ <<c>> \in Seq(Components) BY <1>6, <2>1
  <2>7. op.srcs = <<src>> /\ op.dsts = <<dst>> /\ c.srcs = <<src>> /\ c.dsts = <<dst>>
        /\ op.type # "Unfusable" /\ c.type = "Output"
    BY <1>5
  <2> HIDE DEF op, c, dst, Of, Part
  <2>8. Supplies(op, <<c>>, infos, means) BY <1>7, <2>1, <2>2, <2>3, <2>4, <2>5, <2>7, OneSupplies
  <2> QED BY <2>0, <2>2, <2>6, <2>8, CreateOpKeepsOrder
<1>9. ASSUME NEW dst \in Known, CreateOp(Of(dst), <<Part(dst)>>, info, [meaning EXCEPT ![dst] = meaning[src]])
      PROVE  OrderInv'
  <2> DEFINE means == [meaning EXCEPT ![dst] = meaning[src]]
             op == Of(dst)
             c == Part(dst)
  <2>0. CreateOp(op, <<c>>, info, means) BY <1>9
  <2>1. dst \in 1..Len(info) /\ dst \in Nat /\ meaning[dst] # <<>> BY KnownIsInfo DEF Known
  <2>2. means \in Seq(M) /\ Len(means) = Len(info) /\ \A t \in 1..Len(info) : t # dst => means[t] = meaning[t]
    <3> DEFINE n == Len(info)
               value == meaning[src]
    <3>1. n \in Nat /\ meaning \in Seq(M) /\ Len(meaning) = n /\ value \in M /\ dst \in 1..n BY <1>1, <1>3, <1>4, <2>1
    <3>2. means = [meaning EXCEPT ![dst] = value] OBVIOUS
    <3> HIDE DEF n, value, means
    <3>3. meaning \in [1..n -> M] BY <3>1
    <3>4. means \in [1..n -> M] /\ \A t \in 1..n : t # dst => means[t] = meaning[t] BY <3>1, <3>2, <3>3
    <3>5. means \in Seq(M) /\ Len(means) = n BY <3>1, <3>4
    <3> QED BY <3>4, <3>5 DEF n
  <2> HIDE DEF means
  <2>3. \A t \in 1..Len(info) : meaning[t] = <<>> => means[t] = <<>> BY <2>1, <2>2
  <2>4. op \in Operators /\ <<c>> \in Seq(Components) BY <1>6, <2>1
  <2>5. op.srcs = <<src>> /\ op.dsts = <<dst>> /\ c.srcs = <<src>> /\ c.dsts = <<dst>>
        /\ op.type # "Unfusable" /\ c.type = "Output"
    BY <1>5
  <2> HIDE DEF op, c, Of, Part
  <2>6. Len(info) <= Len(info) BY <1>1
  <2>7. Supplies(op, <<c>>, info, means) BY <1>2, <1>7, <2>1, <2>2, <2>3, <2>5, <2>6, OneSupplies
  <2> QED BY <1>2, <2>0, <2>4, <2>7, CreateOpKeepsOrder
<1> QED BY <1>8, <1>9 DEF CreateOutput

LEMMA TwoMore ==
    ASSUME NEW M, NEW a \in Seq(M), NEW n \in Nat, Len(a) = n, NEW x \in M, NEW y \in M
    PROVE  LET c == a \o <<x, y>>
           IN  /\ c \in Seq(M) /\ Len(c) = n + 2 /\ c[n + 1] = x /\ c[n + 2] = y
               /\ \A i \in 1..n : c[i] = a[i]
<1> DEFINE c == a \o <<x, y>>
<1>1. c \in Seq(M) /\ Len(c) = n + 2 OBVIOUS
<1>2. c[n + 1] = x OBVIOUS
<1>3. c[n + 2] = y OBVIOUS
<1>4. \A i \in 1..n : c[i] = a[i] OBVIOUS
<1> QED BY <1>1, <1>2, <1>3, <1>4
LEMMA ThreeMore ==
    ASSUME NEW M, NEW a \in Seq(M), NEW n \in Nat, Len(a) = n, NEW x \in M, NEW y \in M, NEW z \in M
    PROVE  LET c == a \o <<x, y, z>>
           IN  /\ c \in Seq(M) /\ Len(c) = n + 3 /\ c[n + 1] = x /\ c[n + 2] = y
               /\ \A i \in 1..n : c[i] = a[i]
<1> DEFINE c == a \o <<x, y, z>>
<1>1. c \in Seq(M) /\ Len(c) = n + 3 OBVIOUS
<1>2. c[n + 1] = x OBVIOUS
<1>3. c[n + 2] = y OBVIOUS
<1>4. \A i \in 1..n : c[i] = a[i] OBVIOUS
<1> QED BY <1>1, <1>2, <1>3, <1>4

LEMMA JoinedLength ==
    ASSUME NEW S, NEW a \in Seq(S), NEW b \in Seq(S), NEW m \in Nat, NEW n \in Nat, Len(a) = m, Len(b) = n
    PROVE  /\ a \o b \in Seq(S) /\ Len(a \o b) = m + n
           /\ \A i \in 1..m : (a \o b)[i] = a[i]
           /\ \A i \in 1..n : (a \o b)[m + i] = b[i]
OBVIOUS

LEMMA FunctionIsList ==
    ASSUME NEW n \in Nat, NEW M, NEW a \in [1..n -> M]
    PROVE  a \in Seq(M) /\ Len(a) = n
OBVIOUS

LEMMA TwoOrdered ==
    ASSUME NEW a, NEW b, a.srcs # <<>>, b.srcs # <<>>,
           ToSet(a.dsts) \intersect ToSet(a.srcs) = {},
           ToSet(b.dsts) \intersect (ToSet(a.srcs) \union ToSet(a.dsts) \union ToSet(b.srcs)) = {}
    PROVE  Ordered(<<a, b>>)
<1>1. Len(<<a, b>>) = 2 /\ <<a, b>>[1] = a /\ <<a, b>>[2] = b OBVIOUS
<1>2. /\ \A j \in 1..2 : j = 1 \/ j = 2
      /\ \A j \in 1..1 : j = 1
      /\ \A j : j \notin 1..1-1
      /\ \A j \in 1..2-1 : j = 1
  OBVIOUS
<1> QED BY <1>1, <1>2 DEF Ordered

LEMMA TensorsOfTwo ==
    ASSUME NEW a, NEW b
    PROVE  TensorsOf(<<a, b>>) = ToSet(a.srcs) \union ToSet(a.dsts) \union ToSet(b.srcs) \union ToSet(b.dsts)
<1>1. Len(<<a, b>>) = 2 /\ <<a, b>>[1] = a /\ <<a, b>>[2] = b OBVIOUS
<1>2. \A j \in 1..2 : j = 1 \/ j = 2 OBVIOUS
<1>3. 1 \in 1..2 /\ 2 \in 1..2 OBVIOUS
<1> QED BY <1>1, <1>2, <1>3 DEF TensorsOf

LEMMA CreateSoftmaxKeepsOrder ==
    ASSUME SketchInv, OrderInv, NEW src \in Known, CreateSoftmax(src)
    PROVE  OrderInv'
<1>1. src \in 1..Len(info) /\ src \in Nat /\ info[src] \in Infos /\ Len(info) \in Nat BY KnownIsInfo
<1>2. info \in Seq(Infos) BY DEF SketchInv
<1>3. PICK M0 : meaning \in Seq(M0) BY DEF OrderInv
<1>4. Len(meaning) = Len(info) BY DEF OrderInv
<1> DEFINE sum    == Len(info) + 1
           logits == Len(info) + 2
           value  == <<"norm", <<"exp", meaning[src]>>, <<"sum", meaning[src]>>>>
           aux    == <<[info[src] EXCEPT !.shape = "row"], info[src]>>
           Of(dst)    == Op("Unfusable", <<src>>, <<dst>>, FALSE)
           A          == Comp("Unfusable", "exp_sum", <<src>>, <<sum, logits>>)
           B(dst)     == Comp("Unfusable", "norm", <<logits, sum>>, <<dst>>)
           infosOf(dst) == info \o aux \o IF dst \in DOMAIN info THEN <<>> ELSE <<info[src]>>
           meansOf(dst) == IF dst \in DOMAIN info
                           THEN [meaning EXCEPT ![dst] = value] \o <<<<>>, <<>>>>
                           ELSE meaning \o <<<<>>, <<>>, value>>
<1>5. PICK dst \in {Len(info) + 3} \union (Known \ virtual) :
          CreateOp(Of(dst), <<A, B(dst)>>, infosOf(dst), meansOf(dst))
  BY Zenon DEF CreateSoftmax
<1> DEFINE op == Of(dst)
           comps == <<A, B(dst)>>
           infos == infosOf(dst)
           means == meansOf(dst)
           n == Len(info)
<1>6. CreateOp(op, comps, infos, means) BY <1>5
<1>7. n \in Nat /\ src \in 1..n /\ sum = n + 1 /\ logits = n + 2 /\ DOMAIN info = 1..n
      /\ sum \in Nat /\ logits \in Nat /\ dst \in Nat
      /\ (dst = n + 3 \/ (dst \in 1..n /\ meaning[dst] # <<>>))
  <2>1. \A t \in Known : t \in 1..Len(info) /\ t \in Nat /\ meaning[t] # <<>> BY KnownIsInfo DEF Known
  <2> QED BY <1>1, <1>2, <2>1
<1>8. info \in Seq(Infos) /\ aux \in Seq(Infos) /\ Len(aux) = 2 /\ info[src] \in Infos
  <2>1. [info[src] EXCEPT !.shape = "row"] \in Infos BY <1>1 DEF Infos
  <2> QED BY <1>1, <1>2, <2>1, ShortSequences, OneOfTwo
<1>9. infos \in Seq(Infos) /\ Len(infos) = (IF dst \in 1..n THEN n + 2 ELSE n + 3)
      /\ \A t \in 1..n : infos[t] = info[t]
  <2> DEFINE more == IF dst \in DOMAIN info THEN <<>> ELSE <<info[src]>>
  <2>1. infos = info \o aux \o more OBVIOUS
  <2>2. more \in Seq(Infos) /\ Len(more) = IF dst \in 1..n THEN 0 ELSE 1 BY <1>7, <1>8
  <2> HIDE DEF infos, more, aux
  <2>3. info \o aux \in Seq(Infos) /\ Len(info \o aux) = n + 2 /\ \A t \in 1..n : (info \o aux)[t] = info[t]
    <3>1. info \in Seq(Infos) /\ aux \in Seq(Infos) /\ Len(aux) = 2 /\ Len(info) = n /\ n \in Nat /\ 2 \in Nat BY <1>1, <1>8
    <3> DEFINE x == info
               y == aux
               k == 2
    <3>2. x \in Seq(Infos) /\ y \in Seq(Infos) /\ Len(y) = k /\ Len(x) = n /\ n \in Nat /\ k \in Nat BY <3>1
    <3> HIDE DEF n, x, y, k
    <3>3. x \o y \in Seq(Infos) /\ Len(x \o y) = n + k /\ \A t \in 1..n : (x \o y)[t] = x[t]
      BY ONLY <3>2, JoinedLength
    <3> QED BY <3>3 DEF x, y, k
  <2> DEFINE both == info \o aux
  <2>4. both \in Seq(Infos) /\ Len(both) = n + 2 /\ infos = both \o more
        /\ \A t \in 1..n : both[t] = info[t]
    BY <2>1, <2>3
  <2> HIDE DEF both, n
  <2>5. /\ infos \in Seq(Infos) /\ Len(infos) = (n + 2) + Len(more)
        /\ \A t \in 1..n+2 : infos[t] = both[t]
    <3> DEFINE k == n + 2
               m == Len(more)
    <3>1. k \in Nat /\ m \in Nat /\ Len(more) = m /\ Len(both) = k /\ both \in Seq(Infos) /\ more \in Seq(Infos)
      BY <1>7, <2>2, <2>4
    <3> HIDE DEF k, m
    <3>2. /\ both \o more \in Seq(Infos) /\ Len(both \o more) = k + m
          /\ \A t \in 1..k : (both \o more)[t] = both[t]
      BY ONLY <3>1, JoinedLength
    <3> QED BY <2>4, <3>2 DEF k, m
  <2>6. \A t \in 1..n : t \in 1..n+2 BY <1>7
  <2>7. \A t \in 1..n : infos[t] = info[t] BY <2>4, <2>5, <2>6
  <2> QED BY <1>7, <2>2, <2>5, <2>7
<1> DEFINE M == M0 \union {value, <<>>}
<1>10. /\ means \in Seq(M) /\ Len(means) = IF dst \in 1..n THEN n + 2 ELSE n + 3
       /\ means[sum] = <<>> /\ means[logits] = <<>>
       /\ \A t \in 1..n : meaning[t] = <<>> => means[t] = <<>>
  <2>1. value \in M /\ <<>> \in M /\ meaning \in Seq(M) /\ Len(meaning) = n BY <1>3, <1>4
  <2>2. CASE dst \in 1..n
    <3> DEFINE a == [meaning EXCEPT ![dst] = value]
               b == <<<<>>, <<>>>>
    <3>1. means = a \o b BY <1>7, <2>2
    <3> HIDE DEF b, value, M, means, n
    <3>3. meaning \in [1..n -> M] BY <2>1
    <3>4. a \in [1..n -> M] /\ \A t \in 1..n : t # dst => a[t] = meaning[t] BY <2>1, <2>2, <3>3
    <3>5. a \in Seq(M) /\ Len(a) = n
      <4>1. n \in Nat BY <1>7
      <4> HIDE DEF a
      <4> QED BY <3>4, <4>1, FunctionIsList
    <3> HIDE DEF a
    <3>6. /\ a \o b \in Seq(M) /\ Len(a \o b) = n + 2
          /\ (a \o b)[n + 1] = <<>> /\ (a \o b)[n + 2] = <<>>
          /\ \A i \in 1..n : (a \o b)[i] = a[i]
      <4> DEFINE e == <<>>
      <4>1. n \in Nat /\ e \in M /\ a \in Seq(M) /\ Len(a) = n BY <1>7, <2>1, <3>5
      <4>2. b = <<e, e>> BY DEF b
      <4> HIDE DEF e
      <4>3. /\ a \o <<e, e>> \in Seq(M) /\ Len(a \o <<e, e>>) = n + 2
            /\ (a \o <<e, e>>)[n + 1] = e /\ (a \o <<e, e>>)[n + 2] = e
            /\ \A i \in 1..n : (a \o <<e, e>>)[i] = a[i]
        BY ONLY <4>1, TwoMore
      <4> QED BY <4>2, <4>3 DEF e
    <3>9. means[sum] = <<>> /\ means[logits] = <<>> BY <1>7, <3>1, <3>6
    <3>10. \A t \in 1..n : meaning[t] = <<>> => means[t] = <<>>
      <4>1. dst \notin 1..n \/ meaning[dst] # <<>>
        <5>1. dst = n + 3 => dst \notin 1..n BY <1>7
        <5> QED BY <1>7, <5>1
      <4> QED BY <2>2, <3>1, <3>4, <3>6, <4>1
    <3> QED BY <2>2, <3>1, <3>6, <3>9, <3>10
  <2>3. CASE dst \notin 1..n
    <3> DEFINE b == <<<<>>, <<>>, value>>
    <3>1. means = meaning \o b BY <1>7, <2>3
    <3> HIDE DEF b, value, M, means, n
    <3>6. /\ meaning \o b \in Seq(M) /\ Len(meaning \o b) = n + 3
          /\ (meaning \o b)[n + 1] = <<>> /\ (meaning \o b)[n + 2] = <<>>
          /\ \A i \in 1..n : (meaning \o b)[i] = meaning[i]
      <4> DEFINE e == <<>>
                 x == meaning
      <4>1. n \in Nat /\ e \in M /\ value \in M /\ x \in Seq(M) /\ Len(x) = n BY <1>7, <2>1
      <4>2. b = <<e, e, value>> BY DEF b
      <4> HIDE DEF e, x
      <4>3. /\ x \o <<e, e, value>> \in Seq(M) /\ Len(x \o <<e, e, value>>) = n + 3
            /\ (x \o <<e, e, value>>)[n + 1] = e /\ (x \o <<e, e, value>>)[n + 2] = e
            /\ \A i \in 1..n : (x \o <<e, e, value>>)[i] = x[i]
        BY ONLY <4>1, ThreeMore
      <4> QED BY <4>2, <4>3 DEF e, x
    <3>9. means[sum] = <<>> /\ means[logits] = <<>> BY <1>7, <3>1, <3>6
    <3> QED BY <2>3, <3>1, <3>6, <3>9
  <2> QED BY <2>2, <2>3
<1>11. Len(means) = Len(infos) /\ n <= Len(infos) BY <1>7, <1>9, <1>10
<1>12. op.srcs = <<src>> /\ op.dsts = <<dst>> /\ A.srcs = <<src>> /\ A.dsts = <<sum, logits>>
       /\ B(dst).srcs = <<logits, sum>> /\ B(dst).dsts = <<dst>>
       /\ op.type = "Unfusable" /\ A.type = "Unfusable" /\ B(dst).type = "Unfusable"
  BY DEF Op, Comp
<1>13. op \in Operators
  <2>1. <<src>> \in Seq(Nat) /\ <<dst>> \in Seq(Nat) BY <1>1, <1>7
  <2> QED BY <2>1 DEF Op, Operators, Kinds
<1>14. comps \in Seq(Components)
  <2> HIDE DEF sum, logits
  <2>2. /\ <<src>> \in Seq(Nat) /\ <<dst>> \in Seq(Nat) /\ <<sum, logits>> \in Seq(Nat)
        /\ <<logits, sum>> \in Seq(Nat)
    BY <1>1, <1>7
  <2>3. A \in Components BY <2>2 DEF Comp, Components, Kinds, KernelNames
  <2>4. B(dst) \in Components BY <2>2 DEF Comp, Components, Kinds, KernelNames
  <2> HIDE DEF A, B
  <2> QED BY <2>3, <2>4, ShortSequences
<1> DEFINE a == A
           b == B(dst)
<1>15. comps = <<a, b>> /\ a.srcs = <<src>> /\ a.dsts = <<sum, logits>>
       /\ b.srcs = <<logits, sum>> /\ b.dsts = <<dst>> /\ a.type = "Unfusable" /\ b.type = "Unfusable"
  BY <1>12
<1> HIDE DEF a, b, comps, op, sum, logits
<1>16. /\ ToSet(a.srcs) = {src} /\ ToSet(a.dsts) = {sum, logits}
       /\ ToSet(b.srcs) = {logits, sum} /\ ToSet(b.dsts) = {dst}
       /\ ToSet(op.srcs) = {src} /\ ToSet(op.dsts) = {dst} /\ a.srcs # <<>> /\ b.srcs # <<>>
       /\ Len(comps) = 2 /\ comps[1] = a /\ comps[2] = b /\ Splits(a) /\ Splits(b)
  <2>1. op.srcs = <<src>> /\ op.dsts = <<dst>> BY <1>12
  <2>2. \A x, y : ToSet(<<x>>) = {x} /\ ToSet(<<x, y>>) = {x, y} /\ <<x>> # <<>> /\ <<x, y>> # <<>> BY OneOfTwo
  <2>3. ToSet(a.srcs) = {src} /\ ToSet(a.dsts) = {sum, logits} /\ a.srcs # <<>> BY <1>15, <2>2
  <2>4. ToSet(b.srcs) = {logits, sum} /\ ToSet(b.dsts) = {dst} /\ b.srcs # <<>> BY <1>15, <2>2
  <2>5. ToSet(op.srcs) = {src} /\ ToSet(op.dsts) = {dst} BY <2>1, <2>2
  <2>6. Len(comps) = 2 /\ comps[1] = a /\ comps[2] = b BY <1>15, OneOfTwo
  <2>7. Len(a.dsts) = 2 /\ Len(b.dsts) = 1 BY <1>15, OneOfTwo
  <2>8. Splits(a) /\ Splits(b) BY <1>15, <2>7, SketchAssumption, LimitsAssumption DEF Splits
  <2> QED BY <2>3, <2>4, <2>5, <2>6, <2>8
<1> HIDE DEF means, infos, M, n
<1>17. TensorsOf(comps) = {src, sum, logits, dst} BY <1>15, <1>16, TensorsOfTwo
<1>18. \A t \in TensorsOf(comps) : t \in 1..Len(infos) /\ (t \in ToSet(op.srcs) \union ToSet(op.dsts) \/ means[t] = <<>>)
  <2>1. src \in 1..Len(infos) /\ sum \in 1..Len(infos) /\ logits \in 1..Len(infos) /\ dst \in 1..Len(infos)
    BY <1>7, <1>9
  <2> QED BY <1>10, <1>16, <1>17, <2>1
<1>19. ASSUME NEW j \in 1..Len(comps), NEW t \in ToSet(comps[j].dsts)
       PROVE  t > n \/ (t \in ToSet(op.dsts) /\ meaning[t] # <<>>)
  <2>1. j = 1 \/ j = 2 BY <1>16
  <2>2. t \in {sum, logits, dst} BY <1>16, <2>1
  <2>3. sum > n /\ logits > n /\ (dst > n \/ meaning[dst] # <<>>) BY <1>7
  <2> QED BY <1>16, <2>2, <2>3
<1>20. ASSUME ToSet(op.dsts) \intersect ToSet(op.srcs) = {} PROVE Ordered(comps)
  <2>1. dst # src BY <1>16, <1>20
  <2>2. src # sum /\ src # logits /\ dst # sum /\ dst # logits BY <1>7
  <2>3. /\ ToSet(a.dsts) \intersect ToSet(a.srcs) = {}
        /\ ToSet(b.dsts) \intersect (ToSet(a.srcs) \union ToSet(a.dsts) \union ToSet(b.srcs)) = {}
    BY <1>16, <2>1, <2>2
  <2> QED BY <1>15, <1>16, <2>3, TwoOrdered
<1>21. \E S : means \in Seq(S) BY <1>10
<1>22. op.type = "Unfusable" /\ \A j \in 1..Len(comps) : Splits(comps[j])
  <2>1. \A j \in 1..2 : j = 1 \/ j = 2 OBVIOUS
  <2> QED BY <1>12, <1>16, <2>1
<1>23. Supplies(op, comps, infos, means)
  BY <1>9, <1>10, <1>11, <1>18, <1>19, <1>20, <1>21, <1>22 DEF Supplies, n
<1> QED BY <1>6, <1>9, <1>13, <1>14, <1>23, CreateOpKeepsOrder

LEMMA OrderInitially == Init => OrderInv
<1> SUFFICES ASSUME Init PROVE OrderInv OBVIOUS
<1>1. PICK n \in 1..MaxInputs : info \in [1..n -> InputInfos] BY DEF Init
<1>2. n \in Nat /\ DOMAIN info = 1..n /\ info \in Seq(InputInfos) /\ Len(info) = n BY <1>1, SketchAssumption
<1>3. meaning = [t \in 1..n |-> <<"input", t>>] /\ components = <<>> /\ operators = <<>> /\ stage = "sketch" BY <1>2 DEF Init
<1>4. meaning \in Seq({<<"input", t>> : t \in 1..n}) /\ Len(meaning) = n BY <1>2, <1>3
<1>5. Len(<<>>) = 0 /\ (\A i : i \notin 1..0) OBVIOUS
<1>6. Ordered(<<>>) /\ TensorsOf(<<>>) = {} BY <1>5 DEF Ordered, TensorsOf
<1>7. Arranged BY <1>3, <1>6 DEF Arranged
<1>8. StreamIsOrdered /\ OnlyUnfusableSplits BY <1>3 DEF StreamIsOrdered, OnlyUnfusableSplits, Fused
<1>9. \E S : meaning \in Seq(S) BY <1>4
<1> QED BY <1>2, <1>3, <1>4, <1>7, <1>8, <1>9 DEF OrderInv

LEMMA OrderStep == SketchInv /\ OrderInv /\ [Next]_vars => OrderInv'
<1> SUFFICES ASSUME SketchInv, OrderInv, [Next]_vars PROVE OrderInv' OBVIOUS
<1>1. CASE \E src \in Known : \E kernel \in {"conv", "depthwise"} : CreateComplex(kernel, src)
  BY <1>1, CreateComplexKeepsOrder
<1>2. CASE \E src \in Known : CreateActivation(src) BY <1>2, CreateActivationKeepsOrder
<1>3. CASE \E src \in Known : CreateCast(src) BY <1>3, CreateCastKeepsOrder
<1>4. CASE \E src \in Known : CreateOutput(src) BY <1>4, CreateOutputKeepsOrder
<1>5. CASE \E src \in Known : CreateSoftmax(src) BY <1>5, CreateSoftmaxKeepsOrder
<1>6. CASE \E src, rhs \in Known : CreateElementwiseBinary(src, rhs)
  BY <1>6, CreateElementwiseBinaryKeepsOrder
<1>7. CASE Configure \/ ConfigureFails
  <2>1. \E next \in {"configured", "failed"} : GenerateSourceCode(next)
    BY <1>7, Zenon DEF Configure, ConfigureFails
  <2> QED BY <2>1, ConfigureKeepsOrder
<1>8. CASE EnqueueOp \/ RunAgain \/ UNCHANGED vars
  <2>1. UNCHANGED sketchVars /\ UNCHANGED <<stage, kernels>>
    BY <1>8, Zenon DEF EnqueueOp, RunAgain, vars
  <2>2. /\ info' = info /\ operators' = operators /\ components' = components /\ meaning' = meaning
        /\ stage' = stage /\ kernels' = kernels
    BY <2>1 DEF sketchVars
  <2>3. Arranged' <=> Arranged BY <2>2 DEF Arranged
  <2>4. StreamIsOrdered' BY <2>2 DEF OrderInv, StreamIsOrdered, Fused
  <2>5. OnlyUnfusableSplits' BY <2>2 DEF OrderInv, OnlyUnfusableSplits, Fused
  <2> QED BY <2>2, <2>3, <2>4, <2>5 DEF OrderInv
<1> QED BY <1>1, <1>2, <1>3, <1>4, <1>5, <1>6, <1>7, <1>8 DEF Next

(* build_operators_sequence loses no component and repeats none, and puts  *)
(* none before one whose result it reads; fusing the stream into groups    *)
(* keeps to that order.                                                    *)
THEOREM StreamStaysOrdered == Spec => []StreamIsOrdered
<1>1. Spec => []OrderInv
  BY OrderInitially, OrderStep, SketchAlways, PTL DEF Spec
<1>2. OrderInv => StreamIsOrdered BY DEF OrderInv
<1> QED BY <1>1, <1>2, PTL

(* GpuKernelComponentGraph::fuse starts another kernel where a component   *)
(* is refused, and relies on it that the root before was an unfusable one: *)
(* GpuOperatorGroup::try_add_operator has kept out whatever one kernel     *)
(* cannot take.                                                            *)
THEOREM OnlyUnfusableKernelsSplit == Spec => []OnlyUnfusableSplits
<1>1. Spec => []OrderInv
  BY OrderInitially, OrderStep, SketchAlways, PTL DEF Spec
<1>2. OrderInv => OnlyUnfusableSplits BY DEF OrderInv
<1> QED BY <1>1, <1>2, PTL
=============================================================================
