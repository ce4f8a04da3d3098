------------------------- MODULE GraphManagerProofs -------------------------
(***************************************************************************)
(* Theorems about the graph of GraphManager, however it is built and       *)
(* whatever its passes rewrite: it stays consistent, the orders in which   *)
(* it is walked are topological orders, and the workload that is made of   *)
(* it releases the weights its layers share and keeps what its tasks read. *)
(*                                                                         *)
(* Every pass keeps a graph Good: the three places agree about every       *)
(* connection, every input is connected, and there is a rank that grows    *)
(* along the edges.  On a good graph a traversal names nodes only after    *)
(* all their producers, and it does not end before it has named every      *)
(* node: of the nodes it has not named, one of the least rank would be     *)
(* waiting.  It ends because each turn leaves less to do.                  *)
(***************************************************************************)
EXTENDS GraphManager, GraphProofs

-----------------------------------------------------------------------------
(* The passes.                                                             *)

Ranked(g, rank) == WellFormed(g) /\ Full(g) /\ rank \in Ranks /\ OrderedBy(g, rank)

LEMMA RankedIsGood ==
    ASSUME NEW g
    PROVE  /\ Good(g) => \E rank : Ranked(g, rank)
           /\ \A rank : Ranked(g, rank) => Good(g)
           /\ Good(g) => WellFormed(g) /\ g \in Graphs
BY DEF Good, Ranked, WellFormed

LEMMA LiveNodesAreNumbers ==
    ASSUME NEW g, WellFormed(g)
    PROVE  \A n \in LiveNodes(g) : n \in Nat
BY GraphIs DEF WellFormed

LEMMA AlikeRanked ==
    ASSUME NEW g, NEW rank, Ranked(g, rank), NEW h, Alike(h, g)
    PROVE  Ranked(h, rank) /\ LiveNodes(h) = LiveNodes(g) /\ Len(h.nodes) = Len(g.nodes)
<1>1. WellFormed(h) BY AlikeWellFormed DEF Ranked
<1>2. Full(h) BY DEF Ranked, Full, Alike, Inputs
<1>3. OrderedBy(h, rank) BY DEF Ranked, OrderedBy, Alike, LiveEdges
<1>4. Len(h.nodes) = Len(g.nodes)
  <2>1. g \in Graphs /\ h \in Graphs /\ DOMAIN h.nodes = DOMAIN g.nodes BY DEF Ranked, WellFormed, Alike
  <2> QED BY <2>1, SameSizes
<1> QED BY <1>1, <1>2, <1>3, <1>4 DEF Ranked, Alike

LEMMA AddRanked ==
    ASSUME NEW g, NEW rank, Ranked(g, rank), NEW type, NEW inputs, NEW widths, Addable(g, type, inputs, widths),
           NEW r \in Nat, \A i \in DOMAIN inputs : rank[inputs[i][1]] < r
    PROVE  LET h == AddConnected(g, type, inputs, widths)
               n == Len(g.nodes) + 1
           IN  /\ Grown(h, g, type, inputs, widths)
               /\ \E raised : /\ Ranked(h, raised) /\ raised[n] = r
                              /\ \A m \in LiveNodes(g) : raised[m] = rank[m]
<1> DEFINE h == AddConnected(g, type, inputs, widths)
           n == Len(g.nodes) + 1
           raised == [rank EXCEPT ![n] = r]
<1>1. Grown(h, g, type, inputs, widths) BY AddConnectedIs
<1> HIDE DEF h
<1>2. Full(h) /\ WellFormed(h) BY <1>1, GrownFull DEF Ranked, Grown
<1>3. \A i \in DOMAIN inputs : inputs[i][1] \in LiveNodes(g) BY DEF Addable, Readable
<1>4. /\ raised \in Ranks /\ OrderedBy(h, raised) /\ raised[n] = r
      /\ \A m \in LiveNodes(g) : raised[m] = rank[m]
  <2>1. WellFormed(g) /\ rank \in Ranks /\ OrderedBy(g, rank) BY DEF Ranked
  <2> QED BY <1>1, <1>3, <2>1, GrownOrdered
<1> HIDE DEF raised
<1>5. Ranked(h, raised) BY <1>2, <1>4 DEF Ranked
<1> QED BY <1>1, <1>4, <1>5 DEF h

(* fuse_layer finds the only consumer.                                     *)
LEMMA FollowerIs ==
    ASSUME NEW g, WellFormed(g), NEW n \in LiveNodes(g), NEW type, NEW a \in Follower(g, n, type)
    PROVE  /\ a \in LiveNodes(g) /\ g.nodes[a].type = type
           /\ \E e \in LiveEdges(g) : g.nodes[n].out = {e} /\ g.edges[e].from = n /\ g.edges[e].to = a
<1>1. Cardinality(g.nodes[n].out) = 1
      /\ a \in {g.edges[e].to : e \in {e \in g.nodes[n].out : g.nodes[g.edges[e].to].type = type}}
  BY DEF Follower
<1>2. PICK e \in g.nodes[n].out : a = g.edges[e].to /\ g.nodes[g.edges[e].to].type = type BY <1>1
<1>3. NodeKnows(g, n) BY DEF WellFormed
<1>4. IsFiniteSet(g.nodes[n].out)
  <2>1. Len(g.edges) \in Nat /\ DOMAIN g.edges = 1..Len(g.edges) BY GraphIs DEF WellFormed
  <2>2. g.nodes[n].out \subseteq 1..Len(g.edges) BY <1>3, <2>1 DEF NodeKnows, LiveEdges
  <2>3. IsFiniteSet(1..Len(g.edges))
    <3>1. 1 \in Int /\ Len(g.edges) \in Int BY <2>1
    <3> QED BY <3>1, FS_Interval
  <2> QED BY <2>2, <2>3, FS_Subset
<1>5. PICK x : g.nodes[n].out = {x} BY <1>1, <1>4, FS_Singleton
<1>6. e \in LiveEdges(g) /\ g.edges[e].from = n BY <1>3 DEF NodeKnows
<1>7. g.edges[e].to \in LiveNodes(g) BY <1>6, EdgeFacts
<1>8. g.nodes[n].out = {e} BY <1>5
<1> QED BY <1>2, <1>6, <1>7, <1>8

LEMMA OneOutput ==
    ASSUME NEW g, WellFormed(g), NEW n \in LiveNodes(g),
           g.nodes[n].type \in (OperationTypes \ {"Split"}) \union {"FusedConv"}
    PROVE  Len(g.nodes[n].outputs) = 1 /\ 1 \in Outputs(g, n) /\ g.nodes[n].outputs[1] \in DOMAIN g.tensors
<1>1. g.nodes[n] \in Nodes /\ NodeKnows(g, n) BY GraphIs DEF WellFormed
<1>2. g.nodes[n].outputs \in Seq(Nat) BY <1>1 DEF Nodes
<1>3. Len(g.nodes[n].outputs) = 1 BY <1>1 DEF NodeKnows, Shaped
<1>4. 1 \in Outputs(g, n) BY <1>2, <1>3 DEF Outputs
<1> QED BY <1>1, <1>3, <1>4 DEF NodeKnows

LEMMA FuseActivationGood ==
    ASSUME NEW g, Good(g), NEW n \in LiveNodes(g), g.nodes[n].type \in OperationTypes \ {"Split"}
    PROVE  Good(FuseActivation(g, n)) /\ Len(FuseActivation(g, n).nodes) = Len(g.nodes)
<1> DEFINE acts == Follower(g, n, "Act")
           act == CHOOSE a \in acts : TRUE
           h == TransferDrivingNodes(g, n, act)
           k == [h EXCEPT !.nodes[n].last = g.nodes[act].last]
<1>1. FuseActivation(g, n) = IF acts = {} THEN g ELSE k BY DEF FuseActivation
<1>2. CASE acts = {}
  <2> HIDE DEF acts, k
  <2> QED BY <1>1, <1>2
<1>3. CASE acts # {}
  <2>1. act \in acts BY <1>3
  <2> HIDE DEF act
  <2>2. PICK rank : Ranked(g, rank) BY RankedIsGood
  <2>3. WellFormed(g) /\ Full(g) /\ rank \in Ranks /\ OrderedBy(g, rank) BY <2>2 DEF Ranked
  <2>4. /\ act \in LiveNodes(g) /\ g.nodes[act].type = "Act"
        /\ \E e \in LiveEdges(g) : g.nodes[n].out = {e} /\ g.edges[e].from = n /\ g.edges[e].to = act
    BY <2>1, <2>3, FollowerIs
  <2>5. rank[n] < rank[act] BY <2>3, <2>4 DEF OrderedBy
  <2>6. \A x \in LiveNodes(g) : rank[x] \in Nat
    <3>1. \A x \in LiveNodes(g) : x \in Nat BY <2>3, LiveNodesAreNumbers
    <3> QED BY <2>3, <3>1 DEF Ranks
  <2>7. n # act BY <2>5, <2>6
  <2>8. \A e \in LiveEdges(g) : g.edges[e].from = act => rank[n] < rank[g.edges[e].to]
    <3> SUFFICES ASSUME NEW e \in LiveEdges(g), g.edges[e].from = act PROVE rank[n] < rank[g.edges[e].to] OBVIOUS
    <3>1. g.edges[e].to \in LiveNodes(g) BY <2>3, EdgeFacts
    <3>2. rank[act] < rank[g.edges[e].to] BY <2>3 DEF OrderedBy
    <3> QED BY <2>4, <2>5, <2>6, <3>1, <3>2
  <2>9. 1 \in Outputs(g, n) /\ 1 \in Outputs(g, act)
    <3>1. "Act" \in OperationTypes \ {"Split"} BY DEF OperationTypes
    <3> QED BY <2>3, <2>4, <3>1, OneOutput
  <2>10. Transferable(g, n, act, rank) BY <2>3, <2>4, <2>7, <2>8, <2>9 DEF Transferable
  <2> HIDE DEF h
  <2>11. Transferred(h, g, n, act, rank) BY <2>10, TransferDrivingNodesIs DEF h
  <2>12. Ranked(h, rank) /\ n \in LiveNodes(h) /\ h \in Graphs BY <2>3, <2>7, <2>11 DEF Transferred, Ranked, WellFormed
  <2>13. Len(h.nodes) = Len(g.nodes)
    <3>1. g \in Graphs /\ DOMAIN h.nodes = DOMAIN g.nodes BY <2>3, <2>11 DEF WellFormed, Transferred
    <3> QED BY <2>12, <3>1, SameSizes
  <2>14. g.nodes[act].last \in Nat
    <3>1. g.nodes[act] \in Nodes BY <2>3, <2>4, GraphIs DEF WellFormed
    <3> QED BY <3>1 DEF Nodes
  <2>15. Alike(k, h) BY <2>12, <2>14, LastAlike
  <2> HIDE DEF k
  <2>16. Ranked(k, rank) /\ Len(k.nodes) = Len(g.nodes) BY <2>12, <2>13, <2>15, AlikeRanked
  <2> QED BY <1>1, <1>3, <2>16, RankedIsGood
<1> QED BY <1>2, <1>3

LEMMA NodeIdsAre ==
    ASSUME NEW g \in Graphs
    PROVE  /\ Len(NodeIds(g)) = Len(g.nodes) /\ Len(g.nodes) \in Nat /\ DOMAIN NodeIds(g) = 1..Len(g.nodes)
           /\ \A n \in 1..Len(g.nodes) : NodeIds(g)[n] = n
BY GraphIs DEF NodeIds

(* The graphs a pass may make of g.                                        *)
Successors(g) == {h \in Graphs : Good(h) /\ Len(h.nodes) >= Len(g.nodes)}

LEMMA LiveOrRemoved ==
    ASSUME NEW g \in Graphs, NEW h \in Successors(g), NEW n \in 1..Len(g.nodes)
    PROVE  n \in LiveNodes(h) \/ h.nodes[n] = NoNode
<1>1. h \in Graphs /\ Len(h.nodes) >= Len(g.nodes) BY DEF Successors
<1>2. Len(h.nodes) \in Nat /\ Len(g.nodes) \in Nat /\ DOMAIN h.nodes = 1..Len(h.nodes) BY <1>1, GraphIs
<1> QED BY <1>1, <1>2 DEF LiveNodes

ActivationFused(h, n, types) == IF h.nodes[n].type \in types THEN FuseActivation(h, n) ELSE h

LEMMA FuseActivationsSteps ==
    ASSUME NEW g, Good(g), NEW types \in SUBSET (OperationTypes \ {"Split"})
    PROVE  \E steps \in [0..Len(NodeIds(g)) -> Successors(g)] :
              /\ steps[0] = g /\ \A k \in 1..Len(NodeIds(g)) : steps[k] = ActivationFused(steps[k - 1], NodeIds(g)[k], types)
              /\ FuseActivations(g, types) = steps[Len(NodeIds(g))]
<1> DEFINE n == Len(NodeIds(g))
           Step == [x \in (Successors(g)) \X (1..n) |-> ActivationFused(x[1], NodeIds(g)[x[2]], types)]
<1>1. n \in Nat /\ DOMAIN NodeIds(g) = 1..n BY NodeIdsAre, RankedIsGood
<1>2. /\ g \in Successors(g)
      /\ \A x \in Successors(g), k \in 1..n : ActivationFused(x, NodeIds(g)[k], types) \in Successors(g)
  <2>1. g \in Successors(g) BY RankedIsGood, GraphIs DEF Successors
  <2>2. ASSUME NEW x \in Successors(g), NEW k \in 1..n PROVE ActivationFused(x, NodeIds(g)[k], types) \in Successors(g)
    <3>1. g \in Graphs /\ k \in 1..Len(g.nodes) /\ NodeIds(g)[k] = k BY <1>1, NodeIdsAre, RankedIsGood
    <3>2. Good(x) /\ x \in Graphs /\ Len(x.nodes) >= Len(g.nodes) BY DEF Successors
    <3>3. k \in LiveNodes(x) \/ x.nodes[k] = NoNode BY <3>1, LiveOrRemoved
    <3>4. NoNode.type \notin OperationTypes BY DEF NoNode, OperationTypes
    <3>5. CASE x.nodes[k].type \in types
      <4>1. k \in LiveNodes(x) /\ x.nodes[k].type \in OperationTypes \ {"Split"} BY <3>3, <3>4, <3>5
      <4>2. Good(FuseActivation(x, k)) /\ Len(FuseActivation(x, k).nodes) = Len(x.nodes)
        BY <3>2, <4>1, FuseActivationGood
      <4>3. ActivationFused(x, k, types) = FuseActivation(x, k) BY <3>5 DEF ActivationFused
      <4> QED BY <3>1, <3>2, <4>2, <4>3, RankedIsGood DEF Successors
    <3>6. CASE x.nodes[k].type \notin types BY <3>1, <3>6 DEF ActivationFused
    <3> QED BY <3>5, <3>6
  <2> QED BY <2>1, <2>2
<1>3. Step \in [(Successors(g)) \X (1..n) -> Successors(g)] /\ \A x \in Successors(g), k \in 1..n : Step[<<x, k>>] = ActivationFused(x, NodeIds(g)[k], types)
  BY <1>2
<1> HIDE DEF n, Step
<1> DEFINE Eq(it) == it = [z \in SUBSET DOMAIN NodeIds(g) |->
                             IF z = {} THEN g ELSE ActivationFused(it[z \ {Max(z)}], NodeIds(g)[Max(z)], types)]
           tab == CHOOSE it : Eq(it)
<1>4. FuseActivations(g, types) = tab[DOMAIN NodeIds(g)]
  BY Zenon DEF FoldLeft, MapThenFoldSet, FuseActivations, ActivationFused
<1>5. PICK it \in [SUBSET (1..n) -> Successors(g)] : FoldsBy(it, 1..n, g, Step)
  <2>1. HasFold(n, Successors(g), g, Step) BY <1>1, <1>2, <1>3, FoldOfSet
  <2> QED BY <2>1 DEF HasFold
<1>6. Eq(it)
  <2>1. ASSUME NEW z \in SUBSET (1..n)
        PROVE  it[z] = IF z = {} THEN g ELSE ActivationFused(it[z \ {Max(z)}], NodeIds(g)[Max(z)], types)
    <3>1. CASE z = {} BY <1>5, <3>1 DEF FoldsBy
    <3>2. CASE z # {}
      <4>1. Max(z) \in 1..n BY <1>1, <3>2, MaxOfSome
      <4>2. it[z \ {Max(z)}] \in Successors(g)
        <5>1. z \ {Max(z)} \in SUBSET (1..n) OBVIOUS
        <5> QED BY <1>5, <5>1
      <4>3. it[z] = Step[<<it[z \ {Max(z)}], Max(z)>>] BY <1>5, <3>2 DEF FoldsBy
      <4> QED BY <1>3, <3>2, <4>1, <4>2, <4>3
    <3> QED BY <3>1, <3>2
  <2> QED BY <1>1, <1>5, <2>1
<1>7. Eq(tab)
  <2> HIDE DEF Eq
  <2> QED BY <1>6
<1> HIDE DEF tab
<1>8. ASSUME NEW z \in SUBSET (1..n), z # {}, tab[z \ {Max(z)}] \in Successors(g)
      PROVE  tab[z] = Step[<<tab[z \ {Max(z)}], Max(z)>>]
  <2>1. Max(z) \in 1..n BY <1>1, <1>8, MaxOfSome
  <2>2. tab[z] = ActivationFused(tab[z \ {Max(z)}], NodeIds(g)[Max(z)], types) BY <1>1, <1>7, <1>8
  <2> QED BY <1>3, <1>8, <2>1, <2>2
<1>9. tab[{}] = g BY <1>1, <1>7
<1>10. Folded(tab[1..n], n, Successors(g), g, Step) BY <1>1, <1>2, <1>3, <1>8, <1>9, FoldTable
<1>11. PICK steps \in [0..n -> Successors(g)] : Stepwise(steps, n, g, Step) /\ tab[1..n] = steps[n]
  BY <1>10 DEF Folded
<1>12. ASSUME NEW k \in 1..n PROVE steps[k] = ActivationFused(steps[k - 1], NodeIds(g)[k], types)
  <2>1. k - 1 \in 0..n BY <1>1
  <2>2. steps[k - 1] \in Successors(g) BY <1>11, <2>1
  <2> QED BY <1>3, <1>11, <2>2 DEF Stepwise
<1>13. steps[0] = g BY <1>11 DEF Stepwise
<1>14. FuseActivations(g, types) = steps[n] BY <1>1, <1>4, <1>11
<1> HIDE <1>2, <1>7, <1>8
<1> QED BY <1>11, <1>12, <1>13, <1>14 DEF n

LEMMA FuseActivationsGood ==
    ASSUME NEW g, Good(g), NEW types \in SUBSET (OperationTypes \ {"Split"})
    PROVE  FuseActivations(g, types) \in Successors(g)
<1>1. \E steps \in [0..Len(NodeIds(g)) -> Successors(g)] : FuseActivations(g, types) = steps[Len(NodeIds(g))]
  BY FuseActivationsSteps
<1>2. Len(NodeIds(g)) \in Nat BY NodeIdsAre, RankedIsGood
<1> QED BY <1>1, <1>2

(* The node that a node reads first.                                       *)
LEMMA FirstInput ==
    ASSUME NEW g, WellFormed(g), Full(g), NEW n \in LiveNodes(g), g.nodes[n].type \notin SourceTypes
    PROVE  LET e == g.nodes[n].in[1] s == g.edges[e].from IN
              /\ 1 \in Inputs(g, n) /\ e \in LiveEdges(g) /\ g.edges[e].to = n
              /\ s \in LiveNodes(g) /\ 1 \in Outputs(g, s)
              /\ <<s, 1>> \in Readable(g) /\ <<s, 1>> \in Nat \X Nat
<1>1. g.nodes[n] \in Nodes /\ NodeKnows(g, n) BY GraphIs DEF WellFormed
<1>2. g.nodes[n].in \in Seq(Nat) BY <1>1 DEF Nodes
<1>3. Len(g.nodes[n].in) >= 1 BY <1>1 DEF NodeKnows, Shaped
<1>4. 1 \in Inputs(g, n) BY <1>2, <1>3 DEF Inputs
<1> DEFINE e == g.nodes[n].in[1]
           s == g.edges[e].from
<1>5. e \in LiveEdges(g) /\ g.edges[e].to = n BY <1>1, <1>4 DEF Full, NodeKnows
<1>6. s \in LiveNodes(g) /\ g.edges[e].fromIdx \in Outputs(g, s) BY <1>5, EdgeFacts
<1> HIDE DEF e, s
<1>7. g.nodes[s].outputs \in Seq(Nat) /\ s \in 1..Len(g.nodes) /\ Len(g.nodes) \in Nat
  <2>1. g.nodes[s] \in Nodes BY <1>6, GraphIs DEF WellFormed
  <2>2. s \in 1..Len(g.nodes) /\ Len(g.nodes) \in Nat BY <1>6, GraphIs DEF WellFormed
  <2> QED BY <2>1, <2>2 DEF Nodes
<1>8. 1 \in Outputs(g, s) BY <1>6, <1>7 DEF Outputs
<1>9. <<s, 1>> \in Readable(g) BY <1>6, <1>8 DEF Readable
<1>10. s \in Nat BY <1>7
<1> QED BY <1>4, <1>5, <1>6, <1>8, <1>9, <1>10 DEF e, s

LEMMA FuseBatchNormGood ==
    ASSUME NEW g, Good(g), NEW n \in LiveNodes(g), g.nodes[n].type = "Conv"
    PROVE  Good(FuseBatchNorm(g, n)) /\ Len(FuseBatchNorm(g, n).nodes) >= Len(g.nodes)
<1> DEFINE bns    == Follower(g, n, "BatchNorm")
           bn     == CHOOSE b \in bns : TRUE
           source == g.edges[g.nodes[n].in[1]].from
           fused  == Len(g.nodes) + 1
           inputs == <<<<source, 1>>>>
           widths == <<Width(g, g.nodes[bn].outputs[1])>>
           grown  == AddConnected(g, "FusedConv", inputs, widths)
           added  == [grown EXCEPT !.nodes[fused].first = g.nodes[n].first, !.nodes[fused].last = g.nodes[bn].last]
           tr     == TransferDrivingNodes(added, fused, bn)
           h      == RemoveNode(tr, n)
<1>1. FuseBatchNorm(g, n) = IF bns = {} THEN g ELSE h BY DEF FuseBatchNorm
<1>2. g \in Graphs /\ Len(g.nodes) \in Nat BY RankedIsGood, GraphIs
<1>3. CASE bns = {}
  <2> HIDE DEF bns, h
  <2> QED BY <1>1, <1>2, <1>3
<1>4. CASE bns # {}
  <2>1. bn \in bns BY <1>4
  <2> HIDE DEF bn
  <2>2. PICK rank : Ranked(g, rank) BY RankedIsGood
  <2>3. WellFormed(g) /\ Full(g) /\ rank \in Ranks /\ OrderedBy(g, rank) BY <2>2 DEF Ranked
  <2>4. /\ bn \in LiveNodes(g) /\ g.nodes[bn].type = "BatchNorm"
        /\ \E e \in LiveEdges(g) : g.nodes[n].out = {e} /\ g.edges[e].from = n /\ g.edges[e].to = bn
    BY <2>1, <2>3, FollowerIs
  <2>5. PICK e0 \in LiveEdges(g) : g.nodes[n].out = {e0} /\ g.edges[e0].from = n /\ g.edges[e0].to = bn BY <2>4
  <2>6. "Conv" \notin SourceTypes /\ "BatchNorm" \in OperationTypes \ {"Split"}
    BY DEF SourceTypes, OperationTypes
  <2>7. /\ g.nodes[n].in[1] \in LiveEdges(g) /\ g.edges[g.nodes[n].in[1]].to = n
        /\ source \in LiveNodes(g) /\ <<source, 1>> \in Readable(g) /\ <<source, 1>> \in Nat \X Nat
    <3>1. g.nodes[n].type \notin SourceTypes BY <2>6
    <3> HIDE DEF bns, fused, source
    <3>2. LET e == g.nodes[n].in[1] s == g.edges[e].from
          IN  /\ e \in LiveEdges(g) /\ g.edges[e].to = n
              /\ s \in LiveNodes(g) /\ <<s, 1>> \in Readable(g) /\ <<s, 1>> \in Nat \X Nat
      BY ONLY <2>3, <3>1, n \in LiveNodes(g), FirstInput
    <3> QED BY ONLY <3>2 DEF source
  <2>8. rank[source] < rank[n] /\ rank[n] < rank[bn]
    <3> HIDE DEF source
    <3>1. rank[source] < rank[n] BY <2>3, <2>7 DEF OrderedBy, source
    <3>2. rank[n] < rank[bn] BY <2>3, <2>5 DEF OrderedBy
    <3> QED BY <3>1, <3>2
  <2>9. rank[source] \in Nat /\ rank[n] \in Nat /\ rank[bn] \in Nat
    <3>1. \A x \in LiveNodes(g) : x \in Nat BY <1>2, GraphIs
    <3> QED BY <2>3, <2>4, <2>7, <3>1 DEF Ranks
  <2> HIDE DEF source
  <2>10. source # n /\ n # bn BY <2>8, <2>9
  <2>11. 1 \in Outputs(g, bn) /\ g.nodes[bn].outputs[1] \in DOMAIN g.tensors BY <2>3, <2>4, <2>6, OneOutput
  <2>12. widths \in Seq(Nat) /\ Len(widths) = 1 /\ DOMAIN widths = {1}
    <3>1. Width(g, g.nodes[bn].outputs[1]) \in Nat BY <1>2, <2>11, GraphIs DEF Width, Tensors
    <3> HIDE DEF bns
    <3> QED BY <3>1
  <2>13. inputs \in Seq(Nat \X Nat) /\ Len(inputs) = 1 /\ DOMAIN inputs = {1} /\ inputs[1] = <<source, 1>> BY <2>7
  <2>14. inputs[1][1] = source /\ inputs[1] \in Readable(g) BY <2>7, <2>13
  <2> HIDE DEF inputs, widths
  <2>15. Addable(g, "FusedConv", inputs, widths)
    BY <2>3, <2>12, <2>13, <2>14 DEF Addable, NodeTypes, SourceTypes, OperationTypes
  <2>16. rank[bn] \in Nat /\ \A i \in DOMAIN inputs : rank[inputs[i][1]] < rank[bn]
    BY <2>8, <2>9, <2>13, <2>14
  <2>17. /\ Grown(grown, g, "FusedConv", inputs, widths)
         /\ \E raised : /\ Ranked(grown, raised) /\ raised[fused] = rank[bn]
                        /\ \A m \in LiveNodes(g) : raised[m] = rank[m]
    BY <2>2, <2>15, <2>16, AddRanked
  <2>18. PICK raised : /\ Ranked(grown, raised) /\ raised[fused] = rank[bn]
                       /\ \A m \in LiveNodes(g) : raised[m] = rank[m]
    BY <2>17
  <2> HIDE DEF grown, fused
  <2>19. /\ grown \in Graphs /\ fused \notin LiveNodes(g) /\ LiveNodes(grown) = LiveNodes(g) \union {fused}
         /\ Len(grown.nodes) = Len(g.nodes) + 1
         /\ grown.nodes[bn].outputs = g.nodes[bn].outputs
         /\ Outputs(grown, fused) = {1}
         /\ \A e \in LiveEdges(g) : grown.edges[e] = g.edges[e]
         /\ \A e \in LiveEdges(grown) \ LiveEdges(g) : grown.edges[e].from = source
    BY <2>4, <2>12, <2>13, <2>14, <2>17 DEF Grown, WellFormed, fused
  <2>20. /\ g.nodes[n].first \in Nat /\ g.nodes[bn].last \in Nat
    <3>1. g.nodes[n] \in Nodes /\ g.nodes[bn] \in Nodes BY <1>2, <2>4, GraphIs
    <3> QED BY <3>1 DEF Nodes
  <2>21. Alike(added, grown) BY <2>19, <2>20, FirstLastAlike
  <2> HIDE DEF added
  <2>22. Ranked(added, raised) /\ LiveNodes(added) = LiveNodes(grown) /\ Len(added.nodes) = Len(grown.nodes)
    BY <2>18, <2>21, AlikeRanked
  <2>23. /\ LiveEdges(added) = LiveEdges(grown) /\ added.edges = grown.edges
         /\ \A m \in LiveNodes(grown) : Outputs(added, m) = Outputs(grown, m)
    BY <2>21 DEF Alike, LiveEdges, Outputs
  <2>24. ASSUME NEW e \in LiveEdges(added), added.edges[e].from = bn
         PROVE  raised[fused] < raised[added.edges[e].to]
    <3>1. raised[bn] < raised[added.edges[e].to] BY <2>22, <2>24 DEF Ranked, OrderedBy
    <3> QED BY <2>4, <2>18, <3>1
  <2>25. Transferable(added, fused, bn, raised)
    <3>1. fused # bn /\ {fused, bn} \subseteq LiveNodes(grown) BY <2>4, <2>19
    <3>2. 1 \in Outputs(added, fused) BY <2>19, <2>23
    <3>3. 1 \in Outputs(added, bn) BY <2>11, <2>19, <2>23, <3>1 DEF Outputs
    <3> QED BY <2>22, <2>24, <3>1, <3>2, <3>3 DEF Transferable, Ranked
  <2>26. Transferred(tr, added, fused, bn, raised) BY <2>25, TransferDrivingNodesIs
  <2> HIDE DEF tr
  <2>27. WellFormed(tr) /\ n \in LiveNodes(tr) /\ n # fused
    BY <2>10, <2>19, <2>22, <2>26 DEF Transferred
  <2>28. tr.nodes[n].out = {}
    <3> SUFFICES ASSUME NEW e \in tr.nodes[n].out PROVE FALSE OBVIOUS
    <3>1. e \in LiveEdges(tr) /\ tr.edges[e].from = n BY <2>27 DEF WellFormed, NodeKnows
    <3>2. e \in LiveEdges(added) /\ tr.edges[e] = added.edges[e] /\ added.edges[e].to # bn
      BY <2>26, <2>27, <3>1 DEF Transferred
    <3>3. e \in LiveEdges(grown) /\ grown.edges[e].from = n /\ grown.edges[e].to # bn BY <2>23, <3>1, <3>2
    <3>4. e \in LiveEdges(g) BY <2>10, <2>19, <3>3
    <3>5. g.edges[e].from = n /\ g.edges[e].to # bn BY <2>19, <3>3, <3>4
    <3>6. e \in g.nodes[n].out BY <2>3, <3>4, <3>5, EdgeFacts
    <3> QED BY <2>5, <3>5, <3>6
  <2>29. Cut(h, tr, n) BY <2>27, RemoveNodeIs
  <2> HIDE DEF h
  <2>30. WellFormed(h) /\ Full(h) /\ OrderedBy(h, raised)
    <3>1. Full(tr) /\ OrderedBy(tr, raised) BY <2>26 DEF Transferred
    <3> QED BY <2>27, <2>28, <2>29, <3>1, CutWellFormed, CutFull, CutOrdered
  <2>31. Good(h)
    <3>1. Ranked(h, raised) BY <2>18, <2>30 DEF Ranked
    <3> QED BY <3>1, RankedIsGood
  <2>32. Len(h.nodes) = Len(g.nodes) + 1
    <3>1. DOMAIN h.nodes = DOMAIN added.nodes BY <2>26, <2>29 DEF Cut, Transferred
    <3>2. h \in Graphs /\ added \in Graphs BY <2>22, <2>30 DEF WellFormed, Ranked
    <3> QED BY <2>19, <2>22, <3>1, <3>2, SameSizes
  <2> QED BY <1>1, <1>2, <1>4, <2>31, <2>32
<1> QED BY <1>3, <1>4

BatchNormFused(h, n) == IF h.nodes[n].type = "Conv" THEN FuseBatchNorm(h, n) ELSE h

LEMMA FuseBatchNormsSteps ==
    ASSUME NEW g, Good(g)
    PROVE  \E steps \in [0..Len(NodeIds(g)) -> Successors(g)] :
              /\ steps[0] = g /\ \A k \in 1..Len(NodeIds(g)) : steps[k] = BatchNormFused(steps[k - 1], NodeIds(g)[k])
              /\ FuseBatchNorms(g) = steps[Len(NodeIds(g))]
<1> DEFINE n == Len(NodeIds(g))
           Step == [x \in (Successors(g)) \X (1..n) |-> BatchNormFused(x[1], NodeIds(g)[x[2]])]
<1>1. n \in Nat /\ DOMAIN NodeIds(g) = 1..n BY NodeIdsAre, RankedIsGood
<1>2. /\ g \in Successors(g)
      /\ \A x \in Successors(g), k \in 1..n : BatchNormFused(x, NodeIds(g)[k]) \in Successors(g)
  <2>1. g \in Successors(g) BY RankedIsGood, GraphIs DEF Successors
  <2>2. ASSUME NEW x \in Successors(g), NEW k \in 1..n PROVE BatchNormFused(x, NodeIds(g)[k]) \in Successors(g)
    <3>1. g \in Graphs /\ k \in 1..Len(g.nodes) /\ NodeIds(g)[k] = k /\ Len(g.nodes) \in Nat
      BY <1>1, NodeIdsAre, RankedIsGood
    <3>2. Good(x) /\ x \in Graphs /\ Len(x.nodes) >= Len(g.nodes) /\ Len(x.nodes) \in Nat BY GraphIs DEF Successors
    <3>3. k \in LiveNodes(x) \/ x.nodes[k] = NoNode BY <3>1, LiveOrRemoved
    <3>4. CASE x.nodes[k].type = "Conv"
      <4>1. k \in LiveNodes(x) BY <3>3, <3>4 DEF NoNode
      <4> DEFINE y == FuseBatchNorm(x, k)
      <4>2. Good(y) /\ Len(y.nodes) >= Len(x.nodes) BY <3>2, <3>4, <4>1, FuseBatchNormGood
      <4>3. BatchNormFused(x, k) = y BY <3>4 DEF BatchNormFused
      <4> HIDE DEF y
      <4>4. y \in Graphs /\ Len(y.nodes) \in Nat BY <4>2, RankedIsGood, GraphIs
      <4> QED BY <3>1, <3>2, <4>2, <4>3, <4>4 DEF Successors
    <3>5. CASE x.nodes[k].type # "Conv" BY <3>1, <3>5 DEF BatchNormFused
    <3> QED BY <3>4, <3>5
  <2> QED BY <2>1, <2>2
<1>3. Step \in [(Successors(g)) \X (1..n) -> Successors(g)] /\ \A x \in Successors(g), k \in 1..n : Step[<<x, k>>] = BatchNormFused(x, NodeIds(g)[k])
  BY <1>2
<1> HIDE DEF n, Step
<1> DEFINE Eq(it) == it = [z \in SUBSET DOMAIN NodeIds(g) |->
                             IF z = {} THEN g ELSE BatchNormFused(it[z \ {Max(z)}], NodeIds(g)[Max(z)])]
           tab == CHOOSE it : Eq(it)
<1>4. FuseBatchNorms(g) = tab[DOMAIN NodeIds(g)]
  BY Zenon DEF FoldLeft, MapThenFoldSet, FuseBatchNorms, BatchNormFused
<1>5. PICK it \in [SUBSET (1..n) -> Successors(g)] : FoldsBy(it, 1..n, g, Step)
  <2>1. HasFold(n, Successors(g), g, Step) BY <1>1, <1>2, <1>3, FoldOfSet
  <2> QED BY <2>1 DEF HasFold
<1>6. Eq(it)
  <2>1. ASSUME NEW z \in SUBSET (1..n)
        PROVE  it[z] = IF z = {} THEN g ELSE BatchNormFused(it[z \ {Max(z)}], NodeIds(g)[Max(z)])
    <3>1. CASE z = {} BY <1>5, <3>1 DEF FoldsBy
    <3>2. CASE z # {}
      <4>1. Max(z) \in 1..n BY <1>1, <3>2, MaxOfSome
      <4>2. it[z \ {Max(z)}] \in Successors(g)
        <5>1. z \ {Max(z)} \in SUBSET (1..n) OBVIOUS
        <5> QED BY <1>5, <5>1
      <4>3. it[z] = Step[<<it[z \ {Max(z)}], Max(z)>>] BY <1>5, <3>2 DEF FoldsBy
      <4> QED BY <1>3, <3>2, <4>1, <4>2, <4>3
    <3> QED BY <3>1, <3>2
  <2> QED BY <1>1, <1>5, <2>1
<1>7. Eq(tab)
  <2> HIDE DEF Eq
  <2> QED BY <1>6
<1> HIDE DEF tab
<1>8. ASSUME NEW z \in SUBSET (1..n), z # {}, tab[z \ {Max(z)}] \in Successors(g)
      PROVE  tab[z] = Step[<<tab[z \ {Max(z)}], Max(z)>>]
  <2>1. Max(z) \in 1..n BY <1>1, <1>8, MaxOfSome
  <2>2. tab[z] = BatchNormFused(tab[z \ {Max(z)}], NodeIds(g)[Max(z)]) BY <1>1, <1>7, <1>8
  <2> QED BY <1>3, <1>8, <2>1, <2>2
<1>9. tab[{}] = g BY <1>1, <1>7
<1>10. Folded(tab[1..n], n, Successors(g), g, Step) BY <1>1, <1>2, <1>3, <1>8, <1>9, FoldTable
<1>11. PICK steps \in [0..n -> Successors(g)] : Stepwise(steps, n, g, Step) /\ tab[1..n] = steps[n]
  BY <1>10 DEF Folded
<1>12. ASSUME NEW k \in 1..n PROVE steps[k] = BatchNormFused(steps[k - 1], NodeIds(g)[k])
  <2>1. k - 1 \in 0..n BY <1>1
  <2>2. steps[k - 1] \in Successors(g) BY <1>11, <2>1
  <2> QED BY <1>3, <1>11, <2>2 DEF Stepwise
<1>13. steps[0] = g BY <1>11 DEF Stepwise
<1>14. FuseBatchNorms(g) = steps[n] BY <1>1, <1>4, <1>11
<1> HIDE <1>2, <1>7, <1>8
<1> QED BY <1>11, <1>12, <1>13, <1>14 DEF n

LEMMA FuseGood ==
    ASSUME NEW g, Good(g)
    PROVE  Good(Fuse(g))
<1> DEFINE a == FuseActivations(g, {"BatchNorm"})
           b == FuseActivations(a, {"Conv", "GroupedConv"})
           c == FuseActivations(b, {"FullyConnected"})
<1>1. ASSUME NEW h, Good(h) PROVE FuseBatchNorms(h) \in Successors(h)
  <2>1. \E steps \in [0..Len(NodeIds(h)) -> Successors(h)] : FuseBatchNorms(h) = steps[Len(NodeIds(h))]
    BY <1>1, FuseBatchNormsSteps
  <2>2. Len(NodeIds(h)) \in Nat BY <1>1, NodeIdsAre, RankedIsGood
  <2> QED BY <2>1, <2>2
<1>2. /\ {"BatchNorm"} \in SUBSET (OperationTypes \ {"Split"})
      /\ {"Conv", "GroupedConv"} \in SUBSET (OperationTypes \ {"Split"})
      /\ {"FullyConnected"} \in SUBSET (OperationTypes \ {"Split"})
  BY DEF OperationTypes
<1>3. Good(a) BY <1>2, FuseActivationsGood DEF Successors
<1> HIDE DEF a
<1>4. Good(b) BY <1>2, <1>3, FuseActivationsGood DEF Successors
<1> HIDE DEF b
<1>5. Good(c) BY <1>2, <1>4, FuseActivationsGood DEF Successors
<1>6. Fuse(g) = FuseBatchNorms(c) BY DEF Fuse, a, b
<1> HIDE DEF c
<1> QED BY <1>1, <1>5, <1>6 DEF Successors

-----------------------------------------------------------------------------
(* A node that computes, added to a graph.                                 *)

LEMMA ResultWidthsAre ==
    ASSUME NEW a \in Nat, NEW b \in Nat, NEW type \in OperationTypes
    PROVE  /\ ResultWidths(type, a, b) \in Seq(Nat)
           /\ Len(ResultWidths(type, a, b)) = (IF type = "Split" THEN 2 ELSE 1)
           /\ DOMAIN ResultWidths(type, a, b) = IF type = "Split" THEN {1, 2} ELSE {1}
<1>1. CASE type = "Elt" BY <1>1 DEF ResultWidths
<1>2. CASE type = "Concat"
  <2>1. a + b \in Nat OBVIOUS
  <2> QED BY <1>2, <2>1 DEF ResultWidths
<1>3. CASE type = "Split"
  <2> DEFINE half == a \div 2
  <2>1. half \in Nat OBVIOUS
  <2>2. ResultWidths(type, a, b) = <<half, half>> BY <1>3 DEF ResultWidths
  <2> HIDE DEF half
  <2>3. <<half, half>> \in Seq(Nat) /\ Len(<<half, half>>) = 2 /\ DOMAIN <<half, half>> = {1, 2} BY <2>1
  <2> QED BY <1>3, <2>2, <2>3
<1>4. CASE type \notin {"Elt", "Concat", "Split"} BY <1>4 DEF ResultWidths
<1> QED BY <1>1, <1>2, <1>3, <1>4

LEMMA ReadableIs ==
    ASSUME NEW g, WellFormed(g), NEW p \in Readable(g)
    PROVE  /\ p[1] \in LiveNodes(g) /\ p[2] \in Outputs(g, p[1])
           /\ TensorOf(g, p) \in DOMAIN g.tensors /\ Width(g, TensorOf(g, p)) \in Nat
<1>1. PICK n \in LiveNodes(g) : p \in {n} \X Outputs(g, n) BY DEF Readable
<1>2. p[1] = n /\ p[2] \in Outputs(g, n) BY <1>1
<1>3. TensorOf(g, p) \in DOMAIN g.tensors BY <1>2 DEF WellFormed, NodeKnows, TensorOf
<1>4. g.tensors[TensorOf(g, p)] \in Tensors BY <1>3, GraphIs DEF WellFormed
<1> QED BY <1>2, <1>3, <1>4 DEF Width, Tensors

(* Graph h is g with one more node, of rank r.                             *)
Appended(h, raised, g, rank, r, outputs) == LET n == Len(g.nodes) + 1 IN
    /\ Ranked(h, raised) /\ n \in Nat \ {0} /\ n \notin LiveNodes(g) /\ LiveNodes(h) = LiveNodes(g) \union {n}
    /\ Len(h.nodes) = n /\ Outputs(h, n) = outputs /\ raised[n] = r
    /\ \A m \in LiveNodes(g) : /\ h.nodes[m].type = g.nodes[m].type /\ h.nodes[m].outputs = g.nodes[m].outputs
                               /\ raised[m] = rank[m]

LEMMA AddedIsAppended ==
    ASSUME NEW g, NEW rank, Ranked(g, rank), NEW type, NEW inputs, NEW widths, Addable(g, type, inputs, widths),
           NEW r \in Nat, \A i \in DOMAIN inputs : rank[inputs[i][1]] < r
    PROVE  \E raised : Appended(AddConnected(g, type, inputs, widths), raised, g, rank, r, DOMAIN widths)
<1> DEFINE h == AddConnected(g, type, inputs, widths)
           n == Len(g.nodes) + 1
<1>1. /\ Grown(h, g, type, inputs, widths)
      /\ \E raised : /\ Ranked(h, raised) /\ raised[n] = r
                     /\ \A m \in LiveNodes(g) : raised[m] = rank[m]
  BY AddRanked
<1> HIDE DEF h
<1>2. PICK raised : /\ Ranked(h, raised) /\ raised[n] = r
                    /\ \A m \in LiveNodes(g) : raised[m] = rank[m]
  BY <1>1
<1>3. Appended(h, raised, g, rank, r, DOMAIN widths) BY <1>1, <1>2 DEF Appended, Grown
<1> QED BY <1>3 DEF h

LEMMA AlikeAppended ==
    ASSUME NEW g, NEW rank, NEW r, NEW outputs, NEW h, NEW raised, Appended(h, raised, g, rank, r, outputs),
           NEW k, Alike(k, h)
    PROVE  Appended(k, raised, g, rank, r, outputs)
<1> DEFINE n == Len(g.nodes) + 1
<1>1. Ranked(k, raised) /\ LiveNodes(k) = LiveNodes(h) /\ Len(k.nodes) = Len(h.nodes)
  BY AlikeRanked DEF Appended
<1>2. n \in LiveNodes(h) BY DEF Appended
<1>3. Outputs(k, n) = Outputs(h, n) BY <1>2 DEF Alike, Outputs
<1>4. ASSUME NEW m \in LiveNodes(g)
      PROVE  k.nodes[m].type = g.nodes[m].type /\ k.nodes[m].outputs = g.nodes[m].outputs
  BY DEF Alike, Appended
<1> QED BY <1>1, <1>3, <1>4 DEF Appended

LEMMA ComputingAddable ==
    ASSUME NEW g, WellFormed(g), NEW type \in OperationTypes, NEW inputs \in Seq(Nat \X Nat),
           Len(inputs) = NumInputs(type), \A i \in DOMAIN inputs : inputs[i] \in Readable(g)
    PROVE  \E widths : /\ Addable(g, type, inputs, widths)
                       /\ WithComputing(g, type, inputs) = AddConnected(g, type, inputs, widths)
                       /\ DOMAIN widths = IF type = "Split" THEN {1, 2} ELSE {1}
<1> DEFINE a == InputWidth(g, inputs, 1)
           b == InputWidth(g, inputs, Len(inputs))
           widths == ResultWidths(type, a, b)
<1>2. Len(inputs) \in {1, 2} /\ (type = "FullyConnected" => Len(inputs) = 2) BY DEF NumInputs
<1>3. DOMAIN inputs = 1..Len(inputs) OBVIOUS
<1>4. 1 \in DOMAIN inputs /\ Len(inputs) \in DOMAIN inputs BY <1>2, <1>3
<1>5. a \in Nat /\ b \in Nat BY <1>4, ReadableIs DEF InputWidth
<1> HIDE DEF a, b
<1>6. /\ widths \in Seq(Nat) /\ Len(widths) = (IF type = "Split" THEN 2 ELSE 1)
      /\ DOMAIN widths = IF type = "Split" THEN {1, 2} ELSE {1}
  BY <1>5, ResultWidthsAre
<1> HIDE DEF widths
<1>7. type \notin SourceTypes /\ type \in NodeTypes /\ type # "FusedConv"
  BY DEF SourceTypes, OperationTypes, NodeTypes
<1>8. type \in (OperationTypes \ {"Split"}) \union {"FusedConv"} => Len(widths) = 1 BY <1>6, <1>7
<1>9. Addable(g, type, inputs, widths) BY <1>2, <1>6, <1>7, <1>8 DEF Addable
<1>10. WithComputing(g, type, inputs) = AddConnected(g, type, inputs, widths)
  BY DEF WithComputing, widths, a, b
<1> QED BY <1>6, <1>9, <1>10

LEMMA ComputingAppended ==
    ASSUME NEW g, NEW rank, Ranked(g, rank), NEW type \in OperationTypes, NEW inputs \in Seq(Nat \X Nat),
           Len(inputs) = NumInputs(type), \A i \in DOMAIN inputs : inputs[i] \in Readable(g),
           NEW r \in Nat, \A i \in DOMAIN inputs : rank[inputs[i][1]] < r
    PROVE  \E raised : Appended(WithComputing(g, type, inputs), raised, g, rank, r,
                                IF type = "Split" THEN {1, 2} ELSE {1})
<1>1. WellFormed(g) BY DEF Ranked
<1>2. PICK widths : /\ Addable(g, type, inputs, widths)
                    /\ WithComputing(g, type, inputs) = AddConnected(g, type, inputs, widths)
                    /\ DOMAIN widths = IF type = "Split" THEN {1, 2} ELSE {1}
  BY <1>1, ComputingAddable
<1>3. \E raised : Appended(AddConnected(g, type, inputs, widths), raised, g, rank, r, DOMAIN widths)
  BY <1>2, AddedIsAppended
<1> QED BY <1>2, <1>3

LEMMA GroupAppended ==
    ASSUME NEW g, NEW rank, Ranked(g, rank), NEW x \in LiveNodes(g), NEW k \in Outputs(g, x), k \in Nat,
           NEW width \in Nat, NEW first \in Nat, NEW last \in Nat, NEW part \in Nat \X Nat,
           NEW n, n = Len(g.nodes) + 1, NEW r \in Nat, rank[x] < r
    PROVE  LET h == [AddConnected(g, "Conv", <<<<x, k>>>>, <<width>>)
                       EXCEPT !.nodes[n].first = first, !.nodes[n].last = last, !.nodes[n].part = part]
           IN  \E raised : Appended(h, raised, g, rank, r, {1})
<1> DEFINE inputs == <<<<x, k>>>>
           widths == <<width>>
           a == AddConnected(g, "Conv", inputs, widths)
           h == [a EXCEPT !.nodes[n].first = first, !.nodes[n].last = last, !.nodes[n].part = part]
<1>1. WellFormed(g) BY DEF Ranked
<1>2. <<x, k>> \in Readable(g) BY DEF Readable
<1>3. x \in Nat BY <1>1, GraphIs DEF WellFormed
<1>4. /\ inputs \in Seq(Nat \X Nat) /\ Len(inputs) = 1 /\ DOMAIN inputs = {1}
      /\ inputs[1][1] = x /\ inputs[1] \in Readable(g)
  BY <1>2, <1>3
<1>5. widths \in Seq(Nat) /\ Len(widths) = 1 /\ DOMAIN widths = {1} OBVIOUS
<1> HIDE DEF inputs, widths
<1>6. Addable(g, "Conv", inputs, widths)
  BY <1>1, <1>4, <1>5 DEF Addable, NodeTypes, SourceTypes, OperationTypes
<1>7. \A i \in DOMAIN inputs : rank[inputs[i][1]] < r BY <1>4
<1>8. \E raised : Appended(a, raised, g, rank, r, DOMAIN widths) BY <1>6, <1>7, AddedIsAppended
<1> HIDE DEF a
<1>9. PICK raised : Appended(a, raised, g, rank, r, DOMAIN widths) BY <1>8
<1>10. a \in Graphs /\ n \in LiveNodes(a) BY <1>9 DEF Appended, Ranked, WellFormed
<1>11. Alike(h, a) BY <1>10, PartAlike
<1> HIDE DEF h
<1>12. Appended(h, raised, g, rank, r, DOMAIN widths) BY <1>9, <1>11, AlikeAppended
<1> QED BY <1>5, <1>12 DEF h, a, inputs, widths

LEMMA RanksMultiplied ==
    ASSUME NEW g, NEW rank, Ranked(g, rank)
    PROVE  Ranked(g, [x \in Nat |-> 4 * rank[x]])
<1>1. rank \in [Nat -> Nat] /\ WellFormed(g) /\ Full(g) /\ OrderedBy(g, rank) BY DEF Ranked, Ranks
<1> DEFINE four == [x \in Nat |-> 4 * rank[x]]
<1>2. \A x \in Nat : rank[x] \in Nat /\ 4 * rank[x] \in Nat BY <1>1
<1>3. four \in [Nat -> Nat] BY <1>2
<1>4. ASSUME NEW e \in LiveEdges(g) PROVE four[g.edges[e].from] < four[g.edges[e].to]
  <2>1. g.edges[e].from \in LiveNodes(g) /\ g.edges[e].to \in LiveNodes(g) BY <1>1, EdgeFacts
  <2>2. g.edges[e].from \in Nat /\ g.edges[e].to \in Nat BY <1>1, <2>1, LiveNodesAreNumbers
  <2>3. rank[g.edges[e].from] < rank[g.edges[e].to] BY <1>1 DEF OrderedBy
  <2> QED BY <1>2, <2>2, <2>3
<1> HIDE DEF four
<1> QED BY <1>1, <1>3, <1>4 DEF Ranked, Ranks, OrderedBy, four

LEMMA GroupedIsAppended ==
    ASSUME NEW g, NEW rank, Ranked(g, rank), NEW n \in LiveNodes(g), g.nodes[n].type = "GroupedConv",
           NEW source \in LiveNodes(g), <<source, 1>> \in Readable(g), rank[source] < rank[n]
    PROVE  LET h == CreateGroupedConvolution(g, n, <<source, 1>>)
           IN  \E raised : /\ Transferable(h, Len(h.nodes), n, raised) /\ Len(h.nodes) = Len(g.nodes) + 4
<1> DEFINE half  == Width(g, g.nodes[n].outputs[1]) \div 2
           split == Len(g.nodes) + 1
           first == g.nodes[n].first
           last  == g.nodes[n].last
           in1   == <<<<source, 1>>>>
           in4   == <<<<split + 1, 1>>, <<split + 2, 1>>>>
           s1 == WithComputing(g, "Split", in1)
           s2 == [AddConnected(s1, "Conv", <<<<split, 1>>>>, <<half>>)
                    EXCEPT !.nodes[split + 1].first = first, !.nodes[split + 1].last = last,
                           !.nodes[split + 1].part = <<1, 2>>]
           s3 == [AddConnected(s2, "Conv", <<<<split, 2>>>>, <<half>>)
                    EXCEPT !.nodes[split + 2].first = first, !.nodes[split + 2].last = last,
                           !.nodes[split + 2].part = <<2, 2>>]
           s4 == WithComputing(s3, "Concat", in4)
           four == [x \in Nat |-> 4 * rank[x]]
           top  == 4 * rank[n]
<1>1. CreateGroupedConvolution(g, n, <<source, 1>>) = s4 BY DEF CreateGroupedConvolution
<1>2. WellFormed(g) /\ rank \in [Nat -> Nat] BY DEF Ranked, Ranks
<1>3. /\ g \in Graphs /\ Len(g.nodes) \in Nat /\ \A x \in LiveNodes(g) : x \in Nat /\ g.nodes[x] \in Nodes
  <2>1. g \in Graphs BY <1>2 DEF WellFormed
  <2>2. \A x \in LiveNodes(g) : x \in Nat BY <2>1, GraphIs
  <2> QED BY <2>1, <2>2, GraphIs
<1>4. Ranked(g, four) BY RanksMultiplied
<1>5. /\ rank[source] \in Nat /\ rank[n] \in Nat /\ four[n] = top /\ four[source] = 4 * rank[source]
  BY <1>2, <1>3
<1>6. /\ four[source] < top - 3 /\ top - 3 \in Nat /\ top - 2 \in Nat /\ top - 1 \in Nat
      /\ top - 3 < top - 2 /\ top - 2 < top - 1 /\ top - 1 < top
  <2> HIDE DEF four
  <2> QED BY <1>5
<1> HIDE DEF four
<1>7. first \in Nat /\ last \in Nat BY <1>3 DEF Nodes
<1>8. half \in Nat
  <2>1. "GroupedConv" \in OperationTypes \ {"Split"} BY DEF OperationTypes
  <2>2. g.nodes[n].outputs[1] \in DOMAIN g.tensors BY <1>2, <2>1, OneOutput
  <2>3. Width(g, g.nodes[n].outputs[1]) \in Nat BY <1>3, <2>2, GraphIs DEF Width, Tensors
  <2> HIDE DEF Width
  <2> QED BY <2>3
<1> HIDE DEF half, first, last
<1>9. "Split" \in OperationTypes /\ "Concat" \in OperationTypes /\ "Split" # "Concat" BY DEF OperationTypes
<1>10. PICK r1 : Appended(s1, r1, g, four, top - 3, {1, 2})
  <2>1. /\ in1 \in Seq(Nat \X Nat) /\ Len(in1) = 1 /\ DOMAIN in1 = {1} /\ in1[1] = <<source, 1>> BY <1>3
  <2>2. in1[1][1] = source BY <2>1
  <2> HIDE DEF in1
  <2>3. Len(in1) = NumInputs("Split") BY <2>1 DEF NumInputs
  <2>4. \A i \in DOMAIN in1 : in1[i] \in Readable(g) BY <2>1
  <2>5. \A i \in DOMAIN in1 : four[in1[i][1]] < top - 3 BY <1>6, <2>1, <2>2
  <2>6. \E r1 : Appended(s1, r1, g, four, top - 3, IF "Split" = "Split" THEN {1, 2} ELSE {1})
    BY <1>4, <1>6, <1>9, <2>1, <2>3, <2>4, <2>5, ComputingAppended
  <2> QED BY <2>6
<1> HIDE DEF s1
<1>11. /\ Ranked(s1, r1) /\ split \in Nat \ {0} /\ split \notin LiveNodes(g) /\ LiveNodes(s1) = LiveNodes(g) \union {split}
       /\ Len(s1.nodes) = split /\ Outputs(s1, split) = {1, 2} /\ r1[split] = top - 3
       /\ s1.nodes[n].outputs = g.nodes[n].outputs /\ r1[n] = top
  BY <1>5, <1>10 DEF Appended
<1>12. PICK r2 : Appended(s2, r2, s1, r1, top - 2, {1})
  <2>1. split + 1 = Len(s1.nodes) + 1 /\ split \in LiveNodes(s1) /\ 1 \in Outputs(s1, split) /\ r1[split] < top - 2
    BY <1>6, <1>11
  <2>2. <<1, 2>> \in Nat \X Nat /\ 1 \in Nat OBVIOUS
  <2>3. Ranked(s1, r1) /\ half \in Nat /\ first \in Nat /\ last \in Nat /\ top - 2 \in Nat
    BY <1>6, <1>7, <1>8, <1>11
  <2> HIDE DEF split, top, s3, s4, in1, in4
  <2> QED BY ONLY <2>1, <2>2, <2>3, GroupAppended
<1> HIDE DEF s2
<1>13. /\ Ranked(s2, r2) /\ split + 1 \notin LiveNodes(s1) /\ LiveNodes(s2) = LiveNodes(s1) \union {split + 1}
       /\ Len(s2.nodes) = split + 1 /\ Outputs(s2, split + 1) = {1} /\ r2[split + 1] = top - 2
       /\ Outputs(s2, split) = {1, 2} /\ r2[split] = top - 3
       /\ s2.nodes[n].outputs = g.nodes[n].outputs /\ r2[n] = top
  <2>1. split \in LiveNodes(s1) /\ n \in LiveNodes(s1) BY <1>11
  <2>2. Len(s1.nodes) + 1 = split + 1 BY <1>11
  <2> HIDE DEF split, top
  <2> QED BY <1>11, <1>12, <2>1, <2>2 DEF Appended, Outputs
<1>14. PICK r3 : Appended(s3, r3, s2, r2, top - 2, {1})
  <2>1. split + 2 = Len(s2.nodes) + 1 /\ split \in LiveNodes(s2) /\ 2 \in Outputs(s2, split) /\ r2[split] < top - 2
    BY <1>6, <1>11, <1>13
  <2>2. <<2, 2>> \in Nat \X Nat /\ 2 \in Nat OBVIOUS
  <2>3. Ranked(s2, r2) /\ half \in Nat /\ first \in Nat /\ last \in Nat /\ top - 2 \in Nat
    BY <1>6, <1>7, <1>8, <1>13
  <2> HIDE DEF split, top, s4, in1, in4
  <2> QED BY ONLY <2>1, <2>2, <2>3, GroupAppended
<1> HIDE DEF s3
<1>15. /\ Ranked(s3, r3) /\ split + 2 \notin LiveNodes(s2) /\ LiveNodes(s3) = LiveNodes(s2) \union {split + 2}
       /\ Len(s3.nodes) = split + 2 /\ Outputs(s3, split + 2) = {1} /\ r3[split + 2] = top - 2
       /\ Outputs(s3, split + 1) = {1} /\ r3[split + 1] = top - 2
       /\ s3.nodes[n].outputs = g.nodes[n].outputs /\ r3[n] = top
  <2>1. split + 1 \in LiveNodes(s2) /\ n \in LiveNodes(s2) BY <1>11, <1>13
  <2>2. Len(s2.nodes) + 1 = split + 2 BY <1>11, <1>13
  <2> HIDE DEF split, top
  <2> QED BY <1>13, <1>14, <2>1, <2>2 DEF Appended, Outputs
<1>16. PICK r4 : Appended(s4, r4, s3, r3, top - 1, {1})
  <2>1. split + 1 \in LiveNodes(s3) /\ split + 2 \in LiveNodes(s3) BY <1>13, <1>15
  <2>2. <<split + 1, 1>> \in Readable(s3) /\ <<split + 2, 1>> \in Readable(s3) BY <1>15, <2>1 DEF Readable
  <2>3. split + 1 \in Nat /\ split + 2 \in Nat BY <1>11
  <2> HIDE DEF split, top
  <2>4. /\ in4 \in Seq(Nat \X Nat) /\ Len(in4) = 2 /\ DOMAIN in4 = {1, 2}
        /\ in4[1] = <<split + 1, 1>> /\ in4[2] = <<split + 2, 1>>
    BY <2>3
  <2>5. in4[1][1] = split + 1 /\ in4[2][1] = split + 2 BY <2>4
  <2> HIDE DEF in4
  <2>6. Len(in4) = NumInputs("Concat") BY <2>4 DEF NumInputs
  <2>7. \A i \in DOMAIN in4 : in4[i] \in Readable(s3) BY <2>2, <2>4
  <2>8. \A i \in DOMAIN in4 : r3[in4[i][1]] < top - 1 BY <1>6, <1>15, <2>4, <2>5
  <2>9. \E r4 : Appended(s4, r4, s3, r3, top - 1, IF "Concat" = "Split" THEN {1, 2} ELSE {1})
    BY <1>6, <1>9, <1>15, <2>4, <2>6, <2>7, <2>8, ComputingAppended
  <2> QED BY <1>9, <2>9
<1> HIDE DEF s4
<1> DEFINE new == Len(s4.nodes)
<1>17. /\ Ranked(s4, r4) /\ new \notin LiveNodes(s3) /\ LiveNodes(s4) = LiveNodes(s3) \union {new}
       /\ new = split + 3 /\ Outputs(s4, new) = {1} /\ r4[new] = top - 1
       /\ s4.nodes[n].outputs = g.nodes[n].outputs /\ r4[n] = top
  <2>1. n \in LiveNodes(s3) BY <1>11, <1>13, <1>15
  <2>2. Len(s3.nodes) + 1 = split + 3 BY <1>11, <1>15
  <2> HIDE DEF split, top
  <2> QED BY <1>15, <1>16, <2>1, <2>2 DEF Appended
<1>18. n \in LiveNodes(s3) BY <1>11, <1>13, <1>15
<1>19. 1 \in Outputs(s4, n)
  <2>1. "GroupedConv" \in OperationTypes \ {"Split"} BY DEF OperationTypes
  <2>2. 1 \in Outputs(g, n) BY <1>2, <2>1, OneOutput
  <2> QED BY <1>17, <2>2 DEF Outputs
<1>20. ASSUME NEW e \in LiveEdges(s4), s4.edges[e].from = n PROVE r4[new] < r4[s4.edges[e].to]
  <2>1. r4[n] < r4[s4.edges[e].to] BY <1>17, <1>20 DEF Ranked, OrderedBy
  <2>2. r4[s4.edges[e].to] \in Nat
    <3>1. WellFormed(s4) /\ r4 \in [Nat -> Nat] BY <1>17 DEF Ranked, Ranks
    <3>2. s4.edges[e].to \in LiveNodes(s4) BY <3>1, EdgeFacts
    <3>3. s4.edges[e].to \in Nat BY <3>1, <3>2, LiveNodesAreNumbers
    <3> QED BY <3>1, <3>3
  <2>3. top \in Nat BY <1>5
  <2> HIDE DEF top, new
  <2> QED BY <1>17, <2>1, <2>2, <2>3
<1>21. Transferable(s4, new, n, r4)
  <2> HIDE DEF new
  <2> QED BY <1>17, <1>18, <1>19, <1>20 DEF Transferable, Ranked
<1>22. new = Len(g.nodes) + 4 BY <1>3, <1>17
<1> QED BY <1>1, <1>21, <1>22

LEMMA ReplaceGroupedGood ==
    ASSUME NEW g, Good(g), NEW n \in LiveNodes(g)
    PROVE  Good(ReplaceGrouped(g, n)) /\ Len(ReplaceGrouped(g, n).nodes) >= Len(g.nodes)
<1> DEFINE source  == g.edges[g.nodes[n].in[1]].from
           grouped == CreateGroupedConvolution(g, n, <<source, 1>>)
           tr == TransferDrivingNodes(grouped, Len(grouped.nodes), n)
           h  == ConfigureTensors(tr)
<1>1. ReplaceGrouped(g, n) = IF g.nodes[n].type # "GroupedConv" THEN g ELSE h BY DEF ReplaceGrouped
<1>2. g \in Graphs /\ Len(g.nodes) \in Nat BY RankedIsGood, GraphIs
<1>3. CASE g.nodes[n].type # "GroupedConv"
  <2> HIDE DEF h
  <2> QED BY <1>1, <1>2, <1>3
<1>4. CASE g.nodes[n].type = "GroupedConv"
  <2>1. PICK rank : Ranked(g, rank) BY RankedIsGood
  <2>2. WellFormed(g) /\ Full(g) /\ OrderedBy(g, rank) BY <2>1 DEF Ranked
  <2>3. "GroupedConv" \notin SourceTypes BY DEF SourceTypes
  <2>4. /\ g.nodes[n].in[1] \in LiveEdges(g) /\ g.edges[g.nodes[n].in[1]].to = n
        /\ source \in LiveNodes(g) /\ <<source, 1>> \in Readable(g)
    BY <1>4, <2>2, <2>3, FirstInput
  <2>5. rank[source] < rank[n] BY <2>2, <2>4 DEF OrderedBy
  <2> HIDE DEF source
  <2>6. \E raised : Transferable(grouped, Len(grouped.nodes), n, raised) /\ Len(grouped.nodes) = Len(g.nodes) + 4
    BY <1>4, <2>1, <2>4, <2>5, GroupedIsAppended
  <2> HIDE DEF grouped
  <2>7. PICK raised : Transferable(grouped, Len(grouped.nodes), n, raised) /\ Len(grouped.nodes) = Len(g.nodes) + 4
    BY <2>6
  <2>8. Transferred(tr, grouped, Len(grouped.nodes), n, raised) BY <2>7, TransferDrivingNodesIs
  <2> HIDE DEF tr
  <2>9. Ranked(tr, raised) BY <2>7, <2>8 DEF Transferred, Transferable, Ranked
  <2>10. Alike(h, tr)
    <3>1. tr \in Graphs BY <2>9 DEF Ranked, WellFormed
    <3> QED BY <3>1, ConfigureTensorsAlike
  <2> HIDE DEF h
  <2>11. Ranked(h, raised) /\ Len(h.nodes) = Len(tr.nodes) BY <2>9, <2>10, AlikeRanked
  <2>12. Len(tr.nodes) = Len(grouped.nodes)
    <3>1. tr \in Graphs /\ grouped \in Graphs BY <2>7, <2>9 DEF Ranked, Transferable, WellFormed
    <3> QED BY <2>8, <3>1, SameSizes DEF Transferred
  <2>13. Good(h) BY <2>11, RankedIsGood
  <2> QED BY <1>1, <1>2, <1>4, <2>7, <2>11, <2>12, <2>13
<1> QED BY <1>3, <1>4

LEMMA UngroupSteps ==
    ASSUME NEW g, Good(g)
    PROVE  \E steps \in [0..Len(NodeIds(g)) -> Successors(g)] :
              /\ steps[0] = g /\ \A k \in 1..Len(NodeIds(g)) : steps[k] = ReplaceGrouped(steps[k - 1], NodeIds(g)[k])
              /\ Ungroup(g) = steps[Len(NodeIds(g))]
<1> DEFINE n == Len(NodeIds(g))
           Step == [x \in (Successors(g)) \X (1..n) |-> ReplaceGrouped(x[1], NodeIds(g)[x[2]])]
<1>1. n \in Nat /\ DOMAIN NodeIds(g) = 1..n BY NodeIdsAre, RankedIsGood
<1>2. /\ g \in Successors(g)
      /\ \A x \in Successors(g), k \in 1..n : ReplaceGrouped(x, NodeIds(g)[k]) \in Successors(g)
  <2>1. g \in Successors(g) BY RankedIsGood, GraphIs DEF Successors
  <2>2. ASSUME NEW x \in Successors(g), NEW k \in 1..n PROVE ReplaceGrouped(x, NodeIds(g)[k]) \in Successors(g)
    <3>1. g \in Graphs /\ k \in 1..Len(g.nodes) /\ NodeIds(g)[k] = k /\ Len(g.nodes) \in Nat
      BY <1>1, NodeIdsAre, RankedIsGood
    <3>2. Good(x) /\ x \in Graphs /\ Len(x.nodes) >= Len(g.nodes) /\ Len(x.nodes) \in Nat BY GraphIs DEF Successors
    <3>3. k \in LiveNodes(x) \/ x.nodes[k] = NoNode BY <3>1, LiveOrRemoved
    <3>4. CASE k \in LiveNodes(x)
      <4> DEFINE y == ReplaceGrouped(x, k)
      <4>1. Good(y) /\ Len(y.nodes) >= Len(x.nodes) BY <3>2, <3>4, ReplaceGroupedGood
      <4> HIDE DEF y
      <4>2. y \in Graphs /\ Len(y.nodes) \in Nat BY <4>1, RankedIsGood, GraphIs
      <4>3. y \in Successors(g) BY <3>1, <3>2, <4>1, <4>2 DEF Successors
      <4> QED BY <3>1, <4>3 DEF y
    <3>5. CASE x.nodes[k] = NoNode
      <4>1. x.nodes[k].type # "GroupedConv" BY <3>5 DEF NoNode
      <4>2. ReplaceGrouped(x, k) = x BY <4>1 DEF ReplaceGrouped
      <4> QED BY <3>1, <4>2
    <3> QED BY <3>3, <3>4, <3>5
  <2> QED BY <2>1, <2>2
<1>3. Step \in [(Successors(g)) \X (1..n) -> Successors(g)] /\ \A x \in Successors(g), k \in 1..n : Step[<<x, k>>] = ReplaceGrouped(x, NodeIds(g)[k])
  BY <1>2
<1> HIDE DEF n, Step
<1> DEFINE Eq(it) == it = [z \in SUBSET DOMAIN NodeIds(g) |->
                             IF z = {} THEN g ELSE ReplaceGrouped(it[z \ {Max(z)}], NodeIds(g)[Max(z)])]
           tab == CHOOSE it : Eq(it)
<1>4. Ungroup(g) = tab[DOMAIN NodeIds(g)]
  BY Zenon DEF FoldLeft, MapThenFoldSet, Ungroup
<1>5. PICK it \in [SUBSET (1..n) -> Successors(g)] : FoldsBy(it, 1..n, g, Step)
  <2>1. HasFold(n, Successors(g), g, Step) BY <1>1, <1>2, <1>3, FoldOfSet
  <2> QED BY <2>1 DEF HasFold
<1>6. Eq(it)
  <2>1. ASSUME NEW z \in SUBSET (1..n)
        PROVE  it[z] = IF z = {} THEN g ELSE ReplaceGrouped(it[z \ {Max(z)}], NodeIds(g)[Max(z)])
    <3>1. CASE z = {} BY <1>5, <3>1 DEF FoldsBy
    <3>2. CASE z # {}
      <4>1. Max(z) \in 1..n BY <1>1, <3>2, MaxOfSome
      <4>2. it[z \ {Max(z)}] \in Successors(g)
        <5>1. z \ {Max(z)} \in SUBSET (1..n) OBVIOUS
        <5> QED BY <1>5, <5>1
      <4>3. it[z] = Step[<<it[z \ {Max(z)}], Max(z)>>] BY <1>5, <3>2 DEF FoldsBy
      <4> QED BY <1>3, <3>2, <4>1, <4>2, <4>3
    <3> QED BY <3>1, <3>2
  <2> QED BY <1>1, <1>5, <2>1
<1>7. Eq(tab)
  <2> HIDE DEF Eq
  <2> QED BY <1>6
<1> HIDE DEF tab
<1>8. ASSUME NEW z \in SUBSET (1..n), z # {}, tab[z \ {Max(z)}] \in Successors(g)
      PROVE  tab[z] = Step[<<tab[z \ {Max(z)}], Max(z)>>]
  <2>1. Max(z) \in 1..n BY <1>1, <1>8, MaxOfSome
  <2>2. tab[z] = ReplaceGrouped(tab[z \ {Max(z)}], NodeIds(g)[Max(z)]) BY <1>1, <1>7, <1>8
  <2> QED BY <1>3, <1>8, <2>1, <2>2
<1>9. tab[{}] = g BY <1>1, <1>7
<1>10. Folded(tab[1..n], n, Successors(g), g, Step) BY <1>1, <1>2, <1>3, <1>8, <1>9, FoldTable
<1>11. PICK steps \in [0..n -> Successors(g)] : Stepwise(steps, n, g, Step) /\ tab[1..n] = steps[n]
  BY <1>10 DEF Folded
<1>12. ASSUME NEW k \in 1..n PROVE steps[k] = ReplaceGrouped(steps[k - 1], NodeIds(g)[k])
  <2>1. k - 1 \in 0..n BY <1>1
  <2>2. steps[k - 1] \in Successors(g) BY <1>11, <2>1
  <2> QED BY <1>3, <1>11, <2>2 DEF Stepwise
<1>13. steps[0] = g BY <1>11 DEF Stepwise
<1>14. Ungroup(g) = steps[n] BY <1>1, <1>4, <1>11
<1> HIDE <1>2, <1>7, <1>8
<1> QED BY <1>11, <1>12, <1>13, <1>14 DEF n

LEMMA UngroupGood ==
    ASSUME NEW g, Good(g)
    PROVE  Good(Ungroup(g))
<1>1. \E steps \in [0..Len(NodeIds(g)) -> Successors(g)] : Ungroup(g) = steps[Len(NodeIds(g))]
  BY UngroupSteps
<1>2. Len(NodeIds(g)) \in Nat BY NodeIdsAre, RankedIsGood
<1> QED BY <1>1, <1>2 DEF Successors

-----------------------------------------------------------------------------
(* In-place operations.                                                    *)

LEMMA InputTensorIs ==
    ASSUME NEW g, WellFormed(g), Full(g), NEW n \in LiveNodes(g), NEW i \in Inputs(g, n)
    PROVE  InputTensor(g, n, i) \in DOMAIN g.tensors
<1>1. g.nodes[n].in[i] \in LiveEdges(g) BY DEF WellFormed, NodeKnows, Full
<1> QED BY <1>1, EdgeFacts DEF InputTensor

LEMMA SetNewOutputGood ==
    ASSUME NEW g, Good(g), NEW n \in LiveNodes(g), Len(g.nodes[n].outputs) = 1, NEW t \in DOMAIN g.tensors
    PROVE  LET h == SetNewOutput(g, n, t) IN Good(h) /\ DOMAIN h.nodes = DOMAIN g.nodes
<1> DEFINE old == g.nodes[n].outputs[1]
           v == g.tensors[old].accessor
           a == [g EXCEPT !.tensors[t].accessor = v]
           b == [a EXCEPT !.tensors[old].accessor = FALSE]
<1>1. g \in Graphs /\ WellFormed(g) BY RankedIsGood
<1>2. old \in DOMAIN g.tensors
  <2>1. g.nodes[n].outputs \in Seq(Nat) BY <1>1, GraphIs DEF Nodes
  <2>2. 1 \in Outputs(g, n) BY <2>1 DEF Outputs
  <2> QED BY <1>1, <2>2 DEF WellFormed, NodeKnows
<1>3. v \in BOOLEAN BY <1>1, <1>2, GraphIs DEF Tensors
<1>4. SetNewOutput(g, n, t) = SetOutputTensor(b, n, t, 1) BY DEF SetNewOutput
<1> HIDE DEF old, v
<1>5. Alike(a, g) BY <1>1, <1>3, AccessorAlike
<1> HIDE DEF a
<1>6. a \in Graphs /\ DOMAIN a.tensors = DOMAIN g.tensors BY <1>5 DEF Alike
<1>7. Alike(b, a) BY <1>2, <1>6, AccessorAlike
<1> HIDE DEF b
<1>8. Alike(b, g) BY <1>5, <1>7, AlikeAgain
<1>9. Good(b) BY <1>8, AlikeGood
<1>10. /\ n \in LiveNodes(b) /\ Len(b.nodes[n].outputs) = 1 /\ t \in DOMAIN b.tensors
       /\ DOMAIN b.nodes = DOMAIN g.nodes
  BY <1>8 DEF Alike
<1>11. LET h == SetOutputTensor(b, n, t, 1) IN Good(h) /\ DOMAIN h.nodes = DOMAIN b.nodes
  BY <1>9, <1>10, MovedGood
<1> QED BY <1>4, <1>10, <1>11

LEMMA InPlaceNodeGood ==
    ASSUME NEW g, Good(g), NEW n \in LiveNodes(g)
    PROVE  Good(InPlaceNode(g, n)) /\ DOMAIN InPlaceNode(g, n).nodes = DOMAIN g.nodes
<1> DEFINE can == CanInPlace(g, n)
           i == CHOOSE i \in can : \A j \in can : i <= j
           h == SetNewOutput(g, n, InputTensor(g, n, i))
           Goes == /\ g.nodes[n].type \in {"Act", "BatchNorm", "Elt"} /\ can # {}
                   /\ OutputEdgesAreSeparateTensors(g, g.nodes[n].in[1])
<1>1. InPlaceNode(g, n) = IF Goes THEN h ELSE g BY DEF InPlaceNode
<1>2. CASE Goes
  <2>1. WellFormed(g) /\ Full(g) /\ g \in Graphs BY DEF Good, WellFormed
  <2>2. can \subseteq Inputs(g, n) BY DEF CanInPlace
  <2>3. Inputs(g, n) \subseteq Nat
    <3>1. g.nodes[n].in \in Seq(Nat) BY <2>1, GraphIs DEF Nodes
    <3> QED BY <3>1 DEF Inputs
  <2>4. can \in SUBSET Nat /\ can # {} BY <1>2, <2>2, <2>3
  <2> HIDE DEF can
  <2>5. i \in can BY <2>4, SmallestExists
  <2> HIDE DEF i
  <2>6. InputTensor(g, n, i) \in DOMAIN g.tensors BY <2>1, <2>2, <2>5, InputTensorIs
  <2>7. Len(g.nodes[n].outputs) = 1
    <3>1. {"Act", "BatchNorm", "Elt"} \subseteq OperationTypes \ {"Split"} BY DEF OperationTypes
    <3> QED BY <1>2, <2>1, <3>1, OneOutput
  <2>8. Good(h) /\ DOMAIN h.nodes = DOMAIN g.nodes BY <2>6, <2>7, SetNewOutputGood
  <2> HIDE DEF h, Goes
  <2> QED BY <1>1, <1>2, <2>8
<1>3. CASE ~Goes
  <2> HIDE DEF h, Goes
  <2> QED BY <1>1, <1>3
<1> HIDE DEF Goes
<1> QED BY <1>2, <1>3

LEMMA InPlaceSteps ==
    ASSUME NEW g, Good(g)
    PROVE  \E steps \in [0..Len(NodeIds(g)) -> Successors(g)] :
              /\ steps[0] = g /\ \A k \in 1..Len(NodeIds(g)) : steps[k] = InPlaceNode(steps[k - 1], NodeIds(g)[k])
              /\ InPlace(g) = steps[Len(NodeIds(g))]
<1> DEFINE n == Len(NodeIds(g))
           Step == [x \in (Successors(g)) \X (1..n) |-> InPlaceNode(x[1], NodeIds(g)[x[2]])]
<1>1. n \in Nat /\ DOMAIN NodeIds(g) = 1..n BY NodeIdsAre, RankedIsGood
<1>2. /\ g \in Successors(g)
      /\ \A x \in Successors(g), k \in 1..n : InPlaceNode(x, NodeIds(g)[k]) \in Successors(g)
  <2>1. g \in Successors(g) BY RankedIsGood, GraphIs DEF Successors
  <2>2. ASSUME NEW x \in Successors(g), NEW k \in 1..n PROVE InPlaceNode(x, NodeIds(g)[k]) \in Successors(g)
    <3>1. g \in Graphs /\ k \in 1..Len(g.nodes) /\ NodeIds(g)[k] = k /\ Len(g.nodes) \in Nat
      BY <1>1, NodeIdsAre, RankedIsGood
    <3>2. Good(x) /\ x \in Graphs /\ Len(x.nodes) >= Len(g.nodes) BY GraphIs DEF Successors
    <3>3. k \in LiveNodes(x) \/ x.nodes[k] = NoNode BY <3>1, LiveOrRemoved
    <3>4. CASE k \in LiveNodes(x)
      <4> DEFINE y == InPlaceNode(x, k)
      <4>1. Good(y) /\ DOMAIN y.nodes = DOMAIN x.nodes BY <3>2, <3>4, InPlaceNodeGood
      <4> HIDE DEF y
      <4>2. y \in Graphs BY <4>1, RankedIsGood
      <4>3. Len(y.nodes) = Len(x.nodes) BY <3>2, <4>1, <4>2, SameSizes
      <4>4. y \in Successors(g) BY <3>2, <4>1, <4>2, <4>3 DEF Successors
      <4> QED BY <3>1, <4>4 DEF y
    <3>5. CASE x.nodes[k] = NoNode
      <4>1. x.nodes[k].type \notin {"Act", "BatchNorm", "Elt"} BY <3>5 DEF NoNode
      <4>2. InPlaceNode(x, k) = x BY <4>1 DEF InPlaceNode
      <4> QED BY <3>1, <4>2
    <3> QED BY <3>3, <3>4, <3>5
  <2> QED BY <2>1, <2>2
<1>3. Step \in [(Successors(g)) \X (1..n) -> Successors(g)] /\ \A x \in Successors(g), k \in 1..n : Step[<<x, k>>] = InPlaceNode(x, NodeIds(g)[k])
  BY <1>2
<1> HIDE DEF n, Step
<1> DEFINE Eq(it) == it = [z \in SUBSET DOMAIN NodeIds(g) |->
                             IF z = {} THEN g ELSE InPlaceNode(it[z \ {Max(z)}], NodeIds(g)[Max(z)])]
           tab == CHOOSE it : Eq(it)
<1>4. InPlace(g) = tab[DOMAIN NodeIds(g)]
  BY Zenon DEF FoldLeft, MapThenFoldSet, InPlace
<1>5. PICK it \in [SUBSET (1..n) -> Successors(g)] : FoldsBy(it, 1..n, g, Step)
  <2>1. HasFold(n, Successors(g), g, Step) BY <1>1, <1>2, <1>3, FoldOfSet
  <2> QED BY <2>1 DEF HasFold
<1>6. Eq(it)
  <2>1. ASSUME NEW z \in SUBSET (1..n)
        PROVE  it[z] = IF z = {} THEN g ELSE InPlaceNode(it[z \ {Max(z)}], NodeIds(g)[Max(z)])
    <3>1. CASE z = {} BY <1>5, <3>1 DEF FoldsBy
    <3>2. CASE z # {}
      <4>1. Max(z) \in 1..n BY <1>1, <3>2, MaxOfSome
      <4>2. it[z \ {Max(z)}] \in Successors(g)
        <5>1. z \ {Max(z)} \in SUBSET (1..n) OBVIOUS
        <5> QED BY <1>5, <5>1
      <4>3. it[z] = Step[<<it[z \ {Max(z)}], Max(z)>>] BY <1>5, <3>2 DEF FoldsBy
      <4> QED BY <1>3, <3>2, <4>1, <4>2, <4>3
    <3> QED BY <3>1, <3>2
  <2> QED BY <1>1, <1>5, <2>1
<1>7. Eq(tab)
  <2> HIDE DEF Eq
  <2> QED BY <1>6
<1> HIDE DEF tab
<1>8. ASSUME NEW z \in SUBSET (1..n), z # {}, tab[z \ {Max(z)}] \in Successors(g)
      PROVE  tab[z] = Step[<<tab[z \ {Max(z)}], Max(z)>>]
  <2>1. Max(z) \in 1..n BY <1>1, <1>8, MaxOfSome
  <2>2. tab[z] = InPlaceNode(tab[z \ {Max(z)}], NodeIds(g)[Max(z)]) BY <1>1, <1>7, <1>8
  <2> QED BY <1>3, <1>8, <2>1, <2>2
<1>9. tab[{}] = g BY <1>1, <1>7
<1>10. Folded(tab[1..n], n, Successors(g), g, Step) BY <1>1, <1>2, <1>3, <1>8, <1>9, FoldTable
<1>11. PICK steps \in [0..n -> Successors(g)] : Stepwise(steps, n, g, Step) /\ tab[1..n] = steps[n]
  BY <1>10 DEF Folded
<1>12. ASSUME NEW k \in 1..n PROVE steps[k] = InPlaceNode(steps[k - 1], NodeIds(g)[k])
  <2>1. k - 1 \in 0..n BY <1>1
  <2>2. steps[k - 1] \in Successors(g) BY <1>11, <2>1
  <2> QED BY <1>3, <1>11, <2>2 DEF Stepwise
<1>13. steps[0] = g BY <1>11 DEF Stepwise
<1>14. InPlace(g) = steps[n] BY <1>1, <1>4, <1>11
<1> HIDE <1>2, <1>7, <1>8
<1> QED BY <1>11, <1>12, <1>13, <1>14 DEF n

LEMMA InPlaceGood ==
    ASSUME NEW g, Good(g)
    PROVE  Good(InPlace(g))
<1>1. \E steps \in [0..Len(NodeIds(g)) -> Successors(g)] : InPlace(g) = steps[Len(NodeIds(g))]
  BY InPlaceSteps
<1>2. Len(NodeIds(g)) \in Nat BY NodeIdsAre, RankedIsGood
<1> QED BY <1>1, <1>2 DEF Successors

-----------------------------------------------------------------------------
(* Sub-tensors.                                                            *)

ConcatInput(h, g, c, i) ==
    SetSubTensor(h, InputTensor(g, c, i), g.nodes[c].outputs[1], IF i = 1 THEN 0 ELSE Width(g, InputTensor(g, c, 1)))

SplitOutput(h, g, c, k) ==
    SetSubTensor(h, g.nodes[c].outputs[k], InputTensor(g, c, 1), (k - 1) * Width(g, g.nodes[c].outputs[k]))

SwitchedOff(h, c) == [h EXCEPT !.nodes[c].enabled = FALSE]

LEMMA SubTensorLikes ==
    ASSUME NEW g \in Graphs, NEW h \in Likes(g), NEW t \in DOMAIN g.tensors, NEW parent \in DOMAIN g.tensors,
           NEW offset \in Nat
    PROVE  SetSubTensor(h, t, parent, offset) \in Likes(g)
<1> DEFINE k == SetSubTensor(h, t, parent, offset)
<1>1. h \in Graphs /\ Alike(h, g) /\ t \in DOMAIN h.tensors /\ parent \in DOMAIN h.tensors
  BY DEF Likes, Alike
<1>2. Alike(k, h) BY <1>1, SetSubTensorAlike
<1> HIDE DEF k
<1>3. Alike(k, g) BY <1>1, <1>2, AlikeAgain
<1> QED BY <1>3 DEF Likes, Alike, k

LEMMA WidthIsNumber ==
    ASSUME NEW g \in Graphs, NEW t \in DOMAIN g.tensors
    PROVE  Width(g, t) \in Nat
BY GraphIs DEF Width, Tensors

LEMMA ConcatInputSteps ==
    ASSUME NEW g, Good(g), NEW c \in LiveNodes(g), g.nodes[c].type = "Concat"
    PROVE  \E steps \in [0..Len(Indices(g.nodes[c].in)) -> Likes(g)] :
              /\ steps[0] = g /\ \A k \in 1..Len(Indices(g.nodes[c].in)) : steps[k] = ConcatInput(steps[k - 1], g, c, Indices(g.nodes[c].in)[k])
              /\ ConcatNode(g, c) = SwitchedOff(steps[Len(Indices(g.nodes[c].in))], c)
<1> DEFINE n == Len(Indices(g.nodes[c].in))
           Step == [x \in (Likes(g)) \X (1..n) |-> ConcatInput(x[1], g, c, Indices(g.nodes[c].in)[x[2]])]
<1>1. n \in Nat /\ DOMAIN Indices(g.nodes[c].in) = 1..n 
  <2>1. g.nodes[c].in \in Seq(Nat)
    <3>1. g.nodes[c] \in Nodes BY GraphIs, RankedIsGood
    <3> QED BY <3>1 DEF Nodes
  <2> QED BY <2>1, IndicesAre
<1>2. /\ g \in Likes(g)
      /\ \A x \in Likes(g), k \in 1..n : ConcatInput(x, g, c, Indices(g.nodes[c].in)[k]) \in Likes(g)
  <2>1. g \in Graphs /\ WellFormed(g) /\ Full(g) BY DEF Good, WellFormed
  <2>2. g \in Likes(g) BY <2>1, AlikeSelf DEF Likes
  <2>3. \A k \in 1..n : k \in Inputs(g, c) /\ Indices(g.nodes[c].in)[k] = k
    <3>1. g.nodes[c].in \in Seq(Nat) BY <2>1, GraphIs DEF Nodes
    <3> QED BY <3>1, IndicesAre DEF Inputs
  <2>4. \A k \in Inputs(g, c) : InputTensor(g, c, k) \in DOMAIN g.tensors BY <2>1, InputTensorIs
  <2>5. InputTensor(g, c, 1) \in DOMAIN g.tensors
    <3>1. "Concat" \notin SourceTypes BY DEF SourceTypes
    <3> QED BY <2>1, <2>4, <3>1, FirstInput
  <2>6. g.nodes[c].outputs[1] \in DOMAIN g.tensors
    <3>1. "Concat" \in OperationTypes \ {"Split"} BY DEF OperationTypes
    <3> QED BY <2>1, <3>1, OneOutput
  <2>7. ASSUME NEW x \in Likes(g), NEW k \in 1..n PROVE ConcatInput(x, g, c, Indices(g.nodes[c].in)[k]) \in Likes(g)
    <3> DEFINE offset == IF k = 1 THEN 0 ELSE Width(g, InputTensor(g, c, 1))
    <3>1. offset \in Nat BY <2>1, <2>5, WidthIsNumber
    <3>2. InputTensor(g, c, k) \in DOMAIN g.tensors BY <2>3, <2>4
    <3>3. ConcatInput(x, g, c, k) = SetSubTensor(x, InputTensor(g, c, k), g.nodes[c].outputs[1], offset)
      BY DEF ConcatInput
    <3> HIDE DEF offset
    <3>4. ConcatInput(x, g, c, k) \in Likes(g) BY <2>1, <2>6, <3>1, <3>2, <3>3, SubTensorLikes
    <3> QED BY <2>3, <3>4
  <2> QED BY <2>2, <2>7
<1>3. Step \in [(Likes(g)) \X (1..n) -> Likes(g)] /\ \A x \in Likes(g), k \in 1..n : Step[<<x, k>>] = ConcatInput(x, g, c, Indices(g.nodes[c].in)[k])
  BY <1>2
<1> HIDE DEF n, Step
<1> DEFINE Eq(it) == it = [z \in SUBSET DOMAIN Indices(g.nodes[c].in) |->
                             IF z = {} THEN g ELSE ConcatInput(it[z \ {Max(z)}], g, c, Indices(g.nodes[c].in)[Max(z)])]
           tab == CHOOSE it : Eq(it)
<1>4. ConcatNode(g, c) = SwitchedOff(tab[DOMAIN Indices(g.nodes[c].in)], c)
  BY Zenon DEF FoldLeft, MapThenFoldSet, ConcatNode, ConcatInput, SwitchedOff, Indices, Inputs
<1>5. PICK it \in [SUBSET (1..n) -> Likes(g)] : FoldsBy(it, 1..n, g, Step)
  <2>1. HasFold(n, Likes(g), g, Step) BY <1>1, <1>2, <1>3, FoldOfSet
  <2> QED BY <2>1 DEF HasFold
<1>6. Eq(it)
  <2>1. ASSUME NEW z \in SUBSET (1..n)
        PROVE  it[z] = IF z = {} THEN g ELSE ConcatInput(it[z \ {Max(z)}], g, c, Indices(g.nodes[c].in)[Max(z)])
    <3>1. CASE z = {} BY <1>5, <3>1 DEF FoldsBy
    <3>2. CASE z # {}
      <4>1. Max(z) \in 1..n BY <1>1, <3>2, MaxOfSome
      <4>2. it[z \ {Max(z)}] \in Likes(g)
        <5>1. z \ {Max(z)} \in SUBSET (1..n) OBVIOUS
        <5> QED BY <1>5, <5>1
      <4>3. it[z] = Step[<<it[z \ {Max(z)}], Max(z)>>] BY <1>5, <3>2 DEF FoldsBy
      <4> QED BY <1>3, <3>2, <4>1, <4>2, <4>3
    <3> QED BY <3>1, <3>2
  <2> QED BY <1>1, <1>5, <2>1
<1>7. Eq(tab)
  <2> HIDE DEF Eq
  <2> QED BY <1>6
<1> HIDE DEF tab
<1>8. ASSUME NEW z \in SUBSET (1..n), z # {}, tab[z \ {Max(z)}] \in Likes(g)
      PROVE  tab[z] = Step[<<tab[z \ {Max(z)}], Max(z)>>]
  <2>1. Max(z) \in 1..n BY <1>1, <1>8, MaxOfSome
  <2>2. tab[z] = ConcatInput(tab[z \ {Max(z)}], g, c, Indices(g.nodes[c].in)[Max(z)]) BY <1>1, <1>7, <1>8
  <2> QED BY <1>3, <1>8, <2>1, <2>2
<1>9. tab[{}] = g BY <1>1, <1>7
<1>10. Folded(tab[1..n], n, Likes(g), g, Step) BY <1>1, <1>2, <1>3, <1>8, <1>9, FoldTable
<1>11. PICK steps \in [0..n -> Likes(g)] : Stepwise(steps, n, g, Step) /\ tab[1..n] = steps[n]
  BY <1>10 DEF Folded
<1>12. ASSUME NEW k \in 1..n PROVE steps[k] = ConcatInput(steps[k - 1], g, c, Indices(g.nodes[c].in)[k])
  <2>1. k - 1 \in 0..n BY <1>1
  <2>2. steps[k - 1] \in Likes(g) BY <1>11, <2>1
  <2> QED BY <1>3, <1>11, <2>2 DEF Stepwise
<1>13. steps[0] = g BY <1>11 DEF Stepwise
<1>14. ConcatNode(g, c) = SwitchedOff(steps[n], c) BY <1>1, <1>4, <1>11
<1> HIDE <1>2, <1>7, <1>8
<1> QED BY <1>11, <1>12, <1>13, <1>14 DEF n

LEMMA ConcatNodeAlike ==
    ASSUME NEW g, Good(g), NEW c \in LiveNodes(g)
    PROVE  Alike(ConcatNode(g, c), g)
<1>1. g \in Graphs BY RankedIsGood
<1>2. CASE g.nodes[c].type # "Concat"
  <2>1. ConcatNode(g, c) = g BY <1>2 DEF ConcatNode
  <2> QED BY <1>1, <2>1, AlikeSelf
<1>3. CASE g.nodes[c].type = "Concat"
  <2>1. \E steps \in [0..Len(Indices(g.nodes[c].in)) -> Likes(g)] :
           ConcatNode(g, c) = SwitchedOff(steps[Len(Indices(g.nodes[c].in))], c)
    BY <1>3, ConcatInputSteps
  <2>2. Len(Indices(g.nodes[c].in)) \in Nat
    <3>1. g.nodes[c].in \in Seq(Nat) BY <1>1, GraphIs DEF Nodes
    <3> QED BY <3>1, IndicesAre
  <2>3. PICK h \in Likes(g) : ConcatNode(g, c) = SwitchedOff(h, c) BY <2>1, <2>2
  <2>4. h \in Graphs /\ Alike(h, g) /\ c \in LiveNodes(h) BY DEF Likes, Alike
  <2>5. Alike(SwitchedOff(h, c), h) BY <2>4, EnabledAlike DEF SwitchedOff
  <2> QED BY <2>3, <2>4, <2>5, AlikeAgain
<1> QED BY <1>2, <1>3

LEMMA SplitOutputSteps ==
    ASSUME NEW g, Good(g), NEW c \in LiveNodes(g), g.nodes[c].type = "Split"
    PROVE  \E steps \in [0..Len(Indices(g.nodes[c].outputs)) -> Likes(g)] :
              /\ steps[0] = g /\ \A k \in 1..Len(Indices(g.nodes[c].outputs)) : steps[k] = SplitOutput(steps[k - 1], g, c, Indices(g.nodes[c].outputs)[k])
              /\ SplitNode(g, c) = steps[Len(Indices(g.nodes[c].outputs))]
<1> DEFINE n == Len(Indices(g.nodes[c].outputs))
           Step == [x \in (Likes(g)) \X (1..n) |-> SplitOutput(x[1], g, c, Indices(g.nodes[c].outputs)[x[2]])]
<1>1. n \in Nat /\ DOMAIN Indices(g.nodes[c].outputs) = 1..n 
  <2>1. g.nodes[c].outputs \in Seq(Nat)
    <3>1. g.nodes[c] \in Nodes BY GraphIs, RankedIsGood
    <3> QED BY <3>1 DEF Nodes
  <2> QED BY <2>1, IndicesAre
<1>2. /\ g \in Likes(g)
      /\ \A x \in Likes(g), k \in 1..n : SplitOutput(x, g, c, Indices(g.nodes[c].outputs)[k]) \in Likes(g)
  <2>1. g \in Graphs /\ WellFormed(g) /\ Full(g) BY DEF Good, WellFormed
  <2>2. g \in Likes(g) BY <2>1, AlikeSelf DEF Likes
  <2>3. \A k \in 1..n : k \in Outputs(g, c) /\ Indices(g.nodes[c].outputs)[k] = k
    <3>1. g.nodes[c].outputs \in Seq(Nat) BY <2>1, GraphIs DEF Nodes
    <3> QED BY <3>1, IndicesAre DEF Outputs
  <2>4. \A k \in Outputs(g, c) : g.nodes[c].outputs[k] \in DOMAIN g.tensors BY <2>1 DEF WellFormed, NodeKnows
  <2>5. InputTensor(g, c, 1) \in DOMAIN g.tensors
    <3>1. "Split" \notin SourceTypes BY DEF SourceTypes
    <3>2. 1 \in Inputs(g, c) BY <2>1, <3>1, FirstInput
    <3> QED BY <2>1, <3>2, InputTensorIs
  <2>6. ASSUME NEW x \in Likes(g), NEW k \in 1..n PROVE SplitOutput(x, g, c, Indices(g.nodes[c].outputs)[k]) \in Likes(g)
    <3> DEFINE w == Width(g, g.nodes[c].outputs[k])
               offset == (k - 1) * w
    <3>1. w \in Nat BY <2>1, <2>3, <2>4, WidthIsNumber
    <3>2. k - 1 \in Nat BY <1>1
    <3> HIDE DEF w
    <3>3. offset \in Nat BY <3>1, <3>2
    <3>4. SplitOutput(x, g, c, k) = SetSubTensor(x, g.nodes[c].outputs[k], InputTensor(g, c, 1), offset)
      BY DEF SplitOutput, w
    <3> HIDE DEF offset
    <3>5. SplitOutput(x, g, c, k) \in Likes(g) BY <2>1, <2>3, <2>4, <2>5, <3>3, <3>4, SubTensorLikes
    <3> QED BY <2>3, <3>5
  <2> QED BY <2>2, <2>6
<1>3. Step \in [(Likes(g)) \X (1..n) -> Likes(g)] /\ \A x \in Likes(g), k \in 1..n : Step[<<x, k>>] = SplitOutput(x, g, c, Indices(g.nodes[c].outputs)[k])
  BY <1>2
<1> HIDE DEF n, Step
<1> DEFINE Eq(it) == it = [z \in SUBSET DOMAIN Indices(g.nodes[c].outputs) |->
                             IF z = {} THEN g ELSE SplitOutput(it[z \ {Max(z)}], g, c, Indices(g.nodes[c].outputs)[Max(z)])]
           tab == CHOOSE it : Eq(it)
<1>4. SplitNode(g, c) = tab[DOMAIN Indices(g.nodes[c].outputs)]
  BY Zenon DEF FoldLeft, MapThenFoldSet, SplitNode, SplitOutput, Indices, Outputs
<1>5. PICK it \in [SUBSET (1..n) -> Likes(g)] : FoldsBy(it, 1..n, g, Step)
  <2>1. HasFold(n, Likes(g), g, Step) BY <1>1, <1>2, <1>3, FoldOfSet
  <2> QED BY <2>1 DEF HasFold
<1>6. Eq(it)
  <2>1. ASSUME NEW z \in SUBSET (1..n)
        PROVE  it[z] = IF z = {} THEN g ELSE SplitOutput(it[z \ {Max(z)}], g, c, Indices(g.nodes[c].outputs)[Max(z)])
    <3>1. CASE z = {} BY <1>5, <3>1 DEF FoldsBy
    <3>2. CASE z # {}
      <4>1. Max(z) \in 1..n BY <1>1, <3>2, MaxOfSome
      <4>2. it[z \ {Max(z)}] \in Likes(g)
        <5>1. z \ {Max(z)} \in SUBSET (1..n) OBVIOUS
        <5> QED BY <1>5, <5>1
      <4>3. it[z] = Step[<<it[z \ {Max(z)}], Max(z)>>] BY <1>5, <3>2 DEF FoldsBy
      <4> QED BY <1>3, <3>2, <4>1, <4>2, <4>3
    <3> QED BY <3>1, <3>2
  <2> QED BY <1>1, <1>5, <2>1
<1>7. Eq(tab)
  <2> HIDE DEF Eq
  <2> QED BY <1>6
<1> HIDE DEF tab
<1>8. ASSUME NEW z \in SUBSET (1..n), z # {}, tab[z \ {Max(z)}] \in Likes(g)
      PROVE  tab[z] = Step[<<tab[z \ {Max(z)}], Max(z)>>]
  <2>1. Max(z) \in 1..n BY <1>1, <1>8, MaxOfSome
  <2>2. tab[z] = SplitOutput(tab[z \ {Max(z)}], g, c, Indices(g.nodes[c].outputs)[Max(z)]) BY <1>1, <1>7, <1>8
  <2> QED BY <1>3, <1>8, <2>1, <2>2
<1>9. tab[{}] = g BY <1>1, <1>7
<1>10. Folded(tab[1..n], n, Likes(g), g, Step) BY <1>1, <1>2, <1>3, <1>8, <1>9, FoldTable
<1>11. PICK steps \in [0..n -> Likes(g)] : Stepwise(steps, n, g, Step) /\ tab[1..n] = steps[n]
  BY <1>10 DEF Folded
<1>12. ASSUME NEW k \in 1..n PROVE steps[k] = SplitOutput(steps[k - 1], g, c, Indices(g.nodes[c].outputs)[k])
  <2>1. k - 1 \in 0..n BY <1>1
  <2>2. steps[k - 1] \in Likes(g) BY <1>11, <2>1
  <2> QED BY <1>3, <1>11, <2>2 DEF Stepwise
<1>13. steps[0] = g BY <1>11 DEF Stepwise
<1>14. SplitNode(g, c) = steps[n] BY <1>1, <1>4, <1>11
<1> HIDE <1>2, <1>7, <1>8
<1> QED BY <1>11, <1>12, <1>13, <1>14 DEF n

LEMMA SplitNodeAlike ==
    ASSUME NEW g, Good(g), NEW c \in LiveNodes(g)
    PROVE  Alike(SplitNode(g, c), g)
<1>1. g \in Graphs BY RankedIsGood
<1>2. CASE g.nodes[c].type # "Split"
  <2>1. SplitNode(g, c) = g BY <1>2 DEF SplitNode
  <2> QED BY <1>1, <2>1, AlikeSelf
<1>3. CASE g.nodes[c].type = "Split"
  <2>1. \E steps \in [0..Len(Indices(g.nodes[c].outputs)) -> Likes(g)] :
           SplitNode(g, c) = steps[Len(Indices(g.nodes[c].outputs))]
    BY <1>3, SplitOutputSteps
  <2>2. Len(Indices(g.nodes[c].outputs)) \in Nat
    <3>1. g.nodes[c].outputs \in Seq(Nat) BY <1>1, GraphIs DEF Nodes
    <3> QED BY <3>1, IndicesAre
  <2>3. SplitNode(g, c) \in Likes(g) BY <2>1, <2>2
  <2> QED BY <2>3 DEF Likes
<1> QED BY <1>2, <1>3

LEMMA ConcatsSteps ==
    ASSUME NEW g, Good(g), NEW q \in Seq(LiveNodes(g))
    PROVE  \E steps \in [0..Len(q) -> Likes(g)] :
              /\ steps[0] = g /\ \A k \in 1..Len(q) : steps[k] = ConcatNode(steps[k - 1], q[k])
              /\ FoldLeft(ConcatNode, g, q) = steps[Len(q)]
<1> DEFINE n == Len(q)
           Step == [x \in (Likes(g)) \X (1..n) |-> ConcatNode(x[1], q[x[2]])]
<1>1. n \in Nat /\ DOMAIN q = 1..n OBVIOUS
<1>2. /\ g \in Likes(g)
      /\ \A x \in Likes(g), k \in 1..n : ConcatNode(x, q[k]) \in Likes(g)
  <2>1. g \in Graphs BY RankedIsGood
  <2>2. g \in Likes(g) BY <2>1, AlikeSelf DEF Likes
  <2>3. ASSUME NEW x \in Likes(g), NEW k \in 1..n PROVE ConcatNode(x, q[k]) \in Likes(g)
    <3>1. q[k] \in LiveNodes(g) BY <1>1
    <3>2. Alike(x, g) BY DEF Likes
    <3>3. Good(x) BY <3>2, AlikeGood
    <3>4. q[k] \in LiveNodes(x) BY <3>1, <3>2 DEF Alike
    <3>5. Alike(ConcatNode(x, q[k]), x) BY <3>3, <3>4, ConcatNodeAlike
    <3>6. Alike(ConcatNode(x, q[k]), g) BY <3>2, <3>5, AlikeAgain
    <3> QED BY <3>6 DEF Likes, Alike
  <2> QED BY <2>2, <2>3
<1>3. Step \in [(Likes(g)) \X (1..n) -> Likes(g)] /\ \A x \in Likes(g), k \in 1..n : Step[<<x, k>>] = ConcatNode(x, q[k])
  BY <1>2
<1> HIDE DEF n, Step
<1> DEFINE Eq(it) == it = [z \in SUBSET DOMAIN q |->
                             IF z = {} THEN g ELSE ConcatNode(it[z \ {Max(z)}], q[Max(z)])]
           tab == CHOOSE it : Eq(it)
<1>4. FoldLeft(ConcatNode, g, q) = tab[DOMAIN q]
  BY Zenon DEF FoldLeft, MapThenFoldSet
<1>5. PICK it \in [SUBSET (1..n) -> Likes(g)] : FoldsBy(it, 1..n, g, Step)
  <2>1. HasFold(n, Likes(g), g, Step) BY <1>1, <1>2, <1>3, FoldOfSet
  <2> QED BY <2>1 DEF HasFold
<1>6. Eq(it)
  <2>1. ASSUME NEW z \in SUBSET (1..n)
        PROVE  it[z] = IF z = {} THEN g ELSE ConcatNode(it[z \ {Max(z)}], q[Max(z)])
    <3>1. CASE z = {} BY <1>5, <3>1 DEF FoldsBy
    <3>2. CASE z # {}
      <4>1. Max(z) \in 1..n BY <1>1, <3>2, MaxOfSome
      <4>2. it[z \ {Max(z)}] \in Likes(g)
        <5>1. z \ {Max(z)} \in SUBSET (1..n) OBVIOUS
        <5> QED BY <1>5, <5>1
      <4>3. it[z] = Step[<<it[z \ {Max(z)}], Max(z)>>] BY <1>5, <3>2 DEF FoldsBy
      <4> QED BY <1>3, <3>2, <4>1, <4>2, <4>3
    <3> QED BY <3>1, <3>2
  <2> QED BY <1>1, <1>5, <2>1
<1>7. Eq(tab)
  <2> HIDE DEF Eq
  <2> QED BY <1>6
<1> HIDE DEF tab
<1>8. ASSUME NEW z \in SUBSET (1..n), z # {}, tab[z \ {Max(z)}] \in Likes(g)
      PROVE  tab[z] = Step[<<tab[z \ {Max(z)}], Max(z)>>]
  <2>1. Max(z) \in 1..n BY <1>1, <1>8, MaxOfSome
  <2>2. tab[z] = ConcatNode(tab[z \ {Max(z)}], q[Max(z)]) BY <1>1, <1>7, <1>8
  <2> QED BY <1>3, <1>8, <2>1, <2>2
<1>9. tab[{}] = g BY <1>1, <1>7
<1>10. Folded(tab[1..n], n, Likes(g), g, Step) BY <1>1, <1>2, <1>3, <1>8, <1>9, FoldTable
<1>11. PICK steps \in [0..n -> Likes(g)] : Stepwise(steps, n, g, Step) /\ tab[1..n] = steps[n]
  BY <1>10 DEF Folded
<1>12. ASSUME NEW k \in 1..n PROVE steps[k] = ConcatNode(steps[k - 1], q[k])
  <2>1. k - 1 \in 0..n BY <1>1
  <2>2. steps[k - 1] \in Likes(g) BY <1>11, <2>1
  <2> QED BY <1>3, <1>11, <2>2 DEF Stepwise
<1>13. steps[0] = g BY <1>11 DEF Stepwise
<1>14. FoldLeft(ConcatNode, g, q) = steps[n] BY <1>1, <1>4, <1>11
<1> HIDE <1>2, <1>7, <1>8
<1> QED BY <1>11, <1>12, <1>13, <1>14 DEF n

LEMMA SplitsSteps ==
    ASSUME NEW g, Good(g), NEW q \in Seq(LiveNodes(g))
    PROVE  \E steps \in [0..Len(q) -> Likes(g)] :
              /\ steps[0] = g /\ \A k \in 1..Len(q) : steps[k] = SplitNode(steps[k - 1], q[k])
              /\ FoldLeft(SplitNode, g, q) = steps[Len(q)]
<1> DEFINE n == Len(q)
           Step == [x \in (Likes(g)) \X (1..n) |-> SplitNode(x[1], q[x[2]])]
<1>1. n \in Nat /\ DOMAIN q = 1..n OBVIOUS
<1>2. /\ g \in Likes(g)
      /\ \A x \in Likes(g), k \in 1..n : SplitNode(x, q[k]) \in Likes(g)
  <2>1. g \in Graphs BY RankedIsGood
  <2>2. g \in Likes(g) BY <2>1, AlikeSelf DEF Likes
  <2>3. ASSUME NEW x \in Likes(g), NEW k \in 1..n PROVE SplitNode(x, q[k]) \in Likes(g)
    <3>1. q[k] \in LiveNodes(g) BY <1>1
    <3>2. Alike(x, g) BY DEF Likes
    <3>3. Good(x) BY <3>2, AlikeGood
    <3>4. q[k] \in LiveNodes(x) BY <3>1, <3>2 DEF Alike
    <3>5. Alike(SplitNode(x, q[k]), x) BY <3>3, <3>4, SplitNodeAlike
    <3>6. Alike(SplitNode(x, q[k]), g) BY <3>2, <3>5, AlikeAgain
    <3> QED BY <3>6 DEF Likes, Alike
  <2> QED BY <2>2, <2>3
<1>3. Step \in [(Likes(g)) \X (1..n) -> Likes(g)] /\ \A x \in Likes(g), k \in 1..n : Step[<<x, k>>] = SplitNode(x, q[k])
  BY <1>2
<1> HIDE DEF n, Step
<1> DEFINE Eq(it) == it = [z \in SUBSET DOMAIN q |->
                             IF z = {} THEN g ELSE SplitNode(it[z \ {Max(z)}], q[Max(z)])]
           tab == CHOOSE it : Eq(it)
<1>4. FoldLeft(SplitNode, g, q) = tab[DOMAIN q]
  BY Zenon DEF FoldLeft, MapThenFoldSet
<1>5. PICK it \in [SUBSET (1..n) -> Likes(g)] : FoldsBy(it, 1..n, g, Step)
  <2>1. HasFold(n, Likes(g), g, Step) BY <1>1, <1>2, <1>3, FoldOfSet
  <2> QED BY <2>1 DEF HasFold
<1>6. Eq(it)
  <2>1. ASSUME NEW z \in SUBSET (1..n)
        PROVE  it[z] = IF z = {} THEN g ELSE SplitNode(it[z \ {Max(z)}], q[Max(z)])
    <3>1. CASE z = {} BY <1>5, <3>1 DEF FoldsBy
    <3>2. CASE z # {}
      <4>1. Max(z) \in 1..n BY <1>1, <3>2, MaxOfSome
      <4>2. it[z \ {Max(z)}] \in Likes(g)
        <5>1. z \ {Max(z)} \in SUBSET (1..n) OBVIOUS
        <5> QED BY <1>5, <5>1
      <4>3. it[z] = Step[<<it[z \ {Max(z)}], Max(z)>>] BY <1>5, <3>2 DEF FoldsBy
      <4> QED BY <1>3, <3>2, <4>1, <4>2, <4>3
    <3> QED BY <3>1, <3>2
  <2> QED BY <1>1, <1>5, <2>1
<1>7. Eq(tab)
  <2> HIDE DEF Eq
  <2> QED BY <1>6
<1> HIDE DEF tab
<1>8. ASSUME NEW z \in SUBSET (1..n), z # {}, tab[z \ {Max(z)}] \in Likes(g)
      PROVE  tab[z] = Step[<<tab[z \ {Max(z)}], Max(z)>>]
  <2>1. Max(z) \in 1..n BY <1>1, <1>8, MaxOfSome
  <2>2. tab[z] = SplitNode(tab[z \ {Max(z)}], q[Max(z)]) BY <1>1, <1>7, <1>8
  <2> QED BY <1>3, <1>8, <2>1, <2>2
<1>9. tab[{}] = g BY <1>1, <1>7
<1>10. Folded(tab[1..n], n, Likes(g), g, Step) BY <1>1, <1>2, <1>3, <1>8, <1>9, FoldTable
<1>11. PICK steps \in [0..n -> Likes(g)] : Stepwise(steps, n, g, Step) /\ tab[1..n] = steps[n]
  BY <1>10 DEF Folded
<1>12. ASSUME NEW k \in 1..n PROVE steps[k] = SplitNode(steps[k - 1], q[k])
  <2>1. k - 1 \in 0..n BY <1>1
  <2>2. steps[k - 1] \in Likes(g) BY <1>11, <2>1
  <2> QED BY <1>3, <1>11, <2>2 DEF Stepwise
<1>13. steps[0] = g BY <1>11 DEF Stepwise
<1>14. FoldLeft(SplitNode, g, q) = steps[n] BY <1>1, <1>4, <1>11
<1> HIDE <1>2, <1>7, <1>8
<1> QED BY <1>11, <1>12, <1>13, <1>14 DEF n

-----------------------------------------------------------------------------
(* The ends of sequences, and what they name.                              *)

LEMMA ReverseIs ==
    ASSUME NEW T, NEW s \in Seq(T)
    PROVE  /\ Reverse(s) \in Seq(T) /\ Len(Reverse(s)) = Len(s) /\ ToSet(Reverse(s)) = ToSet(s)
           /\ Once(s) => Once(Reverse(s))
<1> DEFINE r == Reverse(s)
<1>1. Len(s) \in Nat /\ DOMAIN s = 1..Len(s) /\ \A x \in 1..Len(s) : s[x] \in T OBVIOUS
<1>2. r = [x \in 1..Len(s) |-> s[(Len(s) - x) + 1]] BY DEF Reverse
<1>3. \A x \in 1..Len(s) : (Len(s) - x) + 1 \in 1..Len(s) /\ (Len(s) - ((Len(s) - x) + 1)) + 1 = x BY <1>1
<1> HIDE DEF r
<1>4. /\ DOMAIN r = 1..Len(s) /\ \A x \in 1..Len(s) : r[x] = s[(Len(s) - x) + 1] /\ r[x] \in T
      /\ r = [x \in 1..Len(s) |-> r[x]]
  BY <1>1, <1>2, <1>3
<1>5. r \in Seq(T) /\ Len(r) = Len(s) BY <1>1, <1>4, FunctionIsSequence
<1>6. ToSet(r) = ToSet(s)
  <2>1. \A x \in DOMAIN r : \E y \in DOMAIN s : s[y] = r[x] BY <1>1, <1>3, <1>4
  <2>2. ASSUME NEW y \in DOMAIN s PROVE \E x \in DOMAIN r : r[x] = s[y]
    <3> DEFINE x == (Len(s) - y) + 1
    <3>1. x \in DOMAIN r /\ (Len(s) - x) + 1 = y BY <1>1, <1>3, <1>4
    <3> QED BY <1>4, <3>1
  <2> QED BY <2>1, <2>2 DEF ToSet
<1>7. ASSUME Once(s) PROVE Once(r)
  <2> SUFFICES ASSUME NEW x \in DOMAIN r, NEW y \in DOMAIN r, r[x] = r[y] PROVE x = y BY DEF Once
  <2>1. (Len(s) - x) + 1 = (Len(s) - y) + 1 BY <1>1, <1>3, <1>4, <1>7 DEF Once
  <2> QED BY <1>1, <1>4, <2>1
<1> QED BY <1>5, <1>6, <1>7 DEF r

LEMMA TailIs ==
    ASSUME NEW T, NEW s \in Seq(T), s # <<>>
    PROVE  /\ Head(s) \in T /\ Head(s) = s[1] /\ Tail(s) \in Seq(T) /\ Len(s) \in Nat \ {0}
           /\ Len(Tail(s)) = Len(s) - 1 /\ DOMAIN Tail(s) = 1..Len(s)-1 /\ DOMAIN s = 1..Len(s)
           /\ \A x \in 1..Len(s)-1 : Tail(s)[x] = s[x + 1]
OBVIOUS

LEMMA FrontIs ==
    ASSUME NEW T, NEW s \in Seq(T), s # <<>>
    PROVE  /\ Last(s) \in T /\ Last(s) = s[Len(s)] /\ Front(s) \in Seq(T) /\ Len(s) \in Nat \ {0}
           /\ Len(Front(s)) = Len(s) - 1 /\ DOMAIN Front(s) = 1..Len(s)-1 /\ DOMAIN s = 1..Len(s)
           /\ \A x \in 1..Len(s)-1 : Front(s)[x] = s[x]
<1>1. Len(s) \in Nat \ {0} /\ DOMAIN s = 1..Len(s) /\ \A x \in 1..Len(s) : s[x] \in T OBVIOUS
<1>2. Last(s) = s[Len(s)] BY DEF Last
<1> DEFINE f == Front(s)
<1>3. f = SubSeq(s, 1, Len(s) - 1) BY DEF Front
<1> HIDE DEF f
<1>4. f \in Seq(T) /\ Len(f) = Len(s) - 1 /\ \A x \in 1..Len(s)-1 : f[x] = s[x] BY <1>1, <1>3
<1>5. DOMAIN f = 1..Len(s)-1 BY <1>4
<1> QED BY <1>1, <1>2, <1>4, <1>5 DEF f

LEMMA ToSetIs ==
    ASSUME NEW T, NEW s \in Seq(T)
    PROVE  /\ ToSet(s) \subseteq T /\ \A x \in DOMAIN s : s[x] \in ToSet(s)
           /\ \A v \in ToSet(s) : \E x \in DOMAIN s : s[x] = v
           /\ \A v \in T : ToSet(Append(s, v)) = ToSet(s) \union {v}
           /\ \A t \in Seq(T) : ToSet(s \o t) = ToSet(s) \union ToSet(t)
<1>1. \A x \in DOMAIN s : s[x] \in T OBVIOUS
<1>2. ASSUME NEW v \in T PROVE ToSet(Append(s, v)) = ToSet(s) \union {v}
  <2> DEFINE a == Append(s, v)
  <2>1. /\ DOMAIN s = 1..Len(s) /\ DOMAIN a = 1..Len(s)+1 /\ Len(s) \in Nat
        /\ a[Len(s) + 1] = v /\ \A x \in 1..Len(s) : a[x] = s[x]
    BY AppendedElements
  <2> HIDE DEF a
  <2>2. \A x \in 1..Len(s)+1 : x = Len(s) + 1 \/ x \in 1..Len(s) BY <2>1
  <2>3. Len(s) + 1 \in 1..Len(s)+1 /\ \A x \in 1..Len(s) : x \in 1..Len(s)+1 BY <2>1
  <2>4. ToSet(a) = ToSet(s) \union {v} BY <2>1, <2>2, <2>3 DEF ToSet
  <2> QED BY <2>4 DEF a
<1>3. ASSUME NEW t \in Seq(T) PROVE ToSet(s \o t) = ToSet(s) \union ToSet(t)
  <2> DEFINE a == s \o t
  <2>1. /\ Len(s) \in Nat /\ Len(t) \in Nat
        /\ DOMAIN s = 1..Len(s) /\ DOMAIN t = 1..Len(t) /\ DOMAIN a = 1..Len(s)+Len(t)
        /\ \A x \in 1..Len(s) : a[x] = s[x]
        /\ \A x \in 1..Len(t) : a[Len(s) + x] = t[x]
    BY Concatenated
  <2> HIDE DEF a
  <2>2. \A x \in DOMAIN a : a[x] \in ToSet(s) \union ToSet(t)
    <3> SUFFICES ASSUME NEW x \in DOMAIN a PROVE a[x] \in ToSet(s) \union ToSet(t) OBVIOUS
    <3>1. CASE x \in 1..Len(s) BY <2>1, <3>1 DEF ToSet
    <3>2. CASE x \notin 1..Len(s)
      <4>1. x - Len(s) \in 1..Len(t) /\ Len(s) + (x - Len(s)) = x BY <2>1, <3>2
      <4> QED BY <2>1, <4>1 DEF ToSet
    <3> QED BY <3>1, <3>2
  <2>3. \A x \in DOMAIN s : s[x] \in ToSet(a)
    <3>1. \A x \in DOMAIN s : x \in DOMAIN a BY <2>1
    <3> QED BY <2>1, <3>1 DEF ToSet
  <2>4. \A x \in DOMAIN t : t[x] \in ToSet(a)
    <3>1. \A x \in DOMAIN t : Len(s) + x \in DOMAIN a BY <2>1
    <3> QED BY <2>1, <3>1 DEF ToSet
  <2>5. ToSet(a) = ToSet(s) \union ToSet(t) BY <2>2, <2>3, <2>4 DEF ToSet
  <2> QED BY <2>5 DEF a
<1> QED BY <1>1, <1>2, <1>3 DEF ToSet

LEMMA OnceLength ==
    ASSUME NEW S, NEW s \in Seq(S), Once(s), IsFiniteSet(S)
    PROVE  Len(s) \in Nat /\ Len(s) <= Cardinality(S)
<1>1. Len(s) \in Nat /\ DOMAIN s = 1..Len(s) /\ s \in [1..Len(s) -> S] OBVIOUS
<1>2. s \in Injection(1..Len(s), S) BY <1>1 DEF Once, Injection, IsInjective
<1>3. Cardinality(1..Len(s)) <= Cardinality(S) BY <1>2, FS_Injection
<1>4. Cardinality(1..Len(s)) = Len(s)
  <2>1. 1 \in Int /\ Len(s) \in Int BY <1>1
  <2>2. Cardinality(1..Len(s)) = IF 1 > Len(s) THEN 0 ELSE Len(s) - 1 + 1 BY <2>1, FS_Interval
  <2> QED BY <1>1, <2>2
<1> QED BY <1>1, <1>3, <1>4

-----------------------------------------------------------------------------
(* What the traversals visit.                                              *)

LEMMA TaggedIs ==
    ASSUME NEW g \in Graphs, NEW type, type # NoNode.type
    PROVE  LET S == {n \in LiveNodes(g) : g.nodes[n].type = type} IN
              Tagged(g, type) \in Seq(S) /\ ToSet(Tagged(g, type)) = S /\ Once(Tagged(g, type))
<1> DEFINE S == {n \in LiveNodes(g) : g.nodes[n].type = type}
           ids == NodeIds(g)
           all == DOMAIN g.nodes
           t == Only(ids, S)
<1>1. S = {n \in DOMAIN g.nodes : g.nodes[n].type = type} BY DEF LiveNodes
<1>2. Tagged(g, type) = t BY <1>1 DEF Tagged
<1>3. all = 1..Len(g.nodes) /\ Len(g.nodes) \in Nat BY GraphIs
<1>4. DOMAIN ids = all /\ \A n \in all : ids[n] = n BY DEF NodeIds
<1>5. ids \in Seq(all)
  <2>1. ids = [n \in 1..Len(g.nodes) |-> ids[n]] BY <1>3 DEF NodeIds
  <2>2. \A n \in 1..Len(g.nodes) : ids[n] \in all BY <1>3, <1>4
  <2> HIDE DEF ids, all
  <2> QED BY <1>3, <2>1, <2>2, FunctionIsSequence
<1>6. Once(ids) BY <1>4 DEF Once
<1>7. S \subseteq all BY <1>1
<1> HIDE DEF ids, all, S
<1>8. /\ t \in Seq(all) /\ \A x \in DOMAIN t : t[x] \in S
      /\ \A x \in DOMAIN ids : ids[x] \in S => \E y \in DOMAIN t : t[y] = ids[x]
      /\ Once(t)
  BY ONLY <1>5, <1>6, OnlyIs, OnlyOnce
<1> HIDE DEF t
<1>9. t \in Seq(S) BY <1>8, OfSubset
<1>10. ToSet(t) = S
  <2>1. \A v \in S : \E y \in DOMAIN t : t[y] = v BY <1>4, <1>7, <1>8
  <2> QED BY <1>8, <2>1 DEF ToSet
<1> QED BY <1>2, <1>8, <1>9, <1>10 DEF S

LEMMA SourcesAre ==
    ASSUME NEW g \in Graphs
    PROVE  /\ Sources(g) \in Seq(LiveNodes(g)) /\ ToSet(Sources(g)) = SourceNodes(g) /\ Once(Sources(g))
           /\ SourceNodes(g) \subseteq LiveNodes(g)
<1> DEFINE A == {n \in LiveNodes(g) : g.nodes[n].type = "Input"}
           B == {n \in LiveNodes(g) : g.nodes[n].type = "Const"}
           a == Tagged(g, "Input")
           b == Tagged(g, "Const")
           L == LiveNodes(g)
<1>1. "Input" # NoNode.type /\ "Const" # NoNode.type BY DEF NoNode
<1>2. a \in Seq(A) /\ ToSet(a) = A /\ Once(a) BY <1>1, TaggedIs
<1>3. b \in Seq(B) /\ ToSet(b) = B /\ Once(b) BY <1>1, TaggedIs
<1>4. Sources(g) = a \o b BY DEF Sources
<1>5. A \union B = SourceNodes(g) BY DEF SourceNodes, SourceTypes
<1>6. A \intersect B = {} /\ A \subseteq L /\ B \subseteq L OBVIOUS
<1>7. SourceNodes(g) \subseteq L BY DEF SourceNodes
<1> HIDE DEF A, B, a, b, L
<1>8. a \in Seq(L) /\ b \in Seq(L)
  <2>1. \A x \in DOMAIN a : a[x] \in L BY <1>2, <1>6
  <2>2. \A x \in DOMAIN b : b[x] \in L BY <1>3, <1>6
  <2> QED BY <1>2, <1>3, <2>1, <2>2, OfSubset
<1> DEFINE c == a \o b
<1>9. /\ c \in Seq(L) /\ Len(a) \in Nat /\ Len(b) \in Nat
      /\ DOMAIN a = 1..Len(a) /\ DOMAIN b = 1..Len(b) /\ DOMAIN c = 1..Len(a)+Len(b)
      /\ \A x \in 1..Len(a) : c[x] = a[x]
      /\ \A x \in 1..Len(b) : c[Len(a) + x] = b[x]
  BY <1>8, Concatenated
<1>10. ToSet(c) = A \union B BY <1>2, <1>3, <1>8, ToSetIs
<1> HIDE DEF c
<1>11. Once(c)
  <2> SUFFICES ASSUME NEW x \in DOMAIN c, NEW y \in DOMAIN c, c[x] = c[y] PROVE x = y BY DEF Once
  <2>1. ASSUME NEW z \in DOMAIN c
        PROVE  \/ z \in DOMAIN a /\ c[z] = a[z] /\ c[z] \in A
               \/ z - Len(a) \in DOMAIN b /\ c[z] = b[z - Len(a)] /\ c[z] \in B
    <3>1. CASE z \in 1..Len(a)
      <4>1. c[z] = a[z] BY <1>9, <3>1
      <4>2. a[z] \in A BY <1>2, <1>9, <3>1
      <4> QED BY <1>9, <3>1, <4>1, <4>2
    <3>2. CASE z \notin 1..Len(a)
      <4>1. z - Len(a) \in 1..Len(b) /\ Len(a) + (z - Len(a)) = z BY <1>9, <3>2
      <4>2. c[z] = b[z - Len(a)] BY <1>9, <4>1
      <4>3. b[z - Len(a)] \in B BY <1>3, <1>9, <4>1
      <4> QED BY <1>9, <4>1, <4>2, <4>3
    <3> QED BY <3>1, <3>2
  <2>2. CASE x \in DOMAIN a /\ c[x] = a[x] /\ c[x] \in A /\ y \in DOMAIN a /\ c[y] = a[y]
    BY <1>2, <2>2 DEF Once
  <2>3. CASE /\ x - Len(a) \in DOMAIN b /\ c[x] = b[x - Len(a)] /\ c[x] \in B
             /\ y - Len(a) \in DOMAIN b /\ c[y] = b[y - Len(a)]
    <3>1. x - Len(a) = y - Len(a) BY <1>3, <2>3 DEF Once
    <3> QED BY <1>9, <3>1
  <2> QED BY <1>6, <2>1, <2>2, <2>3
<1> QED BY <1>4, <1>5, <1>7, <1>9, <1>10, <1>11 DEF c, L

(* The output edges of a node, in either order.                            *)
LEMMA OutputEdges ==
    ASSUME NEW g, WellFormed(g), NEW n \in LiveNodes(g)
    PROVE  LET out == g.nodes[n].out IN
              /\ IsFiniteSet(out) /\ out = {e \in LiveEdges(g) : g.edges[e].from = n}
              /\ Ascending(out) \in Seq(out) /\ ToSet(Ascending(out)) = out
              /\ Descending(out) \in Seq(out) /\ ToSet(Descending(out)) = out /\ Once(Descending(out))
<1> DEFINE out == g.nodes[n].out
<1>1. g \in Graphs /\ NodeKnows(g, n) BY DEF WellFormed
<1>2. Len(g.edges) \in Nat /\ DOMAIN g.edges = 1..Len(g.edges) BY <1>1, GraphIs
<1>3. \A e \in LiveEdges(g) : e \in g.nodes[g.edges[e].from].out BY EdgeFacts
<1>4. out = {e \in LiveEdges(g) : g.edges[e].from = n} BY <1>1, <1>3 DEF NodeKnows
<1>5. out \in SUBSET (1..Len(g.edges)) BY <1>2, <1>4 DEF LiveEdges
<1>6. IsFiniteSet(out)
  <2>1. IsFiniteSet(1..Len(g.edges))
    <3>1. 1 \in Int /\ Len(g.edges) \in Int BY <1>2
    <3> QED BY <3>1, FS_Interval
  <2> QED BY <1>5, <2>1, FS_Subset
<1> HIDE DEF out
<1> DEFINE a == Ascending(out)
<1>7. a \in Seq(out) /\ (\A x \in out : \E y \in DOMAIN a : a[y] = x) /\ Once(a) BY <1>2, <1>5, AscendingIs
<1>8. Descending(out) = Reverse(a) BY DEF Descending
<1> HIDE DEF a
<1>9. \A y \in DOMAIN a : a[y] \in out BY <1>7
<1>10. ToSet(a) = out BY <1>7, <1>9 DEF ToSet
<1>11. Reverse(a) \in Seq(out) /\ ToSet(Reverse(a)) = out /\ Once(Reverse(a)) BY <1>7, <1>10, ReverseIs
<1> QED BY <1>4, <1>6, <1>7, <1>8, <1>10, <1>11 DEF out, a

(* The producers of the inputs of a node.                                  *)
Needs(g, n) == {g.edges[g.nodes[n].in[i]].from : i \in Inputs(g, n)}

LEMMA NeedsAre ==
    ASSUME NEW g, WellFormed(g), Full(g)
    PROVE  /\ \A n \in LiveNodes(g) : Needs(g, n) \subseteq LiveNodes(g)
           /\ \A n \in LiveNodes(g) : Needs(g, n) = {} <=> n \in SourceNodes(g)
           /\ \A n \in LiveNodes(g) : \A p \in Needs(g, n) :
                 \E e \in g.nodes[p].out : e \in LiveEdges(g) /\ g.edges[e].from = p /\ g.edges[e].to = n
           /\ \A e \in LiveEdges(g) : g.edges[e].from \in Needs(g, g.edges[e].to)
           /\ \A n \in LiveNodes(g) : \A visited : AllInputsAreVisited(g, n, visited) <=> Needs(g, n) \subseteq visited
<1>1. ASSUME NEW n \in LiveNodes(g), NEW p \in Needs(g, n)
      PROVE  /\ p \in LiveNodes(g)
             /\ \E e \in g.nodes[p].out : e \in LiveEdges(g) /\ g.edges[e].from = p /\ g.edges[e].to = n
  <2>1. PICK i \in Inputs(g, n) : p = g.edges[g.nodes[n].in[i]].from BY DEF Needs
  <2> DEFINE e == g.nodes[n].in[i]
  <2>2. e \in LiveEdges(g) /\ g.edges[e].to = n BY DEF Full, WellFormed, NodeKnows
  <2>3. p \in LiveNodes(g) /\ e \in g.nodes[p].out BY <2>1, <2>2, EdgeFacts
  <2> QED BY <2>1, <2>2, <2>3
<1>2. ASSUME NEW n \in LiveNodes(g) PROVE Needs(g, n) = {} <=> n \in SourceNodes(g)
  <2>1. g.nodes[n].in \in Seq(Nat) /\ Shaped(g.nodes[n])
    <3>1. g.nodes[n] \in Nodes BY GraphIs DEF WellFormed
    <3> QED BY <3>1 DEF Nodes, WellFormed, NodeKnows
  <2>2. CASE g.nodes[n].type \in SourceTypes
    <3>1. Inputs(g, n) = {} BY <2>1, <2>2 DEF Shaped, Inputs
    <3> QED BY <2>2, <3>1 DEF Needs, SourceNodes
  <2>3. CASE g.nodes[n].type \notin SourceTypes
    <3>1. 1 \in Inputs(g, n) BY <2>1, <2>3 DEF Shaped, Inputs
    <3> QED BY <2>3, <3>1 DEF Needs, SourceNodes
  <2> QED BY <2>2, <2>3
<1>3. ASSUME NEW e \in LiveEdges(g) PROVE g.edges[e].from \in Needs(g, g.edges[e].to)
  <2>1. g.edges[e].toIdx \in Inputs(g, g.edges[e].to) /\ g.nodes[g.edges[e].to].in[g.edges[e].toIdx] = e
    BY EdgeFacts
  <2> QED BY <2>1 DEF Needs
<1>4. ASSUME NEW n \in LiveNodes(g), NEW visited
      PROVE  AllInputsAreVisited(g, n, visited) <=> Needs(g, n) \subseteq visited
  <2>1. \A i \in Inputs(g, n) : g.nodes[n].in[i] # Empty BY DEF Full
  <2> QED BY <2>1 DEF AllInputsAreVisited, Needs
<1> QED BY <1>1, <1>2, <1>3, <1>4

LEMMA ConsumersAre ==
    ASSUME NEW g, WellFormed(g), NEW edges \in Seq(LiveEdges(g))
    PROVE  /\ Consumers(g, edges) \in Seq(LiveNodes(g)) /\ Len(Consumers(g, edges)) = Len(edges)
           /\ DOMAIN Consumers(g, edges) = DOMAIN edges
           /\ \A x \in DOMAIN edges : Consumers(g, edges)[x] = g.edges[edges[x]].to
<1> DEFINE c == Consumers(g, edges)
<1>1. Len(edges) \in Nat /\ DOMAIN edges = 1..Len(edges) /\ \A x \in 1..Len(edges) : edges[x] \in LiveEdges(g) OBVIOUS
<1>2. c = [x \in 1..Len(edges) |-> g.edges[edges[x]].to] BY <1>1 DEF Consumers
<1>3. \A x \in 1..Len(edges) : g.edges[edges[x]].to \in LiveNodes(g) BY <1>1, EdgeFacts
<1> HIDE DEF c
<1>4. /\ DOMAIN c = 1..Len(edges) /\ c = [x \in 1..Len(edges) |-> c[x]]
      /\ \A x \in 1..Len(edges) : c[x] = g.edges[edges[x]].to /\ c[x] \in LiveNodes(g)
  BY <1>2, <1>3
<1>5. c \in Seq(LiveNodes(g)) /\ Len(c) = Len(edges) BY <1>1, <1>4, FunctionIsSequence
<1> QED BY <1>1, <1>4, <1>5 DEF c

-----------------------------------------------------------------------------
(* dfs                                                                     *)

Traversed(g) == [waiting : Seq(LiveNodes(g)), visited : SUBSET LiveNodes(g), order : Seq(LiveNodes(g))]

Pushed(g, n, visited) ==
    Consumers(g, Only(Descending(g.nodes[n].out), {e \in g.nodes[n].out : Ready(g, g.edges[e].to, visited)}))

LEMMA PushedIs ==
    ASSUME NEW g, WellFormed(g), NEW n \in LiveNodes(g), NEW visited
    PROVE  LET c == Pushed(g, n, visited) IN
              /\ c \in Seq(LiveNodes(g)) /\ Len(c) \in Nat /\ Len(c) <= Cardinality(g.nodes[n].out)
              /\ \A x \in DOMAIN c : \E e \in g.nodes[n].out : c[x] = g.edges[e].to /\ Ready(g, c[x], visited)
              /\ \A e \in g.nodes[n].out : Ready(g, g.edges[e].to, visited) => \E x \in DOMAIN c : c[x] = g.edges[e].to
<1> DEFINE out == g.nodes[n].out
           R == {e \in out : Ready(g, g.edges[e].to, visited)}
           d == Descending(out)
           es == Only(d, R)
           c == Consumers(g, es)
<1>1. /\ IsFiniteSet(out) /\ out = {e \in LiveEdges(g) : g.edges[e].from = n}
      /\ d \in Seq(out) /\ ToSet(d) = out /\ Once(d)
  BY OutputEdges
<1>2. Pushed(g, n, visited) = c BY DEF Pushed
<1>3. R \subseteq out /\ \A e \in R : Ready(g, g.edges[e].to, visited) OBVIOUS
<1>4. \A e \in out : Ready(g, g.edges[e].to, visited) => e \in R OBVIOUS
<1>5. out \subseteq LiveEdges(g) BY <1>1
<1> HIDE DEF out, R, d
<1>6. /\ es \in Seq(out) /\ \A x \in DOMAIN es : es[x] \in R
      /\ \A x \in DOMAIN d : d[x] \in R => \E y \in DOMAIN es : es[y] = d[x]
      /\ Once(es)
  BY ONLY <1>1, OnlyIs, OnlyOnce
<1> HIDE DEF es
<1>7. es \in Seq(LiveEdges(g))
  <2>1. \A x \in DOMAIN es : es[x] \in LiveEdges(g) BY <1>3, <1>5, <1>6
  <2> QED BY <1>6, <2>1, OfSubset
<1>8. /\ c \in Seq(LiveNodes(g)) /\ Len(c) = Len(es) /\ DOMAIN c = DOMAIN es
      /\ \A x \in DOMAIN es : c[x] = g.edges[es[x]].to
  BY <1>7, ConsumersAre
<1> HIDE DEF c
<1>9. Len(es) \in Nat /\ Len(es) <= Cardinality(out) BY <1>1, <1>6, OnceLength
<1>10. \A e \in R : \E x \in DOMAIN es : es[x] = e BY <1>1, <1>3, <1>6 DEF ToSet
<1>11. \A x \in DOMAIN c : \E e \in out : c[x] = g.edges[e].to /\ Ready(g, c[x], visited)
  BY <1>3, <1>6, <1>8
<1>12. \A e \in out : Ready(g, g.edges[e].to, visited) => \E x \in DOMAIN c : c[x] = g.edges[e].to
  BY <1>4, <1>8, <1>10
<1> QED BY <1>2, <1>8, <1>9, <1>11, <1>12 DEF out

(* A turn: node n is popped, and its consumers that are ready pushed.      *)
DfsStep(t, s, g) ==
    LET k == Len(s.waiting)
        n == s.waiting[k]
        v == s.visited \union {n}
    IN  /\ t \in Traversed(g) /\ t.visited = v /\ k \in Nat \ {0} /\ DOMAIN s.waiting = 1..k
        /\ n \in LiveNodes(g) /\ t.order = Append(s.order, n) /\ ToSet(t.order) = ToSet(s.order) \union {n}
        /\ Len(t.waiting) \in Nat /\ DOMAIN t.waiting = 1..Len(t.waiting) /\ Len(t.waiting) >= k - 1
        /\ Len(t.waiting) <= k - 1 + Cardinality(g.nodes[n].out)
        /\ \A x \in 1..k-1 : t.waiting[x] = s.waiting[x]
        /\ \A x \in k..Len(t.waiting) :
              \E e \in g.nodes[n].out : t.waiting[x] = g.edges[e].to /\ Ready(g, t.waiting[x], v)
        /\ \A e \in g.nodes[n].out : Ready(g, g.edges[e].to, v) =>
              \E y \in k..Len(t.waiting) : t.waiting[y] = g.edges[e].to

LEMMA DfsTurnIs ==
    ASSUME NEW g, WellFormed(g), NEW s \in Traversed(g), s.waiting # <<>>
    PROVE  DfsStep(DfsTurn(g, s), s, g)
<1> DEFINE L == LiveNodes(g)
           w == s.waiting
           k == Len(w)
           n == w[k]
           v == s.visited \union {n}
           f == Front(w)
           c == Pushed(g, n, v)
           t == DfsTurn(g, s)
<1>1. w \in Seq(L) /\ s.visited \in SUBSET L /\ s.order \in Seq(L) BY DEF Traversed
<1>2. /\ Last(w) = n /\ n \in L /\ f \in Seq(L) /\ k \in Nat \ {0} /\ Len(f) = k - 1 /\ DOMAIN f = 1..k-1 /\ DOMAIN w = 1..k
      /\ \A x \in 1..k-1 : f[x] = w[x]
  <2> HIDE DEF w, L, f
  <2> QED BY <1>1, FrontIs DEF f, w
<1>3. t = [waiting |-> f \o c, visited |-> v, order |-> Append(s.order, n)]
  BY <1>2 DEF DfsTurn, Pushed
<1> HIDE DEF w, L, f, k, n, v, c, t
<1>4. /\ c \in Seq(L) /\ Len(c) \in Nat /\ Len(c) <= Cardinality(g.nodes[n].out)
      /\ \A x \in DOMAIN c : \E e \in g.nodes[n].out : c[x] = g.edges[e].to /\ Ready(g, c[x], v)
      /\ \A e \in g.nodes[n].out : Ready(g, g.edges[e].to, v) => \E x \in DOMAIN c : c[x] = g.edges[e].to
  BY <1>2, PushedIs DEF c, L
<1> DEFINE u == f \o c
<1>5. /\ u \in Seq(L) /\ Len(u) = k - 1 + Len(c) /\ DOMAIN c = 1..Len(c) /\ DOMAIN u = 1..Len(u)
      /\ \A x \in 1..k-1 : u[x] = f[x]
      /\ \A x \in 1..Len(c) : u[k - 1 + x] = c[x]
  <2>1. /\ u \in Seq(L) /\ Len(f) \in Nat /\ Len(c) \in Nat
        /\ DOMAIN c = 1..Len(c) /\ DOMAIN u = 1..Len(f)+Len(c)
        /\ \A x \in 1..Len(f) : u[x] = f[x]
        /\ \A x \in 1..Len(c) : u[Len(f) + x] = c[x]
    <3>1. f \in Seq(L) /\ c \in Seq(L) BY <1>2, <1>4
    <3> QED BY ONLY <3>1, Concatenated
  <2> HIDE DEF u
  <2>2. Len(f) = k - 1 BY <1>2
  <2>3. Len(u) = Len(f) + Len(c) BY <2>1
  <2> QED BY <2>1, <2>2, <2>3
<1>6. Append(s.order, n) \in Seq(L) /\ ToSet(Append(s.order, n)) = ToSet(s.order) \union {n} BY <1>1, <1>2, ToSetIs, AppendedElements
<1> HIDE DEF u
<1>7. t.waiting = u /\ t.visited = v /\ t.order = Append(s.order, n) BY <1>3 DEF u
<1>8. v \in SUBSET L BY <1>1, <1>2 DEF v
<1>9. t \in Traversed(g) BY <1>3, <1>5, <1>6, <1>8 DEF Traversed, L, u
<1>10. ASSUME NEW x \in k..Len(u)
       PROVE  \E e \in g.nodes[n].out : u[x] = g.edges[e].to /\ Ready(g, u[x], v)
  <2>1. x - k + 1 \in 1..Len(c) /\ k - 1 + (x - k + 1) = x BY <1>2, <1>4, <1>5
  <2>2. u[x] = c[x - k + 1] BY <1>5, <2>1
  <2> QED BY <1>4, <1>5, <2>1, <2>2
<1>11. ASSUME NEW e \in g.nodes[n].out, Ready(g, g.edges[e].to, v)
       PROVE  \E y \in k..Len(u) : u[y] = g.edges[e].to
  <2>1. PICK x \in 1..Len(c) : c[x] = g.edges[e].to BY <1>4, <1>5, <1>11
  <2>2. k - 1 + x \in k..Len(u) BY <1>2, <1>4, <1>5
  <2> QED BY <1>5, <2>1, <2>2
<1>12. Len(u) \in Nat /\ Len(u) >= k - 1 /\ Len(u) <= k - 1 + Cardinality(g.nodes[n].out)
  <2>1. Cardinality(g.nodes[n].out) \in Nat
    <3>1. IsFiniteSet(g.nodes[n].out) BY <1>2, OutputEdges DEF L
    <3> QED BY <3>1, FS_CardinalityType
  <2> QED BY <1>2, <1>4, <1>5, <2>1
<1>13. \A x \in 1..k-1 : u[x] = w[x] BY <1>2, <1>5
<1>14. DfsStep(t, s, g) BY <1>2, <1>5, <1>6, <1>7, <1>9, <1>10, <1>11, <1>12, <1>13 DEF DfsStep, k, n, v, w, L
<1> QED BY <1>14 DEF t

(* Every producer was named before, or is a source.                        *)
InOrder(g, order) == \A x \in DOMAIN order : \A p \in Needs(g, order[x]) :
                         p \in SourceNodes(g) \/ \E y \in 1..x-1 : order[y] = p

(* A node all of whose producers were named waits, or was named itself.    *)
Followed(g, s) == \A n \in LiveNodes(g) :
                      Needs(g, n) \subseteq ToSet(s.order) => n \in ToSet(s.order) \union ToSet(s.waiting)

(* A node on the stack that was named, because it was pushed twice, has    *)
(* its consumers that are ready above it.                                  *)
Above(g, s) == \A x \in DOMAIN s.waiting : s.waiting[x] \in ToSet(s.order) =>
                   \A e \in g.nodes[s.waiting[x]].out : Ready(g, g.edges[e].to, s.visited) =>
                       \E y \in DOMAIN s.waiting : y > x /\ s.waiting[y] = g.edges[e].to

DfsInv(g, s) ==
    /\ s.visited = SourceNodes(g) \union ToSet(s.order)
    /\ \A x \in DOMAIN s.waiting : Needs(g, s.waiting[x]) \subseteq s.visited
    /\ InOrder(g, s.order) /\ Followed(g, s) /\ Above(g, s)

LEMMA InOrderGrows ==
    ASSUME NEW g, NEW order \in Seq(LiveNodes(g)), InOrder(g, order), NEW n \in LiveNodes(g),
           Needs(g, n) \subseteq SourceNodes(g) \union ToSet(order)
    PROVE  InOrder(g, Append(order, n))
<1> DEFINE a == Append(order, n)
<1>1. /\ DOMAIN order = 1..Len(order) /\ DOMAIN a = 1..Len(order)+1 /\ Len(order) \in Nat
      /\ a[Len(order) + 1] = n /\ \A x \in 1..Len(order) : a[x] = order[x]
  BY AppendedElements
<1> HIDE DEF a
<1> SUFFICES ASSUME NEW x \in DOMAIN a, NEW p \in Needs(g, a[x]), p \notin SourceNodes(g)
             PROVE  \E y \in 1..x-1 : a[y] = p
  BY DEF InOrder, a
<1>2. CASE x = Len(order) + 1
  <2>1. p \in ToSet(order) BY <1>1, <1>2
  <2>2. PICK y \in 1..Len(order) : order[y] = p BY <1>1, <2>1 DEF ToSet
  <2> QED BY <1>1, <1>2, <2>2
<1>3. CASE x # Len(order) + 1
  <2>1. x \in 1..Len(order) BY <1>1, <1>3
  <2>2. PICK y \in 1..x-1 : order[y] = p BY <1>1, <2>1 DEF InOrder
  <2>3. y \in 1..Len(order) BY <1>1, <2>1
  <2> QED BY <1>1, <2>2, <2>3
<1> QED BY <1>2, <1>3

LEMMA DfsTurnKeeps ==
    ASSUME NEW g, WellFormed(g), Full(g), NEW s \in Traversed(g), s.waiting # <<>>, DfsInv(g, s),
           NEW t, DfsStep(t, s, g)
    PROVE  DfsInv(g, t)
<1> DEFINE L == LiveNodes(g)
           w == s.waiting
           k == Len(w)
           n == w[k]
           v == s.visited \union {n}
           u == t.waiting
<1>1. /\ t \in Traversed(g) /\ t.visited = v /\ k \in Nat \ {0} /\ DOMAIN w = 1..k
      /\ n \in L /\ t.order = Append(s.order, n) /\ ToSet(t.order) = ToSet(s.order) \union {n}
      /\ Len(u) \in Nat /\ DOMAIN u = 1..Len(u) /\ Len(u) >= k - 1
      /\ \A x \in 1..k-1 : u[x] = w[x]
      /\ \A x \in k..Len(u) : \E e \in g.nodes[n].out : u[x] = g.edges[e].to /\ Ready(g, u[x], v)
      /\ \A e \in g.nodes[n].out : Ready(g, g.edges[e].to, v) => \E y \in k..Len(u) : u[y] = g.edges[e].to
  BY DEF DfsStep
<1>2. /\ s.visited = SourceNodes(g) \union ToSet(s.order)
      /\ \A x \in DOMAIN w : Needs(g, w[x]) \subseteq s.visited
      /\ InOrder(g, s.order) /\ Followed(g, s) /\ Above(g, s)
  BY DEF DfsInv
<1>3. /\ w \in Seq(L) /\ s.order \in Seq(L) /\ u \in Seq(L) BY <1>1 DEF Traversed
<1>4. /\ \A m \in L : Needs(g, m) = {} <=> m \in SourceNodes(g)
      /\ \A m \in L : \A p \in Needs(g, m) :
                 \E e \in g.nodes[p].out : e \in LiveEdges(g) /\ g.edges[e].from = p /\ g.edges[e].to = m
      /\ \A m \in L : \A visited : AllInputsAreVisited(g, m, visited) <=> Needs(g, m) \subseteq visited
  BY NeedsAre
<1>5. \A m \in L : \A e \in g.nodes[m].out : e \in LiveEdges(g) /\ g.edges[e].to \in L
  <2>1. \A m \in L : g.nodes[m].out = {e \in LiveEdges(g) : g.edges[e].from = m} BY OutputEdges
  <2> QED BY <2>1, EdgeFacts
<1>6. \A m \in L : \A visited : Ready(g, m, visited) <=> m \notin visited /\ Needs(g, m) \subseteq visited
  BY <1>4 DEF Ready
<1> HIDE DEF L, w, k, n, v, u
<1>7. k \in DOMAIN w /\ w[k] = n BY <1>1 DEF n
<1>8. t.visited = SourceNodes(g) \union ToSet(t.order) BY <1>1, <1>2 DEF v
<1>9. \A x \in DOMAIN u : x \in 1..k-1 \/ x \in k..Len(u) BY <1>1
<1>10. \A x \in DOMAIN u : Needs(g, u[x]) \subseteq v
  <2> SUFFICES ASSUME NEW x \in DOMAIN u PROVE Needs(g, u[x]) \subseteq v OBVIOUS
  <2>1. CASE x \in 1..k-1
    <3>1. x \in DOMAIN w /\ u[x] = w[x] BY <1>1, <2>1
    <3> QED BY <1>2, <3>1 DEF v
  <2>2. CASE x \in k..Len(u)
    <3>1. PICK e \in g.nodes[n].out : u[x] = g.edges[e].to /\ Ready(g, u[x], v) BY <1>1, <2>2
    <3>2. u[x] \in L BY <1>1, <1>5, <3>1
    <3> QED BY <1>6, <3>1, <3>2
  <2> QED BY <1>9, <2>1, <2>2
<1>11. InOrder(g, t.order)
  <2>1. Needs(g, n) \subseteq SourceNodes(g) \union ToSet(s.order) BY <1>2, <1>7
  <2> QED BY <1>1, <1>2, <1>3, <2>1, InOrderGrows DEF L
<1>12. ToSet(w) \subseteq ToSet(u) \union {n}
  <2> SUFFICES ASSUME NEW x \in DOMAIN w, w[x] # n PROVE w[x] \in ToSet(u) BY DEF ToSet
  <2>1. x \in 1..k-1 BY <1>1, <1>7
  <2>2. x \in DOMAIN u /\ u[x] = w[x] BY <1>1, <2>1
  <2> QED BY <2>2 DEF ToSet
<1>13. Followed(g, t)
  <2> SUFFICES ASSUME NEW m \in L, Needs(g, m) \subseteq ToSet(t.order) PROVE m \in ToSet(t.order) \union ToSet(u)
    BY DEF Followed, u, L
  <2>1. CASE Needs(g, m) \subseteq ToSet(s.order)
    <3>1. m \in ToSet(s.order) \union ToSet(w) BY <1>2, <2>1 DEF Followed, w, L
    <3> QED BY <1>1, <1>12, <3>1
  <2>2. CASE ~(Needs(g, m) \subseteq ToSet(s.order))
    <3>1. n \in Needs(g, m) BY <1>1, <2>2
    <3>2. PICK e \in g.nodes[n].out : g.edges[e].to = m BY <1>4, <3>1
    <3>3. Needs(g, m) \subseteq v BY <1>1, <1>8
    <3>4. CASE m \in v
      <4>1. m \notin SourceNodes(g) BY <1>4, <3>1
      <4> QED BY <1>1, <1>8, <3>4, <4>1
    <3>5. CASE m \notin v
      <4>1. Ready(g, g.edges[e].to, v) BY <1>6, <3>2, <3>3, <3>5
      <4>2. PICK y \in k..Len(u) : u[y] = m BY <1>1, <3>2, <4>1
      <4>3. y \in DOMAIN u BY <1>1
      <4> QED BY <4>2, <4>3 DEF ToSet
    <3> QED BY <3>4, <3>5
  <2> QED BY <2>1, <2>2
<1>14. Above(g, t)
  <2> SUFFICES ASSUME NEW x \in DOMAIN u, u[x] \in ToSet(t.order), NEW e \in g.nodes[u[x]].out,
                      Ready(g, g.edges[e].to, v)
               PROVE  \E y \in DOMAIN u : y > x /\ u[y] = g.edges[e].to
    BY <1>1 DEF Above, u
  <2> DEFINE c == g.edges[e].to
  <2>1. x \in 1..k-1
    <3> SUFFICES ASSUME x \in k..Len(u) PROVE FALSE BY <1>9
    <3>1. Ready(g, u[x], v) BY <1>1
    <3>2. u[x] \notin v BY <3>1 DEF Ready
    <3> QED BY <1>8, <3>2, <1>1
  <2>2. x \in DOMAIN w /\ u[x] = w[x] /\ w[x] \in L
    <3>1. x \in DOMAIN w /\ u[x] = w[x] BY <1>1, <2>1
    <3> QED BY <1>3, <3>1
  <2>3. c \in L /\ c \notin v /\ Needs(g, c) \subseteq v
    <3>1. c \in L BY <1>5, <2>2
    <3> QED BY <1>6, <3>1
  <2>4. \A y \in k..Len(u) : y \in DOMAIN u /\ y > x BY <1>1, <2>1
  <2>5. CASE \E f \in g.nodes[n].out : g.edges[f].to = c
    <3>1. PICK f \in g.nodes[n].out : g.edges[f].to = c BY <2>5
    <3>2. Ready(g, g.edges[f].to, v) BY <3>1
    <3>3. PICK y \in k..Len(u) : u[y] = g.edges[f].to BY <1>1, <3>2
    <3> QED BY <2>4, <3>1, <3>3
  <2>6. CASE ~\E f \in g.nodes[n].out : g.edges[f].to = c
    <3>1. w[x] # n BY <2>2, <2>6
    <3>2. w[x] \in ToSet(s.order) BY <1>1, <2>2, <3>1
    <3>3. n \notin Needs(g, c) BY <1>4, <2>3, <2>6
    <3>4. Needs(g, c) \subseteq s.visited /\ c \notin s.visited /\ c # n BY <2>3, <3>3 DEF v
    <3>5. Ready(g, c, s.visited) BY <1>6, <2>3, <3>4
    <3>6. PICK y \in DOMAIN w : y > x /\ w[y] = c BY <1>2, <2>2, <3>2, <3>5 DEF Above, w
    <3>7. y \in 1..k-1 BY <1>1, <1>7, <3>4, <3>6
    <3>8. y \in DOMAIN u /\ u[y] = c BY <1>1, <3>6, <3>7
    <3> QED BY <3>6, <3>8
  <2> QED BY <2>5, <2>6
<1> QED BY <1>1, <1>8, <1>10, <1>11, <1>13, <1>14 DEF DfsInv, u

-----------------------------------------------------------------------------
(* A traversal ends: what is left for it becomes less with each turn.      *)

Begun(g) == [waiting |-> Sources(g), visited |-> ToSet(Sources(g)), order |-> <<>>]
Turns(g) == [k \in 1..Len(g.nodes) + Len(g.edges) |-> k]

LEMMA TurnsAre ==
    ASSUME NEW g \in Graphs
    PROVE  /\ Len(Turns(g)) = Len(g.nodes) + Len(g.edges) /\ Len(Turns(g)) \in Nat
           /\ DOMAIN Turns(g) = 1..Len(Turns(g))
<1> DEFINE m == Len(g.nodes) + Len(g.edges)
           q == Turns(g)
<1>0. Len(g.nodes) \in Nat /\ Len(g.edges) \in Nat BY GraphIs
<1>1. m \in Nat
  <2> DEFINE a == Len(g.nodes)
             b == Len(g.edges)
  <2> HIDE DEF a, b
  <2>1. a \in Nat /\ b \in Nat BY <1>0 DEF a, b
  <2>2. a + b \in Nat BY <2>1
  <2> QED BY <2>2 DEF a, b
<1>2. q = [k \in 1..m |-> k] BY DEF Turns
<1> HIDE DEF m, q
<1>3. q \in Seq(Nat) /\ DOMAIN q = 1..m /\ Len(q) = m BY <1>1, <1>2
<1> QED BY <1>1, <1>3 DEF m, q

LEMMA BegunIs ==
    ASSUME NEW g \in Graphs
    PROVE  /\ Begun(g) \in Traversed(g) /\ Begun(g).waiting = Sources(g) /\ Begun(g).order = <<>>
           /\ Begun(g).visited = SourceNodes(g) /\ ToSet(Begun(g).order) = {}
           /\ Len(Sources(g)) \in Nat /\ Len(Sources(g)) <= Len(g.nodes)
<1>1. /\ Sources(g) \in Seq(LiveNodes(g)) /\ ToSet(Sources(g)) = SourceNodes(g) /\ Once(Sources(g))
      /\ SourceNodes(g) \subseteq LiveNodes(g)
  BY SourcesAre
<1>2. ToSet(<<>>) = {} BY DEF ToSet
<1>3. Begun(g) = [waiting |-> Sources(g), visited |-> SourceNodes(g), order |-> <<>>] BY <1>1 DEF Begun
<1>4. Begun(g) \in Traversed(g) BY <1>1, <1>3 DEF Traversed
<1>5. Len(Sources(g)) \in Nat /\ Len(Sources(g)) <= Len(g.nodes)
  <2> DEFINE all == 1..Len(g.nodes)
             s == Sources(g)
  <2>1. Len(g.nodes) \in Nat /\ DOMAIN g.nodes = all BY GraphIs
  <2>2. IsFiniteSet(all) /\ Cardinality(all) = Len(g.nodes)
    <3>1. 1 \in Int /\ Len(g.nodes) \in Int BY <2>1
    <3>2. IsFiniteSet(all) /\ Cardinality(all) = IF 1 > Len(g.nodes) THEN 0 ELSE Len(g.nodes) - 1 + 1
      BY <3>1, FS_Interval
    <3> QED BY <2>1, <3>2
  <2>3. LiveNodes(g) \subseteq all BY <2>1 DEF LiveNodes
  <2> HIDE DEF all, s
  <2>4. s \in Seq(LiveNodes(g)) BY <1>1 DEF s
  <2>5. \A x \in DOMAIN s : s[x] \in all BY <2>3, <2>4
  <2>6. s \in Seq(all) BY <2>4, <2>5, OfSubset
  <2>7. Once(s) BY <1>1 DEF s
  <2>8. Len(s) \in Nat /\ Len(s) <= Cardinality(all) BY <2>2, <2>6, <2>7, OnceLength
  <2> QED BY <2>2, <2>8 DEF s
<1> QED BY <1>1, <1>2, <1>3, <1>4, <1>5

(* An order that follows the edges from the sources, and that goes on as   *)
(* long as there is a node all of whose producers it has named.            *)
LEMMA OrderEnds ==
    ASSUME NEW g, NEW rank, Ranked(g, rank), NEW order \in Seq(LiveNodes(g)), InOrder(g, order),
           \A n \in LiveNodes(g) : Needs(g, n) \subseteq ToSet(order) => n \in ToSet(order)
    PROVE  IsTopological(g, order)
<1>1. WellFormed(g) /\ Full(g) /\ rank \in Ranks /\ OrderedBy(g, rank) BY DEF Ranked
<1>2. /\ \A n \in LiveNodes(g) : Needs(g, n) \subseteq LiveNodes(g)
      /\ \A n \in LiveNodes(g) : \A p \in Needs(g, n) :
            \E e \in g.nodes[p].out : e \in LiveEdges(g) /\ g.edges[e].from = p /\ g.edges[e].to = n
  BY <1>1, NeedsAre
<1>3. \A n \in LiveNodes(g) : n \in Nat BY <1>1, LiveNodesAreNumbers
<1>4. ToSet(order) \subseteq LiveNodes(g) BY ToSetIs
<1>5. LiveNodes(g) \subseteq ToSet(order)
  <2> SUFFICES ASSUME LiveNodes(g) \ ToSet(order) # {} PROVE FALSE OBVIOUS
  <2> DEFINE T == {rank[n] : n \in LiveNodes(g) \ ToSet(order)}
  <2>1. T \in SUBSET Nat /\ T # {} BY <1>1, <1>3 DEF Ranks
  <2>2. PICK r \in T : \A q \in T : r <= q
    <3> HIDE DEF T
    <3> QED BY <2>1, SmallestExists
  <2>3. PICK n \in LiveNodes(g) \ ToSet(order) : r = rank[n] BY <2>2
  <2>4. ASSUME NEW p \in Needs(g, n) PROVE p \in ToSet(order)
    <3>1. PICK e \in LiveEdges(g) : g.edges[e].from = p /\ g.edges[e].to = n BY <1>2, <2>3
    <3>2. rank[p] < rank[n] BY <1>1, <3>1 DEF OrderedBy
    <3>3. p \in LiveNodes(g) BY <1>2, <2>3
    <3>4. rank[p] \in Nat /\ rank[n] \in Nat BY <1>1, <1>3, <2>3, <3>3 DEF Ranks
    <3>5. rank[p] \notin T
      <4>1. rank[p] \in T => rank[n] <= rank[p] BY <2>2, <2>3
      <4>2. ~(rank[n] <= rank[p])
        <5> DEFINE a == rank[p]
                   b == rank[n]
        <5> HIDE DEF a, b
        <5>1. a \in Nat /\ b \in Nat /\ a < b BY <3>2, <3>4 DEF a, b
        <5>2. ~(b <= a) BY <5>1
        <5> QED BY <5>2 DEF a, b
      <4> QED BY <4>1, <4>2
    <3> QED BY <3>3, <3>5
  <2> QED BY <2>3, <2>4
<1>6. ASSUME NEW x \in DOMAIN order, NEW i \in Inputs(g, order[x])
      PROVE  LET e == g.nodes[order[x]].in[i] IN
             e # Empty => \/ g.edges[e].from \in ToSet(Sources(g))
                          \/ \E y \in 1..x-1 : order[y] = g.edges[e].from
  <2> DEFINE p == g.edges[g.nodes[order[x]].in[i]].from
  <2>1. p \in Needs(g, order[x]) BY DEF Needs
  <2>2. ToSet(Sources(g)) = SourceNodes(g) BY <1>1, SourcesAre DEF WellFormed
  <2> QED BY <2>1, <2>2 DEF InOrder
<1> QED BY <1>4, <1>5, <1>6 DEF IsTopological

(* The edges that have not been followed yet.                              *)
Unfollowed(g, s) == {e \in LiveEdges(g) : g.edges[e].from \notin ToSet(s.order)}

DfsLeft(g, s) == Len(s.waiting) + Cardinality(Unfollowed(g, s))

LEMMA UnfollowedAre ==
    ASSUME NEW g, WellFormed(g), NEW s
    PROVE  /\ IsFiniteSet(Unfollowed(g, s)) /\ Cardinality(Unfollowed(g, s)) \in Nat
           /\ Cardinality(Unfollowed(g, s)) <= Len(g.edges)
<1>1. Len(g.edges) \in Nat /\ DOMAIN g.edges = 1..Len(g.edges) BY GraphIs DEF WellFormed
<1> DEFINE all == 1..Len(g.edges)
           U == Unfollowed(g, s)
<1>2. U \in SUBSET all BY <1>1 DEF Unfollowed, LiveEdges
<1>3. IsFiniteSet(all) /\ Cardinality(all) = Len(g.edges)
  <2>1. 1 \in Int /\ Len(g.edges) \in Int BY <1>1
  <2>2. IsFiniteSet(all) /\ Cardinality(all) = IF 1 > Len(g.edges) THEN 0 ELSE Len(g.edges) - 1 + 1
    BY <2>1, FS_Interval
  <2> QED BY <1>1, <2>2
<1> HIDE DEF all, U
<1>4. IsFiniteSet(U) /\ Cardinality(U) <= Cardinality(all) BY <1>2, <1>3, FS_Subset
<1>5. Cardinality(U) \in Nat BY <1>4, FS_CardinalityType
<1> QED BY <1>3, <1>4, <1>5 DEF U

LEMMA DfsShrinks ==
    ASSUME NEW g, WellFormed(g), NEW s \in Traversed(g), s.waiting # <<>>, DfsInv(g, s),
           NEW t, DfsStep(t, s, g)
    PROVE  DfsLeft(g, t) < DfsLeft(g, s)
<1> DEFINE w == s.waiting
           k == Len(w)
           n == w[k]
           v == s.visited \union {n}
           u == t.waiting
           out == g.nodes[n].out
           A == Unfollowed(g, s)
           B == Unfollowed(g, t)
<1>1. /\ k \in Nat \ {0} /\ DOMAIN w = 1..k /\ n \in LiveNodes(g) /\ ToSet(t.order) = ToSet(s.order) \union {n}
      /\ Len(u) \in Nat /\ Len(u) >= k - 1 /\ Len(u) <= k - 1 + Cardinality(out)
      /\ \A x \in k..Len(u) : \E e \in out : u[x] = g.edges[e].to /\ Ready(g, u[x], v)
  BY DEF DfsStep
<1>2. s.visited = SourceNodes(g) \union ToSet(s.order) /\ Above(g, s) BY DEF DfsInv
<1>3. IsFiniteSet(out) /\ out = {e \in LiveEdges(g) : g.edges[e].from = n} BY <1>1, OutputEdges
<1>4. IsFiniteSet(A) /\ Cardinality(A) \in Nat /\ IsFiniteSet(B) /\ Cardinality(B) \in Nat BY UnfollowedAre
<1>5. CASE n \notin ToSet(s.order)
  <2>1. out \subseteq A /\ B = A \ out BY <1>1, <1>3, <1>5 DEF Unfollowed
  <2> HIDE DEF A, B, out
  <2>2. Cardinality(A \ out) = Cardinality(A) - Cardinality(A \intersect out) BY <1>3, <1>4, FS_Difference
  <2>3. A \intersect out = out BY <2>1
  <2>4. Cardinality(B) = Cardinality(A) - Cardinality(out) BY <2>1, <2>2, <2>3
  <2>5. Cardinality(out) \in Nat BY <1>3, FS_CardinalityType
  <2> HIDE DEF k, u, n
  <2>6. Len(u) + Cardinality(B) < k + Cardinality(A) BY <1>1, <1>4, <2>4, <2>5
  <2> QED BY <2>6 DEF DfsLeft, A, B, k, u
<1>6. CASE n \in ToSet(s.order)
  <2>1. A = B BY <1>1, <1>6 DEF Unfollowed
  <2>2. Len(u) = k - 1
    <3> SUFFICES ASSUME Len(u) >= k PROVE FALSE BY <1>1
    <3>1. k \in k..Len(u) /\ k \in DOMAIN w BY <1>1
    <3>2. PICK e \in out : u[k] = g.edges[e].to /\ Ready(g, u[k], v) BY <1>1, <3>1
    <3>3. v = s.visited BY <1>2, <1>6
    <3>4. Ready(g, g.edges[e].to, s.visited) BY <3>2, <3>3
    <3>5. PICK y \in DOMAIN w : y > k BY <1>2, <1>6, <3>1, <3>4 DEF Above
    <3> QED BY <1>1, <3>5
  <2> HIDE DEF k, u, n, A, B
  <2>3. Len(u) + Cardinality(B) < k + Cardinality(A) BY <1>1, <1>4, <2>1, <2>2
  <2> QED BY <2>3 DEF DfsLeft, A, B, k, u
<1> QED BY <1>5, <1>6

LEMMA DfsSteps ==
    ASSUME NEW g, WellFormed(g)
    PROVE  \E steps \in [0..Len(Turns(g)) -> Traversed(g)] :
              /\ steps[0] = Begun(g) /\ \A k \in 1..Len(Turns(g)) : steps[k] = (IF steps[k - 1].waiting = <<>> THEN steps[k - 1] ELSE DfsTurn(g, steps[k - 1]))
              /\ Dfs(g) = steps[Len(Turns(g))].order
<1> DEFINE n == Len(Turns(g))
           Step == [x \in (Traversed(g)) \X (1..n) |-> (IF x[1].waiting = <<>> THEN x[1] ELSE DfsTurn(g, x[1]))]
<1>1. n \in Nat /\ DOMAIN Turns(g) = 1..n 
  <2>1. g \in Graphs BY DEF WellFormed
  <2> QED BY <2>1, TurnsAre
<1>2. /\ Begun(g) \in Traversed(g)
      /\ \A x \in Traversed(g), k \in 1..n : (IF x.waiting = <<>> THEN x ELSE DfsTurn(g, x)) \in Traversed(g)
  <2>1. g \in Graphs BY DEF WellFormed
  <2>2. Begun(g) \in Traversed(g) BY <2>1, BegunIs
  <2>3. ASSUME NEW x \in Traversed(g), x.waiting # <<>> PROVE DfsTurn(g, x) \in Traversed(g)
    <3>1. DfsStep(DfsTurn(g, x), x, g) BY <2>3, DfsTurnIs
    <3> QED BY <3>1 DEF DfsStep
  <2> QED BY <2>2, <2>3
<1>3. Step \in [(Traversed(g)) \X (1..n) -> Traversed(g)] /\ \A x \in Traversed(g), k \in 1..n : Step[<<x, k>>] = (IF x.waiting = <<>> THEN x ELSE DfsTurn(g, x))
  BY <1>2
<1> HIDE DEF n, Step
<1> DEFINE Eq(it) == it = [z \in SUBSET DOMAIN Turns(g) |->
                             IF z = {} THEN Begun(g) ELSE (IF it[z \ {Max(z)}].waiting = <<>> THEN it[z \ {Max(z)}] ELSE DfsTurn(g, it[z \ {Max(z)}]))]
           tab == CHOOSE it : Eq(it)
<1>4. Dfs(g) = tab[DOMAIN Turns(g)].order
  BY Zenon DEF FoldLeft, MapThenFoldSet, Dfs, Traversal, Begun, Turns
<1>5. PICK it \in [SUBSET (1..n) -> Traversed(g)] : FoldsBy(it, 1..n, Begun(g), Step)
  <2>1. HasFold(n, Traversed(g), Begun(g), Step) BY <1>1, <1>2, <1>3, FoldOfSet
  <2> QED BY <2>1 DEF HasFold
<1>6. Eq(it)
  <2>1. ASSUME NEW z \in SUBSET (1..n)
        PROVE  it[z] = IF z = {} THEN Begun(g) ELSE (IF it[z \ {Max(z)}].waiting = <<>> THEN it[z \ {Max(z)}] ELSE DfsTurn(g, it[z \ {Max(z)}]))
    <3>1. CASE z = {} BY <1>5, <3>1 DEF FoldsBy
    <3>2. CASE z # {}
      <4>1. Max(z) \in 1..n BY <1>1, <3>2, MaxOfSome
      <4>2. it[z \ {Max(z)}] \in Traversed(g)
        <5>1. z \ {Max(z)} \in SUBSET (1..n) OBVIOUS
        <5> QED BY <1>5, <5>1
      <4>3. it[z] = Step[<<it[z \ {Max(z)}], Max(z)>>] BY <1>5, <3>2 DEF FoldsBy
      <4> QED BY <1>3, <3>2, <4>1, <4>2, <4>3
    <3> QED BY <3>1, <3>2
  <2> QED BY <1>1, <1>5, <2>1
<1>7. Eq(tab)
  <2> HIDE DEF Eq
  <2> QED BY <1>6
<1> HIDE DEF tab
<1>8. ASSUME NEW z \in SUBSET (1..n), z # {}, tab[z \ {Max(z)}] \in Traversed(g)
      PROVE  tab[z] = Step[<<tab[z \ {Max(z)}], Max(z)>>]
  <2>1. Max(z) \in 1..n BY <1>1, <1>8, MaxOfSome
  <2>2. tab[z] = (IF tab[z \ {Max(z)}].waiting = <<>> THEN tab[z \ {Max(z)}] ELSE DfsTurn(g, tab[z \ {Max(z)}])) BY <1>1, <1>7, <1>8
  <2> QED BY <1>3, <1>8, <2>1, <2>2
<1>9. tab[{}] = Begun(g) BY <1>1, <1>7
<1>10. Folded(tab[1..n], n, Traversed(g), Begun(g), Step) BY <1>1, <1>2, <1>3, <1>8, <1>9, FoldTable
<1>11. PICK steps \in [0..n -> Traversed(g)] : Stepwise(steps, n, Begun(g), Step) /\ tab[1..n] = steps[n]
  BY <1>10 DEF Folded
<1>12. ASSUME NEW k \in 1..n PROVE steps[k] = (IF steps[k - 1].waiting = <<>> THEN steps[k - 1] ELSE DfsTurn(g, steps[k - 1]))
  <2>1. k - 1 \in 0..n BY <1>1
  <2>2. steps[k - 1] \in Traversed(g) BY <1>11, <2>1
  <2> QED BY <1>3, <1>11, <2>2 DEF Stepwise
<1>13. steps[0] = Begun(g) BY <1>11 DEF Stepwise
<1>14. Dfs(g) = steps[n].order BY <1>1, <1>4, <1>11
<1> HIDE <1>2, <1>7, <1>8
<1> QED BY <1>11, <1>12, <1>13, <1>14 DEF n

(* The order of a depth first traversal is a topological order.            *)
LEMMA DfsIsTopological ==
    ASSUME NEW g, NEW rank, Ranked(g, rank)
    PROVE  IsTopological(g, Dfs(g)) /\ Dfs(g) \in Seq(LiveNodes(g))
<1> DEFINE n == Len(Turns(g))
<1>1. WellFormed(g) /\ Full(g) /\ g \in Graphs BY DEF Ranked, WellFormed
<1>2. n \in Nat BY <1>1, TurnsAre
<1>3. PICK steps \in [0..n -> Traversed(g)] :
         /\ steps[0] = Begun(g)
         /\ \A k \in 1..n : steps[k] = (IF steps[k - 1].waiting = <<>> THEN steps[k - 1] ELSE DfsTurn(g, steps[k - 1]))
         /\ Dfs(g) = steps[n].order
  BY <1>1, DfsSteps
<1> HIDE DEF n
<1> DEFINE P == {k \in Nat : k <= n => /\ DfsInv(g, steps[k])
                                       /\ steps[k].waiting = <<>> \/ DfsLeft(g, steps[k]) <= n - k}
<1>4. 0 \in P
  <2> DEFINE b == Begun(g)
  <2>1. /\ b.waiting = Sources(g) /\ b.order = <<>> /\ b.visited = SourceNodes(g) /\ ToSet(b.order) = {}
        /\ Len(Sources(g)) \in Nat /\ Len(Sources(g)) <= Len(g.nodes)
    BY <1>1, BegunIs
  <2>2. /\ Sources(g) \in Seq(LiveNodes(g)) /\ ToSet(Sources(g)) = SourceNodes(g)
        /\ SourceNodes(g) \subseteq LiveNodes(g)
    BY <1>1, SourcesAre
  <2>3. \A m \in LiveNodes(g) : Needs(g, m) = {} <=> m \in SourceNodes(g) BY <1>1, NeedsAre
  <2> HIDE DEF b
  <2>4. \A x \in DOMAIN b.waiting : b.waiting[x] \in SourceNodes(g) BY <2>1, <2>2, ToSetIs
  <2>5. \A x \in DOMAIN b.waiting : Needs(g, b.waiting[x]) \subseteq b.visited BY <2>2, <2>3, <2>4
  <2>6. DOMAIN b.order = {} BY <2>1
  <2>7. InOrder(g, b.order) BY <2>6 DEF InOrder
  <2>8. Followed(g, b) BY <2>1, <2>2, <2>3 DEF Followed
  <2>9. Above(g, b) BY <2>1 DEF Above
  <2>10. DfsInv(g, b) BY <2>1, <2>5, <2>7, <2>8, <2>9 DEF DfsInv
  <2>11. Cardinality(Unfollowed(g, b)) \in Nat /\ Cardinality(Unfollowed(g, b)) <= Len(g.edges)
    BY <1>1, UnfollowedAre
  <2>12. DfsLeft(g, b) <= n - 0
    <3> DEFINE c == Len(Sources(g))
               d == Cardinality(Unfollowed(g, b))
               p == Len(g.nodes)
               q == Len(g.edges)
    <3>1. n = p + q /\ p \in Nat /\ q \in Nat BY <1>1, TurnsAre, GraphIs DEF n
    <3>2. DfsLeft(g, b) = c + d BY <2>1 DEF DfsLeft
    <3>3. c \in Nat /\ d \in Nat /\ c <= p /\ d <= q BY <2>1, <2>11
    <3> HIDE DEF c, d, p, q
    <3>4. c + d <= n - 0 BY ONLY <3>1, <3>3
    <3> QED BY <3>2, <3>4
  <2> QED BY <1>3, <2>10, <2>12 DEF b
<1>5. ASSUME NEW k \in Nat, k \in P PROVE k + 1 \in P
  <2> SUFFICES ASSUME k + 1 <= n
               PROVE  /\ DfsInv(g, steps[k + 1])
                      /\ steps[k + 1].waiting = <<>> \/ DfsLeft(g, steps[k + 1]) <= n - (k + 1)
    OBVIOUS
  <2> DEFINE s == steps[k]
             t == steps[k + 1]
  <2> HIDE DEF P
  <2>1. k \in 0..n /\ k + 1 \in 1..n /\ k + 1 \in 0..n /\ (k + 1) - 1 = k /\ k <= n BY <1>2
  <2>2. s \in Traversed(g) /\ t \in Traversed(g) BY <1>3, <2>1
  <2>3. t = IF s.waiting = <<>> THEN s ELSE DfsTurn(g, s) BY <1>3, <2>1
  <2>4. DfsInv(g, s) /\ (s.waiting = <<>> \/ DfsLeft(g, s) <= n - k) BY <1>5, <2>1 DEF P
  <2> HIDE DEF s, t
  <2>5. CASE s.waiting = <<>> BY <2>3, <2>4, <2>5 DEF s, t
  <2>6. CASE s.waiting # <<>>
    <3>1. DfsStep(t, s, g) BY <1>1, <2>2, <2>3, <2>6, DfsTurnIs
    <3>2. DfsInv(g, t) BY <1>1, <2>2, <2>4, <2>6, <3>1, DfsTurnKeeps
    <3>3. DfsLeft(g, t) < DfsLeft(g, s) BY <1>1, <2>2, <2>4, <2>6, <3>1, DfsShrinks
    <3>4. DfsLeft(g, t) \in Nat /\ DfsLeft(g, s) \in Nat
      <4>1. Cardinality(Unfollowed(g, t)) \in Nat /\ Cardinality(Unfollowed(g, s)) \in Nat BY <1>1, UnfollowedAre
      <4>2. Len(t.waiting) \in Nat /\ Len(s.waiting) \in Nat BY <3>1 DEF DfsStep
      <4> QED BY <4>1, <4>2 DEF DfsLeft
    <3>5. DfsLeft(g, t) <= n - (k + 1)
      <4> DEFINE a == DfsLeft(g, t)
                 b == DfsLeft(g, s)
      <4>1. a \in Nat /\ b \in Nat /\ a < b /\ b <= n - k BY <2>4, <2>6, <3>3, <3>4
      <4> HIDE DEF a, b
      <4>2. a <= n - (k + 1) BY ONLY <4>1, <1>2, k \in Nat
      <4> QED BY <4>2 DEF a
    <3> QED BY <3>2, <3>5 DEF t
  <2> QED BY <2>5, <2>6
<1> HIDE DEF P
<1>6. Nat \subseteq P BY <1>4, <1>5, SetInduction
<1> DEFINE s == steps[n]
<1>70. n \in P /\ n <= n /\ n \in 0..n BY <1>2, <1>6
<1>7. DfsInv(g, s) /\ (s.waiting = <<>> \/ DfsLeft(g, s) <= n - n) BY <1>70 DEF P
<1>8. s \in Traversed(g) /\ Dfs(g) = s.order BY <1>3, <1>70
<1> HIDE DEF s
<1>9. s.waiting = <<>>
  <2> SUFFICES ASSUME DfsLeft(g, s) <= 0 PROVE s.waiting = <<>> BY <1>2, <1>7
  <2>1. Cardinality(Unfollowed(g, s)) \in Nat BY <1>1, UnfollowedAre
  <2>2. s.waiting \in Seq(LiveNodes(g)) BY <1>8 DEF Traversed
  <2>3. Len(s.waiting) \in Nat BY <2>2
  <2>4. Len(s.waiting) = 0 BY <2>1, <2>3 DEF DfsLeft
  <2> QED BY <2>2, <2>4
<1>10. s.order \in Seq(LiveNodes(g)) BY <1>8 DEF Traversed
<1>11. ToSet(s.waiting) = {} BY <1>9 DEF ToSet
<1>12. InOrder(g, s.order) /\ Followed(g, s) BY <1>7 DEF DfsInv
<1>13. \A m \in LiveNodes(g) : Needs(g, m) \subseteq ToSet(s.order) => m \in ToSet(s.order)
  BY <1>11, <1>12 DEF Followed
<1>14. IsTopological(g, s.order) BY <1>10, <1>12, <1>13, OrderEnds
<1> QED BY <1>8, <1>10, <1>14

-----------------------------------------------------------------------------
(* bfs                                                                     *)

Reached(g, n) == Consumers(g, Ascending(g.nodes[n].out))

LEMMA ReachedAre ==
    ASSUME NEW g, WellFormed(g), NEW n \in LiveNodes(g)
    PROVE  LET c == Reached(g, n) IN
              /\ c \in Seq(LiveNodes(g)) /\ Len(c) \in Nat /\ DOMAIN c = 1..Len(c)
              /\ \A x \in 1..Len(c) : c[x] \in LiveNodes(g) /\ \E e \in g.nodes[n].out : c[x] = g.edges[e].to
              /\ \A e \in g.nodes[n].out : \E x \in 1..Len(c) : c[x] = g.edges[e].to
<1> DEFINE out == g.nodes[n].out
           a == Ascending(out)
           c == Reached(g, n)
<1>1. out = {e \in LiveEdges(g) : g.edges[e].from = n} /\ a \in Seq(out) /\ ToSet(a) = out BY OutputEdges
<1>2. out \subseteq LiveEdges(g) BY <1>1
<1>3. c = Consumers(g, a) BY DEF Reached
<1> HIDE DEF out, a, c
<1>4. a \in Seq(LiveEdges(g))
  <2>1. \A x \in DOMAIN a : a[x] \in LiveEdges(g) BY <1>1, <1>2
  <2> QED BY <1>1, <2>1, OfSubset
<1>5. /\ c \in Seq(LiveNodes(g)) /\ DOMAIN c = DOMAIN a /\ \A x \in DOMAIN a : c[x] = g.edges[a[x]].to
  BY <1>3, <1>4, ConsumersAre
<1>6. Len(c) \in Nat /\ DOMAIN c = 1..Len(c) BY <1>5
<1>7. \A x \in DOMAIN a : a[x] \in out BY <1>1
<1>8. \A e \in out : \E x \in DOMAIN a : a[x] = e BY <1>1 DEF ToSet
<1> QED BY <1>5, <1>6, <1>7, <1>8 DEF out, c

LEMMA QueuedSteps ==
    ASSUME NEW g, WellFormed(g), NEW m \in LiveNodes(g), NEW visited
    PROVE  \E steps \in [0..Len(Reached(g, m)) -> Seq(LiveNodes(g))] :
              /\ steps[0] = <<>> /\ \A k \in 1..Len(Reached(g, m)) : steps[k] = (IF Ready(g, Reached(g, m)[k], visited \union ToSet(steps[k - 1])) THEN Append(steps[k - 1], Reached(g, m)[k]) ELSE steps[k - 1])
              /\ Queued(g, visited, m) = steps[Len(Reached(g, m))]
<1> DEFINE n == Len(Reached(g, m))
           Step == [x \in (Seq(LiveNodes(g))) \X (1..n) |-> (IF Ready(g, Reached(g, m)[x[2]], visited \union ToSet(x[1])) THEN Append(x[1], Reached(g, m)[x[2]]) ELSE x[1])]
<1>1. n \in Nat /\ DOMAIN Reached(g, m) = 1..n BY ReachedAre
<1>2. /\ <<>> \in Seq(LiveNodes(g))
      /\ \A x \in Seq(LiveNodes(g)), k \in 1..n : (IF Ready(g, Reached(g, m)[k], visited \union ToSet(x)) THEN Append(x, Reached(g, m)[k]) ELSE x) \in Seq(LiveNodes(g))
  <2>1. \A x \in Seq(LiveNodes(g)), k \in 1..n : Reached(g, m)[k] \in LiveNodes(g) BY ReachedAre
  <2>2. \A x \in Seq(LiveNodes(g)), c \in LiveNodes(g) : Append(x, c) \in Seq(LiveNodes(g)) OBVIOUS
  <2> QED BY <2>1, <2>2
<1>3. Step \in [(Seq(LiveNodes(g))) \X (1..n) -> Seq(LiveNodes(g))] /\ \A x \in Seq(LiveNodes(g)), k \in 1..n : Step[<<x, k>>] = (IF Ready(g, Reached(g, m)[k], visited \union ToSet(x)) THEN Append(x, Reached(g, m)[k]) ELSE x)
  BY <1>2
<1> HIDE DEF n, Step
<1> DEFINE Eq(it) == it = [z \in SUBSET DOMAIN Reached(g, m) |->
                             IF z = {} THEN <<>> ELSE (IF Ready(g, Reached(g, m)[Max(z)], visited \union ToSet(it[z \ {Max(z)}])) THEN Append(it[z \ {Max(z)}], Reached(g, m)[Max(z)]) ELSE it[z \ {Max(z)}])]
           tab == CHOOSE it : Eq(it)
<1>4. Queued(g, visited, m) = tab[DOMAIN Reached(g, m)]
  BY Zenon DEF FoldLeft, MapThenFoldSet, Queued, Reached
<1>5. PICK it \in [SUBSET (1..n) -> Seq(LiveNodes(g))] : FoldsBy(it, 1..n, <<>>, Step)
  <2>1. HasFold(n, Seq(LiveNodes(g)), <<>>, Step) BY <1>1, <1>2, <1>3, FoldOfSet
  <2> QED BY <2>1 DEF HasFold
<1>6. Eq(it)
  <2>1. ASSUME NEW z \in SUBSET (1..n)
        PROVE  it[z] = IF z = {} THEN <<>> ELSE (IF Ready(g, Reached(g, m)[Max(z)], visited \union ToSet(it[z \ {Max(z)}])) THEN Append(it[z \ {Max(z)}], Reached(g, m)[Max(z)]) ELSE it[z \ {Max(z)}])
    <3>1. CASE z = {} BY <1>5, <3>1 DEF FoldsBy
    <3>2. CASE z # {}
      <4>1. Max(z) \in 1..n BY <1>1, <3>2, MaxOfSome
      <4>2. it[z \ {Max(z)}] \in Seq(LiveNodes(g))
        <5>1. z \ {Max(z)} \in SUBSET (1..n) OBVIOUS
        <5> QED BY <1>5, <5>1
      <4>3. it[z] = Step[<<it[z \ {Max(z)}], Max(z)>>] BY <1>5, <3>2 DEF FoldsBy
      <4> QED BY <1>3, <3>2, <4>1, <4>2, <4>3
    <3> QED BY <3>1, <3>2
  <2> QED BY <1>1, <1>5, <2>1
<1>7. Eq(tab)
  <2> HIDE DEF Eq
  <2> QED BY <1>6
<1> HIDE DEF tab
<1>8. ASSUME NEW z \in SUBSET (1..n), z # {}, tab[z \ {Max(z)}] \in Seq(LiveNodes(g))
      PROVE  tab[z] = Step[<<tab[z \ {Max(z)}], Max(z)>>]
  <2>1. Max(z) \in 1..n BY <1>1, <1>8, MaxOfSome
  <2>2. tab[z] = (IF Ready(g, Reached(g, m)[Max(z)], visited \union ToSet(tab[z \ {Max(z)}])) THEN Append(tab[z \ {Max(z)}], Reached(g, m)[Max(z)]) ELSE tab[z \ {Max(z)}]) BY <1>1, <1>7, <1>8
  <2> QED BY <1>3, <1>8, <2>1, <2>2
<1>9. tab[{}] = <<>> BY <1>1, <1>7
<1>10. Folded(tab[1..n], n, Seq(LiveNodes(g)), <<>>, Step) BY <1>1, <1>2, <1>3, <1>8, <1>9, FoldTable
<1>11. PICK steps \in [0..n -> Seq(LiveNodes(g))] : Stepwise(steps, n, <<>>, Step) /\ tab[1..n] = steps[n]
  BY <1>10 DEF Folded
<1>12. ASSUME NEW k \in 1..n PROVE steps[k] = (IF Ready(g, Reached(g, m)[k], visited \union ToSet(steps[k - 1])) THEN Append(steps[k - 1], Reached(g, m)[k]) ELSE steps[k - 1])
  <2>1. k - 1 \in 0..n BY <1>1
  <2>2. steps[k - 1] \in Seq(LiveNodes(g)) BY <1>11, <2>1
  <2> QED BY <1>3, <1>11, <2>2 DEF Stepwise
<1>13. steps[0] = <<>> BY <1>11 DEF Stepwise
<1>14. Queued(g, visited, m) = steps[n] BY <1>1, <1>4, <1>11
<1> HIDE <1>2, <1>7, <1>8
<1> QED BY <1>11, <1>12, <1>13, <1>14 DEF n

(* The consumers that have come into the queue: each follows all its       *)
(* producers.                                                              *)
Queuing(g, n, visited, new) ==
    /\ \A x \in DOMAIN new : /\ new[x] \notin visited /\ \E e \in g.nodes[n].out : new[x] = g.edges[e].to
                             /\ \A p \in Needs(g, new[x]) : p \in visited \/ \E y \in 1..x-1 : new[y] = p
    /\ Once(new)

LEMMA OneQueued ==
    ASSUME NEW g, WellFormed(g), Full(g), NEW n \in LiveNodes(g), NEW visited, NEW new \in Seq(LiveNodes(g)),
           Queuing(g, n, visited, new), NEW e \in g.nodes[n].out,
           NEW c \in LiveNodes(g), c = g.edges[e].to, Ready(g, c, visited \union ToSet(new))
    PROVE  Queuing(g, n, visited, Append(new, c))
<1> DEFINE a == Append(new, c)
<1>1. /\ DOMAIN new = 1..Len(new) /\ DOMAIN a = 1..Len(new)+1 /\ Len(new) \in Nat
      /\ a[Len(new) + 1] = c /\ \A x \in 1..Len(new) : a[x] = new[x]
  BY AppendedElements
<1>2. c \notin visited /\ c \notin ToSet(new) /\ Needs(g, c) \subseteq visited \union ToSet(new)
  BY NeedsAre DEF Ready
<1>3. /\ \A x \in DOMAIN new : /\ new[x] \notin visited /\ \E d \in g.nodes[n].out : new[x] = g.edges[d].to
                               /\ \A p \in Needs(g, new[x]) : p \in visited \/ \E y \in 1..x-1 : new[y] = p
      /\ Once(new)
  BY DEF Queuing
<1> HIDE DEF a
<1>4. ASSUME NEW x \in DOMAIN a
      PROVE  /\ a[x] \notin visited /\ \E d \in g.nodes[n].out : a[x] = g.edges[d].to
             /\ \A p \in Needs(g, a[x]) : p \in visited \/ \E y \in 1..x-1 : a[y] = p
  <2>1. CASE x = Len(new) + 1
    <3>1. ASSUME NEW p \in Needs(g, c), p \notin visited PROVE \E y \in 1..x-1 : a[y] = p
      <4>1. p \in ToSet(new) BY <1>2, <3>1
      <4>2. PICK y \in 1..Len(new) : new[y] = p BY <1>1, <4>1 DEF ToSet
      <4> QED BY <1>1, <2>1, <4>2
    <3> QED BY <1>1, <1>2, <2>1, <3>1
  <2>2. CASE x # Len(new) + 1
    <3>1. x \in 1..Len(new) /\ a[x] = new[x] BY <1>1, <2>2
    <3>2. ASSUME NEW p \in Needs(g, a[x]), p \notin visited PROVE \E y \in 1..x-1 : a[y] = p
      <4>1. PICK y \in 1..x-1 : new[y] = p BY <1>1, <1>3, <3>1, <3>2
      <4>2. y \in 1..Len(new) BY <1>1, <3>1
      <4> QED BY <1>1, <4>1, <4>2
    <3> QED BY <1>1, <1>3, <3>1, <3>2
  <2> QED BY <2>1, <2>2
<1>5. Once(a)
  <2> SUFFICES ASSUME NEW x \in DOMAIN a, NEW y \in DOMAIN a, a[x] = a[y] PROVE x = y BY DEF Once
  <2>1. \A z \in 1..Len(new) : a[z] # c BY <1>1, <1>2 DEF ToSet
  <2>2. \A z \in DOMAIN a : z = Len(new) + 1 \/ z \in 1..Len(new) BY <1>1
  <2>3. CASE x \in 1..Len(new) /\ y \in 1..Len(new) BY <1>1, <1>3, <2>3 DEF Once
  <2> QED BY <1>1, <2>1, <2>2, <2>3
<1>6. Queuing(g, n, visited, a) BY <1>4, <1>5 DEF Queuing
<1> QED BY <1>6 DEF a

LEMMA QueuedIs ==
    ASSUME NEW g, WellFormed(g), Full(g), NEW n \in LiveNodes(g), NEW visited
    PROVE  LET new == Queued(g, visited, n) IN
              /\ new \in Seq(LiveNodes(g)) /\ Queuing(g, n, visited, new)
              /\ \A e \in g.nodes[n].out : Needs(g, g.edges[e].to) \subseteq visited =>
                    g.edges[e].to \in visited \union ToSet(new)
<1> DEFINE c == Reached(g, n)
           m == Len(c)
           L == LiveNodes(g)
<1>1. /\ m \in Nat /\ \A x \in 1..m : c[x] \in L /\ \E e \in g.nodes[n].out : c[x] = g.edges[e].to
      /\ \A e \in g.nodes[n].out : \E x \in 1..m : c[x] = g.edges[e].to
  BY ReachedAre
<1>2. PICK steps \in [0..m -> Seq(L)] :
         /\ steps[0] = <<>>
         /\ \A k \in 1..m : steps[k] = (IF Ready(g, c[k], visited \union ToSet(steps[k - 1]))
                                        THEN Append(steps[k - 1], c[k]) ELSE steps[k - 1])
         /\ Queued(g, visited, n) = steps[m]
  BY QueuedSteps
<1>3. \A x \in L : \A v : AllInputsAreVisited(g, x, v) <=> Needs(g, x) \subseteq v BY NeedsAre
<1> HIDE DEF c, m, L
<1> DEFINE Q(k) == /\ Queuing(g, n, visited, steps[k])
                   /\ \A j \in 1..k : Needs(g, c[j]) \subseteq visited => c[j] \in visited \union ToSet(steps[k])
           P == {k \in Nat : k <= m => Q(k)}
<1>4. 0 \in P
  <2>1. DOMAIN steps[0] = {} BY <1>2
  <2>2. Queuing(g, n, visited, steps[0]) BY <2>1 DEF Queuing, Once
  <2> QED BY <2>2
<1>5. ASSUME NEW k \in Nat, k \in P PROVE k + 1 \in P
  <2> SUFFICES ASSUME k + 1 <= m PROVE Q(k + 1) OBVIOUS
  <2> DEFINE s == steps[k]
             t == steps[k + 1]
             x == c[k + 1]
  <2>1. k \in 0..m /\ k + 1 \in 1..m /\ (k + 1) - 1 = k /\ k <= m BY <1>1
  <2>2. s \in Seq(L) /\ Q(k) BY <1>2, <1>5, <2>1
  <2>3. t = IF Ready(g, x, visited \union ToSet(s)) THEN Append(s, x) ELSE s BY <1>2, <2>1
  <2>4. x \in L /\ \E e \in g.nodes[n].out : x = g.edges[e].to BY <1>1, <2>1
  <2>5. ToSet(s) \subseteq ToSet(t) /\ Queuing(g, n, visited, t)
        /\ (Needs(g, x) \subseteq visited => x \in visited \union ToSet(t))
    <3> HIDE DEF s, t, x, P
    <3>0. Queuing(g, n, visited, s) BY <2>2 DEF s
    <3>1. CASE Ready(g, x, visited \union ToSet(s))
      <4>1. t = Append(s, x) BY <2>3, <3>1
      <4>2. ToSet(t) = ToSet(s) \union {x} BY <2>2, <2>4, <4>1, ToSetIs
      <4>3. Queuing(g, n, visited, t) BY <2>2, <2>4, <3>0, <3>1, <4>1, OneQueued DEF L
      <4> QED BY <4>2, <4>3
    <3>2. CASE ~Ready(g, x, visited \union ToSet(s))
      <4>1. t = s BY <2>3, <3>2
      <4>2. Needs(g, x) \subseteq visited => x \in visited \union ToSet(s) BY <1>3, <2>4, <3>2 DEF Ready
      <4> QED BY <3>0, <4>1, <4>2
    <3> QED BY <3>1, <3>2
  <2>6. \A j \in 1..k+1 : j \in 1..k \/ j = k + 1 OBVIOUS
  <2>7. \A j \in 1..k+1 : Needs(g, c[j]) \subseteq visited => c[j] \in visited \union ToSet(t)
    <3> HIDE DEF t
    <3> QED BY <2>2, <2>5, <2>6
  <2> QED BY <2>5, <2>7
<1> HIDE DEF P
<1>6. Nat \subseteq P BY <1>4, <1>5, SetInduction
<1>7. m \in P /\ m <= m /\ m \in 0..m BY <1>1, <1>6
<1>8. Q(m) BY <1>7 DEF P
<1>9. steps[m] \in Seq(L) BY <1>2, <1>7
<1>10. \A e \in g.nodes[n].out : Needs(g, g.edges[e].to) \subseteq visited =>
          g.edges[e].to \in visited \union ToSet(steps[m])
  <2> SUFFICES ASSUME NEW e \in g.nodes[n].out, Needs(g, g.edges[e].to) \subseteq visited
               PROVE  g.edges[e].to \in visited \union ToSet(steps[m])
    OBVIOUS
  <2>1. PICK j \in 1..m : c[j] = g.edges[e].to BY <1>1
  <2> QED BY <1>8, <2>1
<1> HIDE DEF Q
<1>11. Queuing(g, n, visited, steps[m]) BY <1>8 DEF Q
<1> QED BY <1>2, <1>9, <1>10, <1>11 DEF L

(* A turn: the node at the front is taken, its ready consumers queued.     *)
BfsStep(t, s, g) ==
    LET w == s.waiting
        n == w[1]
        k == Len(w)
    IN  \E q \in Seq(LiveNodes(g)) :
           /\ t \in Traversed(g) /\ k \in Nat \ {0} /\ DOMAIN w = 1..k /\ n \in LiveNodes(g)
           /\ Queuing(g, n, s.visited, q) /\ Len(q) \in Nat /\ DOMAIN q = 1..Len(q)
           /\ \A e \in g.nodes[n].out : Needs(g, g.edges[e].to) \subseteq s.visited =>
                 g.edges[e].to \in t.visited
           /\ t.visited = s.visited \union ToSet(q) /\ t.order = Append(s.order, n)
           /\ ToSet(t.order) = ToSet(s.order) \union {n}
           /\ DOMAIN t.waiting = 1..k-1+Len(q) /\ Len(t.waiting) = k - 1 + Len(q)
           /\ \A x \in 1..k-1 : t.waiting[x] = w[x + 1]
           /\ \A x \in 1..Len(q) : t.waiting[k - 1 + x] = q[x]

LEMMA BfsTurnIs ==
    ASSUME NEW g, WellFormed(g), Full(g), NEW s \in Traversed(g), s.waiting # <<>>
    PROVE  BfsStep(BfsTurn(g, s), s, g)
<1> DEFINE L == LiveNodes(g)
           w == s.waiting
           k == Len(w)
           n == w[1]
           f == Tail(w)
           q == Queued(g, s.visited, n)
           t == BfsTurn(g, s)
           u == f \o q
<1>1. w \in Seq(L) /\ s.visited \in SUBSET L /\ s.order \in Seq(L) BY DEF Traversed
<1>2. /\ Head(w) = n /\ n \in L /\ f \in Seq(L) /\ k \in Nat \ {0} /\ Len(f) = k - 1 /\ DOMAIN f = 1..k-1 /\ DOMAIN w = 1..k
      /\ \A x \in 1..k-1 : f[x] = w[x + 1]
  <2> HIDE DEF w, L, f
  <2> QED BY <1>1, TailIs DEF f, w
<1>3. t = [waiting |-> u, visited |-> s.visited \union ToSet(q), order |-> Append(s.order, n)]
  BY <1>2 DEF BfsTurn
<1> HIDE DEF w, L, f, k, n, q, t, u
<1>4. /\ q \in Seq(L) /\ Queuing(g, n, s.visited, q)
      /\ \A e \in g.nodes[n].out : Needs(g, g.edges[e].to) \subseteq s.visited =>
            g.edges[e].to \in s.visited \union ToSet(q)
  BY <1>2, QueuedIs DEF q, L
<1>5. /\ u \in Seq(L) /\ Len(u) = k - 1 + Len(q) /\ Len(q) \in Nat /\ DOMAIN q = 1..Len(q) /\ DOMAIN u = 1..k-1+Len(q)
      /\ \A x \in 1..k-1 : u[x] = f[x]
      /\ \A x \in 1..Len(q) : u[k - 1 + x] = q[x]
  <2>1. /\ u \in Seq(L) /\ Len(f) \in Nat /\ Len(q) \in Nat
        /\ DOMAIN q = 1..Len(q) /\ DOMAIN u = 1..Len(f)+Len(q)
        /\ \A x \in 1..Len(f) : u[x] = f[x]
        /\ \A x \in 1..Len(q) : u[Len(f) + x] = q[x]
    <3>1. f \in Seq(L) /\ q \in Seq(L) BY <1>2, <1>4
    <3> QED BY ONLY <3>1, Concatenated DEF u
  <2>2. Len(f) = k - 1 BY <1>2
  <2>3. Len(u) = Len(f) + Len(q) BY <2>1
  <2> QED BY <2>1, <2>2, <2>3
<1>6. Append(s.order, n) \in Seq(L) /\ ToSet(Append(s.order, n)) = ToSet(s.order) \union {n}
  BY <1>1, <1>2, ToSetIs, AppendedElements
<1>7. t.waiting = u /\ t.visited = s.visited \union ToSet(q) /\ t.order = Append(s.order, n) BY <1>3
<1>8. s.visited \union ToSet(q) \in SUBSET L BY <1>1, <1>4, ToSetIs
<1>9. t \in Traversed(g) BY <1>3, <1>5, <1>6, <1>8 DEF Traversed, L
<1>10. \A x \in 1..k-1 : u[x] = w[x + 1] BY <1>2, <1>5
<1>11. BfsStep(t, s, g)
  BY <1>2, <1>4, <1>5, <1>6, <1>7, <1>9, <1>10 DEF BfsStep, k, n, w, L
<1> QED BY <1>11 DEF t

(* The producers of a node in the queue are sources, were named, or are    *)
(* before it in the queue.                                                 *)
Earlier(g, s) == \A x \in DOMAIN s.waiting : \A p \in Needs(g, s.waiting[x]) :
                     \/ p \in SourceNodes(g) \union ToSet(s.order)
                     \/ \E y \in 1..x-1 : s.waiting[y] = p

BfsInv(g, s) ==
    /\ s.visited = ToSet(s.order) \union ToSet(s.waiting) /\ SourceNodes(g) \subseteq s.visited
    /\ InOrder(g, s.order) /\ Followed(g, s) /\ Earlier(g, s)

LEMMA BfsTurnKeeps ==
    ASSUME NEW g, WellFormed(g), Full(g), NEW s \in Traversed(g), BfsInv(g, s),
           NEW t, BfsStep(t, s, g)
    PROVE  BfsInv(g, t)
<1> DEFINE L == LiveNodes(g)
           w == s.waiting
           k == Len(w)
           n == w[1]
           u == t.waiting
<1>1. PICK q \in Seq(L) :
           /\ t \in Traversed(g) /\ k \in Nat \ {0} /\ DOMAIN w = 1..k /\ n \in L
           /\ Queuing(g, n, s.visited, q) /\ Len(q) \in Nat /\ DOMAIN q = 1..Len(q)
           /\ \A e \in g.nodes[n].out : Needs(g, g.edges[e].to) \subseteq s.visited =>
                 g.edges[e].to \in t.visited
           /\ t.visited = s.visited \union ToSet(q) /\ t.order = Append(s.order, n)
           /\ ToSet(t.order) = ToSet(s.order) \union {n}
           /\ DOMAIN u = 1..k-1+Len(q)
           /\ \A x \in 1..k-1 : u[x] = w[x + 1]
           /\ \A x \in 1..Len(q) : u[k - 1 + x] = q[x]
  BY DEF BfsStep
<1>2. /\ s.visited = ToSet(s.order) \union ToSet(w) /\ SourceNodes(g) \subseteq s.visited
      /\ InOrder(g, s.order) /\ Followed(g, s)
      /\ \A x \in DOMAIN w : \A p \in Needs(g, w[x]) :
             p \in SourceNodes(g) \union ToSet(s.order) \/ \E y \in 1..x-1 : w[y] = p
  BY DEF BfsInv, Earlier
<1>3. s.order \in Seq(L) BY DEF Traversed
<1>4. /\ \A x \in DOMAIN q : \A p \in Needs(g, q[x]) : p \in s.visited \/ \E y \in 1..x-1 : q[y] = p
  BY <1>1 DEF Queuing
<1>5. \A m \in L : \A p \in Needs(g, m) : \E e \in g.nodes[p].out : g.edges[e].to = m BY NeedsAre
<1> HIDE DEF L, w, k, n, u
<1>6. 1 \in DOMAIN w /\ w[1] = n BY <1>1 DEF n
<1>7. /\ \A x \in DOMAIN u : x \in 1..k-1 \/ (x - k + 1 \in 1..Len(q) /\ u[x] = q[x - k + 1])
      /\ \A x \in 1..k-1 : x \in DOMAIN u /\ x + 1 \in DOMAIN w
      /\ \A x \in 1..Len(q) : k - 1 + x \in DOMAIN u
  <2>1. \A x \in DOMAIN u : x \notin 1..k-1 => x - k + 1 \in 1..Len(q) /\ k - 1 + (x - k + 1) = x
    <3> DEFINE m == Len(q)
    <3>1. m \in Nat /\ k \in Nat \ {0} /\ DOMAIN u = 1..k-1+m BY <1>1
    <3> HIDE DEF m
    <3>2. \A x \in 1..k-1+m : x \notin 1..k-1 => x - k + 1 \in 1..m /\ k - 1 + (x - k + 1) = x BY ONLY <3>1
    <3> QED BY <3>1, <3>2 DEF m
  <2> QED BY <1>1, <2>1
<1>8. \A y \in DOMAIN w : y = 1 \/ (y - 1 \in 1..k-1 /\ (y - 1) + 1 = y) BY <1>1
<1>9. ToSet(w) \union ToSet(q) = ToSet(u) \union {n}
  <2>1. \A y \in DOMAIN w : w[y] \in ToSet(u) \union {n}
    <3> SUFFICES ASSUME NEW y \in DOMAIN w, y # 1 PROVE w[y] \in ToSet(u) BY <1>6
    <3>1. u[y - 1] = w[y] /\ y - 1 \in DOMAIN u BY <1>1, <1>7, <1>8
    <3> QED BY <3>1 DEF ToSet
  <2>2. \A y \in DOMAIN q : q[y] \in ToSet(u)
    <3>1. \A y \in DOMAIN q : u[k - 1 + y] = q[y] /\ k - 1 + y \in DOMAIN u BY <1>1, <1>7
    <3> QED BY <3>1 DEF ToSet
  <2>3. \A x \in DOMAIN u : u[x] \in ToSet(w) \union ToSet(q)
    <3> SUFFICES ASSUME NEW x \in DOMAIN u PROVE u[x] \in ToSet(w) \union ToSet(q) OBVIOUS
    <3>1. CASE x \in 1..k-1 BY <1>1, <1>7, <3>1 DEF ToSet
    <3>2. CASE x \notin 1..k-1 BY <1>1, <1>7, <3>2 DEF ToSet
    <3> QED BY <3>1, <3>2
  <2>4. n \in ToSet(w) BY <1>6 DEF ToSet
  <2> QED BY <2>1, <2>2, <2>3, <2>4 DEF ToSet
<1>10. t.visited = ToSet(t.order) \union ToSet(u) /\ SourceNodes(g) \subseteq t.visited BY <1>1, <1>2, <1>9
<1>11. InOrder(g, t.order)
  <2>1. \A y \in 1..1-1 : FALSE OBVIOUS
  <2>2. Needs(g, n) \subseteq SourceNodes(g) \union ToSet(s.order) BY <1>2, <1>6, <2>1
  <2> QED BY <1>1, <1>2, <1>3, <2>2, InOrderGrows DEF L
<1>12. Followed(g, t)
  <2> SUFFICES ASSUME NEW m \in L, Needs(g, m) \subseteq ToSet(t.order) PROVE m \in t.visited
    BY <1>10 DEF Followed, u, L
  <2>1. CASE Needs(g, m) \subseteq ToSet(s.order)
    <3>1. m \in ToSet(s.order) \union ToSet(w) BY <1>2, <2>1 DEF Followed, w, L
    <3> QED BY <1>1, <1>2, <3>1
  <2>2. CASE ~(Needs(g, m) \subseteq ToSet(s.order))
    <3>1. n \in Needs(g, m) BY <1>1, <2>2
    <3>2. PICK e \in g.nodes[n].out : g.edges[e].to = m BY <1>5, <3>1
    <3>3. n \in ToSet(w) BY <1>6 DEF ToSet
    <3>4. Needs(g, m) \subseteq s.visited BY <1>1, <1>2, <3>3
    <3> QED BY <1>1, <3>2, <3>4
  <2> QED BY <2>1, <2>2
<1>13. ASSUME NEW x \in DOMAIN u, NEW p \in Needs(g, u[x]), p \notin SourceNodes(g) \union ToSet(t.order)
       PROVE  \E y \in 1..x-1 : u[y] = p
  <2>0. p # n /\ p \notin SourceNodes(g) \union ToSet(s.order) BY <1>1, <1>13
  <2>1. CASE x \in 1..k-1
    <3>1. u[x] = w[x + 1] /\ x + 1 \in DOMAIN w BY <1>1, <1>7, <2>1
    <3>2. PICK y \in 1..(x+1)-1 : w[y] = p BY <1>2, <1>13, <2>0, <3>1
    <3>3. y # 1 BY <1>6, <2>0, <3>2
    <3>4. y - 1 \in 1..x-1 /\ y - 1 \in 1..k-1 /\ (y - 1) + 1 = y BY <1>1, <2>1, <3>3
    <3>5. u[y - 1] = p BY <1>1, <3>2, <3>4
    <3> QED BY <3>4, <3>5
  <2>2. CASE x \notin 1..k-1
    <3> DEFINE j == x - k + 1
    <3>1. j \in 1..Len(q) /\ u[x] = q[j] BY <1>7, <2>2
    <3>2. p \in s.visited \/ \E y \in 1..j-1 : q[y] = p BY <1>1, <1>4, <1>13, <3>1
    <3>3. CASE p \in s.visited
      <4>1. p \in ToSet(w) BY <1>2, <2>0, <3>3
      <4>2. PICK y \in DOMAIN w : w[y] = p BY <4>1 DEF ToSet
      <4>3. y # 1 BY <1>6, <2>0, <4>2
      <4>4. y - 1 \in 1..k-1 /\ (y - 1) + 1 = y BY <1>8, <4>3
      <4>5. u[y - 1] = p BY <1>1, <4>2, <4>4
      <4>6. y - 1 \in 1..x-1 BY <1>1, <2>2, <4>4
      <4> QED BY <4>5, <4>6
    <3>4. CASE \E y \in 1..j-1 : q[y] = p
      <4>1. PICK y \in 1..j-1 : q[y] = p BY <3>4
      <4>2. x \in Int /\ y \in Nat /\ y >= 1 /\ y <= x - k BY <1>1, <3>1, <4>1
      <4>3. y \in 1..Len(q) /\ k - 1 + y \in 1..x-1 BY <1>1, <3>1, <4>1, <4>2
      <4>4. u[k - 1 + y] = p BY <1>1, <4>1, <4>3
      <4> QED BY <4>3, <4>4
    <3> QED BY <3>2, <3>3, <3>4
  <2> QED BY <2>1, <2>2
<1>14. Earlier(g, t) BY <1>13 DEF Earlier, u
<1> QED BY <1>10, <1>11, <1>12, <1>14 DEF BfsInv, u

BfsLeft(g, s) == Len(s.waiting) + Cardinality(LiveNodes(g) \ s.visited)

LEMMA UnvisitedAre ==
    ASSUME NEW g, WellFormed(g), NEW v
    PROVE  /\ IsFiniteSet(LiveNodes(g) \ v) /\ Cardinality(LiveNodes(g) \ v) \in Nat
           /\ IsFiniteSet(LiveNodes(g)) /\ Cardinality(LiveNodes(g) \ v) <= Len(g.nodes)
<1>1. Len(g.nodes) \in Nat /\ DOMAIN g.nodes = 1..Len(g.nodes) BY GraphIs DEF WellFormed
<1> DEFINE all == 1..Len(g.nodes)
           U == LiveNodes(g) \ v
           L == LiveNodes(g)
<1>2. U \in SUBSET all /\ L \in SUBSET all BY <1>1 DEF LiveNodes
<1>3. IsFiniteSet(all) /\ Cardinality(all) = Len(g.nodes)
  <2>1. 1 \in Int /\ Len(g.nodes) \in Int BY <1>1
  <2>2. IsFiniteSet(all) /\ Cardinality(all) = IF 1 > Len(g.nodes) THEN 0 ELSE Len(g.nodes) - 1 + 1
    BY <2>1, FS_Interval
  <2> QED BY <1>1, <2>2
<1> HIDE DEF all, U, L
<1>4. IsFiniteSet(U) /\ Cardinality(U) <= Cardinality(all) /\ IsFiniteSet(L) BY <1>2, <1>3, FS_Subset
<1>5. Cardinality(U) \in Nat BY <1>4, FS_CardinalityType
<1> QED BY <1>3, <1>4, <1>5 DEF U, L

LEMMA BfsShrinks ==
    ASSUME NEW g, WellFormed(g), NEW s \in Traversed(g), NEW t, BfsStep(t, s, g)
    PROVE  BfsLeft(g, t) < BfsLeft(g, s)
<1> DEFINE L == LiveNodes(g)
           k == Len(s.waiting)
           n == s.waiting[1]
           A == L \ s.visited
           B == L \ t.visited
<1>1. PICK q \in Seq(L) :
           /\ k \in Nat \ {0} /\ Queuing(g, n, s.visited, q) /\ Len(q) \in Nat /\ DOMAIN q = 1..Len(q)
           /\ t.visited = s.visited \union ToSet(q) /\ Len(t.waiting) = k - 1 + Len(q)
  BY DEF BfsStep
<1> DEFINE T == ToSet(q)
<1>2. /\ IsFiniteSet(A) /\ Cardinality(A) \in Nat /\ IsFiniteSet(B) /\ Cardinality(B) \in Nat
  BY UnvisitedAre
<1>3. Once(q) /\ \A x \in DOMAIN q : q[x] \notin s.visited BY <1>1 DEF Queuing
<1>4. T \subseteq L /\ \A x \in DOMAIN q : q[x] \in T BY ToSetIs
<1>5. T \subseteq A BY <1>3, <1>4 DEF ToSet
<1>6. B = A \ T BY <1>1
<1> HIDE DEF T, A, B, L
<1>7. q \in Seq(T) BY <1>4, OfSubset
<1>8. IsFiniteSet(T) BY <1>2, <1>5, FS_Subset
<1>9. Len(q) <= Cardinality(T) BY <1>3, <1>7, <1>8, OnceLength
<1>10. Cardinality(A \ T) = Cardinality(A) - Cardinality(A \intersect T) BY <1>2, FS_Difference
<1>11. A \intersect T = T BY <1>5
<1>12. Cardinality(B) = Cardinality(A) - Cardinality(T) BY <1>6, <1>10, <1>11
<1>13. Cardinality(T) \in Nat BY <1>8, FS_CardinalityType
<1> HIDE DEF k
<1>14. Len(t.waiting) + Cardinality(B) < k + Cardinality(A)
  <2> DEFINE a == Cardinality(A)
             b == Cardinality(B)
             c == Cardinality(T)
             d == Len(q)
  <2>1. a \in Nat /\ c \in Nat /\ d \in Nat /\ d <= c /\ b = a - c BY <1>1, <1>2, <1>9, <1>12, <1>13
  <2> HIDE DEF a, b, c, d
  <2>2. k \in Nat BY <1>1
  <2>3. (k - 1 + d) + b < k + a BY <2>1, <2>2
  <2> QED BY <1>1, <2>3 DEF a, b, d
<1> QED BY <1>14 DEF BfsLeft, A, B, L, k

LEMMA BfsSteps ==
    ASSUME NEW g, WellFormed(g), Full(g)
    PROVE  \E steps \in [0..Len(Turns(g)) -> Traversed(g)] :
              /\ steps[0] = Begun(g) /\ \A k \in 1..Len(Turns(g)) : steps[k] = (IF steps[k - 1].waiting = <<>> THEN steps[k - 1] ELSE BfsTurn(g, steps[k - 1]))
              /\ Bfs(g) = steps[Len(Turns(g))].order
<1> DEFINE n == Len(Turns(g))
           Step == [x \in (Traversed(g)) \X (1..n) |-> (IF x[1].waiting = <<>> THEN x[1] ELSE BfsTurn(g, x[1]))]
<1>1. n \in Nat /\ DOMAIN Turns(g) = 1..n 
  <2>1. g \in Graphs BY DEF WellFormed
  <2> QED BY <2>1, TurnsAre
<1>2. /\ Begun(g) \in Traversed(g)
      /\ \A x \in Traversed(g), k \in 1..n : (IF x.waiting = <<>> THEN x ELSE BfsTurn(g, x)) \in Traversed(g)
  <2>1. g \in Graphs BY DEF WellFormed
  <2>2. Begun(g) \in Traversed(g) BY <2>1, BegunIs
  <2>3. ASSUME NEW x \in Traversed(g), x.waiting # <<>> PROVE BfsTurn(g, x) \in Traversed(g)
    <3>1. BfsStep(BfsTurn(g, x), x, g) BY <2>3, BfsTurnIs
    <3> QED BY <3>1 DEF BfsStep
  <2> QED BY <2>2, <2>3
<1>3. Step \in [(Traversed(g)) \X (1..n) -> Traversed(g)] /\ \A x \in Traversed(g), k \in 1..n : Step[<<x, k>>] = (IF x.waiting = <<>> THEN x ELSE BfsTurn(g, x))
  BY <1>2
<1> HIDE DEF n, Step
<1> DEFINE Eq(it) == it = [z \in SUBSET DOMAIN Turns(g) |->
                             IF z = {} THEN Begun(g) ELSE (IF it[z \ {Max(z)}].waiting = <<>> THEN it[z \ {Max(z)}] ELSE BfsTurn(g, it[z \ {Max(z)}]))]
           tab == CHOOSE it : Eq(it)
<1>4. Bfs(g) = tab[DOMAIN Turns(g)].order
  BY Zenon DEF FoldLeft, MapThenFoldSet, Bfs, Traversal, Begun, Turns
<1>5. PICK it \in [SUBSET (1..n) -> Traversed(g)] : FoldsBy(it, 1..n, Begun(g), Step)
  <2>1. HasFold(n, Traversed(g), Begun(g), Step) BY <1>1, <1>2, <1>3, FoldOfSet
  <2> QED BY <2>1 DEF HasFold
<1>6. Eq(it)
  <2>1. ASSUME NEW z \in SUBSET (1..n)
        PROVE  it[z] = IF z = {} THEN Begun(g) ELSE (IF it[z \ {Max(z)}].waiting = <<>> THEN it[z \ {Max(z)}] ELSE BfsTurn(g, it[z \ {Max(z)}]))
    <3>1. CASE z = {} BY <1>5, <3>1 DEF FoldsBy
    <3>2. CASE z # {}
      <4>1. Max(z) \in 1..n BY <1>1, <3>2, MaxOfSome
      <4>2. it[z \ {Max(z)}] \in Traversed(g)
        <5>1. z \ {Max(z)} \in SUBSET (1..n) OBVIOUS
        <5> QED BY <1>5, <5>1
      <4>3. it[z] = Step[<<it[z \ {Max(z)}], Max(z)>>] BY <1>5, <3>2 DEF FoldsBy
      <4> QED BY <1>3, <3>2, <4>1, <4>2, <4>3
    <3> QED BY <3>1, <3>2
  <2> QED BY <1>1, <1>5, <2>1
<1>7. Eq(tab)
  <2> HIDE DEF Eq
  <2> QED BY <1>6
<1> HIDE DEF tab
<1>8. ASSUME NEW z \in SUBSET (1..n), z # {}, tab[z \ {Max(z)}] \in Traversed(g)
      PROVE  tab[z] = Step[<<tab[z \ {Max(z)}], Max(z)>>]
  <2>1. Max(z) \in 1..n BY <1>1, <1>8, MaxOfSome
  <2>2. tab[z] = (IF tab[z \ {Max(z)}].waiting = <<>> THEN tab[z \ {Max(z)}] ELSE BfsTurn(g, tab[z \ {Max(z)}])) BY <1>1, <1>7, <1>8
  <2> QED BY <1>3, <1>8, <2>1, <2>2
<1>9. tab[{}] = Begun(g) BY <1>1, <1>7
<1>10. Folded(tab[1..n], n, Traversed(g), Begun(g), Step) BY <1>1, <1>2, <1>3, <1>8, <1>9, FoldTable
<1>11. PICK steps \in [0..n -> Traversed(g)] : Stepwise(steps, n, Begun(g), Step) /\ tab[1..n] = steps[n]
  BY <1>10 DEF Folded
<1>12. ASSUME NEW k \in 1..n PROVE steps[k] = (IF steps[k - 1].waiting = <<>> THEN steps[k - 1] ELSE BfsTurn(g, steps[k - 1]))
  <2>1. k - 1 \in 0..n BY <1>1
  <2>2. steps[k - 1] \in Traversed(g) BY <1>11, <2>1
  <2> QED BY <1>3, <1>11, <2>2 DEF Stepwise
<1>13. steps[0] = Begun(g) BY <1>11 DEF Stepwise
<1>14. Bfs(g) = steps[n].order BY <1>1, <1>4, <1>11
<1> HIDE <1>2, <1>7, <1>8
<1> QED BY <1>11, <1>12, <1>13, <1>14 DEF n

(* The order of a breadth first traversal is a topological order.            *)
LEMMA BfsIsTopological ==
    ASSUME NEW g, NEW rank, Ranked(g, rank)
    PROVE  IsTopological(g, Bfs(g)) /\ Bfs(g) \in Seq(LiveNodes(g))
<1> DEFINE n == Len(Turns(g))
<1>1. WellFormed(g) /\ Full(g) /\ g \in Graphs BY DEF Ranked, WellFormed
<1>2. n \in Nat BY <1>1, TurnsAre
<1>3. PICK steps \in [0..n -> Traversed(g)] :
         /\ steps[0] = Begun(g)
         /\ \A k \in 1..n : steps[k] = (IF steps[k - 1].waiting = <<>> THEN steps[k - 1] ELSE BfsTurn(g, steps[k - 1]))
         /\ Bfs(g) = steps[n].order
  BY <1>1, BfsSteps
<1> HIDE DEF n
<1> DEFINE P == {k \in Nat : k <= n => /\ BfsInv(g, steps[k])
                                       /\ steps[k].waiting = <<>> \/ BfsLeft(g, steps[k]) <= n - k}
<1>4. 0 \in P
  <2> DEFINE b == Begun(g)
  <2>1. /\ b.waiting = Sources(g) /\ b.order = <<>> /\ b.visited = SourceNodes(g) /\ ToSet(b.order) = {}
        /\ Len(Sources(g)) \in Nat /\ Len(Sources(g)) <= Len(g.nodes)
    BY <1>1, BegunIs
  <2>2. /\ Sources(g) \in Seq(LiveNodes(g)) /\ ToSet(Sources(g)) = SourceNodes(g)
        /\ SourceNodes(g) \subseteq LiveNodes(g)
    BY <1>1, SourcesAre
  <2>3. \A m \in LiveNodes(g) : Needs(g, m) = {} <=> m \in SourceNodes(g) BY <1>1, NeedsAre
  <2> HIDE DEF b
  <2>4. \A x \in DOMAIN b.waiting : b.waiting[x] \in SourceNodes(g) BY <2>1, <2>2, ToSetIs
  <2>6. DOMAIN b.order = {} BY <2>1
  <2>7. InOrder(g, b.order) BY <2>6 DEF InOrder
  <2>8. Followed(g, b) BY <2>1, <2>2, <2>3 DEF Followed
  <2>9. Earlier(g, b) BY <2>2, <2>3, <2>4 DEF Earlier
  <2>10. BfsInv(g, b) BY <2>1, <2>2, <2>7, <2>8, <2>9 DEF BfsInv
  <2>11. BfsLeft(g, b) <= Len(g.nodes)
    <3> DEFINE L == LiveNodes(g)
               S == SourceNodes(g)
    <3>1. IsFiniteSet(L) /\ Cardinality(L \ {}) <= Len(g.nodes) /\ L \ {} = L BY <1>1, UnvisitedAre
    <3>2. Once(Sources(g)) BY <1>1, SourcesAre
    <3> HIDE DEF L, S
    <3>3. S \subseteq L /\ IsFiniteSet(S) BY <2>2, <3>1, FS_Subset DEF L, S
    <3>4. \A x \in DOMAIN Sources(g) : Sources(g)[x] \in S BY <2>1, <2>4 DEF S
    <3>5. Sources(g) \in Seq(S) BY <2>2, <3>4, OfSubset
    <3>6. Len(Sources(g)) <= Cardinality(S) BY <3>2, <3>3, <3>5, OnceLength
    <3>7. Cardinality(L \ S) = Cardinality(L) - Cardinality(L \intersect S) BY <3>1, FS_Difference
    <3>8. L \intersect S = S BY <3>3
    <3>9. Cardinality(L) \in Nat /\ Cardinality(S) \in Nat BY <3>1, <3>3, FS_CardinalityType
    <3>10. BfsLeft(g, b) = Len(Sources(g)) + Cardinality(L \ S) BY <2>1 DEF BfsLeft, L, S
    <3>11. Len(g.nodes) \in Nat BY <1>1, GraphIs
    <3> DEFINE a == Len(Sources(g))
               c == Cardinality(L)
               d == Cardinality(S)
               e == Len(g.nodes)
               f == Cardinality(L \ S)
    <3>12. a \in Nat /\ c \in Nat /\ d \in Nat /\ e \in Nat /\ a <= d /\ c <= e /\ f = c - d
      BY <2>1, <3>1, <3>6, <3>7, <3>8, <3>9, <3>11
    <3> HIDE DEF a, c, d, e, f
    <3>13. a + f <= e BY <3>12
    <3> QED BY <3>10, <3>13 DEF a, e, f
  <2>12. BfsLeft(g, b) <= n - 0
    <3> DEFINE c == BfsLeft(g, b)
               p == Len(g.nodes)
               q == Len(g.edges)
    <3>1. n = p + q /\ p \in Nat /\ q \in Nat BY <1>1, TurnsAre, GraphIs DEF n
    <3>2. c \in Nat
      <4>1. Cardinality(LiveNodes(g) \ b.visited) \in Nat BY <1>1, UnvisitedAre
      <4> QED BY <2>1, <4>1 DEF BfsLeft
    <3>3. c <= p BY <2>11
    <3> HIDE DEF c, p, q
    <3>4. c <= n - 0 BY ONLY <3>1, <3>2, <3>3
    <3> QED BY <3>4 DEF c
  <2> QED BY <1>3, <2>10, <2>12 DEF b
<1>5. ASSUME NEW k \in Nat, k \in P PROVE k + 1 \in P
  <2> SUFFICES ASSUME k + 1 <= n
               PROVE  /\ BfsInv(g, steps[k + 1])
                      /\ steps[k + 1].waiting = <<>> \/ BfsLeft(g, steps[k + 1]) <= n - (k + 1)
    OBVIOUS
  <2> DEFINE s == steps[k]
             t == steps[k + 1]
  <2> HIDE DEF P
  <2>1. k \in 0..n /\ k + 1 \in 1..n /\ k + 1 \in 0..n /\ (k + 1) - 1 = k /\ k <= n BY <1>2
  <2>2. s \in Traversed(g) /\ t \in Traversed(g) BY <1>3, <2>1
  <2>3. t = IF s.waiting = <<>> THEN s ELSE BfsTurn(g, s) BY <1>3, <2>1
  <2>4. BfsInv(g, s) /\ (s.waiting = <<>> \/ BfsLeft(g, s) <= n - k) BY <1>5, <2>1 DEF P
  <2> HIDE DEF s, t
  <2>5. CASE s.waiting = <<>> BY <2>3, <2>4, <2>5 DEF s, t
  <2>6. CASE s.waiting # <<>>
    <3>1. BfsStep(t, s, g) BY <1>1, <2>2, <2>3, <2>6, BfsTurnIs
    <3>2. BfsInv(g, t) BY <1>1, <2>2, <2>4, <3>1, BfsTurnKeeps
    <3>3. BfsLeft(g, t) < BfsLeft(g, s) BY <1>1, <2>2, <3>1, BfsShrinks
    <3>4. BfsLeft(g, t) \in Nat /\ BfsLeft(g, s) \in Nat
      <4>1. Cardinality(LiveNodes(g) \ t.visited) \in Nat /\ Cardinality(LiveNodes(g) \ s.visited) \in Nat BY <1>1, UnvisitedAre
      <4>2. Len(t.waiting) \in Nat /\ Len(s.waiting) \in Nat BY <2>2 DEF Traversed
      <4> QED BY <4>1, <4>2 DEF BfsLeft
    <3>5. BfsLeft(g, t) <= n - (k + 1)
      <4> DEFINE a == BfsLeft(g, t)
                 b == BfsLeft(g, s)
      <4>1. a \in Nat /\ b \in Nat /\ a < b /\ b <= n - k BY <2>4, <2>6, <3>3, <3>4
      <4> HIDE DEF a, b
      <4>2. a <= n - (k + 1) BY ONLY <4>1, <1>2, k \in Nat
      <4> QED BY <4>2 DEF a
    <3> QED BY <3>2, <3>5 DEF t
  <2> QED BY <2>5, <2>6
<1> HIDE DEF P
<1>6. Nat \subseteq P BY <1>4, <1>5, SetInduction
<1> DEFINE s == steps[n]
<1>70. n \in P /\ n <= n /\ n \in 0..n BY <1>2, <1>6
<1>7. BfsInv(g, s) /\ (s.waiting = <<>> \/ BfsLeft(g, s) <= n - n) BY <1>70 DEF P
<1>8. s \in Traversed(g) /\ Bfs(g) = s.order BY <1>3, <1>70
<1> HIDE DEF s
<1>9. s.waiting = <<>>
  <2> SUFFICES ASSUME BfsLeft(g, s) <= 0 PROVE s.waiting = <<>> BY <1>2, <1>7
  <2>1. Cardinality(LiveNodes(g) \ s.visited) \in Nat BY <1>1, UnvisitedAre
  <2>2. s.waiting \in Seq(LiveNodes(g)) BY <1>8 DEF Traversed
  <2>3. Len(s.waiting) \in Nat BY <2>2
  <2>4. Len(s.waiting) = 0 BY <2>1, <2>3 DEF BfsLeft
  <2> QED BY <2>2, <2>4
<1>10. s.order \in Seq(LiveNodes(g)) BY <1>8 DEF Traversed
<1>11. ToSet(s.waiting) = {} BY <1>9 DEF ToSet
<1>12. InOrder(g, s.order) /\ Followed(g, s) BY <1>7 DEF BfsInv
<1>13. \A m \in LiveNodes(g) : Needs(g, m) \subseteq ToSet(s.order) => m \in ToSet(s.order)
  BY <1>11, <1>12 DEF Followed
<1>14. IsTopological(g, s.order) BY <1>10, <1>12, <1>13, OrderEnds
<1> QED BY <1>8, <1>10, <1>14

-----------------------------------------------------------------------------
(* The passes one after the other.                                         *)

LEMMA BackwardsIs ==
    ASSUME NEW g, Good(g)
    PROVE  Reverse(Dfs(g)) \in Seq(LiveNodes(g)) /\ Len(Reverse(Dfs(g))) \in Nat
<1>1. PICK rank : Ranked(g, rank) BY RankedIsGood
<1>2. Dfs(g) \in Seq(LiveNodes(g)) BY <1>1, DfsIsTopological
<1>3. Reverse(Dfs(g)) \in Seq(LiveNodes(g)) BY <1>2, ReverseIs
<1> QED BY <1>3

LEMMA ConcatGood ==
    ASSUME NEW g, Good(g)
    PROVE  Good(Concat(g))
<1> DEFINE q == Reverse(Dfs(g))
<1>1. q \in Seq(LiveNodes(g)) /\ Len(q) \in Nat BY BackwardsIs
<1>2. Concat(g) = FoldLeft(ConcatNode, g, q) BY DEF Concat
<1> HIDE DEF q
<1>3. \E steps \in [0..Len(q) -> Likes(g)] : FoldLeft(ConcatNode, g, q) = steps[Len(q)]
  BY <1>1, ConcatsSteps
<1>4. Alike(Concat(g), g) BY <1>1, <1>2, <1>3 DEF Likes
<1> QED BY <1>4, AlikeGood

LEMMA SplitGood ==
    ASSUME NEW g, Good(g)
    PROVE  Good(Split(g))
<1> DEFINE q == Reverse(Dfs(g))
<1>1. q \in Seq(LiveNodes(g)) /\ Len(q) \in Nat BY BackwardsIs
<1>2. Split(g) = FoldLeft(SplitNode, g, q) BY DEF Split
<1> HIDE DEF q
<1>3. \E steps \in [0..Len(q) -> Likes(g)] : FoldLeft(SplitNode, g, q) = steps[Len(q)]
  BY <1>1, SplitsSteps
<1>4. Alike(Split(g), g) BY <1>1, <1>2, <1>3 DEF Likes
<1> QED BY <1>4, AlikeGood

LEMMA PassesGood ==
    ASSUME NEW g, Good(g)
    PROVE  Good(Split(Concat(InPlace(Ungroup(Fuse(ConfigureTensors(g)))))))
<1>1. Good(ConfigureTensors(g)) BY RankedIsGood, ConfigureTensorsAlike, AlikeGood
<1>2. Good(Fuse(ConfigureTensors(g))) BY <1>1, FuseGood
<1>3. Good(Ungroup(Fuse(ConfigureTensors(g)))) BY <1>2, UngroupGood
<1>4. Good(InPlace(Ungroup(Fuse(ConfigureTensors(g))))) BY <1>3, InPlaceGood
<1>5. Good(Concat(InPlace(Ungroup(Fuse(ConfigureTensors(g)))))) BY <1>4, ConcatGood
<1> QED BY <1>5, SplitGood

-----------------------------------------------------------------------------
(* The calls of the frontend.  Every tensor is an output of some node.     *)

Owned(g) == \A t \in DOMAIN g.tensors : \E p \in Readable(g) : TensorOf(g, p) = t

Builds == {h \in Graphs : Good(h) /\ Owned(h)}

LEMMA ReadableAre ==
    ASSUME NEW g, WellFormed(g)
    PROVE  /\ Readable(g) \subseteq Nat \X Nat
           /\ \A n \in LiveNodes(g) : \A k \in Outputs(g, n) :
                 <<n, k>> \in Readable(g) /\ TensorOf(g, <<n, k>>) = g.nodes[n].outputs[k]
<1>1. ASSUME NEW n \in LiveNodes(g), NEW k \in Outputs(g, n) PROVE n \in Nat /\ k \in Nat
  <2>1. g.nodes[n] \in Nodes BY GraphIs DEF WellFormed
  <2>2. g.nodes[n].outputs \in Seq(Nat) BY <2>1 DEF Nodes
  <2>3. k \in Nat BY <2>2 DEF Outputs
  <2> QED BY <2>3, LiveNodesAreNumbers
<1> QED BY <1>1 DEF Readable, TensorOf

(* A graph with more nodes, whose outputs are the new tensors.             *)
LEMMA OwnedGrows ==
    ASSUME NEW g, WellFormed(g), Owned(g), NEW h, WellFormed(h), NEW widths \in Seq(Nat),
           LiveNodes(g) \subseteq LiveNodes(h), \A m \in LiveNodes(g) : h.nodes[m].outputs = g.nodes[m].outputs,
           NEW n \in LiveNodes(h), Outputs(h, n) = DOMAIN widths,
           \A k \in DOMAIN widths : h.nodes[n].outputs[k] = Len(g.tensors) + k,
           Len(h.tensors) = Len(g.tensors) + Len(widths)
    PROVE  Owned(h)
<1> SUFFICES ASSUME NEW t \in DOMAIN h.tensors PROVE \E p \in Readable(h) : TensorOf(h, p) = t BY DEF Owned
<1>1. /\ DOMAIN g.tensors = 1..Len(g.tensors) /\ DOMAIN h.tensors = 1..Len(h.tensors)
      /\ Len(g.tensors) \in Nat /\ Len(h.tensors) \in Nat
  BY GraphIs DEF WellFormed
<1>2. DOMAIN widths = 1..Len(widths) /\ Len(widths) \in Nat OBVIOUS
<1>3. CASE t \in DOMAIN g.tensors
  <2>1. PICK p \in Readable(g) : TensorOf(g, p) = t BY <1>3 DEF Owned
  <2>2. p[1] \in LiveNodes(g) /\ p[2] \in Outputs(g, p[1]) BY <2>1, ReadableIs
  <2>3. p[2] \in Outputs(h, p[1]) /\ p[1] \in LiveNodes(h) BY <2>2 DEF Outputs
  <2>4. /\ <<p[1], p[2]>> \in Readable(h)
        /\ TensorOf(h, <<p[1], p[2]>>) = h.nodes[p[1]].outputs[p[2]]
    BY <2>3, ReadableAre
  <2>5. h.nodes[p[1]].outputs[p[2]] = t BY <2>1, <2>2 DEF TensorOf
  <2> QED BY <2>4, <2>5
<1>4. CASE t \notin DOMAIN g.tensors
  <2> DEFINE a == Len(g.tensors)
             b == Len(h.tensors)
             c == Len(widths)
             k == t - a
  <2>1. a \in Nat /\ c \in Nat /\ b = a + c /\ t \in 1..b /\ t \notin 1..a BY <1>1, <1>2, <1>4
  <2> HIDE DEF a, b, c
  <2>2. k \in 1..c /\ a + k = t BY <2>1
  <2>3. k \in DOMAIN widths BY <1>2, <2>2 DEF c
  <2> HIDE DEF k
  <2>4. h.nodes[n].outputs[k] = t BY <2>2, <2>3 DEF a
  <2>5. k \in Outputs(h, n) BY <2>3
  <2>6. <<n, k>> \in Readable(h) /\ TensorOf(h, <<n, k>>) = h.nodes[n].outputs[k] BY <2>5, ReadableAre
  <2> QED BY <2>4, <2>6
<1> QED BY <1>3, <1>4

LEMMA OwnedAlike ==
    ASSUME NEW g, WellFormed(g), Owned(g), NEW h, Alike(h, g)
    PROVE  Owned(h)
<1>1. /\ LiveNodes(h) = LiveNodes(g) /\ DOMAIN h.tensors = DOMAIN g.tensors
      /\ \A n \in LiveNodes(g) : h.nodes[n].outputs = g.nodes[n].outputs
  BY DEF Alike
<1>2. Readable(h) = Readable(g) BY <1>1 DEF Readable, Outputs
<1>3. \A p \in Readable(g) : TensorOf(h, p) = TensorOf(g, p) BY <1>1, ReadableIs DEF TensorOf
<1> QED BY <1>1, <1>2, <1>3 DEF Owned

LEMMA AddedBuilt ==
    ASSUME NEW g \in Builds, NEW type, NEW inputs, NEW widths, Addable(g, type, inputs, widths), Len(inputs) \in {1, 2}
    PROVE  LET h == AddConnected(g, type, inputs, widths)
           IN  h \in Builds /\ Len(h.tensors) = Len(g.tensors) + Len(widths)
<1> DEFINE h == AddConnected(g, type, inputs, widths)
           n == Len(g.nodes) + 1
<1>1. WellFormed(g) /\ Good(g) /\ Owned(g) BY RankedIsGood DEF Builds
<1>2. PICK rank : Ranked(g, rank) BY <1>1, RankedIsGood
<1> DEFINE r == rank[inputs[1][1]] + rank[inputs[Len(inputs)][1]] + 1
<1>3. r \in Nat /\ \A i \in DOMAIN inputs : rank[inputs[i][1]] < r
  <2>1. inputs \in Seq(Nat \X Nat) /\ rank \in [Nat -> Nat] BY <1>2 DEF Addable, Ranked, Ranks
  <2>2. DOMAIN inputs = 1..Len(inputs) BY <2>1
  <2>3. \A i \in DOMAIN inputs : rank[inputs[i][1]] \in Nat
    <3>1. \A i \in DOMAIN inputs : inputs[i] \in Nat \X Nat BY <2>1
    <3>2. \A i \in DOMAIN inputs : inputs[i][1] \in Nat BY <3>1
    <3> QED BY ONLY <2>1, <3>2
  <2>4. 1 \in DOMAIN inputs /\ Len(inputs) \in DOMAIN inputs /\ \A i \in DOMAIN inputs : i = 1 \/ i = Len(inputs) BY <2>2
  <2> DEFINE x == rank[inputs[1][1]]
             y == rank[inputs[Len(inputs)][1]]
  <2>5. x \in Nat /\ y \in Nat /\ \A i \in DOMAIN inputs : rank[inputs[i][1]] = x \/ rank[inputs[i][1]] = y
    BY <2>3, <2>4
  <2> HIDE DEF x, y
  <2>6. x + y + 1 \in Nat /\ x < x + y + 1 /\ y < x + y + 1 BY <2>5
  <2>7. r = x + y + 1 BY DEF x, y
  <2> HIDE DEF r
  <2> QED BY <2>5, <2>6, <2>7
<1> HIDE DEF r
<1>4. Grown(h, g, type, inputs, widths) /\ \E raised : Ranked(h, raised)
  BY <1>2, <1>3, AddRanked
<1> HIDE DEF h
<1>5. Good(h) /\ WellFormed(h) /\ h \in Graphs BY <1>4, RankedIsGood
<1>6. /\ n \in LiveNodes(h) /\ LiveNodes(g) \subseteq LiveNodes(h)
      /\ \A m \in LiveNodes(g) : h.nodes[m].outputs = g.nodes[m].outputs
      /\ Outputs(h, n) = DOMAIN widths /\ \A k \in DOMAIN widths : h.nodes[n].outputs[k] = Len(g.tensors) + k
      /\ Len(h.tensors) = Len(g.tensors) + Len(widths)
  BY <1>4 DEF Grown
<1> HIDE DEF n
<1>7. widths \in Seq(Nat) BY DEF Addable
<1>8. Owned(h) BY <1>1, <1>5, <1>6, <1>7, OwnedGrows
<1> QED BY <1>5, <1>6, <1>8 DEF Builds, h

LEMMA ComputingBuilt ==
    ASSUME NEW g \in Builds, NEW type \in OperationTypes, NEW inputs \in Seq(Nat \X Nat),
           Len(inputs) = NumInputs(type), \A i \in DOMAIN inputs : inputs[i] \in Readable(g)
    PROVE  WithComputing(g, type, inputs) \in Builds
<1>1. WellFormed(g) BY RankedIsGood DEF Builds
<1>2. PICK widths : /\ Addable(g, type, inputs, widths)
                    /\ WithComputing(g, type, inputs) = AddConnected(g, type, inputs, widths)
  BY <1>1, ComputingAddable
<1>3. Len(inputs) \in {1, 2} BY DEF NumInputs
<1>4. AddConnected(g, type, inputs, widths) \in Builds BY <1>2, <1>3, AddedBuilt
<1> QED BY ONLY <1>2, <1>4

LEMMA OutputBuilt ==
    ASSUME NEW g \in Builds, NEW t \in DOMAIN g.tensors
    PROVE  WithOutput(g, t) \in Builds /\ DOMAIN WithOutput(g, t).tensors = DOMAIN g.tensors
<1> DEFINE p == CHOOSE p \in Readable(g) : TensorOf(g, p) = t
           inputs == <<p>>
           h == AddConnected(g, "Output", inputs, <<>>)
           k == [h EXCEPT !.tensors[t].accessor = TRUE]
<1>1. WellFormed(g) /\ Owned(g) /\ g \in Graphs BY RankedIsGood DEF Builds
<1>2. p \in Readable(g) BY <1>1 DEF Owned
<1>3. WithOutput(g, t) = k BY DEF WithOutput
<1> HIDE DEF p
<1>4. p \in Nat \X Nat BY <1>1, <1>2, ReadableAre
<1>5. inputs \in Seq(Nat \X Nat) /\ Len(inputs) = 1 /\ DOMAIN inputs = {1} /\ inputs[1] = p BY <1>4
<1> HIDE DEF inputs
<1>6. Addable(g, "Output", inputs, <<>>)
  <2>1. "Output" \in NodeTypes /\ "Output" \notin SourceTypes /\ "Output" \notin (OperationTypes \ {"Split"}) \union {"FusedConv"}
    BY DEF NodeTypes, SourceTypes, OperationTypes
  <2>2. <<>> \in Seq(Nat) OBVIOUS
  <2>3. \A i \in DOMAIN inputs : inputs[i] \in Readable(g) BY <1>2, <1>5
  <2> QED BY <1>1, <1>5, <2>1, <2>2, <2>3 DEF Addable
<1>7. h \in Builds /\ Len(h.tensors) = Len(g.tensors) + Len(<<>>) BY <1>5, <1>6, AddedBuilt
<1> HIDE DEF h
<1>8. WellFormed(h) /\ Owned(h) /\ Good(h) /\ h \in Graphs BY <1>7, RankedIsGood DEF Builds
<1>9. DOMAIN h.tensors = DOMAIN g.tensors
  <2>1. /\ DOMAIN g.tensors = 1..Len(g.tensors) /\ DOMAIN h.tensors = 1..Len(h.tensors) /\ Len(g.tensors) \in Nat
    BY <1>1, <1>8, GraphIs
  <2> DEFINE a == Len(g.tensors)
  <2> HIDE DEF a
  <2>2. a \in Nat /\ Len(h.tensors) = a + Len(<<>>) BY <1>7, <2>1 DEF a
  <2>3. Len(h.tensors) = a BY <2>2
  <2> QED BY <2>1, <2>3 DEF a
<1>10. Alike(k, h)
  <2>1. t \in DOMAIN h.tensors BY <1>9
  <2> QED BY <1>8, <2>1, AccessorAlike
<1> HIDE DEF k
<1>11. Good(k) /\ Owned(k) /\ k \in Graphs BY <1>8, <1>10, AlikeGood, OwnedAlike DEF Alike
<1>12. DOMAIN k.tensors = DOMAIN g.tensors BY <1>9, <1>10 DEF Alike
<1> QED BY <1>3, <1>11, <1>12 DEF Builds

LEMMA SourceBuilt ==
    ASSUME NEW g \in Builds, NEW type \in SourceTypes, NEW widths \in Seq(Nat)
    PROVE  WithSource(g, type, widths) \in Builds
<1> DEFINE h == AddNode(g, type, 0, widths)
           n == Len(g.nodes) + 1
           tensor(t) == [h.tensors[t] EXCEPT !.accessor = @ \/ t > Len(g.tensors)]
           tensors == [t \in DOMAIN h.tensors |-> tensor(t)]
           k == [h EXCEPT !.tensors = tensors]
<1>1. WellFormed(g) /\ Owned(g) /\ g \in Graphs /\ Good(g) BY RankedIsGood DEF Builds
<1>2. type \in NodeTypes BY DEF SourceTypes, NodeTypes
<1>3. Extended(h, g, type, 0, widths) BY <1>1, <1>2, AddNodeIs
<1>4. WithSource(g, type, widths) = k BY DEF WithSource
<1> HIDE DEF h, n
<1>5. /\ LiveNodes(h) = LiveNodes(g) \union {n} /\ LiveEdges(h) = LiveEdges(g) /\ n \notin LiveNodes(g)
  BY <1>1, <1>3, ExtendedLive DEF n
<1>6. /\ h \in Graphs /\ h.edges = g.edges /\ \A m \in DOMAIN g.nodes : h.nodes[m] = g.nodes[m]
      /\ h.nodes[n] \in Nodes /\ h.nodes[n].type = type /\ Len(h.nodes[n].in) = 0 /\ Len(h.nodes[n].outputs) = Len(widths)
      /\ \A x \in DOMAIN widths : h.nodes[n].outputs[x] = Len(g.tensors) + x
      /\ Len(h.tensors) = Len(g.tensors) + Len(widths)
  BY <1>3 DEF Extended, n
<1>7. WellFormed(h)
  <2>1. Shaped(h.nodes[n])
    <3>1. type \notin (OperationTypes \ {"Split"}) \union {"FusedConv"} /\ type # "FullyConnected"
      BY DEF SourceTypes, OperationTypes
    <3> QED BY <1>6, <3>1 DEF Shaped
  <2> QED BY <1>1, <1>3, <2>1, ExtendedWellFormed DEF n
<1>8. \A m \in LiveNodes(g) : h.nodes[m] = g.nodes[m] BY <1>6 DEF LiveNodes
<1>9. h.nodes[n].in \in Seq(Nat) /\ h.nodes[n].outputs \in Seq(Nat) BY <1>6 DEF Nodes
<1>10. Inputs(h, n) = {} /\ Outputs(h, n) = DOMAIN widths
  <2>1. DOMAIN h.nodes[n].in = 1..0 /\ DOMAIN h.nodes[n].outputs = 1..Len(widths) BY <1>6, <1>9
  <2> QED BY <2>1 DEF Inputs, Outputs
<1>11. Good(h)
  <2>1. PICK rank \in Ranks : OrderedBy(g, rank) BY <1>1 DEF Good
  <2>2. OrderedBy(h, rank) BY <1>5, <1>6, <2>1 DEF OrderedBy
  <2>3. Full(h)
    <3>1. Full(g) BY <1>1 DEF Good
    <3>2. ASSUME NEW m \in LiveNodes(h), NEW i \in Inputs(h, m) PROVE h.nodes[m].in[i] # Empty
      <4>1. m \in LiveNodes(g) BY <1>5, <1>10, <3>2
      <4>2. i \in Inputs(g, m) BY <1>8, <3>2, <4>1 DEF Inputs
      <4> QED BY <1>8, <3>1, <4>1, <4>2 DEF Full
    <3> QED BY <3>2 DEF Full
  <2> QED BY <1>7, <2>1, <2>2, <2>3 DEF Good
<1>12. Owned(h)
  <2>1. n \in LiveNodes(h) /\ LiveNodes(g) \subseteq LiveNodes(h) BY <1>5
  <2>2. \A m \in LiveNodes(g) : h.nodes[m].outputs = g.nodes[m].outputs BY <1>8
  <2> QED BY <1>1, <1>6, <1>7, <1>10, <2>1, <2>2, OwnedGrows
<1>13. /\ DOMAIN h.tensors = 1..Len(h.tensors) /\ Len(h.tensors) \in Nat
       /\ \A t \in DOMAIN h.tensors : h.tensors[t] \in Tensors
  BY <1>6, GraphIs
<1>14. /\ DOMAIN tensors = DOMAIN h.tensors
       /\ \A t \in DOMAIN h.tensors : tensors[t] \in Tensors /\ tensors[t].bound = h.tensors[t].bound
  <2>1. ASSUME NEW t \in DOMAIN h.tensors PROVE tensor(t) \in Tensors /\ tensor(t).bound = h.tensors[t].bound
    <3> DEFINE x == h.tensors[t]
               a == x.accessor \/ t > Len(g.tensors)
    <3>1. x \in Tensors BY <1>13
    <3>2. a \in BOOLEAN OBVIOUS
    <3> HIDE DEF x, a
    <3>3. [x EXCEPT !.accessor = a] \in Tensors /\ [x EXCEPT !.accessor = a].bound = x.bound BY <3>1, <3>2 DEF Tensors
    <3> QED BY <3>3 DEF x, a
  <2> HIDE DEF tensor
  <2> QED BY <2>1
<1> HIDE DEF tensors
<1>15. tensors \in Seq(Tensors)
  <2>1. tensors = [t \in 1..Len(h.tensors) |-> tensors[t]]
    <3>1. tensors = [t \in DOMAIN h.tensors |-> tensors[t]] BY DEF tensors
    <3> QED BY <1>13, <3>1
  <2> HIDE DEF Tensors
  <2> QED BY <1>13, <1>14, <2>1, FunctionIsSequence
<1>16. /\ k \in Graphs /\ k.nodes = h.nodes /\ k.edges = h.edges /\ k.tensors = tensors
  <2>0. h \in Graphs BY <1>6
  <2>1. /\ h.nodes \in Seq(Nodes \union {NoNode}) /\ h.edges \in Seq(Edges \union {NoEdge}) /\ h.handles \in Seq(Handles)
        /\ k = [nodes |-> h.nodes, edges |-> h.edges, tensors |-> tensors, handles |-> h.handles]
    <3> HIDE DEF Nodes, NoNode, Edges, NoEdge, Tensors, Handles, k, tensor
    <3>1. /\ h.nodes \in Seq(Nodes \union {NoNode}) /\ h.edges \in Seq(Edges \union {NoEdge})
          /\ h.handles \in Seq(Handles)
      BY ONLY <2>0 DEF Graphs
    <3>2. h = [nodes |-> h.nodes, edges |-> h.edges, tensors |-> h.tensors, handles |-> h.handles]
      BY ONLY <2>0 DEF Graphs
    <3>3. k = [h EXCEPT !.tensors = tensors] BY DEF k
    <3>4. k = [nodes |-> h.nodes, edges |-> h.edges, tensors |-> tensors, handles |-> h.handles]
      BY ONLY <3>2, <3>3
    <3> QED BY <3>1, <3>4
  <2> HIDE DEF k, Nodes, Edges, Tensors, Handles
  <2> QED BY ONLY <1>15, <2>1 DEF Graphs
<1> HIDE DEF k
<1>17. Alike(k, h)
  <2>1. LiveNodes(k) = LiveNodes(h) BY <1>16 DEF LiveNodes
  <2> QED BY <1>14, <1>16, <2>1 DEF Alike
<1>18. Good(k) /\ Owned(k) BY <1>7, <1>11, <1>12, <1>17, AlikeGood, OwnedAlike
<1> QED BY <1>4, <1>16, <1>18 DEF Builds

LEMMA EmptyBuilt == EmptyGraph \in Builds
<1> DEFINE g == EmptyGraph
           rank == [n \in Nat |-> 0]
<1>1. g.nodes = <<>> /\ g.edges = <<>> /\ g.tensors = <<>> /\ g.handles = <<>> BY DEF EmptyGraph
<1>2. g \in Graphs
  <2> HIDE DEF Nodes, NoNode, Edges, NoEdge, Tensors, Handles
  <2>1. \A S : <<>> \in Seq(S) OBVIOUS
  <2> QED BY <2>1 DEF EmptyGraph, Graphs
<1> HIDE DEF g
<1>3. LiveNodes(g) = {} /\ LiveEdges(g) = {} /\ DOMAIN g.tensors = {} BY <1>1 DEF LiveNodes, LiveEdges
<1>4. WellFormed(g) BY <1>2, <1>3 DEF WellFormed
<1>5. Full(g) /\ OrderedBy(g, rank) /\ rank \in Ranks BY <1>3 DEF Full, OrderedBy, Ranks
<1> HIDE DEF rank
<1>6. Good(g) BY <1>4, <1>5 DEF Good
<1>7. Owned(g) BY <1>3 DEF Owned
<1> QED BY <1>2, <1>6, <1>7 DEF Builds, g

LEMMA CallBuilt ==
    ASSUME NEW g \in Builds, NEW c \in Calls
    PROVE  Call(g, c) \in Builds
<1>1. CASE c.type \in SourceTypes
  <2>1. c.type \notin OperationTypes BY <1>1 DEF SourceTypes, OperationTypes
  <2>2. c.widths \in Seq(Nat) BY <1>1, <2>1 DEF Calls
  <2>3. WithSource(g, c.type, c.widths) \in Builds BY <1>1, <2>2, SourceBuilt
  <2> QED BY <1>1, <2>3 DEF Call
<1>2. CASE c.type \notin SourceTypes
  <2>1. c.type \in OperationTypes /\ c.inputs \in Seq(Nat \X Nat) BY <1>2 DEF Calls
  <2>2. CASE Possible(g, c.type, c.inputs)
    <3>1. Len(c.inputs) = NumInputs(c.type) /\ \A i \in DOMAIN c.inputs : c.inputs[i] \in Readable(g)
      BY <2>2 DEF Possible
    <3>2. WithComputing(g, c.type, c.inputs) \in Builds BY <2>1, <3>1, ComputingBuilt
    <3> QED BY <1>2, <2>2, <3>2 DEF Call
  <2>3. CASE ~Possible(g, c.type, c.inputs) BY <1>2, <2>3 DEF Call
  <2> QED BY <2>2, <2>3
<1> QED BY <1>1, <1>2

LEMMA BuiltSteps ==
    ASSUME NEW calls \in Seq(Calls)
    PROVE  \E steps \in [0..Len(calls) -> Builds] :
              /\ steps[0] = EmptyGraph /\ \A k \in 1..Len(calls) : steps[k] = Call(steps[k - 1], calls[k])
              /\ Built(calls) = steps[Len(calls)]
<1> DEFINE n == Len(calls)
           Step == [x \in (Builds) \X (1..n) |-> Call(x[1], calls[x[2]])]
<1>1. n \in Nat /\ DOMAIN calls = 1..n OBVIOUS
<1>2. /\ EmptyGraph \in Builds
      /\ \A x \in Builds, k \in 1..n : Call(x, calls[k]) \in Builds
  <2>1. \A k \in 1..n : calls[k] \in Calls BY <1>1
  <2> QED BY <2>1, EmptyBuilt, CallBuilt
<1>3. Step \in [(Builds) \X (1..n) -> Builds] /\ \A x \in Builds, k \in 1..n : Step[<<x, k>>] = Call(x, calls[k])
  BY <1>2
<1> HIDE DEF n, Step
<1> DEFINE Eq(it) == it = [z \in SUBSET DOMAIN calls |->
                             IF z = {} THEN EmptyGraph ELSE Call(it[z \ {Max(z)}], calls[Max(z)])]
           tab == CHOOSE it : Eq(it)
<1>4. Built(calls) = tab[DOMAIN calls]
  BY Zenon DEF FoldLeft, MapThenFoldSet, Built
<1>5. PICK it \in [SUBSET (1..n) -> Builds] : FoldsBy(it, 1..n, EmptyGraph, Step)
  <2>1. HasFold(n, Builds, EmptyGraph, Step) BY <1>1, <1>2, <1>3, FoldOfSet
  <2> QED BY <2>1 DEF HasFold
<1>6. Eq(it)
  <2>1. ASSUME NEW z \in SUBSET (1..n)
        PROVE  it[z] = IF z = {} THEN EmptyGraph ELSE Call(it[z \ {Max(z)}], calls[Max(z)])
    <3>1. CASE z = {} BY <1>5, <3>1 DEF FoldsBy
    <3>2. CASE z # {}
      <4>1. Max(z) \in 1..n BY <1>1, <3>2, MaxOfSome
      <4>2. it[z \ {Max(z)}] \in Builds
        <5>1. z \ {Max(z)} \in SUBSET (1..n) OBVIOUS
        <5> QED BY <1>5, <5>1
      <4>3. it[z] = Step[<<it[z \ {Max(z)}], Max(z)>>] BY <1>5, <3>2 DEF FoldsBy
      <4> QED BY <1>3, <3>2, <4>1, <4>2, <4>3
    <3> QED BY <3>1, <3>2
  <2> QED BY <1>1, <1>5, <2>1
<1>7. Eq(tab)
  <2> HIDE DEF Eq
  <2> QED BY <1>6
<1> HIDE DEF tab
<1>8. ASSUME NEW z \in SUBSET (1..n), z # {}, tab[z \ {Max(z)}] \in Builds
      PROVE  tab[z] = Step[<<tab[z \ {Max(z)}], Max(z)>>]
  <2>1. Max(z) \in 1..n BY <1>1, <1>8, MaxOfSome
  <2>2. tab[z] = Call(tab[z \ {Max(z)}], calls[Max(z)]) BY <1>1, <1>7, <1>8
  <2> QED BY <1>3, <1>8, <2>1, <2>2
<1>9. tab[{}] = EmptyGraph BY <1>1, <1>7
<1>10. Folded(tab[1..n], n, Builds, EmptyGraph, Step) BY <1>1, <1>2, <1>3, <1>8, <1>9, FoldTable
<1>11. PICK steps \in [0..n -> Builds] : Stepwise(steps, n, EmptyGraph, Step) /\ tab[1..n] = steps[n]
  BY <1>10 DEF Folded
<1>12. ASSUME NEW k \in 1..n PROVE steps[k] = Call(steps[k - 1], calls[k])
  <2>1. k - 1 \in 0..n BY <1>1
  <2>2. steps[k - 1] \in Builds BY <1>11, <2>1
  <2> QED BY <1>3, <1>11, <2>2 DEF Stepwise
<1>13. steps[0] = EmptyGraph BY <1>11 DEF Stepwise
<1>14. Built(calls) = steps[n] BY <1>1, <1>4, <1>11
<1> HIDE <1>2, <1>7, <1>8
<1> QED BY <1>11, <1>12, <1>13, <1>14 DEF n

LEMMA BuiltBuilt ==
    ASSUME NEW calls \in Seq(Calls)
    PROVE  Built(calls) \in Builds
<1>1. \E steps \in [0..Len(calls) -> Builds] : Built(calls) = steps[Len(calls)] BY BuiltSteps
<1>2. Len(calls) \in Nat OBVIOUS
<1> QED BY <1>1, <1>2

WithTensors(g) == {h \in Builds : DOMAIN h.tensors = DOMAIN g.tensors}

LEMMA OutputsSteps ==
    ASSUME NEW g \in Builds, NEW q \in Seq(DOMAIN g.tensors)
    PROVE  \E steps \in [0..Len(q) -> WithTensors(g)] :
              /\ steps[0] = g /\ \A k \in 1..Len(q) : steps[k] = WithOutput(steps[k - 1], q[k])
              /\ FoldLeft(WithOutput, g, q) = steps[Len(q)]
<1> DEFINE n == Len(q)
           Step == [x \in (WithTensors(g)) \X (1..n) |-> WithOutput(x[1], q[x[2]])]
<1>1. n \in Nat /\ DOMAIN q = 1..n OBVIOUS
<1>2. /\ g \in WithTensors(g)
      /\ \A x \in WithTensors(g), k \in 1..n : WithOutput(x, q[k]) \in WithTensors(g)
  <2>1. \A k \in 1..n : q[k] \in DOMAIN g.tensors BY <1>1
  <2> QED BY <2>1, OutputBuilt DEF WithTensors
<1>3. Step \in [(WithTensors(g)) \X (1..n) -> WithTensors(g)] /\ \A x \in WithTensors(g), k \in 1..n : Step[<<x, k>>] = WithOutput(x, q[k])
  BY <1>2
<1> HIDE DEF n, Step
<1> DEFINE Eq(it) == it = [z \in SUBSET DOMAIN q |->
                             IF z = {} THEN g ELSE WithOutput(it[z \ {Max(z)}], q[Max(z)])]
           tab == CHOOSE it : Eq(it)
<1>4. FoldLeft(WithOutput, g, q) = tab[DOMAIN q]
  BY Zenon DEF FoldLeft, MapThenFoldSet
<1>5. PICK it \in [SUBSET (1..n) -> WithTensors(g)] : FoldsBy(it, 1..n, g, Step)
  <2>1. HasFold(n, WithTensors(g), g, Step) BY <1>1, <1>2, <1>3, FoldOfSet
  <2> QED BY <2>1 DEF HasFold
<1>6. Eq(it)
  <2>1. ASSUME NEW z \in SUBSET (1..n)
        PROVE  it[z] = IF z = {} THEN g ELSE WithOutput(it[z \ {Max(z)}], q[Max(z)])
    <3>1. CASE z = {} BY <1>5, <3>1 DEF FoldsBy
    <3>2. CASE z # {}
      <4>1. Max(z) \in 1..n BY <1>1, <3>2, MaxOfSome
      <4>2. it[z \ {Max(z)}] \in WithTensors(g)
        <5>1. z \ {Max(z)} \in SUBSET (1..n) OBVIOUS
        <5> QED BY <1>5, <5>1
      <4>3. it[z] = Step[<<it[z \ {Max(z)}], Max(z)>>] BY <1>5, <3>2 DEF FoldsBy
      <4> QED BY <1>3, <3>2, <4>1, <4>2, <4>3
    <3> QED BY <3>1, <3>2
  <2> QED BY <1>1, <1>5, <2>1
<1>7. Eq(tab)
  <2> HIDE DEF Eq
  <2> QED BY <1>6
<1> HIDE DEF tab
<1>8. ASSUME NEW z \in SUBSET (1..n), z # {}, tab[z \ {Max(z)}] \in WithTensors(g)
      PROVE  tab[z] = Step[<<tab[z \ {Max(z)}], Max(z)>>]
  <2>1. Max(z) \in 1..n BY <1>1, <1>8, MaxOfSome
  <2>2. tab[z] = WithOutput(tab[z \ {Max(z)}], q[Max(z)]) BY <1>1, <1>7, <1>8
  <2> QED BY <1>3, <1>8, <2>1, <2>2
<1>9. tab[{}] = g BY <1>1, <1>7
<1>10. Folded(tab[1..n], n, WithTensors(g), g, Step) BY <1>1, <1>2, <1>3, <1>8, <1>9, FoldTable
<1>11. PICK steps \in [0..n -> WithTensors(g)] : Stepwise(steps, n, g, Step) /\ tab[1..n] = steps[n]
  BY <1>10 DEF Folded
<1>12. ASSUME NEW k \in 1..n PROVE steps[k] = WithOutput(steps[k - 1], q[k])
  <2>1. k - 1 \in 0..n BY <1>1
  <2>2. steps[k - 1] \in WithTensors(g) BY <1>11, <2>1
  <2> QED BY <1>3, <1>11, <2>2 DEF Stepwise
<1>13. steps[0] = g BY <1>11 DEF Stepwise
<1>14. FoldLeft(WithOutput, g, q) = steps[n] BY <1>1, <1>4, <1>11
<1> HIDE <1>2, <1>7, <1>8
<1> QED BY <1>11, <1>12, <1>13, <1>14 DEF n

LEMMA OutputsBuilt ==
    ASSUME NEW g \in Builds, NEW S \in SUBSET DOMAIN g.tensors
    PROVE  FoldLeft(WithOutput, g, Ascending(S)) \in Builds
<1> DEFINE q == Ascending(S)
<1>1. DOMAIN g.tensors = 1..Len(g.tensors) /\ Len(g.tensors) \in Nat
  <2>1. g \in Graphs BY DEF Builds
  <2> QED BY <2>1, GraphIs
<1>2. q \in Seq(S) BY <1>1, AscendingIs
<1> HIDE DEF q
<1>3. q \in Seq(DOMAIN g.tensors)
  <2>1. \A x \in DOMAIN q : q[x] \in DOMAIN g.tensors BY <1>2
  <2> QED BY <1>2, <2>1, OfSubset
<1>4. \E steps \in [0..Len(q) -> WithTensors(g)] : FoldLeft(WithOutput, g, q) = steps[Len(q)]
  BY <1>3, OutputsSteps
<1>5. Len(q) \in Nat BY <1>2
<1> QED BY <1>4, <1>5 DEF WithTensors, q

-----------------------------------------------------------------------------
(* The graph in every state                                                *)

(* The three places agree about every connection, every input is           *)
(* connected and there is no cycle; while the graph is built, every tensor *)
(* is the output of a node.                                                *)
GraphInv == Good(graph) /\ (stage = "build" => Owned(graph))

LEMMA GraphInvInit == Init => GraphInv
<1> SUFFICES ASSUME Init PROVE GraphInv OBVIOUS
<1>1. graph \in {EmptyGraph} \union {Built(calls) : calls \in Examples} /\ stage = "build" BY DEF Init
<1>2. Examples \subseteq Seq(Calls) BY GraphAssumption
<1>3. graph \in Builds BY <1>1, <1>2, EmptyBuilt, BuiltBuilt
<1> QED BY <1>3 DEF GraphInv, Builds

LEMMA FrontendKeeps ==
    ASSUME GraphInv, Frontend
    PROVE  GraphInv'
<1>0. OperationTypes \subseteq NodeTypes /\ Operations \subseteq OperationTypes
  BY GraphAssumption DEF OperationTypes, NodeTypes
<1>1. ASSUME NEW g \in Builds, Grow(g) PROVE GraphInv'
  BY <1>1 DEF Grow, GraphInv, Builds
<1>2. stage = "build" => graph \in Builds BY RankedIsGood DEF GraphInv, Builds
<1>3. Readable(graph) \subseteq Nat \X Nat BY RankedIsGood, ReadableAre DEF GraphInv
<1>4. ASSUME NEW type \in SourceTypes, NEW w \in Widths, AddSource(type, w) PROVE GraphInv'
  <2>1. w \in Nat BY GraphAssumption
  <2>2. <<w>> \in Seq(Nat) BY <2>1
  <2>3. Grow(WithSource(graph, type, <<w>>)) /\ stage = "build" BY <1>4 DEF AddSource, Grow
  <2> QED BY <1>1, <1>2, <2>2, <2>3, SourceBuilt
<1>5. ASSUME NEW type \in OperationTypes, NEW inputs \in Seq(Nat \X Nat), AddComputing(type, inputs) PROVE GraphInv'
  <2>1. Grow(WithComputing(graph, type, inputs)) /\ stage = "build" /\ Possible(graph, type, inputs)
    BY <1>5 DEF AddComputing, Grow
  <2>2. Len(inputs) = NumInputs(type) /\ \A i \in DOMAIN inputs : inputs[i] \in Readable(graph)
    BY <2>1 DEF Possible
  <2>3. WithComputing(graph, type, inputs) \in Builds BY <1>2, <2>1, <2>2, ComputingBuilt
  <2> QED BY <1>1, <2>1, <2>3
<1>6. ASSUME NEW except \in {{}} \union {{t} : t \in DOMAIN graph.tensors}, AddOutputs(except) PROVE GraphInv'
  <2> DEFINE unread == {t \in DOMAIN graph.tensors : graph.tensors[t].bound = {}}
             S == (unread \ except) \union (except \ unread)
  <2>1. /\ stage = "build" /\ stage' = "mutate"
        /\ graph' = FoldLeft(WithOutput, graph, Ascending(S))
    BY <1>6 DEF AddOutputs
  <2>2. S \in SUBSET DOMAIN graph.tensors OBVIOUS
  <2> HIDE DEF S
  <2>3. graph' \in Builds BY <1>2, <2>1, <2>2, OutputsBuilt
  <2> QED BY <2>1, <2>3 DEF GraphInv, Builds
<1>7. CASE \E type \in SourceTypes, w \in Widths : AddSource(type, w) BY <1>4, <1>7
<1>8. CASE \E type \in Operations \ {"Elt", "Concat", "FullyConnected"}, p \in Readable(graph) : AddComputing(type, <<p>>)
  <2>1. \A p \in Readable(graph) : <<p>> \in Seq(Nat \X Nat) BY <1>3
  <2> QED BY <1>0, <1>5, <1>8, <2>1
<1>9. \A p, q \in Readable(graph) : <<p, q>> \in Seq(Nat \X Nat)
  <2>1. \A p, q \in Nat \X Nat : <<p, q>> \in Seq(Nat \X Nat) OBVIOUS
  <2> QED BY <1>3, <2>1
<1>10. CASE \E type \in Operations \intersect {"Elt", "Concat"}, p \in Readable(graph), q \in Readable(graph) :
               AddComputing(type, <<p, q>>)
  BY <1>0, <1>5, <1>9, <1>10
<1>11. CASE \E type \in Operations \intersect {"FullyConnected"}, p \in Readable(graph), q \in Readable(graph) :
               graph.nodes[q[1]].type = "Const" /\ AddComputing(type, <<p, q>>)
  BY <1>0, <1>5, <1>9, <1>11
<1>12. CASE \E except \in {{}} \union {{t} : t \in DOMAIN graph.tensors} : AddOutputs(except) BY <1>6, <1>12
<1> QED BY <1>7, <1>8, <1>10, <1>11, <1>12 DEF Frontend

LEMMA GraphInvNext == GraphInv /\ [Next]_vars => GraphInv'
<1> SUFFICES ASSUME GraphInv, [Next]_vars PROVE GraphInv' OBVIOUS
<1>1. CASE Frontend BY <1>1, FrontendKeeps
<1>2. CASE RunBackendPasses
  <2>1. Good(graph') BY <1>2, PassesGood DEF GraphInv, RunBackendPasses
  <2> QED BY <1>2, <2>1 DEF GraphInv, RunBackendPasses
<1>3. CASE graph' = graph /\ (stage' = "build" => stage = "build") BY <1>3 DEF GraphInv
<1>4. CASE ConfigureWorkload BY <1>3, <1>4 DEF ConfigureWorkload
<1>5. CASE PrepareAllTasks BY <1>3, <1>5 DEF PrepareAllTasks
<1>6. CASE ConfigureTransitionManager BY <1>3, <1>6 DEF ConfigureTransitionManager
<1>7. CASE AllocateAllTensors BY <1>3, <1>7 DEF AllocateAllTensors
<1>8. CASE CallInputAccessors BY <1>3, <1>8 DEF CallInputAccessors
<1>9. CASE CallAllTasks BY <1>3, <1>9 DEF CallAllTasks
<1>10. CASE CallOutputAccessors BY <1>3, <1>10 DEF CallOutputAccessors
<1>11. CASE UNCHANGED vars BY <1>3, <1>11 DEF vars
<1> QED BY <1>1, <1>2, <1>4, <1>5, <1>6, <1>7, <1>8, <1>9, <1>10, <1>11 DEF Next

(* The inductive invariant of the graph: however it is built, and whatever *)
(* the passes find to fuse, to split and to overwrite, the graph stays     *)
(* well formed, fully connected and free of cycles.                        *)
THEOREM GraphStaysGood == Spec => []GraphInv
BY GraphInvInit, GraphInvNext, PTL DEF Spec

(* Nodes, edges and tensors agree about every connection, from the first   *)
(* call of the frontend to the last pass and the executions after it.      *)
THEOREM GraphIsConsistent == Spec => []GraphConsistent
<1>1. GraphInv => GraphConsistent BY RankedIsGood, WellFormedAgrees DEF GraphInv, GraphConsistent
<1> QED BY <1>1, GraphStaysGood, PTL

(* dfs and bfs end within the bound of the model's loop, reach every node  *)
(* and name none before what it depends on, whatever graph was built.      *)
THEOREM OrdersAreTopological == Spec => []OrderIsTopological
<1>1. GraphInv => OrderIsTopological
  <2> SUFFICES ASSUME GraphInv PROVE OrderIsTopological OBVIOUS
  <2>1. PICK rank : Ranked(graph, rank) BY RankedIsGood DEF GraphInv
  <2> QED BY <2>1, DfsIsTopological, BfsIsTopological DEF OrderIsTopological
<1> QED BY <1>1, GraphStaysGood, PTL

-----------------------------------------------------------------------------
(* The weights of the fully connected layers                               *)

(* The layers of the workload and their weights, in the order of the       *)
(* tasks, and those that are to come after the first k.                    *)
Shared(g, fc)     == {Weights(g, fc[x]) : x \in DOMAIN fc}
Before(g, fc, k, w) == {x \in 1..k : Weights(g, fc[x]) = w}
After(g, fc, k, w)  == {x \in k+1..Len(fc) : Weights(g, fc[x]) = w}

Managed == [counter : Int, isUnused : BOOLEAN]
Managers(S) == UNION {[D -> Managed] : D \in SUBSET S}

(* A manager that has counted the first k layers.                          *)
HasCounted(g, fc, k, m) ==
    /\ DOMAIN m = {Weights(g, fc[x]) : x \in 1..k}
    /\ \A w \in DOMAIN m : m[w].counter = Cardinality(Before(g, fc, k, w))

CountOf(m, w) == IF w \in DOMAIN m THEN m[w].counter ELSE 0

Recounted(r, m, w) ==
    /\ DOMAIN r = DOMAIN m \union {w} /\ \A v \in DOMAIN m : v # w => r[v] = m[v]
    /\ r[w].counter = CountOf(m, w) + 1

LEMMA ManageTyped ==
    ASSUME NEW S, NEW m \in Managers(S), NEW w \in S
    PROVE  Manage(m, w) \in Managers(S) /\ Recounted(Manage(m, w), m, w)
<1> DEFINE r == Manage(m, w)
<1>1. PICK D \in SUBSET S : m \in [D -> Managed] BY DEF Managers
<1>2. CASE w \in DOMAIN m
  <2>1. r = [m EXCEPT ![w].counter = @ + 1] BY <1>2 DEF Manage, AreWeightsManaged
  <2>2. m[w] \in Managed BY <1>1, <1>2
  <2>3. [m[w] EXCEPT !.counter = @ + 1] \in Managed /\ [m[w] EXCEPT !.counter = @ + 1].counter = m[w].counter + 1
    BY <2>2 DEF Managed
  <2>4. r \in [D -> Managed] BY <1>1, <2>1, <2>3
  <2>5. r[w].counter = m[w].counter + 1 /\ \A v \in DOMAIN m : v # w => r[v] = m[v] /\ DOMAIN r = DOMAIN m
    BY <1>1, <1>2, <2>1, <2>3
  <2> HIDE DEF r
  <2> QED BY <1>1, <1>2, <2>4, <2>5 DEF r, Managers, CountOf, Recounted
<1>3. CASE w \notin DOMAIN m
  <2> DEFINE E == DOMAIN m \union {w}
             new == [counter |-> 1, isUnused |-> FALSE]
  <2>1. r = [x \in E |-> IF x = w THEN new ELSE m[x]]
    BY <1>3 DEF Manage, AreWeightsManaged, Managing
  <2>2. new \in Managed /\ new.counter = 1 BY DEF Managed
  <2>3. E \in SUBSET S BY <1>1
  <2> HIDE DEF new, E
  <2>4. r \in [E -> Managed] /\ r[w] = new /\ DOMAIN r = E /\ \A v \in DOMAIN m : r[v] = m[v]
    BY <1>1, <1>3, <2>1, <2>2 DEF E
  <2> HIDE DEF r
  <2> QED BY <1>1, <1>3, <2>2, <2>3, <2>4 DEF r, E, Managers, CountOf, Recounted
<1> QED BY <1>2, <1>3

LEMMA ManageSteps ==
    ASSUME NEW g, NEW ts, NEW Q, FullyConnected(g, ts) \in Seq(Q)
    PROVE  \E steps \in [0..Len(FullyConnected(g, ts)) -> Managers(Shared(g, FullyConnected(g, ts)))] :
              /\ steps[0] = NoWeights /\ \A k \in 1..Len(FullyConnected(g, ts)) : steps[k] = Manage(steps[k - 1], Weights(g, FullyConnected(g, ts)[k]))
              /\ ManageWeights(g, ts) = steps[Len(FullyConnected(g, ts))]
<1> DEFINE n == Len(FullyConnected(g, ts))
           Step == [x \in (Managers(Shared(g, FullyConnected(g, ts)))) \X (1..n) |-> Manage(x[1], Weights(g, FullyConnected(g, ts)[x[2]]))]
<1>1. n \in Nat /\ DOMAIN FullyConnected(g, ts) = 1..n OBVIOUS
<1>2. /\ NoWeights \in Managers(Shared(g, FullyConnected(g, ts)))
      /\ \A x \in Managers(Shared(g, FullyConnected(g, ts))), k \in 1..n : Manage(x, Weights(g, FullyConnected(g, ts)[k])) \in Managers(Shared(g, FullyConnected(g, ts)))
  <2> DEFINE fc == FullyConnected(g, ts)
  <2>1. NoWeights \in [{} -> Managed] /\ {} \in SUBSET Shared(g, fc) BY DEF NoWeights
  <2>2. NoWeights \in Managers(Shared(g, fc)) BY <2>1 DEF Managers
  <2>3. ASSUME NEW m \in Managers(Shared(g, fc)), NEW k \in 1..n PROVE Manage(m, Weights(g, fc[k])) \in Managers(Shared(g, fc))
    <3>1. Weights(g, fc[k]) \in Shared(g, fc) BY <1>1 DEF Shared
    <3> QED BY <3>1, ManageTyped
  <2> QED BY <2>2, <2>3
<1>3. Step \in [(Managers(Shared(g, FullyConnected(g, ts)))) \X (1..n) -> Managers(Shared(g, FullyConnected(g, ts)))] /\ \A x \in Managers(Shared(g, FullyConnected(g, ts))), k \in 1..n : Step[<<x, k>>] = Manage(x, Weights(g, FullyConnected(g, ts)[k]))
  BY <1>2
<1> HIDE DEF n, Step
<1> DEFINE Eq(it) == it = [z \in SUBSET DOMAIN FullyConnected(g, ts) |->
                             IF z = {} THEN NoWeights ELSE Manage(it[z \ {Max(z)}], Weights(g, FullyConnected(g, ts)[Max(z)]))]
           tab == CHOOSE it : Eq(it)
<1>4. ManageWeights(g, ts) = tab[DOMAIN FullyConnected(g, ts)]
  BY Zenon DEF FoldLeft, MapThenFoldSet, ManageWeights
<1>5. PICK it \in [SUBSET (1..n) -> Managers(Shared(g, FullyConnected(g, ts)))] : FoldsBy(it, 1..n, NoWeights, Step)
  <2>1. HasFold(n, Managers(Shared(g, FullyConnected(g, ts))), NoWeights, Step) BY <1>1, <1>2, <1>3, FoldOfSet
  <2> QED BY <2>1 DEF HasFold
<1>6. Eq(it)
  <2>1. ASSUME NEW z \in SUBSET (1..n)
        PROVE  it[z] = IF z = {} THEN NoWeights ELSE Manage(it[z \ {Max(z)}], Weights(g, FullyConnected(g, ts)[Max(z)]))
    <3>1. CASE z = {} BY <1>5, <3>1 DEF FoldsBy
    <3>2. CASE z # {}
      <4>1. Max(z) \in 1..n BY <1>1, <3>2, MaxOfSome
      <4>2. it[z \ {Max(z)}] \in Managers(Shared(g, FullyConnected(g, ts)))
        <5>1. z \ {Max(z)} \in SUBSET (1..n) OBVIOUS
        <5> QED BY <1>5, <5>1
      <4>3. it[z] = Step[<<it[z \ {Max(z)}], Max(z)>>] BY <1>5, <3>2 DEF FoldsBy
      <4> QED BY <1>3, <3>2, <4>1, <4>2, <4>3
    <3> QED BY <3>1, <3>2
  <2> QED BY <1>1, <1>5, <2>1
<1>7. Eq(tab)
  <2> HIDE DEF Eq
  <2> QED BY <1>6
<1> HIDE DEF tab
<1>8. ASSUME NEW z \in SUBSET (1..n), z # {}, tab[z \ {Max(z)}] \in Managers(Shared(g, FullyConnected(g, ts)))
      PROVE  tab[z] = Step[<<tab[z \ {Max(z)}], Max(z)>>]
  <2>1. Max(z) \in 1..n BY <1>1, <1>8, MaxOfSome
  <2>2. tab[z] = Manage(tab[z \ {Max(z)}], Weights(g, FullyConnected(g, ts)[Max(z)])) BY <1>1, <1>7, <1>8
  <2> QED BY <1>3, <1>8, <2>1, <2>2
<1>9. tab[{}] = NoWeights BY <1>1, <1>7
<1>10. Folded(tab[1..n], n, Managers(Shared(g, FullyConnected(g, ts))), NoWeights, Step) BY <1>1, <1>2, <1>3, <1>8, <1>9, FoldTable
<1>11. PICK steps \in [0..n -> Managers(Shared(g, FullyConnected(g, ts)))] : Stepwise(steps, n, NoWeights, Step) /\ tab[1..n] = steps[n]
  BY <1>10 DEF Folded
<1>12. ASSUME NEW k \in 1..n PROVE steps[k] = Manage(steps[k - 1], Weights(g, FullyConnected(g, ts)[k]))
  <2>1. k - 1 \in 0..n BY <1>1
  <2>2. steps[k - 1] \in Managers(Shared(g, FullyConnected(g, ts))) BY <1>11, <2>1
  <2> QED BY <1>3, <1>11, <2>2 DEF Stepwise
<1>13. steps[0] = NoWeights BY <1>11 DEF Stepwise
<1>14. ManageWeights(g, ts) = steps[n] BY <1>1, <1>4, <1>11
<1> HIDE <1>2, <1>7, <1>8
<1> QED BY <1>11, <1>12, <1>13, <1>14 DEF n

LEMMA BeforeIs ==
    ASSUME NEW g, NEW fc, NEW k \in Nat, NEW w
    PROVE  /\ IsFiniteSet(Before(g, fc, k, w)) /\ Cardinality(Before(g, fc, k, w)) \in Nat
           /\ Before(g, fc, k, w) = {} => Cardinality(Before(g, fc, k, w)) = 0
           /\ Weights(g, fc[k + 1]) # w => Before(g, fc, k + 1, w) = Before(g, fc, k, w)
           /\ Weights(g, fc[k + 1]) = w =>
                Cardinality(Before(g, fc, k + 1, w)) = Cardinality(Before(g, fc, k, w)) + 1
<1> DEFINE B == Before(g, fc, k, w)
           C == Before(g, fc, k + 1, w)
<1>1. IsFiniteSet(1..k) BY FS_Interval
<1>2. B \subseteq 1..k BY DEF Before
<1>3. IsFiniteSet(B) BY <1>1, <1>2, FS_Subset
<1>4. Cardinality(B) \in Nat /\ (B = {} => Cardinality(B) = 0) BY <1>3, FS_CardinalityType, FS_EmptySet
<1>5. \A x : x \in 1..k+1 <=> x \in 1..k \/ x = k + 1 OBVIOUS
<1>6. k + 1 \notin B BY <1>2
<1>7. Weights(g, fc[k + 1]) # w => C = B BY <1>5 DEF Before
<1>8. Weights(g, fc[k + 1]) = w => C = B \union {k + 1} BY <1>5 DEF Before
<1> HIDE DEF B, C
<1>9. Cardinality(B \union {k + 1}) = Cardinality(B) + 1 BY <1>3, <1>6, FS_AddElement
<1> QED BY <1>3, <1>4, <1>7, <1>8, <1>9 DEF B, C

LEMMA OneMoreCounted ==
    ASSUME NEW g, NEW fc, NEW k \in Nat, NEW S, NEW m \in Managers(S), Weights(g, fc[k + 1]) \in S,
           HasCounted(g, fc, k, m)
    PROVE  HasCounted(g, fc, k + 1, Manage(m, Weights(g, fc[k + 1])))
<1> DEFINE w == Weights(g, fc[k + 1])
           r == Manage(m, w)
<1>1. HasCounted(g, fc, k, m) /\ w \in S OBVIOUS
<1> HIDE DEF w, r
<1>2. Recounted(r, m, w) BY <1>1, ManageTyped DEF r
<1>4. DOMAIN r = DOMAIN m \union {w} /\ \A v \in DOMAIN m : v # w => r[v] = m[v]
  BY <1>2 DEF Recounted
<1>5. r[w].counter = CountOf(m, w) + 1
  BY <1>2 DEF Recounted
<1>6. DOMAIN m = {Weights(g, fc[x]) : x \in 1..k} BY <1>1 DEF HasCounted
<1>7. DOMAIN r = {Weights(g, fc[x]) : x \in 1..k+1}
  <2>1. \A x : x \in 1..k+1 <=> x \in 1..k \/ x = k + 1 OBVIOUS
  <2> QED BY <1>4, <1>6, <2>1 DEF w
<1>8. ASSUME NEW v \in DOMAIN r PROVE r[v].counter = Cardinality(Before(g, fc, k + 1, v))
  <2>1. CASE v # w
    <3>1. v \in DOMAIN m /\ r[v] = m[v] BY <1>4, <2>1
    <3>2. Before(g, fc, k + 1, v) = Before(g, fc, k, v) BY <2>1, BeforeIs DEF w
    <3> QED BY <1>1, <3>1, <3>2 DEF HasCounted
  <2>2. CASE v = w
    <3>1. Cardinality(Before(g, fc, k + 1, w)) = Cardinality(Before(g, fc, k, w)) + 1 BY BeforeIs DEF w
    <3>2. CASE w \in DOMAIN m BY <1>1, <1>5, <2>2, <3>1, <3>2 DEF HasCounted, CountOf
    <3>3. CASE w \notin DOMAIN m
      <4>1. Before(g, fc, k, w) = {} BY <1>6, <3>3 DEF Before
      <4>2. Cardinality(Before(g, fc, k, w)) = 0 BY <4>1, BeforeIs
      <4> QED BY <1>5, <2>2, <3>1, <3>3, <4>2 DEF CountOf
    <3> QED BY <3>2, <3>3
  <2> QED BY <2>1, <2>2
<1> QED BY <1>7, <1>8 DEF HasCounted, r, w

(* Every layer is counted for its weights.                                 *)
LEMMA ManageWeightsIs ==
    ASSUME NEW g, NEW ts, NEW Q, FullyConnected(g, ts) \in Seq(Q)
    PROVE  /\ HasCounted(g, FullyConnected(g, ts), Len(FullyConnected(g, ts)), ManageWeights(g, ts))
           /\ ManageWeights(g, ts) \in [Shared(g, FullyConnected(g, ts)) -> Managed]
<1> DEFINE fc == FullyConnected(g, ts)
           n == Len(fc)
           T == Managers(Shared(g, fc))
<1>1. PICK steps \in [0..n -> T] :
         /\ steps[0] = NoWeights /\ \A k \in 1..n : steps[k] = Manage(steps[k - 1], Weights(g, fc[k]))
         /\ ManageWeights(g, ts) = steps[n]
  BY ManageSteps
<1>2. n \in Nat /\ DOMAIN fc = 1..n OBVIOUS
<1> DEFINE P == {k \in Nat : k <= n => HasCounted(g, fc, k, steps[k])}
<1> HIDE DEF fc, n
<1>3. 0 \in P
  <2>1. DOMAIN NoWeights = {} BY DEF NoWeights
  <2>2. HasCounted(g, fc, 0, steps[0]) BY <1>1, <2>1 DEF HasCounted
  <2> QED BY <2>2
<1>4. ASSUME NEW k \in Nat, k \in P PROVE k + 1 \in P
  <2> SUFFICES ASSUME k + 1 <= n PROVE HasCounted(g, fc, k + 1, steps[k + 1]) OBVIOUS
  <2>1. k + 1 \in 1..n /\ (k + 1) - 1 = k /\ k \in 0..n /\ k <= n BY <1>2
  <2>2. steps[k + 1] = Manage(steps[k], Weights(g, fc[k + 1])) /\ steps[k] \in T BY <1>1, <2>1
  <2>3. HasCounted(g, fc, k, steps[k]) BY <1>4, <2>1
  <2>4. Weights(g, fc[k + 1]) \in Shared(g, fc) BY <1>2, <2>1 DEF Shared
  <2> QED BY <2>2, <2>3, <2>4, OneMoreCounted
<1> HIDE DEF P
<1>5. Nat \subseteq P BY <1>3, <1>4, SetInduction
<1>6. HasCounted(g, fc, n, steps[n]) BY <1>2, <1>5 DEF P
<1>7. steps[n] \in [Shared(g, fc) -> Managed]
  <2>1. steps[n] \in T BY <1>1, <1>2
  <2>2. DOMAIN steps[n] = Shared(g, fc) BY <1>2, <1>6 DEF HasCounted, Shared
  <2> QED BY <2>1, <2>2 DEF Managers
<1> QED BY <1>1, <1>6, <1>7 DEF fc, n

(* What the preparation of the layers changes.                             *)
Copied(fc) ==
    UNION {[D -> {copies[x] : x \in DOMAIN copies}
                   \union {Contents(memory, graph, InputTensor(graph, n, 2)) : n \in ToSet(fc)}] :
             D \in SUBSET (DOMAIN copies \union ToSet(fc))}

Prepared(fc) == [manager : [Shared(graph, fc) -> Managed], copies : Copied(fc),
                 allocated : SUBSET allocated, found : BOOLEAN]

(* The manager after layer n is prepared.                                  *)
Marked(r, m, w) ==
    /\ r \in [DOMAIN m -> Managed] /\ \A v \in DOMAIN m : v # w => r[v] = m[v]
    /\ r[w].counter = m[w].counter - 1 /\ r[w].isUnused

LEMMA ReleaseMarks ==
    ASSUME NEW S, NEW m \in [S -> Managed], NEW w \in S
    PROVE  Marked(Release(PreMarkAsUnused(m, w), w), m, w)
<1> DEFINE p == PreMarkAsUnused(m, w)
           r == Release(p, w)
           a == [m[w] EXCEPT !.isUnused = TRUE]
           b == [a EXCEPT !.counter = @ - 1]
<1>1. m[w] \in Managed OBVIOUS
<1>2. a \in Managed /\ a.counter = m[w].counter /\ a.isUnused BY <1>1 DEF Managed
<1>3. b \in Managed /\ b.counter = a.counter - 1 /\ b.isUnused
  <2> HIDE DEF a
  <2> QED BY <1>2 DEF Managed
<1>4. p = [m EXCEPT ![w] = a] BY DEF PreMarkAsUnused, AreWeightsManaged
<1> HIDE DEF a, p
<1>5. p \in [S -> Managed] /\ p[w] = a /\ \A v \in S : v # w => p[v] = m[v] BY <1>2, <1>4
<1>6. r = [p EXCEPT ![w] = b] BY <1>5 DEF Release, AreWeightsManaged
<1> HIDE DEF b, r
<1>7. r \in [S -> Managed] /\ r[w] = b /\ \A v \in S : v # w => r[v] = p[v] BY <1>3, <1>5, <1>6
<1>8. DOMAIN m = S OBVIOUS
<1>9. Marked(r, m, w) BY <1>2, <1>3, <1>5, <1>7, <1>8 DEF Marked
<1> QED BY <1>9 DEF r, p

(* A layer finds its weights, copies them and counts down.                 *)
PrepareStep(t, s, n) ==
    LET w == Weights(graph, n) IN
    /\ t.found => s.found
    /\ s.found /\ t.found =>
         /\ Marked(t.manager, s.manager, w)
         /\ t.allocated = s.allocated \ (IF MarkedAsUnused(t.manager, w) THEN {w} ELSE {})

LEMMA PrepareTaskIs ==
    ASSUME NEW fc, NEW s \in Prepared(fc), NEW n \in ToSet(fc), Weights(graph, n) \in Shared(graph, fc)
    PROVE  PrepareTask(s, n) \in Prepared(fc) /\ PrepareStep(PrepareTask(s, n), s, n)
<1> DEFINE w == Weights(graph, n)
           S == Shared(graph, fc)
           m == Release(PreMarkAsUnused(s.manager, w), w)
           V == {copies[x] : x \in DOMAIN copies}
                  \union {Contents(memory, graph, InputTensor(graph, i, 2)) : i \in ToSet(fc)}
           A == DOMAIN copies \union ToSet(fc)
           value == Contents(memory, graph, InputTensor(graph, n, 2))
           c == [x \in DOMAIN s.copies \union {n} |-> IF x = n THEN value ELSE s.copies[x]]
           left == s.allocated \ (IF MarkedAsUnused(m, w) THEN {w} ELSE {})
           t == PrepareTask(s, n)
<1>1. /\ s.manager \in [S -> Managed] /\ s.allocated \in SUBSET allocated /\ s.found \in BOOLEAN
      /\ s.copies \in Copied(fc)
  BY DEF Prepared
<1>2. PICK D \in SUBSET A : s.copies \in [D -> V] BY <1>1 DEF Copied
<1>3. value \in V OBVIOUS
<1>4. n \in A OBVIOUS
<1> HIDE DEF V, A, value
<1>5. c \in [D \union {n} -> V] /\ D \union {n} \in SUBSET A BY <1>2, <1>3, <1>4
<1>6. c \in Copied(fc)
  <2> HIDE DEF c
  <2>1. \E E \in SUBSET A : c \in [E -> V] BY <1>5
  <2> QED BY <2>1 DEF Copied, V, A
<1>7. Marked(m, s.manager, w)
  <2> HIDE DEF S
  <2>1. w \in S BY DEF S
  <2> HIDE DEF w
  <2> QED BY <1>1, <2>1, ReleaseMarks
<1>8. m \in [S -> Managed] BY <1>1, <1>7 DEF Marked
<1>9. CASE Window(graph, w).root \notin s.allocated
  <2>1. t = [s EXCEPT !.found = FALSE] BY <1>9 DEF PrepareTask
  <2>2. t \in Prepared(fc) /\ t.found = FALSE BY <2>1 DEF Prepared
  <2> HIDE DEF t
  <2> QED BY <2>2 DEF PrepareStep, t
<1>10. CASE Window(graph, w).root \in s.allocated
  <2>1. t = [s EXCEPT !.manager = m, !.copies = c, !.allocated = left]
    BY <1>10, Zenon DEF PrepareTask, value
  <2>2. left \in SUBSET allocated BY <1>1
  <2> HIDE DEF m, c, left, t
  <2>3. /\ t \in Prepared(fc) /\ t.manager = m /\ t.allocated = left /\ t.found = s.found
    BY <1>1, <1>6, <1>8, <2>1, <2>2 DEF Prepared, S
  <2> QED BY <1>7, <2>3 DEF PrepareStep, left, t
<1> QED BY <1>9, <1>10

Unprepared == [manager |-> manager, copies |-> copies, allocated |-> allocated, found |-> TRUE]

LEMMA PrepareSteps ==
    ASSUME NEW fc, NEW Q, fc \in Seq(Q), copies = <<>>, manager \in [Shared(graph, fc) -> Managed]
    PROVE  \E steps \in [0..Len(fc) -> Prepared(fc)] :
              /\ steps[0] = Unprepared /\ \A k \in 1..Len(fc) : steps[k] = PrepareTask(steps[k - 1], fc[k])
              /\ FoldLeft(PrepareTask, Unprepared, fc) = steps[Len(fc)]
<1> DEFINE n == Len(fc)
           Step == [x \in (Prepared(fc)) \X (1..n) |-> PrepareTask(x[1], fc[x[2]])]
<1>1. n \in Nat /\ DOMAIN fc = 1..n OBVIOUS
<1>2. /\ Unprepared \in Prepared(fc)
      /\ \A x \in Prepared(fc), k \in 1..n : PrepareTask(x, fc[k]) \in Prepared(fc)
  <2>1. <<>> \in [{} -> {}] /\ DOMAIN <<>> = {} OBVIOUS
  <2>2. copies \in Copied(fc)
    <3>1. \A V : <<>> \in [{} -> V] OBVIOUS
    <3> DEFINE V == {copies[x] : x \in DOMAIN copies}
                      \union {Contents(memory, graph, InputTensor(graph, i, 2)) : i \in ToSet(fc)}
               A == DOMAIN copies \union ToSet(fc)
    <3>2. {} \in SUBSET A OBVIOUS
    <3> HIDE DEF V, A
    <3>3. \E E \in SUBSET A : copies \in [E -> V] BY <3>1, <3>2
    <3> QED BY <3>3 DEF Copied, V, A
  <2>3. Unprepared \in Prepared(fc) BY <2>2 DEF Prepared, Unprepared
  <2>4. ASSUME NEW s \in Prepared(fc), NEW k \in 1..n PROVE PrepareTask(s, fc[k]) \in Prepared(fc)
    <3>1. fc[k] \in ToSet(fc) /\ Weights(graph, fc[k]) \in Shared(graph, fc) BY <1>1 DEF ToSet, Shared
    <3> QED BY <3>1, PrepareTaskIs
  <2> QED BY <2>3, <2>4
<1>3. Step \in [(Prepared(fc)) \X (1..n) -> Prepared(fc)] /\ \A x \in Prepared(fc), k \in 1..n : Step[<<x, k>>] = PrepareTask(x, fc[k])
  BY <1>2
<1> HIDE DEF n, Step
<1> DEFINE Eq(it) == it = [z \in SUBSET DOMAIN fc |->
                             IF z = {} THEN Unprepared ELSE PrepareTask(it[z \ {Max(z)}], fc[Max(z)])]
           tab == CHOOSE it : Eq(it)
<1>4. FoldLeft(PrepareTask, Unprepared, fc) = tab[DOMAIN fc]
  BY Zenon DEF FoldLeft, MapThenFoldSet
<1>5. PICK it \in [SUBSET (1..n) -> Prepared(fc)] : FoldsBy(it, 1..n, Unprepared, Step)
  <2>1. HasFold(n, Prepared(fc), Unprepared, Step) BY <1>1, <1>2, <1>3, FoldOfSet
  <2> QED BY <2>1 DEF HasFold
<1>6. Eq(it)
  <2>1. ASSUME NEW z \in SUBSET (1..n)
        PROVE  it[z] = IF z = {} THEN Unprepared ELSE PrepareTask(it[z \ {Max(z)}], fc[Max(z)])
    <3>1. CASE z = {} BY <1>5, <3>1 DEF FoldsBy
    <3>2. CASE z # {}
      <4>1. Max(z) \in 1..n BY <1>1, <3>2, MaxOfSome
      <4>2. it[z \ {Max(z)}] \in Prepared(fc)
        <5>1. z \ {Max(z)} \in SUBSET (1..n) OBVIOUS
        <5> QED BY <1>5, <5>1
      <4>3. it[z] = Step[<<it[z \ {Max(z)}], Max(z)>>] BY <1>5, <3>2 DEF FoldsBy
      <4> QED BY <1>3, <3>2, <4>1, <4>2, <4>3
    <3> QED BY <3>1, <3>2
  <2> QED BY <1>1, <1>5, <2>1
<1>7. Eq(tab)
  <2> HIDE DEF Eq
  <2> QED BY <1>6
<1> HIDE DEF tab
<1>8. ASSUME NEW z \in SUBSET (1..n), z # {}, tab[z \ {Max(z)}] \in Prepared(fc)
      PROVE  tab[z] = Step[<<tab[z \ {Max(z)}], Max(z)>>]
  <2>1. Max(z) \in 1..n BY <1>1, <1>8, MaxOfSome
  <2>2. tab[z] = PrepareTask(tab[z \ {Max(z)}], fc[Max(z)]) BY <1>1, <1>7, <1>8
  <2> QED BY <1>3, <1>8, <2>1, <2>2
<1>9. tab[{}] = Unprepared BY <1>1, <1>7
<1>10. Folded(tab[1..n], n, Prepared(fc), Unprepared, Step) BY <1>1, <1>2, <1>3, <1>8, <1>9, FoldTable
<1>11. PICK steps \in [0..n -> Prepared(fc)] : Stepwise(steps, n, Unprepared, Step) /\ tab[1..n] = steps[n]
  BY <1>10 DEF Folded
<1>12. ASSUME NEW k \in 1..n PROVE steps[k] = PrepareTask(steps[k - 1], fc[k])
  <2>1. k - 1 \in 0..n BY <1>1
  <2>2. steps[k - 1] \in Prepared(fc) BY <1>11, <2>1
  <2> QED BY <1>3, <1>11, <2>2 DEF Stepwise
<1>13. steps[0] = Unprepared BY <1>11 DEF Stepwise
<1>14. FoldLeft(PrepareTask, Unprepared, fc) = steps[n] BY <1>1, <1>4, <1>11
<1> HIDE <1>2, <1>7, <1>8
<1> QED BY <1>11, <1>12, <1>13, <1>14 DEF n

LEMMA AfterIs ==
    ASSUME NEW fc, NEW k \in Nat, Len(fc) \in Nat, k + 1 <= Len(fc), NEW w
    PROVE  /\ IsFiniteSet(After(graph, fc, k, w)) /\ Cardinality(After(graph, fc, k, w)) \in Nat
           /\ Weights(graph, fc[k + 1]) # w => After(graph, fc, k + 1, w) = After(graph, fc, k, w)
           /\ Weights(graph, fc[k + 1]) = w =>
                Cardinality(After(graph, fc, k + 1, w)) = Cardinality(After(graph, fc, k, w)) - 1
<1> DEFINE A == After(graph, fc, k, w)
           B == After(graph, fc, k + 1, w)
           n == Len(fc)
<1>1. IsFiniteSet(k+1..n) BY FS_Interval
<1>2. A \subseteq k+1..n BY DEF After
<1>3. IsFiniteSet(A) BY <1>1, <1>2, FS_Subset
<1>4. Cardinality(A) \in Nat BY <1>3, FS_CardinalityType
<1>5. \A x : x \in k+1..n <=> x \in k+1+1..n \/ x = k + 1 OBVIOUS
<1>6. k + 1 \notin B /\ k + 1 \notin k+1+1..n BY DEF After
<1>7. Weights(graph, fc[k + 1]) # w => B = A BY <1>5 DEF After
<1>8. Weights(graph, fc[k + 1]) = w => B = A \ {k + 1} /\ k + 1 \in A BY <1>5, <1>6 DEF After
<1> HIDE DEF A, B
<1>9. k + 1 \in A => Cardinality(A \ {k + 1}) = Cardinality(A) - 1 BY <1>3, FS_RemoveElement
<1> QED BY <1>3, <1>4, <1>7, <1>8, <1>9 DEF A, B

(* The first k layers have copied their weights.                           *)
Halfway(fc, k, s) == s.found => \A w \in Shared(graph, fc) :
    /\ s.manager[w].counter = Cardinality(After(graph, fc, k, w))
    /\ Before(graph, fc, k, w) # {} => s.manager[w].isUnused
    /\ After(graph, fc, k, w) = {} => w \notin s.allocated

LEMMA OneMorePrepared ==
    ASSUME NEW fc, NEW k \in Nat, Len(fc) \in Nat, k + 1 <= Len(fc), DOMAIN fc = 1..Len(fc),
           NEW s \in Prepared(fc), Halfway(fc, k, s),
           NEW t \in Prepared(fc), PrepareStep(t, s, fc[k + 1])
    PROVE  Halfway(fc, k + 1, t)
<1> DEFINE S == Shared(graph, fc)
           w == Weights(graph, fc[k + 1])
<1> SUFFICES ASSUME t.found, NEW v \in S
             PROVE  /\ t.manager[v].counter = Cardinality(After(graph, fc, k + 1, v))
                    /\ Before(graph, fc, k + 1, v) # {} => t.manager[v].isUnused
                    /\ After(graph, fc, k + 1, v) = {} => v \notin t.allocated
  BY DEF Halfway
<1>1. s.found /\ Marked(t.manager, s.manager, w)
      /\ t.allocated = s.allocated \ (IF MarkedAsUnused(t.manager, w) THEN {w} ELSE {})
  BY DEF PrepareStep
<1>2. s.manager \in [S -> Managed] /\ t.manager \in [S -> Managed] BY DEF Prepared
<1>3. /\ s.manager[v].counter = Cardinality(After(graph, fc, k, v))
      /\ Before(graph, fc, k, v) # {} => s.manager[v].isUnused
      /\ After(graph, fc, k, v) = {} => v \notin s.allocated
  BY <1>1 DEF Halfway
<1> HIDE DEF S, w
<1>4. CASE v # w
  <2>1. t.manager[v] = s.manager[v] BY <1>1, <1>2, <1>4 DEF Marked
  <2>2. After(graph, fc, k + 1, v) = After(graph, fc, k, v) BY <1>4, AfterIs DEF w
  <2>3. Before(graph, fc, k + 1, v) = Before(graph, fc, k, v) BY <1>4, BeforeIs DEF w
  <2> QED BY <1>1, <1>3, <2>1, <2>2, <2>3
<1>5. CASE v = w
  <2>1. t.manager[v].counter = s.manager[v].counter - 1 /\ t.manager[v].isUnused BY <1>1, <1>5 DEF Marked
  <2>2. Cardinality(After(graph, fc, k + 1, v)) = Cardinality(After(graph, fc, k, v)) - 1 BY <1>5, AfterIs DEF w
  <2>3. t.manager[v].counter = Cardinality(After(graph, fc, k + 1, v)) BY <1>3, <2>1, <2>2
  <2>4. After(graph, fc, k + 1, v) = {} => v \notin t.allocated
    <3> SUFFICES ASSUME After(graph, fc, k + 1, v) = {} PROVE v \notin t.allocated OBVIOUS
    <3>1. t.manager[v].counter = 0 BY <2>3, FS_EmptySet
    <3>2. MarkedAsUnused(t.manager, v) BY <1>2, <2>1, <3>1 DEF MarkedAsUnused, AreWeightsManaged
    <3> QED BY <1>1, <1>5, <3>2
  <2> QED BY <2>1, <2>3, <2>4
<1> QED BY <1>4, <1>5

(* Once all layers have found and copied their weights, the manager knows  *)
(* that nobody uses these, and they have no memory.                        *)
LEMMA PreparedIs ==
    ASSUME NEW fc, NEW Q, fc \in Seq(Q), copies = <<>>, manager \in [Shared(graph, fc) -> Managed],
           HasCounted(graph, fc, Len(fc), manager),
           NEW s, s = FoldLeft(PrepareTask, Unprepared, fc), s.found
    PROVE  \A w \in Shared(graph, fc) : MarkedAsUnused(s.manager, w) /\ w \notin s.allocated
<1> DEFINE n == Len(fc)
           T == Prepared(fc)
           S == Shared(graph, fc)
<1>1. PICK steps \in [0..n -> T] :
         /\ steps[0] = Unprepared /\ \A k \in 1..n : steps[k] = PrepareTask(steps[k - 1], fc[k])
         /\ FoldLeft(PrepareTask, Unprepared, fc) = steps[n]
  BY PrepareSteps
<1>2. s = steps[n] BY <1>1
<1>3. n \in Nat /\ DOMAIN fc = 1..n OBVIOUS
<1> DEFINE P == {k \in Nat : k <= n => Halfway(fc, k, steps[k])}
<1> HIDE DEF n, T
<1>4. 0 \in P
  <2> SUFFICES ASSUME NEW w \in S
               PROVE  /\ manager[w].counter = Cardinality(After(graph, fc, 0, w))
                      /\ Before(graph, fc, 0, w) # {} => manager[w].isUnused
                      /\ After(graph, fc, 0, w) = {} => w \notin allocated
    BY <1>1 DEF Halfway, Unprepared
  <2>1. After(graph, fc, 0, w) = Before(graph, fc, n, w)
    <3>1. 0+1..n = 1..n OBVIOUS
    <3> QED BY <3>1 DEF After, Before, n
  <2>2. manager[w].counter = Cardinality(Before(graph, fc, n, w)) BY DEF HasCounted, n
  <2>3. Before(graph, fc, 0, w) = {} BY DEF Before
  <2>4. Before(graph, fc, n, w) # {} BY <1>3 DEF Before, Shared
  <2> QED BY <2>1, <2>2, <2>3, <2>4
<1>5. ASSUME NEW k \in Nat, k \in P PROVE k + 1 \in P
  <2> SUFFICES ASSUME k + 1 <= n PROVE Halfway(fc, k + 1, steps[k + 1]) OBVIOUS
  <2>1. k + 1 \in 1..n /\ (k + 1) - 1 = k /\ k \in 0..n /\ k <= n /\ k + 1 \in 0..n BY <1>3
  <2>2. steps[k + 1] = PrepareTask(steps[k], fc[k + 1]) /\ steps[k] \in T /\ steps[k + 1] \in T BY <1>1, <2>1
  <2>3. Halfway(fc, k, steps[k]) BY <1>5, <2>1
  <2>4. fc[k + 1] \in ToSet(fc) /\ Weights(graph, fc[k + 1]) \in Shared(graph, fc)
    BY <1>3, <2>1 DEF ToSet, Shared
  <2>5. PrepareStep(steps[k + 1], steps[k], fc[k + 1]) BY <2>2, <2>4, PrepareTaskIs DEF T
  <2> QED BY <1>3, <2>2, <2>3, <2>5, OneMorePrepared DEF n, T
<1> HIDE DEF P
<1>6. Nat \subseteq P BY <1>4, <1>5, SetInduction
<1>7. Halfway(fc, n, s) BY <1>2, <1>3, <1>6 DEF P
<1>8. s \in T BY <1>1, <1>2, <1>3
<1> SUFFICES ASSUME NEW w \in S PROVE MarkedAsUnused(s.manager, w) /\ w \notin s.allocated OBVIOUS
<1>9. After(graph, fc, n, w) = {} BY <1>3 DEF After, n
<1>10. Before(graph, fc, n, w) # {} BY <1>3 DEF Before, Shared
<1>11. Cardinality(After(graph, fc, n, w)) = 0 BY <1>9, FS_EmptySet
<1>12. s.manager \in [S -> Managed] BY <1>8 DEF T, Prepared
<1> QED BY <1>7, <1>9, <1>10, <1>11, <1>12 DEF Halfway, MarkedAsUnused, AreWeightsManaged

Configured(ts, n, g) == IF HasFunction(g, n) /\ n \notin ToSet(ts) THEN Append(ts, n) ELSE ts

LEMMA ConfiguredSteps ==
    ASSUME NEW g, NEW T, NEW order \in Seq(T)
    PROVE  \E steps \in [0..Len(order) -> Seq(T)] :
              /\ steps[0] = <<>> /\ \A k \in 1..Len(order) : steps[k] = Configured(steps[k - 1], order[k], g)
              /\ ConfigureAllNodes(g, order) = steps[Len(order)]
<1> DEFINE n == Len(order)
           Step == [x \in (Seq(T)) \X (1..n) |-> Configured(x[1], order[x[2]], g)]
<1>1. n \in Nat /\ DOMAIN order = 1..n OBVIOUS
<1>2. /\ <<>> \in Seq(T)
      /\ \A x \in Seq(T), k \in 1..n : Configured(x, order[k], g) \in Seq(T)
  <2>1. \A x \in Seq(T), k \in 1..n : order[k] \in T BY <1>1
  <2> QED BY <2>1 DEF Configured
<1>3. Step \in [(Seq(T)) \X (1..n) -> Seq(T)] /\ \A x \in Seq(T), k \in 1..n : Step[<<x, k>>] = Configured(x, order[k], g)
  BY <1>2
<1> HIDE DEF n, Step
<1> DEFINE Eq(it) == it = [z \in SUBSET DOMAIN order |->
                             IF z = {} THEN <<>> ELSE Configured(it[z \ {Max(z)}], order[Max(z)], g)]
           tab == CHOOSE it : Eq(it)
<1>4. ConfigureAllNodes(g, order) = tab[DOMAIN order]
  BY Zenon DEF FoldLeft, MapThenFoldSet, ConfigureAllNodes, Configured
<1>5. PICK it \in [SUBSET (1..n) -> Seq(T)] : FoldsBy(it, 1..n, <<>>, Step)
  <2>1. HasFold(n, Seq(T), <<>>, Step) BY <1>1, <1>2, <1>3, FoldOfSet
  <2> QED BY <2>1 DEF HasFold
<1>6. Eq(it)
  <2>1. ASSUME NEW z \in SUBSET (1..n)
        PROVE  it[z] = IF z = {} THEN <<>> ELSE Configured(it[z \ {Max(z)}], order[Max(z)], g)
    <3>1. CASE z = {} BY <1>5, <3>1 DEF FoldsBy
    <3>2. CASE z # {}
      <4>1. Max(z) \in 1..n BY <1>1, <3>2, MaxOfSome
      <4>2. it[z \ {Max(z)}] \in Seq(T)
        <5>1. z \ {Max(z)} \in SUBSET (1..n) OBVIOUS
        <5> QED BY <1>5, <5>1
      <4>3. it[z] = Step[<<it[z \ {Max(z)}], Max(z)>>] BY <1>5, <3>2 DEF FoldsBy
      <4> QED BY <1>3, <3>2, <4>1, <4>2, <4>3
    <3> QED BY <3>1, <3>2
  <2> QED BY <1>1, <1>5, <2>1
<1>7. Eq(tab)
  <2> HIDE DEF Eq
  <2> QED BY <1>6
<1> HIDE DEF tab
<1>8. ASSUME NEW z \in SUBSET (1..n), z # {}, tab[z \ {Max(z)}] \in Seq(T)
      PROVE  tab[z] = Step[<<tab[z \ {Max(z)}], Max(z)>>]
  <2>1. Max(z) \in 1..n BY <1>1, <1>8, MaxOfSome
  <2>2. tab[z] = Configured(tab[z \ {Max(z)}], order[Max(z)], g) BY <1>1, <1>7, <1>8
  <2> QED BY <1>3, <1>8, <2>1, <2>2
<1>9. tab[{}] = <<>> BY <1>1, <1>7
<1>10. Folded(tab[1..n], n, Seq(T), <<>>, Step) BY <1>1, <1>2, <1>3, <1>8, <1>9, FoldTable
<1>11. PICK steps \in [0..n -> Seq(T)] : Stepwise(steps, n, <<>>, Step) /\ tab[1..n] = steps[n]
  BY <1>10 DEF Folded
<1>12. ASSUME NEW k \in 1..n PROVE steps[k] = Configured(steps[k - 1], order[k], g)
  <2>1. k - 1 \in 0..n BY <1>1
  <2>2. steps[k - 1] \in Seq(T) BY <1>11, <2>1
  <2> QED BY <1>3, <1>11, <2>2 DEF Stepwise
<1>13. steps[0] = <<>> BY <1>11 DEF Stepwise
<1>14. ConfigureAllNodes(g, order) = steps[n] BY <1>1, <1>4, <1>11
<1> HIDE <1>2, <1>7, <1>8
<1> QED BY <1>11, <1>12, <1>13, <1>14 DEF n

(* What finalize_graph knows of the weights.                               *)
WeightsInv ==
    /\ stage \in {"build", "mutate", "configure", "prepare"} => copies = <<>>
    /\ stage = "prepare" => tasks \in Seq(LiveNodes(graph)) /\ manager = ManageWeights(graph, tasks)
    /\ stage \in {"memory", "ready", "loaded", "executed"} =>
         \A n \in ToSet(FullyConnected(graph, tasks)) :
            MarkedAsUnused(manager, Weights(graph, n)) /\ Weights(graph, n) \notin allocated

LEMMA WeightsInvNext == GraphInv /\ WeightsInv /\ [Next]_vars => WeightsInv'
<1> SUFFICES ASSUME GraphInv, WeightsInv, [Next]_vars PROVE WeightsInv' OBVIOUS
<1>1. CASE Frontend
  <2>1. stage = "build" /\ stage' \in {"build", "mutate"} /\ copies' = copies
    BY <1>1 DEF Frontend, AddSource, AddComputing, AddOutputs, Grow
  <2> QED BY <2>1 DEF WeightsInv
<1>2. CASE RunBackendPasses BY <1>2 DEF WeightsInv, RunBackendPasses
<1>3. CASE ConfigureWorkload
  <2>1. PICK rank : Ranked(graph, rank) BY RankedIsGood DEF GraphInv
  <2>2. Dfs(graph) \in Seq(LiveNodes(graph)) BY <2>1, DfsIsTopological
  <2>3. ConfigureAllNodes(graph, Dfs(graph)) \in Seq(LiveNodes(graph))
    <3> DEFINE q == Dfs(graph)
    <3> HIDE DEF q
    <3>1. Len(q) \in Nat BY <2>2 DEF q
    <3> QED BY <2>2, <3>1, ConfiguredSteps DEF q
  <2>4. /\ copies' = copies /\ graph' = graph /\ stage' \in {"prepare", "crashed"}
        /\ stage' = "prepare" =>
             tasks' = ConfigureAllNodes(graph, Dfs(graph)) /\ manager' = ManageWeights(graph, tasks')
    BY <1>3 DEF ConfigureWorkload
  <2>5. copies = <<>> BY <1>3 DEF ConfigureWorkload, WeightsInv
  <2>6. stage' = "prepare" => tasks' \in Seq(LiveNodes(graph')) /\ manager' = ManageWeights(graph', tasks')
    BY <2>3, <2>4
  <2> QED BY ONLY <2>4, <2>5, <2>6 DEF WeightsInv
<1>4. CASE PrepareAllTasks
  <2> DEFINE fc == FullyConnected(graph, tasks)
             s == FoldLeft(PrepareTask, Unprepared, fc)
  <2>1. /\ stage = "prepare" /\ stage' = IF s.found THEN "memory" ELSE "crashed"
        /\ manager' = s.manager /\ allocated' = s.allocated /\ graph' = graph /\ tasks' = tasks
    BY <1>4 DEF PrepareAllTasks, Unprepared
  <2>2. copies = <<>> /\ tasks \in Seq(LiveNodes(graph)) /\ manager = ManageWeights(graph, tasks)
    BY <2>1 DEF WeightsInv
  <2>3. fc \in Seq(LiveNodes(graph)) BY <2>2, OnlyIs DEF FullyConnected
  <2>4. HasCounted(graph, fc, Len(fc), manager) /\ manager \in [Shared(graph, fc) -> Managed]
    BY <2>2, <2>3, ManageWeightsIs
  <2> HIDE DEF fc, s
  <2>5. s.found => \A w \in Shared(graph, fc) : MarkedAsUnused(s.manager, w) /\ w \notin s.allocated
    BY <2>2, <2>3, <2>4, PreparedIs DEF s
  <2>6. \A n \in ToSet(fc) : Weights(graph, n) \in Shared(graph, fc) BY DEF ToSet, Shared
  <2>7. \A n \in ToSet(FullyConnected(graph', tasks')) : Weights(graph', n) \in Shared(graph, fc)
    BY <2>1, <2>6 DEF fc
  <2> QED BY <2>1, <2>5, <2>7 DEF WeightsInv
<1>5. CASE UNCHANGED <<graph, tasks, manager, allocated>> /\ stage = "memory" /\ stage' \in {"ready", "out_of_range"}
  BY <1>5 DEF WeightsInv
<1>6. CASE ConfigureTransitionManager BY <1>5, <1>6 DEF ConfigureTransitionManager
<1>7. CASE AllocateAllTensors
  <2>1. /\ UNCHANGED <<graph, tasks, manager>> /\ stage = "memory" /\ stage' = "ready"
        /\ allocated' = allocated \union (Allocated(graph, DOMAIN graph.tensors) \ Unused)
    BY <1>7 DEF AllocateAllTensors
  <2>2. \A w : MarkedAsUnused(manager, w) => w \in Unused BY DEF Unused, MarkedAsUnused, AreWeightsManaged
  <2> QED BY <2>1, <2>2 DEF WeightsInv
<1>8. CASE /\ UNCHANGED <<graph, tasks, manager, allocated, copies>>
           /\ stage \in {"ready", "loaded", "executed"} /\ stage' \in {"ready", "loaded", "executed", "crashed", "returned"}
  BY <1>8 DEF WeightsInv
<1>9. CASE CallInputAccessors BY <1>8, <1>9 DEF CallInputAccessors
<1>10. CASE CallAllTasks BY <1>8, <1>10 DEF CallAllTasks
<1>11. CASE CallOutputAccessors BY <1>8, <1>11 DEF CallOutputAccessors
<1>12. CASE UNCHANGED vars BY <1>12 DEF vars, WeightsInv
<1> QED BY <1>1, <1>2, <1>3, <1>4, <1>6, <1>7, <1>9, <1>10, <1>11, <1>12 DEF Next

(* However many layers share weights, once all have copied them no memory  *)
(* is left to them: the counters of the manager count exactly the layers   *)
(* that are to come, and what it knows to be unused is not allocated again.*)
THEOREM WeightsAreReleased == Spec => []WeightsReleased
<1>1. Init => WeightsInv BY DEF Init, WeightsInv
<1>2. WeightsInv => WeightsReleased BY DEF WeightsInv, WeightsReleased
<1> QED BY <1>1, <1>2, WeightsInvNext, GraphStaysGood, PTL DEF Spec

-----------------------------------------------------------------------------
(* The lifetimes of the group                                              *)

(* They are those of the tasks as they are executed.                       *)
LifetimesInv ==
    /\ stage \in {"build", "mutate", "configure", "prepare", "memory"} => lifetimes = {}
    /\ stage \in {"prepare", "memory"} => tasks \in Seq(LiveNodes(graph))
    /\ lifetimes # {} =>
         /\ tasks \in Seq(LiveNodes(graph)) /\ UnreadOutputs(graph, tasks) = {}
         /\ lifetimes = HandleLifetimes(graph, tasks).spans

LEMMA LifetimesInvNext == GraphInv /\ LifetimesInv /\ [Next]_vars => LifetimesInv'
<1> SUFFICES ASSUME GraphInv, LifetimesInv, [Next]_vars PROVE LifetimesInv' OBVIOUS
<1>1. CASE Frontend
  <2>1. stage = "build" /\ stage' \in {"build", "mutate"} /\ lifetimes' = lifetimes
    BY <1>1 DEF Frontend, AddSource, AddComputing, AddOutputs, Grow
  <2> QED BY <2>1 DEF LifetimesInv
<1>2. CASE RunBackendPasses BY <1>2 DEF LifetimesInv, RunBackendPasses
<1>3. CASE ConfigureWorkload
  <2>1. PICK rank : Ranked(graph, rank) BY RankedIsGood DEF GraphInv
  <2>2. Dfs(graph) \in Seq(LiveNodes(graph)) BY <2>1, DfsIsTopological
  <2>3. ConfigureAllNodes(graph, Dfs(graph)) \in Seq(LiveNodes(graph))
    <3> DEFINE q == Dfs(graph)
    <3> HIDE DEF q
    <3>1. Len(q) \in Nat BY <2>2 DEF q
    <3> QED BY <2>2, <3>1, ConfiguredSteps DEF q
  <2>4. /\ lifetimes' = lifetimes /\ lifetimes = {} /\ graph' = graph /\ stage' \in {"prepare", "crashed"}
        /\ stage' = "prepare" => tasks' = ConfigureAllNodes(graph, Dfs(graph))
    BY <1>3 DEF ConfigureWorkload, LifetimesInv
  <2> QED BY <2>3, <2>4 DEF LifetimesInv
<1>4. CASE PrepareAllTasks
  <2>1. /\ stage = "prepare" /\ stage' \in {"memory", "crashed"}
        /\ UNCHANGED <<graph, tasks, lifetimes>>
    BY <1>4 DEF PrepareAllTasks
  <2> QED BY <2>1 DEF LifetimesInv
<1>5. CASE ConfigureTransitionManager
  <2>1. /\ stage = "memory" /\ stage' \in {"out_of_range", "ready"} /\ UNCHANGED <<graph, tasks>>
        /\ \/ lifetimes' = lifetimes
           \/ UnreadOutputs(graph, tasks) = {} /\ lifetimes' = HandleLifetimes(graph, tasks).spans
    BY <1>5 DEF ConfigureTransitionManager
  <2>2. tasks \in Seq(LiveNodes(graph)) /\ lifetimes = {} BY <2>1 DEF LifetimesInv
  <2> QED BY <2>1, <2>2 DEF LifetimesInv
<1>6. CASE AllocateAllTensors
  <2>1. stage = "memory" /\ stage' = "ready" /\ UNCHANGED <<graph, tasks, lifetimes>>
    BY <1>6 DEF AllocateAllTensors
  <2> QED BY <2>1 DEF LifetimesInv
<1>7. CASE /\ UNCHANGED <<graph, tasks, lifetimes>>
           /\ stage \in {"ready", "loaded", "executed"} /\ stage' \in {"ready", "loaded", "executed", "crashed", "returned"}
  BY <1>7 DEF LifetimesInv
<1>8. CASE CallInputAccessors BY <1>7, <1>8 DEF CallInputAccessors
<1>9. CASE CallAllTasks BY <1>7, <1>9 DEF CallAllTasks
<1>10. CASE CallOutputAccessors BY <1>7, <1>10 DEF CallOutputAccessors
<1>11. CASE UNCHANGED vars BY <1>11 DEF vars, LifetimesInv
<1> QED BY <1>1, <1>2, <1>3, <1>4, <1>5, <1>6, <1>8, <1>9, <1>10, <1>11 DEF Next

(* From the first task that touches a handle to the last that reads it     *)
(* the group manages the handle, once: what configure_handle_lifetime      *)
(* counts is what the tasks do when they run, whichever tensors are        *)
(* windows of one handle and whichever tasks work in place.                *)
THEOREM HandlesManagedWhileRead == Spec => []ReadWhileManaged
<1>1. Init => LifetimesInv BY DEF Init, LifetimesInv
<1>2. GraphInv /\ LifetimesInv => ReadWhileManaged
  <2> SUFFICES ASSUME GraphInv, LifetimesInv, NEW s \in lifetimes
               PROVE  /\ \A r \in lifetimes : r.handle = s.handle => r = s
                      /\ \A x, y \in DOMAIN tasks :
                            /\ \E t \in TouchedTensors(tasks[x]) : ParentHandle(graph, t) = s.handle
                            /\ \E t \in RunTensors(graph, tasks[y]) : ParentHandle(graph, t) = s.handle
                            => s.from <= x /\ y <= s.to
    BY DEF ReadWhileManaged
  <2>1. /\ tasks \in Seq(LiveNodes(graph)) /\ UnreadOutputs(graph, tasks) = {}
        /\ lifetimes = HandleLifetimes(graph, tasks).spans
    BY DEF LifetimesInv
  <2>2. graph \in Graphs BY RankedIsGood DEF GraphInv
  <2>3. \A x \in DOMAIN tasks : tasks[x] \in LiveNodes(graph) /\ graph.nodes[tasks[x]].in \in Seq(Nat)
    <3>1. \A n \in LiveNodes(graph) : graph.nodes[n] \in Nodes BY <2>2, GraphIs
    <3>2. \A n \in LiveNodes(graph) : graph.nodes[n].in \in Seq(Nat) BY <3>1 DEF Nodes
    <3> QED BY <2>1, <3>2
  <2> DEFINE R == ReadsOf(graph, tasks)
             W == WritesOf(graph, tasks)
             n == Len(tasks)
  <2>4. /\ s.handle \in DOMAIN graph.handles \ ConstHandles(graph)
        /\ \A r \in lifetimes : r.handle = s.handle => r = s
        /\ Covers(s, R, W, n)
    BY <2>1, <2>3, LifetimesCover
  <2>5. DOMAIN tasks = 1..n BY <2>1
  <2>6. \A x \in DOMAIN tasks : R[x] = InputHandles(graph, tasks[x]) /\ W[x] = OutputHandles(graph, tasks[x])
    BY DEF ReadsOf, WritesOf
  <2> HIDE DEF R, W, n
  <2>7. ASSUME NEW x \in DOMAIN tasks, NEW t \in RunTensors(graph, tasks[x]), ParentHandle(graph, t) = s.handle
        PROVE  s.handle \in ToSet(R[x])
    <3>1. t \in ReadTensors(graph, tasks[x]) BY DEF RunTensors, ReadTensors
    <3>2. graph.nodes[tasks[x]].in \in Seq(Nat) BY <2>3
    <3>3. s.handle \in ToSet(InputHandles(graph, tasks[x])) BY <2>4, <2>7, <3>1, <3>2, InputHandlesAre
    <3> QED BY <2>6, <3>3
  <2>8. ASSUME NEW x \in DOMAIN tasks, NEW t \in WriteTensors(graph, tasks[x]), ParentHandle(graph, t) = s.handle
        PROVE  s.handle \in W[x]
    BY <2>4, <2>6, <2>8 DEF OutputHandles
  <2>9. ASSUME NEW x \in DOMAIN tasks, \E t \in TouchedTensors(tasks[x]) : ParentHandle(graph, t) = s.handle
        PROVE  s.from <= x
    <3>1. s.handle \in ToSet(R[x]) \union W[x] BY <2>7, <2>8, <2>9 DEF TouchedTensors
    <3> QED BY <2>4, <2>5, <3>1 DEF Covers, Touching
  <2>10. ASSUME NEW y \in DOMAIN tasks, \E t \in RunTensors(graph, tasks[y]) : ParentHandle(graph, t) = s.handle
         PROVE  y <= s.to
    <3>1. s.handle \in ToSet(R[y]) BY <2>7, <2>10
    <3> QED BY <2>4, <2>5, <3>1 DEF Covers
  <2> QED BY <2>4, <2>9, <2>10
<1> QED BY <1>1, <1>2, LifetimesInvNext, GraphStaysGood, PTL DEF Spec

=============================================================================
