---------------------------- MODULE GraphProofs ----------------------------
(***************************************************************************)
(* Lemmas about the operations of a graph: what a call changes, that the   *)
(* nodes, the edges and the tensors still agree about every connection     *)
(* after it, and that the nodes can still be ranked along the edges.       *)
(*                                                                         *)
(* A call of the code makes many connections, one in each turn of a loop.  *)
(* The turns are the elements of a table of steps, and what each turn      *)
(* keeps holds of the last element (DataInduction).                        *)
(***************************************************************************)
EXTENDS CrossLayerMemory, DataInduction, FiniteSetTheorems, FunctionTheorems

-----------------------------------------------------------------------------
(* Sequences *)

Kept(kept, x, S) == IF x \in S THEN Append(kept, x) ELSE kept

LEMMA OnlySteps ==
    ASSUME NEW T, NEW s \in Seq(T), NEW S
    PROVE  \E steps \in [0..Len(s) -> Seq(T)] :
              /\ steps[0] = <<>> /\ \A k \in 1..Len(s) : steps[k] = Kept(steps[k - 1], s[k], S)
              /\ Only(s, S) = steps[Len(s)]
<1> DEFINE n == Len(s)
           Step == [x \in (Seq(T)) \X (1..n) |-> Kept(x[1], s[x[2]], S)]
<1>1. n \in Nat /\ DOMAIN s = 1..n OBVIOUS
<1>2. /\ <<>> \in Seq(T)
      /\ \A x \in Seq(T), k \in 1..n : Kept(x, s[k], S) \in Seq(T)
  <2>1. \A x \in Seq(T), k \in 1..n : s[k] \in T BY <1>1
  <2> QED BY <2>1 DEF Kept
<1>3. Step \in [(Seq(T)) \X (1..n) -> Seq(T)] /\ \A x \in Seq(T), k \in 1..n : Step[<<x, k>>] = Kept(x, s[k], S)
  BY <1>2
<1> HIDE DEF n, Step
<1> DEFINE Eq(it) == it = [z \in SUBSET DOMAIN s |->
                             IF z = {} THEN <<>> ELSE Kept(it[z \ {Max(z)}], s[Max(z)], S)]
           tab == CHOOSE it : Eq(it)
<1>4. Only(s, S) = tab[DOMAIN s]
  BY Zenon DEF FoldLeft, MapThenFoldSet, Only, Kept
<1>5. PICK it \in [SUBSET (1..n) -> Seq(T)] : FoldsBy(it, 1..n, <<>>, Step)
  <2>1. HasFold(n, Seq(T), <<>>, Step) BY <1>1, <1>2, <1>3, FoldOfSet
  <2> QED BY <2>1 DEF HasFold
<1>6. Eq(it)
  <2>1. ASSUME NEW z \in SUBSET (1..n)
        PROVE  it[z] = IF z = {} THEN <<>> ELSE Kept(it[z \ {Max(z)}], s[Max(z)], S)
    <3>1. CASE z = {} BY <1>5, <3>1 DEF FoldsBy
    <3>2. CASE z # {}
      <4>1. Max(z) \in 1..n BY <1>1, <3>2, MaxOfSome
      <4>2. it[z \ {Max(z)}] \in Seq(T)
        <5>1. z \ {Max(z)} \in SUBSET (1..n) OBVIOUS
        <5> QED BY <1>5, <5>1
      <4>3. it[z] = Step[<<it[z \ {Max(z)}], Max(z)>>] BY <1>5, <3>2 DEF FoldsBy
      <4> QED BY <1>3, <3>2, <4>1, <4>2, <4>3
    <3> QED BY <3>1, <3>2
  <2> QED BY <1>1, <1>5, <2>1
<1>7. Eq(tab)
  <2> HIDE DEF Eq
  <2> QED BY <1>6
<1> HIDE DEF tab
<1>8. ASSUME NEW z \in SUBSET (1..n), z # {}, tab[z \ {Max(z)}] \in Seq(T)
      PROVE  tab[z] = Step[<<tab[z \ {Max(z)}], Max(z)>>]
  <2>1. Max(z) \in 1..n BY <1>1, <1>8, MaxOfSome
  <2>2. tab[z] = Kept(tab[z \ {Max(z)}], s[Max(z)], S) BY <1>1, <1>7, <1>8
  <2> QED BY <1>3, <1>8, <2>1, <2>2
<1>9. tab[{}] = <<>> BY <1>1, <1>7
<1>10. Folded(tab[1..n], n, Seq(T), <<>>, Step) BY <1>1, <1>2, <1>3, <1>8, <1>9, FoldTable
<1>11. PICK steps \in [0..n -> Seq(T)] : Stepwise(steps, n, <<>>, Step) /\ tab[1..n] = steps[n]
  BY <1>10 DEF Folded
<1>12. ASSUME NEW k \in 1..n PROVE steps[k] = Kept(steps[k - 1], s[k], S)
  <2>1. k - 1 \in 0..n BY <1>1
  <2>2. steps[k - 1] \in Seq(T) BY <1>11, <2>1
  <2> QED BY <1>3, <1>11, <2>2 DEF Stepwise
<1>13. steps[0] = <<>> BY <1>11 DEF Stepwise
<1>14. Only(s, S) = steps[n] BY <1>1, <1>4, <1>11
<1> HIDE <1>2, <1>7, <1>8
<1> QED BY <1>11, <1>12, <1>13, <1>14 DEF n
LEMMA AppendedElements ==
    ASSUME NEW S, NEW s \in Seq(S), NEW e \in S
    PROVE  /\ Append(s, e) \in Seq(S) /\ Len(s) \in Nat /\ Len(Append(s, e)) = Len(s) + 1
           /\ DOMAIN s = 1..Len(s) /\ DOMAIN Append(s, e) = 1..Len(s)+1
           /\ Append(s, e)[Len(s) + 1] = e /\ \A x \in 1..Len(s) : Append(s, e)[x] = s[x]
OBVIOUS

LEMMA Concatenated ==
    ASSUME NEW S, NEW s \in Seq(S), NEW t \in Seq(S)
    PROVE  /\ s \o t \in Seq(S) /\ Len(s) \in Nat /\ Len(t) \in Nat /\ Len(s \o t) = Len(s) + Len(t)
           /\ DOMAIN s = 1..Len(s) /\ DOMAIN t = 1..Len(t) /\ DOMAIN (s \o t) = 1..Len(s)+Len(t)
           /\ \A x \in 1..Len(s) : (s \o t)[x] = s[x]
           /\ \A x \in 1..Len(t) : (s \o t)[Len(s) + x] = t[x]
OBVIOUS

LEMMA FunctionIsSequence ==
    ASSUME NEW S, NEW n \in Nat, NEW s, s = [x \in 1..n |-> s[x]], \A x \in 1..n : s[x] \in S
    PROVE  s \in Seq(S) /\ Len(s) = n /\ DOMAIN s = 1..n
OBVIOUS

-----------------------------------------------------------------------------
(* Graphs *)

NodeTypes == SourceTypes \union OperationTypes \union {"Output", "FusedConv"}

Nodes == [type : NodeTypes, in : Seq(Nat), out : SUBSET Nat, outputs : Seq(Nat),
          enabled : BOOLEAN, first : Nat, last : Nat, part : Nat \X Nat]

Edges == [from : Nat \ {0}, fromIdx : Nat, to : Nat, toIdx : Nat, tensor : Nat]

Tensors == [bound : SUBSET Nat, accessor : BOOLEAN, width : Nat, handle : Nat]

Handles == [parent : Nat, offset : Nat, width : Nat]

Graphs == [nodes : Seq(Nodes \union {NoNode}), edges : Seq(Edges \union {NoEdge}),
           tensors : Seq(Tensors), handles : Seq(Handles)]

LEMMA GraphIs ==
    ASSUME NEW g \in Graphs
    PROVE  /\ Len(g.nodes) \in Nat /\ DOMAIN g.nodes = 1..Len(g.nodes)
           /\ \A n \in DOMAIN g.nodes : n \notin LiveNodes(g) => g.nodes[n] = NoNode
           /\ \A n \in LiveNodes(g) : n \in DOMAIN g.nodes /\ g.nodes[n] \in Nodes /\ g.nodes[n] # NoNode
           /\ Len(g.edges) \in Nat /\ DOMAIN g.edges = 1..Len(g.edges)
           /\ \A e \in DOMAIN g.edges : e \notin LiveEdges(g) => g.edges[e] = NoEdge
           /\ \A e \in LiveEdges(g) : e \in DOMAIN g.edges /\ g.edges[e] \in Edges /\ g.edges[e] # NoEdge
           /\ Len(g.tensors) \in Nat /\ DOMAIN g.tensors = 1..Len(g.tensors)
           /\ \A t \in DOMAIN g.tensors : g.tensors[t] \in Tensors
<1>1. /\ g.nodes \in Seq(Nodes \union {NoNode}) /\ g.edges \in Seq(Edges \union {NoEdge})
      /\ g.tensors \in Seq(Tensors)
  BY DEF Graphs
<1> HIDE DEF Nodes, Edges, Tensors, NoNode, NoEdge
<1>2. \A n \in DOMAIN g.nodes : g.nodes[n] \in Nodes \union {NoNode} BY <1>1
<1>3. \A n \in DOMAIN g.edges : g.edges[n] \in Edges \union {NoEdge} BY <1>1
<1>4. \A t \in DOMAIN g.tensors : g.tensors[t] \in Tensors BY <1>1
<1> QED BY <1>1, <1>2, <1>3, <1>4 DEF LiveNodes, LiveEdges

LEMMA NotNoNode == \A x \in Nodes : x # NoNode
BY DEF Nodes, NoNode, NodeTypes, SourceTypes, OperationTypes

LEMMA NotNoEdge == \A c \in Edges : c # NoEdge
BY DEF Edges, NoEdge, Empty

(* What an edge, a node and a tensor know.  A node that is no source has   *)
(* an input, a node that computes has one output.                          *)
EdgeKnown(g, e) == LET c == g.edges[e] IN
    /\ c.from \in LiveNodes(g) /\ c.to \in LiveNodes(g)
    /\ c.fromIdx \in Outputs(g, c.from) /\ c.toIdx \in Inputs(g, c.to)
    /\ e \in g.nodes[c.from].out
    /\ g.nodes[c.to].in[c.toIdx] = e
    /\ c.tensor = g.nodes[c.from].outputs[c.fromIdx]
    /\ e \in g.tensors[c.tensor].bound

Shaped(node) ==
    /\ node.type \in SourceTypes => Len(node.in) = 0
    /\ node.type \notin SourceTypes => Len(node.in) >= 1
    /\ node.type \in (OperationTypes \ {"Split"}) \union {"FusedConv"} => Len(node.outputs) = 1
    /\ node.type = "FullyConnected" => Len(node.in) = 2

NodeKnows(g, n) ==
    /\ \A e \in g.nodes[n].out : e \in LiveEdges(g) /\ g.edges[e].from = n
    /\ \A i \in Inputs(g, n) : LET e == g.nodes[n].in[i] IN
          e # Empty => e \in LiveEdges(g) /\ g.edges[e].to = n /\ g.edges[e].toIdx = i
    /\ \A k \in Outputs(g, n) : g.nodes[n].outputs[k] \in DOMAIN g.tensors
    /\ Shaped(g.nodes[n])

TensorKnows(g, t) == \A e \in g.tensors[t].bound : e \in LiveEdges(g) /\ g.edges[e].tensor = t

WellFormed(g) ==
    /\ g \in Graphs
    /\ \A e \in LiveEdges(g) : EdgeKnown(g, e)
    /\ \A n \in LiveNodes(g) : NodeKnows(g, n)
    /\ \A t \in DOMAIN g.tensors : TensorKnows(g, t)

LEMMA WellFormedAgrees ==
    ASSUME NEW g, WellFormed(g)
    PROVE  EdgesAgree(g)
<1>1. ASSUME NEW e \in LiveEdges(g)
      PROVE  LET c == g.edges[e] IN
          /\ {c.from, c.to} \subseteq LiveNodes(g)
          /\ e \in g.nodes[c.from].out
          /\ g.nodes[c.to].in[c.toIdx] = e
          /\ c.tensor = g.nodes[c.from].outputs[c.fromIdx]
          /\ e \in g.tensors[c.tensor].bound
  <2>1. EdgeKnown(g, e) BY DEF WellFormed
  <2> QED BY ONLY <2>1 DEF EdgeKnown
<1>2. ASSUME NEW n \in LiveNodes(g)
      PROVE /\ \A e \in g.nodes[n].out : e \in LiveEdges(g) /\ g.edges[e].from = n
            /\ \A i \in Inputs(g, n) : LET e == g.nodes[n].in[i] IN
                  e # Empty => e \in LiveEdges(g) /\ g.edges[e].to = n /\ g.edges[e].toIdx = i
  <2>1. NodeKnows(g, n) BY DEF WellFormed
  <2> QED BY ONLY <2>1 DEF NodeKnows
<1>3. \A t \in DOMAIN g.tensors : \A e \in g.tensors[t].bound :
          e \in LiveEdges(g) /\ g.edges[e].tensor = t
  BY DEF WellFormed, TensorKnows
<1> QED BY <1>1, <1>2, <1>3 DEF EdgesAgree

LEMMA EdgeFacts ==
    ASSUME NEW g, WellFormed(g), NEW e \in LiveEdges(g)
    PROVE  LET c == g.edges[e] IN
              /\ c.from \in LiveNodes(g) /\ c.to \in LiveNodes(g)
              /\ c.fromIdx \in Outputs(g, c.from) /\ c.toIdx \in Inputs(g, c.to)
              /\ e \in g.nodes[c.from].out
              /\ g.nodes[c.to].in[c.toIdx] = e
              /\ c.tensor = g.nodes[c.from].outputs[c.fromIdx]
              /\ e \in g.tensors[c.tensor].bound
              /\ c.tensor \in DOMAIN g.tensors
<1>1. EdgeKnown(g, e) BY DEF WellFormed
<1>2. g.edges[e].from \in LiveNodes(g) BY <1>1 DEF EdgeKnown
<1>3. NodeKnows(g, g.edges[e].from) BY <1>2 DEF WellFormed
<1> QED BY <1>1, <1>3 DEF EdgeKnown, NodeKnows

(* Changes that nothing of this sees: flags, handles, what nodes compute.  *)
Alike(h, g) ==
    /\ h \in Graphs /\ h.edges = g.edges
    /\ DOMAIN h.nodes = DOMAIN g.nodes /\ LiveNodes(h) = LiveNodes(g)
    /\ \A n \in LiveNodes(g) : /\ h.nodes[n].type = g.nodes[n].type /\ h.nodes[n].in = g.nodes[n].in
                               /\ h.nodes[n].out = g.nodes[n].out /\ h.nodes[n].outputs = g.nodes[n].outputs
    /\ DOMAIN h.tensors = DOMAIN g.tensors
    /\ \A t \in DOMAIN g.tensors : h.tensors[t].bound = g.tensors[t].bound

LEMMA AlikeWellFormed ==
    ASSUME NEW g, WellFormed(g), NEW h, Alike(h, g)
    PROVE  WellFormed(h)
<1>1. LiveEdges(h) = LiveEdges(g) /\ LiveNodes(h) = LiveNodes(g) /\ h \in Graphs /\ h.edges = g.edges
  BY DEF Alike, LiveEdges
<1>2. \A n \in LiveNodes(g) : Inputs(h, n) = Inputs(g, n) /\ Outputs(h, n) = Outputs(g, n)
  BY DEF Alike, Inputs, Outputs
<1>3. \A e \in LiveEdges(g) : g.edges[e].from \in LiveNodes(g) /\ g.edges[e].to \in LiveNodes(g)
                              /\ g.edges[e].tensor \in DOMAIN g.tensors
  BY EdgeFacts
<1>4. ASSUME NEW e \in LiveEdges(h) PROVE EdgeKnown(h, e)
  <2>1. EdgeKnown(g, e) BY <1>1 DEF WellFormed
  <2> QED BY <1>1, <1>2, <1>3, <2>1 DEF EdgeKnown, Alike
<1>5. ASSUME NEW n \in LiveNodes(h) PROVE NodeKnows(h, n)
  <2>1. NodeKnows(g, n) BY <1>1 DEF WellFormed
  <2> QED BY <1>1, <1>2, <2>1 DEF NodeKnows, Alike, Shaped
<1>6. ASSUME NEW t \in DOMAIN h.tensors PROVE TensorKnows(h, t)
  <2>1. TensorKnows(g, t) BY DEF WellFormed, Alike
  <2> QED BY <1>1, <2>1 DEF TensorKnows, Alike
<1> QED BY <1>1, <1>4, <1>5, <1>6 DEF WellFormed

(* add_node.                                                               *)
Extended(h, g, type, numInputs, widths) ==
    /\ h \in Graphs /\ h.edges = g.edges
    /\ Len(h.nodes) = Len(g.nodes) + 1 /\ \A n \in DOMAIN g.nodes : h.nodes[n] = g.nodes[n]
    /\ LET new == h.nodes[Len(g.nodes) + 1] IN
          /\ new \in Nodes /\ new.type = type /\ new.out = {}
          /\ Len(new.in) = numInputs /\ \A i \in 1..numInputs : new.in[i] = Empty
          /\ Len(new.outputs) = Len(widths) /\ \A k \in DOMAIN widths : new.outputs[k] = Len(g.tensors) + k
    /\ Len(h.tensors) = Len(g.tensors) + Len(widths)
    /\ \A t \in DOMAIN g.tensors : h.tensors[t] = g.tensors[t]
    /\ \A t \in DOMAIN h.tensors \ DOMAIN g.tensors : h.tensors[t].bound = {}

LEMMA AddNodeIs ==
    ASSUME NEW g \in Graphs, NEW type \in NodeTypes, NEW numInputs \in Nat, NEW widths \in Seq(Nat)
    PROVE  Extended(AddNode(g, type, numInputs, widths), g, type, numInputs, widths)
<1> DEFINE n   == Len(g.nodes) + 1
           in  == [i \in 1..numInputs |-> Empty]
           outputs == [k \in DOMAIN widths |-> Len(g.tensors) + k]
           new == [type |-> type, in |-> in, out |-> {}, outputs |-> outputs,
                   enabled |-> TRUE, first |-> n, last |-> n, part |-> <<1, 1>>]
           tensor(k) == [bound |-> {}, accessor |-> FALSE, width |-> widths[k], handle |-> Empty]
           tensors == [k \in DOMAIN widths |-> tensor(k)]
           h == AddNode(g, type, numInputs, widths)
<1>1. h = [g EXCEPT !.nodes = Append(@, new), !.tensors = @ \o tensors] BY DEF AddNode
<1>2. n \in Nat /\ Len(g.tensors) \in Nat /\ Len(widths) \in Nat /\ DOMAIN widths = 1..Len(widths) BY GraphIs
<1>3. in \in Seq(Nat) /\ Len(in) = numInputs /\ \A i \in 1..numInputs : in[i] = Empty
  BY FunctionIsSequence DEF Empty
<1>4. outputs \in Seq(Nat) /\ Len(outputs) = Len(widths) /\ \A k \in DOMAIN widths : outputs[k] = Len(g.tensors) + k
  <2>1. \A k \in 1..Len(widths) : outputs[k] \in Nat BY <1>2
  <2>2. outputs = [k \in 1..Len(widths) |-> outputs[k]] BY <1>2
  <2> HIDE DEF outputs
  <2>3. outputs \in Seq(Nat) /\ Len(outputs) = Len(widths) BY <1>2, <2>1, <2>2, FunctionIsSequence
  <2> QED BY <2>3 DEF outputs
<1>5. tensors \in Seq(Tensors) /\ Len(tensors) = Len(widths) /\ \A k \in DOMAIN widths : tensors[k] = tensor(k)
  <2>1. \A k \in 1..Len(widths) : tensors[k] \in Tensors BY <1>2 DEF Tensors, Empty
  <2>2. tensors = [k \in 1..Len(widths) |-> tensors[k]] BY <1>2
  <2>3. \A k \in DOMAIN widths : tensors[k] = tensor(k) OBVIOUS
  <2> HIDE DEF tensors
  <2>4. tensors \in Seq(Tensors) /\ Len(tensors) = Len(widths) BY <1>2, <2>1, <2>2, FunctionIsSequence
  <2> QED BY <2>3, <2>4
<1> HIDE DEF in, outputs, tensors
<1>6. new \in Nodes BY <1>2, <1>3, <1>4 DEF Nodes
<1>7. new.type = type /\ new.in = in /\ new.out = {} /\ new.outputs = outputs OBVIOUS
<1> HIDE DEF new, h
<1>8. /\ h.nodes = Append(g.nodes, new) /\ h.edges = g.edges /\ h.tensors = g.tensors \o tensors
      /\ h.handles = g.handles /\ h = [nodes |-> h.nodes, edges |-> h.edges, tensors |-> h.tensors, handles |-> h.handles]
  BY <1>1 DEF Graphs
<1>9. /\ g.nodes \in Seq(Nodes \union {NoNode}) /\ g.edges \in Seq(Edges \union {NoEdge})
      /\ g.tensors \in Seq(Tensors) /\ g.handles \in Seq(Handles)
  BY DEF Graphs
<1> HIDE DEF tensor
<1>10. /\ h.nodes \in Seq(Nodes \union {NoNode}) /\ Len(h.nodes) = n /\ h.nodes[n] = new
       /\ \A m \in DOMAIN g.nodes : h.nodes[m] = g.nodes[m]
  <2>1. new \in Nodes \union {NoNode} BY <1>6
  <2> QED BY <1>8, <1>9, <2>1, AppendedElements
<1>11. /\ h.tensors \in Seq(Tensors) /\ Len(h.tensors) = Len(g.tensors) + Len(widths)
       /\ \A t \in DOMAIN g.tensors : h.tensors[t] = g.tensors[t]
       /\ \A t \in 1..Len(widths) : h.tensors[Len(g.tensors) + t] = tensor(t)
       /\ DOMAIN h.tensors = 1..Len(g.tensors)+Len(widths) /\ DOMAIN g.tensors = 1..Len(g.tensors)
  <2> HIDE DEF n
  <2>1. /\ g.tensors \o tensors \in Seq(Tensors) /\ Len(g.tensors \o tensors) = Len(g.tensors) + Len(tensors)
        /\ DOMAIN (g.tensors \o tensors) = 1..Len(g.tensors)+Len(tensors)
        /\ \A t \in 1..Len(g.tensors) : (g.tensors \o tensors)[t] = g.tensors[t]
        /\ \A t \in 1..Len(tensors) : (g.tensors \o tensors)[Len(g.tensors) + t] = tensors[t]
    <3>1. g.tensors \in Seq(Tensors) /\ tensors \in Seq(Tensors) BY <1>5, <1>9
    <3> DEFINE a == g.tensors
    <3> HIDE DEF a, Tensors
    <3>2. a \in Seq(Tensors) BY <3>1 DEF a
    <3> QED BY <3>1, <3>2, Concatenated DEF a
  <2>2. DOMAIN g.tensors = 1..Len(g.tensors) BY GraphIs
  <2> QED BY ONLY <1>2, <1>5, <1>8, <2>1, <2>2
<1>12. \A t \in DOMAIN h.tensors \ DOMAIN g.tensors : h.tensors[t].bound = {}
  <2> SUFFICES ASSUME NEW t \in DOMAIN h.tensors \ DOMAIN g.tensors PROVE h.tensors[t].bound = {} OBVIOUS
  <2>1. t - Len(g.tensors) \in 1..Len(widths) /\ t = Len(g.tensors) + (t - Len(g.tensors)) BY <1>2, <1>11
  <2>2. h.tensors[t] = tensor(t - Len(g.tensors)) BY <1>11, <2>1
  <2> QED BY <2>2 DEF tensor
<1>13. h \in Graphs BY <1>8, <1>9, <1>10, <1>11 DEF Graphs
<1> QED BY <1>3, <1>4, <1>6, <1>7, <1>8, <1>10, <1>11, <1>12, <1>13 DEF Extended, h

LEMMA SequenceChanged ==
    ASSUME NEW S, NEW s \in Seq(S), NEW x \in DOMAIN s, NEW e \in S
    PROVE  /\ [s EXCEPT ![x] = e] \in Seq(S) /\ DOMAIN [s EXCEPT ![x] = e] = DOMAIN s
           /\ Len([s EXCEPT ![x] = e]) = Len(s)
           /\ [s EXCEPT ![x] = e][x] = e /\ \A y \in DOMAIN s \ {x} : [s EXCEPT ![x] = e][y] = s[y]
OBVIOUS

LEMMA ExtendedLive ==
    ASSUME NEW g \in Graphs, NEW h, NEW type, NEW numInputs \in Nat, NEW widths \in Seq(Nat),
           Extended(h, g, type, numInputs, widths)
    PROVE  /\ LiveNodes(h) = LiveNodes(g) \union {Len(g.nodes) + 1} /\ LiveEdges(h) = LiveEdges(g)
           /\ Len(g.nodes) + 1 \notin LiveNodes(g) /\ Len(g.nodes) + 1 \in Nat
           /\ DOMAIN g.tensors \subseteq DOMAIN h.tensors
           /\ \A k \in DOMAIN widths : Len(g.tensors) + k \in DOMAIN h.tensors \ DOMAIN g.tensors
<1> DEFINE n == Len(g.nodes) + 1
<1>1. /\ h \in Graphs /\ h.edges = g.edges
      /\ Len(h.nodes) = n /\ \A m \in DOMAIN g.nodes : h.nodes[m] = g.nodes[m]
      /\ h.nodes[n] \in Nodes /\ Len(h.tensors) = Len(g.tensors) + Len(widths)
  BY DEF Extended
<1>2. /\ DOMAIN g.nodes = 1..n-1 /\ DOMAIN h.nodes = 1..n /\ n \in Nat /\ n >= 1
      /\ DOMAIN g.tensors = 1..Len(g.tensors) /\ DOMAIN h.tensors = 1..Len(g.tensors)+Len(widths)
      /\ Len(g.tensors) \in Nat /\ Len(widths) \in Nat /\ DOMAIN widths = 1..Len(widths)
  BY <1>1, GraphIs
<1> HIDE DEF n
<1>3. LiveNodes(h) = LiveNodes(g) \union {n}
  <2>1. h.nodes[n] # NoNode BY <1>1, NotNoNode
  <2>2. DOMAIN h.nodes = DOMAIN g.nodes \union {n} BY <1>2
  <2>3. \A m \in DOMAIN g.nodes : h.nodes[m] = g.nodes[m] BY <1>1
  <2> QED BY ONLY <2>1, <2>2, <2>3 DEF LiveNodes
<1>4. n \notin LiveNodes(g) BY <1>2 DEF LiveNodes
<1>5. LiveEdges(h) = LiveEdges(g) BY <1>1 DEF LiveEdges
<1>6. /\ DOMAIN g.tensors \subseteq DOMAIN h.tensors
      /\ \A k \in DOMAIN widths : Len(g.tensors) + k \in DOMAIN h.tensors \ DOMAIN g.tensors
  BY ONLY <1>2
<1> QED BY ONLY <1>2, <1>3, <1>4, <1>5, <1>6 DEF n

LEMMA ExtendedWellFormed ==
    ASSUME NEW g, WellFormed(g), NEW h, NEW type, NEW numInputs \in Nat, NEW widths \in Seq(Nat),
           Extended(h, g, type, numInputs, widths), Shaped(h.nodes[Len(g.nodes) + 1])
    PROVE  WellFormed(h)
<1> DEFINE n == Len(g.nodes) + 1
<1>0. g \in Graphs BY DEF WellFormed
<1>1. /\ h \in Graphs /\ h.edges = g.edges /\ \A m \in LiveNodes(g) : h.nodes[m] = g.nodes[m]
      /\ \A t \in DOMAIN g.tensors : h.tensors[t] = g.tensors[t]
      /\ \A t \in DOMAIN h.tensors \ DOMAIN g.tensors : h.tensors[t].bound = {}
      /\ LiveNodes(h) = LiveNodes(g) \union {n} /\ LiveEdges(h) = LiveEdges(g) /\ n \notin LiveNodes(g)
      /\ DOMAIN g.tensors \subseteq DOMAIN h.tensors
  <2>1. /\ h \in Graphs /\ h.edges = g.edges /\ \A m \in DOMAIN g.nodes : h.nodes[m] = g.nodes[m]
        /\ \A t \in DOMAIN g.tensors : h.tensors[t] = g.tensors[t]
        /\ \A t \in DOMAIN h.tensors \ DOMAIN g.tensors : h.tensors[t].bound = {}
    BY DEF Extended
  <2>2. \A m \in LiveNodes(g) : m \in DOMAIN g.nodes BY DEF LiveNodes
  <2>3. /\ LiveNodes(h) = LiveNodes(g) \union {n} /\ LiveEdges(h) = LiveEdges(g) /\ n \notin LiveNodes(g)
        /\ DOMAIN g.tensors \subseteq DOMAIN h.tensors
    BY <1>0, ExtendedLive
  <2> HIDE DEF n
  <2> QED BY <2>1, <2>2, <2>3
<1> HIDE DEF n
<1>2. ASSUME NEW e \in LiveEdges(h) PROVE EdgeKnown(h, e)
  <2> DEFINE c == g.edges[e]
  <2>1. /\ c.from \in LiveNodes(g) /\ c.to \in LiveNodes(g)
        /\ c.fromIdx \in Outputs(g, c.from) /\ c.toIdx \in Inputs(g, c.to)
        /\ e \in g.nodes[c.from].out
        /\ g.nodes[c.to].in[c.toIdx] = e
        /\ c.tensor = g.nodes[c.from].outputs[c.fromIdx]
        /\ e \in g.tensors[c.tensor].bound
        /\ c.tensor \in DOMAIN g.tensors
    BY <1>1, EdgeFacts
  <2>2. \A m \in LiveNodes(g) : Inputs(h, m) = Inputs(g, m) /\ Outputs(h, m) = Outputs(g, m)
    BY <1>1 DEF Inputs, Outputs
  <2>3. h.edges[e] = c BY <1>1
  <2> HIDE DEF c
  <2>4. /\ c.from \in LiveNodes(h) /\ c.to \in LiveNodes(h)
        /\ c.fromIdx \in Outputs(h, c.from) /\ c.toIdx \in Inputs(h, c.to)
    BY <1>1, <2>1, <2>2
  <2>5. /\ h.nodes[c.from] = g.nodes[c.from] /\ h.nodes[c.to] = g.nodes[c.to]
        /\ h.tensors[c.tensor] = g.tensors[c.tensor]
    BY <1>1, <2>1
  <2> QED BY ONLY <2>1, <2>3, <2>4, <2>5 DEF EdgeKnown
<1>3. ASSUME NEW m \in LiveNodes(h) PROVE NodeKnows(h, m)
  <2>1. CASE m \in LiveNodes(g)
    <3>1. NodeKnows(g, m) BY <2>1 DEF WellFormed
    <3>2. Inputs(h, m) = Inputs(g, m) /\ Outputs(h, m) = Outputs(g, m) BY <1>1, <2>1 DEF Inputs, Outputs
    <3> QED BY <1>1, <2>1, <3>1, <3>2 DEF NodeKnows
  <2>2. CASE m = n
    <3> DEFINE new == h.nodes[n]
    <3>1. /\ new \in Nodes /\ new.out = {}
          /\ Len(new.in) = numInputs /\ \A i \in 1..numInputs : new.in[i] = Empty
          /\ Len(new.outputs) = Len(widths) /\ \A k \in DOMAIN widths : new.outputs[k] = Len(g.tensors) + k
      BY DEF Extended, n
    <3>2. new.in \in Seq(Nat) /\ new.outputs \in Seq(Nat) BY <3>1 DEF Nodes
    <3> HIDE DEF new
    <3>3. DOMAIN new.in = 1..numInputs /\ DOMAIN new.outputs = DOMAIN widths BY <3>1, <3>2
    <3>4. \A k \in DOMAIN widths : new.outputs[k] \in DOMAIN h.tensors
      <4>1. \A k \in DOMAIN widths : Len(g.tensors) + k \in DOMAIN h.tensors BY <1>0, ExtendedLive
      <4> QED BY <3>1, <4>1
    <3>5. Shaped(new) BY DEF n, new
    <3>6. h.nodes[n].out = {} /\ Inputs(h, n) = 1..numInputs /\ Outputs(h, n) = DOMAIN widths
      BY <3>1, <3>3 DEF Inputs, Outputs, new
    <3> QED BY <2>2, <3>1, <3>4, <3>5, <3>6 DEF NodeKnows, new
  <2> QED BY <1>1, <2>1, <2>2
<1>4. ASSUME NEW t \in DOMAIN h.tensors PROVE TensorKnows(h, t)
  <2>1. CASE t \in DOMAIN g.tensors
    <3>1. TensorKnows(g, t) BY <2>1 DEF WellFormed
    <3> QED BY <1>1, <2>1, <3>1 DEF TensorKnows
  <2>2. CASE t \notin DOMAIN g.tensors BY <1>1, <2>2 DEF TensorKnows
  <2> QED BY <2>1, <2>2
<1> QED BY <1>1, <1>2, <1>3, <1>4 DEF WellFormed

(* add_connection to an empty slot.                                        *)
Joined(h, g, s, k, d, i) == LET eid == Len(g.edges) + 1 tid == g.nodes[s].outputs[k] IN
    /\ h \in Graphs /\ Len(h.edges) = eid /\ \A e \in DOMAIN g.edges : h.edges[e] = g.edges[e]
    /\ h.edges[eid] = [from |-> s, fromIdx |-> k, to |-> d, toIdx |-> i, tensor |-> tid]
    /\ DOMAIN h.nodes = DOMAIN g.nodes /\ LiveNodes(h) = LiveNodes(g)
    /\ \A n \in LiveNodes(g) :
          /\ h.nodes[n].type = g.nodes[n].type /\ h.nodes[n].outputs = g.nodes[n].outputs
          /\ h.nodes[n].out = IF n = s THEN g.nodes[n].out \union {eid} ELSE g.nodes[n].out
          /\ DOMAIN h.nodes[n].in = DOMAIN g.nodes[n].in
          /\ \A j \in DOMAIN g.nodes[n].in :
                h.nodes[n].in[j] = IF n = d /\ j = i THEN eid ELSE g.nodes[n].in[j]
    /\ DOMAIN h.tensors = DOMAIN g.tensors
    /\ \A t \in DOMAIN g.tensors :
          h.tensors[t].bound = IF t = tid THEN g.tensors[t].bound \union {eid} ELSE g.tensors[t].bound

LEMMA AddConnectionIs ==
    ASSUME NEW g \in Graphs, NEW s \in LiveNodes(g), NEW k \in Outputs(g, s),
           NEW d \in LiveNodes(g), NEW i \in Inputs(g, d), s # d, g.nodes[d].in[i] = Empty,
           g.nodes[s].outputs[k] \in DOMAIN g.tensors
    PROVE  Joined(AddConnection(g, s, k, d, i), g, s, k, d, i)
<1> DEFINE eid == Len(g.edges) + 1
           tid == g.nodes[s].outputs[k]
           new == [from |-> s, fromIdx |-> k, to |-> d, toIdx |-> i, tensor |-> tid]
           h == AddConnection(g, s, k, d, i)
           ns == [g.nodes[s] EXCEPT !.out = @ \union {eid}]
           nd == [g.nodes[d] EXCEPT !.in[i] = eid]
           tt == [g.tensors[tid] EXCEPT !.bound = @ \union {eid}]
<1>1. h = [g EXCEPT !.edges = Append(@, new), !.nodes[s].out = @ \union {eid},
                    !.nodes[d].in[i] = eid, !.tensors[tid].bound = @ \union {eid}]
  BY DEF AddConnection
<1>2. /\ g.nodes \in Seq(Nodes \union {NoNode}) /\ g.edges \in Seq(Edges \union {NoEdge})
      /\ g.tensors \in Seq(Tensors) /\ g.handles \in Seq(Handles)
  BY DEF Graphs
<1>3. /\ g.nodes[s] \in Nodes /\ g.nodes[d] \in Nodes /\ s \in DOMAIN g.nodes /\ d \in DOMAIN g.nodes
      /\ eid \in Nat /\ eid # 0 /\ tid \in Nat /\ s \in Nat \ {0} /\ d \in Nat /\ g.tensors[tid] \in Tensors
      /\ DOMAIN g.edges = 1..Len(g.edges)
  BY GraphIs
<1>4. k \in Nat /\ i \in Nat
  <2>1. g.nodes[s].outputs \in Seq(Nat) /\ g.nodes[d].in \in Seq(Nat) BY <1>3 DEF Nodes
  <2>2. k \in DOMAIN g.nodes[s].outputs /\ i \in DOMAIN g.nodes[d].in BY DEF Inputs, Outputs
  <2> QED BY ONLY <2>1, <2>2
<1>5. new \in Edges BY <1>3, <1>4 DEF Edges
<1>6. /\ ns \in Nodes /\ ns.type = g.nodes[s].type /\ ns.in = g.nodes[s].in /\ ns.outputs = g.nodes[s].outputs
      /\ ns.out = g.nodes[s].out \union {eid}
  <2> HIDE DEF eid
  <2> QED BY <1>3 DEF Nodes
<1>7. /\ nd \in Nodes /\ nd.type = g.nodes[d].type /\ nd.out = g.nodes[d].out /\ nd.outputs = g.nodes[d].outputs
      /\ DOMAIN nd.in = DOMAIN g.nodes[d].in
      /\ \A j \in DOMAIN g.nodes[d].in : nd.in[j] = IF j = i THEN eid ELSE g.nodes[d].in[j]
  <2> HIDE DEF eid
  <2> DEFINE in == [g.nodes[d].in EXCEPT ![i] = eid]
  <2>1. g.nodes[d].in \in Seq(Nat) /\ i \in DOMAIN g.nodes[d].in BY <1>3 DEF Nodes, Inputs
  <2>2. /\ in \in Seq(Nat) /\ DOMAIN in = DOMAIN g.nodes[d].in /\ in[i] = eid
        /\ \A j \in DOMAIN g.nodes[d].in \ {i} : in[j] = g.nodes[d].in[j]
    BY <1>3, <2>1, SequenceChanged
  <2> HIDE DEF in
  <2>3. nd = [g.nodes[d] EXCEPT !.in = in] BY DEF in
  <2>4. nd \in Nodes /\ nd.type = g.nodes[d].type /\ nd.out = g.nodes[d].out /\ nd.outputs = g.nodes[d].outputs /\ nd.in = in
    BY <1>3, <2>2, <2>3 DEF Nodes
  <2> QED BY <2>1, <2>2, <2>4
<1>8. tt \in Tensors /\ tt.bound = g.tensors[tid].bound \union {eid}
  <2> HIDE DEF eid, tid
  <2> QED BY <1>3 DEF Tensors
<1> DEFINE one == [g.nodes EXCEPT ![s] = ns]
           two == [one EXCEPT ![d] = nd]
           ts  == [g.tensors EXCEPT ![tid] = tt]
<1>9. /\ h.edges = Append(g.edges, new) /\ h.nodes = two /\ h.tensors = ts /\ h.handles = g.handles
      /\ h = [nodes |-> h.nodes, edges |-> h.edges, tensors |-> h.tensors, handles |-> h.handles]
  <2>1. one[d] = g.nodes[d] BY <1>3
  <2> QED BY <1>1, <1>3, <2>1 DEF Graphs
<1> HIDE DEF h, new, ns, nd, tt
<1>10. /\ one \in Seq(Nodes \union {NoNode}) /\ DOMAIN one = DOMAIN g.nodes /\ one[s] = ns
       /\ \A n \in DOMAIN g.nodes \ {s} : one[n] = g.nodes[n]
  <2>1. ns \in Nodes \union {NoNode} BY <1>6
  <2> QED BY <1>2, <1>3, <2>1, SequenceChanged
<1> HIDE DEF one
<1>11. /\ two \in Seq(Nodes \union {NoNode}) /\ DOMAIN two = DOMAIN g.nodes /\ two[d] = nd
       /\ \A n \in DOMAIN g.nodes \ {d} : two[n] = one[n]
  <2>1. nd \in Nodes \union {NoNode} /\ d \in DOMAIN one BY <1>3, <1>7, <1>10
  <2> QED BY <1>10, <2>1, SequenceChanged
<1>12. /\ ts \in Seq(Tensors) /\ DOMAIN ts = DOMAIN g.tensors /\ ts[tid] = tt
       /\ \A t \in DOMAIN g.tensors \ {tid} : ts[t] = g.tensors[t]
  <2> HIDE DEF tid
  <2>1. tid \in DOMAIN g.tensors BY DEF tid
  <2> QED BY <1>2, <1>8, <2>1, SequenceChanged
<1> HIDE DEF two, ts
<1>13. /\ h.edges \in Seq(Edges \union {NoEdge}) /\ Len(h.edges) = eid /\ h.edges[eid] = new
       /\ \A e \in DOMAIN g.edges : h.edges[e] = g.edges[e]
  <2>1. new \in Edges \union {NoEdge} BY <1>5
  <2> QED BY <1>2, <1>9, <2>1, AppendedElements
<1>14. h \in Graphs BY <1>2, <1>9, <1>11, <1>12, <1>13 DEF Graphs
<1>15. h.nodes[s] = ns /\ h.nodes[d] = nd /\ \A n \in DOMAIN g.nodes \ {s, d} : h.nodes[n] = g.nodes[n]
  BY <1>3, <1>9, <1>10, <1>11
<1>16. LiveNodes(h) = LiveNodes(g) /\ DOMAIN h.nodes = DOMAIN g.nodes
  <2>1. ns # NoNode /\ nd # NoNode BY <1>6, <1>7, NotNoNode
  <2>2. DOMAIN h.nodes = DOMAIN g.nodes BY <1>9, <1>11
  <2> QED BY <1>15, <2>1, <2>2 DEF LiveNodes
<1>17. ASSUME NEW n \in LiveNodes(g)
       PROVE  /\ h.nodes[n].type = g.nodes[n].type /\ h.nodes[n].outputs = g.nodes[n].outputs
              /\ h.nodes[n].out = IF n = s THEN g.nodes[n].out \union {eid} ELSE g.nodes[n].out
              /\ DOMAIN h.nodes[n].in = DOMAIN g.nodes[n].in
              /\ \A j \in DOMAIN g.nodes[n].in :
                    h.nodes[n].in[j] = IF n = d /\ j = i THEN eid ELSE g.nodes[n].in[j]
  <2> HIDE DEF eid
  <2>1. n \in DOMAIN g.nodes BY DEF LiveNodes
  <2>2. CASE n = s BY <1>6, <1>15, <2>2
  <2>3. CASE n = d BY <1>7, <1>15, <2>3
  <2>4. CASE n \notin {s, d} BY <1>15, <2>1, <2>4
  <2> QED BY <2>2, <2>3, <2>4
<1>18. ASSUME NEW t \in DOMAIN g.tensors
       PROVE  h.tensors[t].bound = IF t = tid THEN g.tensors[t].bound \union {eid} ELSE g.tensors[t].bound
  <2> HIDE DEF eid, tid
  <2> QED BY <1>8, <1>9, <1>12
<1> QED BY <1>9, <1>12, <1>13, <1>14, <1>16, <1>17, <1>18 DEF Joined, h, new

LEMMA JoinedWellFormed ==
    ASSUME NEW g, WellFormed(g), NEW s \in LiveNodes(g), NEW k \in Outputs(g, s),
           NEW d \in LiveNodes(g), NEW i \in Inputs(g, d), g.nodes[d].in[i] = Empty,
           NEW h, Joined(h, g, s, k, d, i)
    PROVE  /\ WellFormed(h) /\ LiveNodes(h) = LiveNodes(g) /\ Len(g.edges) + 1 \in Nat \ {0}
           /\ LiveEdges(h) = LiveEdges(g) \union {Len(g.edges) + 1} /\ Len(g.edges) + 1 \notin LiveEdges(g)
<1> DEFINE eid == Len(g.edges) + 1
           tid == g.nodes[s].outputs[k]
           new == [from |-> s, fromIdx |-> k, to |-> d, toIdx |-> i, tensor |-> tid]
<1>1. /\ h \in Graphs /\ Len(h.edges) = eid /\ \A e \in DOMAIN g.edges : h.edges[e] = g.edges[e]
      /\ h.edges[eid] = new
      /\ LiveNodes(h) = LiveNodes(g) /\ DOMAIN h.tensors = DOMAIN g.tensors
  BY DEF Joined
<1>2. \A n \in LiveNodes(g) :
          /\ h.nodes[n].type = g.nodes[n].type /\ h.nodes[n].outputs = g.nodes[n].outputs
          /\ h.nodes[n].out = IF n = s THEN g.nodes[n].out \union {eid} ELSE g.nodes[n].out
          /\ DOMAIN h.nodes[n].in = DOMAIN g.nodes[n].in
          /\ \A j \in DOMAIN g.nodes[n].in :
                h.nodes[n].in[j] = IF n = d /\ j = i THEN eid ELSE g.nodes[n].in[j]
  BY DEF Joined
<1>3. \A t \in DOMAIN g.tensors :
          h.tensors[t].bound = IF t = tid THEN g.tensors[t].bound \union {eid} ELSE g.tensors[t].bound
  BY DEF Joined
<1>4. /\ eid \in Nat \ {0} /\ eid \notin DOMAIN g.edges /\ DOMAIN h.edges = DOMAIN g.edges \union {eid}
      /\ g \in Graphs
  <2>1. g \in Graphs /\ DOMAIN g.edges = 1..Len(g.edges) /\ Len(g.edges) \in Nat BY GraphIs DEF WellFormed
  <2>2. DOMAIN h.edges = 1..Len(h.edges) BY <1>1, GraphIs
  <2> QED BY <1>1, <2>1, <2>2
<1>5. tid \in DOMAIN g.tensors BY DEF WellFormed, NodeKnows
<1>6. new # NoEdge
  <2>1. eid \in DOMAIN h.edges /\ s \in Nat \ {0} BY <1>4, GraphIs DEF LiveNodes
  <2> QED BY <2>1 DEF NoEdge, Empty
<1>7. new.from = s /\ new.fromIdx = k /\ new.to = d /\ new.toIdx = i /\ new.tensor = tid OBVIOUS
<1> HIDE DEF eid, tid, new
<1>8. LiveEdges(h) = LiveEdges(g) \union {eid} /\ eid \notin LiveEdges(g)
  BY <1>1, <1>4, <1>6 DEF LiveEdges
<1>9. \A n \in LiveNodes(g) : Inputs(h, n) = Inputs(g, n) /\ Outputs(h, n) = Outputs(g, n)
  BY <1>2 DEF Inputs, Outputs
<1>10. ASSUME NEW e \in LiveEdges(h) PROVE EdgeKnown(h, e)
  <2>1. CASE e = eid
    <3>1. h.edges[e] = new BY <1>1, <2>1
    <3>2. i \in DOMAIN g.nodes[d].in /\ h.nodes[d].in[i] = eid /\ eid \in h.nodes[s].out BY <1>2 DEF Inputs
    <3>3. h.nodes[s].outputs[k] = tid BY <1>2 DEF tid
    <3>4. eid \in h.tensors[tid].bound BY <1>3, <1>5
    <3> QED BY <1>1, <1>7, <1>9, <2>1, <3>1, <3>2, <3>3, <3>4 DEF EdgeKnown
  <2>2. CASE e \in LiveEdges(g)
    <3> DEFINE c == g.edges[e]
    <3>1. /\ c.from \in LiveNodes(g) /\ c.to \in LiveNodes(g)
          /\ c.fromIdx \in Outputs(g, c.from) /\ c.toIdx \in Inputs(g, c.to)
          /\ e \in g.nodes[c.from].out
          /\ g.nodes[c.to].in[c.toIdx] = e
          /\ c.tensor = g.nodes[c.from].outputs[c.fromIdx]
          /\ e \in g.tensors[c.tensor].bound
          /\ c.tensor \in DOMAIN g.tensors
      BY <2>2, EdgeFacts
    <3>2. h.edges[e] = c BY <1>1, <2>2 DEF LiveEdges
    <3>3. e # Empty BY <1>4, <2>2, GraphIs DEF LiveEdges, Empty
    <3> HIDE DEF c
    <3>4. ~(c.to = d /\ c.toIdx = i) BY <3>1, <3>3
    <3>5. h.nodes[c.to].in[c.toIdx] = e BY <1>2, <3>1, <3>4 DEF Inputs
    <3>6. e \in h.nodes[c.from].out /\ h.nodes[c.from].outputs = g.nodes[c.from].outputs BY <1>2, <3>1
    <3>7. e \in h.tensors[c.tensor].bound BY <1>3, <3>1
    <3> QED BY <1>1, <1>9, <3>1, <3>2, <3>5, <3>6, <3>7 DEF EdgeKnown
  <2> QED BY <1>8, <2>1, <2>2
<1>11. ASSUME NEW n \in LiveNodes(h) PROVE NodeKnows(h, n)
  <2>1. NodeKnows(g, n) /\ n \in LiveNodes(g) BY <1>1 DEF WellFormed
  <2>2. ASSUME NEW e \in h.nodes[n].out PROVE e \in LiveEdges(h) /\ h.edges[e].from = n
    <3>1. CASE e = eid
      <4>1. n = s
        <5>1. eid \notin g.nodes[n].out BY <1>8, <2>1 DEF NodeKnows
        <5> QED BY <1>2, <2>1, <2>2, <3>1, <5>1
      <4> QED BY <1>1, <1>7, <1>8, <3>1, <4>1
    <3>2. CASE e # eid
      <4>0. e \in g.nodes[n].out
        <5>1. h.nodes[n].out = IF n = s THEN g.nodes[n].out \union {eid} ELSE g.nodes[n].out BY <1>2, <2>1
        <5> QED BY <2>2, <3>2, <5>1
      <4>1. e \in LiveEdges(g) /\ g.edges[e].from = n BY <2>1, <4>0 DEF NodeKnows
      <4> QED BY <1>1, <1>8, <4>1 DEF LiveEdges
    <3> QED BY <3>1, <3>2
  <2>3. ASSUME NEW j \in Inputs(h, n), h.nodes[n].in[j] # Empty
        PROVE  LET e == h.nodes[n].in[j] IN e \in LiveEdges(h) /\ h.edges[e].to = n /\ h.edges[e].toIdx = j
    <3>0. j \in Inputs(g, n) /\ j \in DOMAIN g.nodes[n].in BY <1>9, <2>1, <2>3 DEF Inputs
    <3>1. CASE n = d /\ j = i BY <1>1, <1>2, <1>7, <1>8, <2>1, <3>0, <3>1
    <3>2. CASE ~(n = d /\ j = i)
      <4>1. h.nodes[n].in[j] = g.nodes[n].in[j] BY <1>2, <2>1, <3>0, <3>2
      <4>2. LET e == g.nodes[n].in[j] IN e \in LiveEdges(g) /\ g.edges[e].to = n /\ g.edges[e].toIdx = j
        BY <2>1, <2>3, <3>0, <4>1 DEF NodeKnows
      <4> QED BY <1>1, <1>8, <4>1, <4>2 DEF LiveEdges
    <3> QED BY <3>1, <3>2
  <2>4. \A x \in Outputs(h, n) : h.nodes[n].outputs[x] \in DOMAIN h.tensors
    BY <1>1, <1>2, <1>9, <2>1 DEF NodeKnows
  <2>5. Shaped(h.nodes[n])
    <3>1. g.nodes[n] \in Nodes /\ h.nodes[n] \in Nodes BY <1>1, <1>4, <2>1, GraphIs
    <3>2. Len(h.nodes[n].in) = Len(g.nodes[n].in)
      <4>1. g.nodes[n].in \in Seq(Nat) /\ h.nodes[n].in \in Seq(Nat) BY <3>1 DEF Nodes
      <4>2. DOMAIN h.nodes[n].in = DOMAIN g.nodes[n].in BY <1>2, <2>1
      <4> QED BY <4>1, <4>2
    <3>3. Shaped(g.nodes[n]) BY <2>1 DEF NodeKnows
    <3> QED BY <1>2, <2>1, <3>2, <3>3 DEF Shaped
  <2> QED BY <2>2, <2>3, <2>4, <2>5 DEF NodeKnows
<1>12. ASSUME NEW t \in DOMAIN h.tensors PROVE TensorKnows(h, t)
  <2>1. TensorKnows(g, t) /\ t \in DOMAIN g.tensors BY <1>1 DEF WellFormed
  <2>2. ASSUME NEW e \in h.tensors[t].bound PROVE e \in LiveEdges(h) /\ h.edges[e].tensor = t
    <3>1. CASE e = eid
      <4>1. t = tid BY <1>3, <1>8, <2>1, <2>2, <3>1 DEF TensorKnows
      <4> QED BY <1>1, <1>7, <1>8, <3>1, <4>1
    <3>2. CASE e # eid
      <4>1. e \in LiveEdges(g) /\ g.edges[e].tensor = t BY <1>3, <2>1, <2>2, <3>2 DEF TensorKnows
      <4> QED BY <1>1, <1>8, <4>1 DEF LiveEdges
    <3> QED BY <3>1, <3>2
  <2> QED BY <2>2 DEF TensorKnows
<1>13. WellFormed(h) BY <1>1, <1>10, <1>11, <1>12 DEF WellFormed
<1> QED BY <1>1, <1>4, <1>8, <1>13 DEF eid

LEMMA EvaluatedIs ==
    ASSUME NEW S, NEW s \in Seq(S)
    PROVE  Evaluated(s) = s
<1>1. <<>> \in Seq(S) /\ Len(<<>>) = 0 OBVIOUS
<1>2. s \o <<>> = s OBVIOUS
<1> QED BY <1>2 DEF Evaluated

(* remove_node: what is left when all edges of node n are gone.            *)
EdgesOf(g, n) == {e \in LiveEdges(g) : g.edges[e].from = n \/ g.edges[e].to = n}

Cut(h, g, n) ==
    /\ h \in Graphs /\ DOMAIN h.edges = DOMAIN g.edges /\ LiveEdges(h) = LiveEdges(g) \ EdgesOf(g, n)
    /\ \A e \in LiveEdges(h) : h.edges[e] = g.edges[e]
    /\ DOMAIN h.nodes = DOMAIN g.nodes /\ LiveNodes(h) = LiveNodes(g) \ {n}
    /\ \A m \in LiveNodes(h) :
          /\ h.nodes[m].type = g.nodes[m].type /\ h.nodes[m].outputs = g.nodes[m].outputs
          /\ h.nodes[m].out = g.nodes[m].out \ EdgesOf(g, n)
          /\ DOMAIN h.nodes[m].in = DOMAIN g.nodes[m].in
          /\ \A j \in DOMAIN g.nodes[m].in :
                h.nodes[m].in[j] = IF g.nodes[m].in[j] \in EdgesOf(g, n) THEN Empty ELSE g.nodes[m].in[j]
    /\ DOMAIN h.tensors = DOMAIN g.tensors
    /\ \A t \in DOMAIN g.tensors : h.tensors[t].bound = g.tensors[t].bound \ EdgesOf(g, n)

LEMMA EdgesOfNode ==
    ASSUME NEW g, WellFormed(g), NEW n \in LiveNodes(g)
    PROVE  ({g.nodes[n].in[i] : i \in Inputs(g, n)} \union g.nodes[n].out) \intersect LiveEdges(g) = EdgesOf(g, n)
<1>1. NodeKnows(g, n) BY DEF WellFormed
<1>2. \A e \in LiveEdges(g) : e # Empty
  <2>1. g \in Graphs BY DEF WellFormed
  <2> QED BY <2>1, GraphIs DEF LiveEdges, Empty
<1>3. ASSUME NEW e \in EdgesOf(g, n)
      PROVE  e \in {g.nodes[n].in[i] : i \in Inputs(g, n)} \union g.nodes[n].out
  <2>1. e \in LiveEdges(g) BY DEF EdgesOf
  <2>2. /\ e \in g.nodes[g.edges[e].from].out /\ g.edges[e].toIdx \in Inputs(g, g.edges[e].to)
        /\ g.nodes[g.edges[e].to].in[g.edges[e].toIdx] = e
    BY <2>1, EdgeFacts
  <2> QED BY <2>2 DEF EdgesOf
<1>4. ASSUME NEW e \in LiveEdges(g), e \in {g.nodes[n].in[i] : i \in Inputs(g, n)} \union g.nodes[n].out
      PROVE  e \in EdgesOf(g, n)
  <2>1. CASE e \in g.nodes[n].out BY <1>1, <2>1 DEF NodeKnows, EdgesOf
  <2>2. CASE e \in {g.nodes[n].in[i] : i \in Inputs(g, n)} BY <1>1, <1>2, <2>2 DEF NodeKnows, EdgesOf
  <2> QED BY <1>4, <2>1, <2>2
<1>5. EdgesOf(g, n) \subseteq LiveEdges(g) BY DEF EdgesOf
<1> QED BY <1>3, <1>4, <1>5

LEMMA RemoveNodeIs ==
    ASSUME NEW g, WellFormed(g), NEW n \in LiveNodes(g)
    PROVE  Cut(RemoveNode(g, n), g, n)
<1> DEFINE gone == EdgesOf(g, n)
           freed == {<<g.edges[e].to, g.edges[e].toIdx>> : e \in gone}
           cutIn(m) == [i \in DOMAIN g.nodes[m].in |-> IF <<m, i>> \in freed THEN Empty ELSE g.nodes[m].in[i]]
           node(m) == [g.nodes[m] EXCEPT
                         !.out = @ \ {e \in gone : g.edges[e].from = m},
                         !.in = [i \in DOMAIN @ |-> IF <<m, i>> \in freed THEN Empty ELSE @[i]]]
           tensor(t) == [g.tensors[t] EXCEPT !.bound = @ \ {e \in gone : g.edges[e].tensor = t}]
           edges == [e \in DOMAIN g.edges |-> IF e \in gone THEN NoEdge ELSE g.edges[e]]
           nodes == [m \in DOMAIN g.nodes |-> IF g.nodes[m] = NoNode THEN NoNode ELSE node(m)]
           tensors == [t \in DOMAIN g.tensors |-> tensor(t)]
           r == [g EXCEPT !.edges = Evaluated(edges), !.nodes = Evaluated(nodes), !.tensors = Evaluated(tensors)]
           h == RemoveNode(g, n)
<1>0. g \in Graphs BY DEF WellFormed
<1>1. h = [r EXCEPT !.nodes[n] = NoNode]
  <2>1. RemoveConnections(g, {g.nodes[n].in[i] : i \in Inputs(g, n)} \union g.nodes[n].out) = r
    <3> DEFINE es == {g.nodes[n].in[i] : i \in Inputs(g, n)} \union g.nodes[n].out
    <3>1. es \intersect LiveEdges(g) = gone BY EdgesOfNode
    <3> HIDE DEF es, gone
    <3>2. RemoveConnections(g, es) = r BY <3>1 DEF RemoveConnections
    <3> QED BY <3>2 DEF es
  <2> HIDE DEF r
  <2> QED BY <2>1 DEF RemoveNode
<1>2. /\ g.nodes \in Seq(Nodes \union {NoNode}) /\ g.edges \in Seq(Edges \union {NoEdge})
      /\ g.tensors \in Seq(Tensors) /\ g.handles \in Seq(Handles)
  BY <1>0 DEF Graphs
<1>3. /\ Len(g.nodes) \in Nat /\ DOMAIN g.nodes = 1..Len(g.nodes)
      /\ Len(g.edges) \in Nat /\ DOMAIN g.edges = 1..Len(g.edges)
      /\ Len(g.tensors) \in Nat /\ DOMAIN g.tensors = 1..Len(g.tensors)
  BY <1>0, GraphIs
<1>4. gone \subseteq LiveEdges(g) /\ \A e \in LiveEdges(g) : e \in gone <=> (g.edges[e].from = n \/ g.edges[e].to = n)
  BY DEF EdgesOf
<1> HIDE DEF gone
<1>5. ASSUME NEW m \in LiveNodes(g)
      PROVE  /\ node(m) \in Nodes /\ node(m).type = g.nodes[m].type /\ node(m).outputs = g.nodes[m].outputs
             /\ node(m).out = g.nodes[m].out \ gone
             /\ DOMAIN node(m).in = DOMAIN g.nodes[m].in
             /\ \A j \in DOMAIN g.nodes[m].in :
                   node(m).in[j] = IF g.nodes[m].in[j] \in gone THEN Empty ELSE g.nodes[m].in[j]
  <2>1. g.nodes[m] \in Nodes /\ NodeKnows(g, m) BY <1>0, GraphIs DEF WellFormed
  <2> DEFINE in == cutIn(m)
             out == {e \in gone : g.edges[e].from = m}
  <2>2. in \in Seq(Nat) /\ DOMAIN in = DOMAIN g.nodes[m].in
    <3>1. g.nodes[m].in \in Seq(Nat) BY <2>1 DEF Nodes
    <3>2. \A x \in 1..Len(g.nodes[m].in) : in[x] \in Nat BY <3>1 DEF Empty
    <3>3. in = [x \in 1..Len(g.nodes[m].in) |-> in[x]] BY <3>1
    <3>4. Len(g.nodes[m].in) \in Nat /\ DOMAIN g.nodes[m].in = 1..Len(g.nodes[m].in) BY <3>1
    <3> HIDE DEF in
    <3> QED BY <3>2, <3>3, <3>4, FunctionIsSequence
  <2>3. \A j \in DOMAIN g.nodes[m].in :
           in[j] = IF g.nodes[m].in[j] \in gone THEN Empty ELSE g.nodes[m].in[j]
    <3> SUFFICES ASSUME NEW j \in DOMAIN g.nodes[m].in
                 PROVE  <<m, j>> \in freed <=> g.nodes[m].in[j] \in gone
      OBVIOUS
    <3>1. ASSUME NEW e \in gone, <<m, j>> = <<g.edges[e].to, g.edges[e].toIdx>> PROVE g.nodes[m].in[j] \in gone
      <4>1. g.nodes[g.edges[e].to].in[g.edges[e].toIdx] = e BY <1>4, EdgeFacts
      <4> QED BY <3>1, <4>1
    <3>2. ASSUME g.nodes[m].in[j] \in gone PROVE <<m, j>> \in freed
      <4> DEFINE e == g.nodes[m].in[j]
      <4>1. e \in LiveEdges(g) BY <1>4, <3>2
      <4>2. e # Empty BY <1>0, <4>1, GraphIs DEF LiveEdges, Empty
      <4>3. g.edges[e].to = m /\ g.edges[e].toIdx = j BY <2>1, <4>2 DEF NodeKnows, Inputs
      <4> QED BY <3>2, <4>3
    <3> QED BY <3>1, <3>2
  <2>4. g.nodes[m].out \ out = g.nodes[m].out \ gone
    BY <2>1 DEF NodeKnows
  <2>5. node(m) = [g.nodes[m] EXCEPT !.out = @ \ out, !.in = in] OBVIOUS
  <2> HIDE DEF node, out, in
  <2>6. /\ node(m) \in Nodes /\ node(m).type = g.nodes[m].type /\ node(m).outputs = g.nodes[m].outputs
        /\ node(m).out = g.nodes[m].out \ out /\ node(m).in = in
    BY <2>1, <2>2, <2>5 DEF Nodes
  <2> QED BY <2>2, <2>3, <2>4, <2>6
<1>6. ASSUME NEW t \in DOMAIN g.tensors PROVE tensor(t) \in Tensors /\ tensor(t).bound = g.tensors[t].bound \ gone
  <2>1. g.tensors[t] \in Tensors /\ TensorKnows(g, t) BY <1>0, GraphIs DEF WellFormed
  <2> DEFINE out == {e \in gone : g.edges[e].tensor = t}
  <2>2. g.tensors[t].bound \ out = g.tensors[t].bound \ gone BY <2>1 DEF TensorKnows
  <2> HIDE DEF out
  <2> QED BY <2>1, <2>2 DEF Tensors, out
<1> HIDE DEF node, tensor, freed
<1>7. edges \in Seq(Edges \union {NoEdge}) /\ DOMAIN edges = DOMAIN g.edges /\ Len(edges) = Len(g.edges)
  <2>1. \A e \in 1..Len(g.edges) : edges[e] \in Edges \union {NoEdge}
    <3> HIDE DEF Edges, NoEdge
    <3> QED BY <1>2, <1>3
  <2>2. edges = [e \in 1..Len(g.edges) |-> edges[e]] BY <1>3
  <2> HIDE DEF edges, Edges, NoEdge
  <2> QED BY <1>3, <2>1, <2>2, FunctionIsSequence
<1>8. nodes \in Seq(Nodes \union {NoNode}) /\ DOMAIN nodes = DOMAIN g.nodes /\ Len(nodes) = Len(g.nodes)
  <2>1. \A m \in 1..Len(g.nodes) : nodes[m] \in Nodes \union {NoNode}
    <3> HIDE DEF Nodes, NoNode
    <3> QED BY <1>3, <1>5 DEF LiveNodes
  <2>2. nodes = [m \in 1..Len(g.nodes) |-> nodes[m]] BY <1>3
  <2> HIDE DEF nodes, Nodes, NoNode
  <2> QED BY <1>3, <2>1, <2>2, FunctionIsSequence
<1>9. tensors \in Seq(Tensors) /\ DOMAIN tensors = DOMAIN g.tensors /\ \A t \in DOMAIN g.tensors : tensors[t] = tensor(t)
  <2>1. \A t \in 1..Len(g.tensors) : tensors[t] \in Tensors BY <1>3, <1>6
  <2>2. tensors = [t \in 1..Len(g.tensors) |-> tensors[t]] BY <1>3
  <2>3. \A t \in DOMAIN g.tensors : tensors[t] = tensor(t) OBVIOUS
  <2> HIDE DEF tensors, Tensors
  <2> QED BY <1>3, <2>1, <2>2, <2>3, FunctionIsSequence
<1>10. \A e \in DOMAIN g.edges : edges[e] = IF e \in gone THEN NoEdge ELSE g.edges[e] OBVIOUS
<1>11. \A m \in DOMAIN g.nodes : nodes[m] = IF g.nodes[m] = NoNode THEN NoNode ELSE node(m) OBVIOUS
<1> HIDE DEF edges, nodes, tensors, h
<1>12. r = [nodes |-> nodes, edges |-> edges, tensors |-> tensors, handles |-> g.handles]
  <2>1. Evaluated(edges) = edges /\ Evaluated(nodes) = nodes /\ Evaluated(tensors) = tensors
    <3> HIDE DEF Nodes, NoNode, Edges, NoEdge, Tensors
    <3> QED BY <1>7, <1>8, <1>9, EvaluatedIs
  <2>2. r = [g EXCEPT !.edges = edges, !.nodes = nodes, !.tensors = tensors] BY <2>1
  <2> HIDE DEF r
  <2> QED BY <1>0, <2>2 DEF Graphs
<1> HIDE DEF r
<1> DEFINE left == [nodes EXCEPT ![n] = NoNode]
<1>13. /\ h.nodes = left /\ h.edges = edges /\ h.tensors = tensors /\ h.handles = g.handles
       /\ h = [nodes |-> h.nodes, edges |-> h.edges, tensors |-> h.tensors, handles |-> h.handles]
  BY <1>1, <1>12
<1>14. n \in DOMAIN g.nodes BY DEF LiveNodes
<1>15. /\ left \in Seq(Nodes \union {NoNode}) /\ DOMAIN left = DOMAIN g.nodes /\ left[n] = NoNode
       /\ \A m \in DOMAIN g.nodes \ {n} : left[m] = nodes[m]
  <2>1. NoNode \in Nodes \union {NoNode} OBVIOUS
  <2> QED BY <1>8, <1>14, <2>1, SequenceChanged
<1> HIDE DEF left
<1>16. h \in Graphs BY <1>2, <1>7, <1>9, <1>13, <1>15 DEF Graphs
<1>17. DOMAIN h.edges = DOMAIN g.edges /\ LiveEdges(h) = LiveEdges(g) \ gone
       /\ \A e \in LiveEdges(h) : h.edges[e] = g.edges[e]
  BY <1>7, <1>10, <1>13 DEF LiveEdges
<1>18. DOMAIN h.nodes = DOMAIN g.nodes /\ LiveNodes(h) = LiveNodes(g) \ {n}
       /\ \A m \in LiveNodes(h) : h.nodes[m] = node(m)
  <2>1. \A m \in LiveNodes(g) : node(m) # NoNode BY <1>5, NotNoNode
  <2>2. \A m \in DOMAIN g.nodes : h.nodes[m] = IF m = n THEN NoNode ELSE nodes[m] BY <1>13, <1>15
  <2> QED BY <1>11, <1>13, <1>15, <2>1, <2>2 DEF LiveNodes
<1>19. DOMAIN h.tensors = DOMAIN g.tensors /\ \A t \in DOMAIN g.tensors : h.tensors[t].bound = g.tensors[t].bound \ gone
  BY <1>6, <1>9, <1>13
<1> QED BY <1>5, <1>16, <1>17, <1>18, <1>19 DEF Cut, gone, h

LEMMA CutWellFormed ==
    ASSUME NEW g, WellFormed(g), NEW n \in LiveNodes(g), NEW h, Cut(h, g, n)
    PROVE  WellFormed(h)
<1> DEFINE gone == EdgesOf(g, n)
<1>1. /\ h \in Graphs /\ LiveEdges(h) = LiveEdges(g) \ gone
      /\ \A e \in LiveEdges(h) : h.edges[e] = g.edges[e]
      /\ LiveNodes(h) = LiveNodes(g) \ {n}
      /\ \A m \in LiveNodes(h) :
            /\ h.nodes[m].type = g.nodes[m].type /\ h.nodes[m].outputs = g.nodes[m].outputs
            /\ h.nodes[m].out = g.nodes[m].out \ gone
            /\ DOMAIN h.nodes[m].in = DOMAIN g.nodes[m].in
            /\ \A j \in DOMAIN g.nodes[m].in :
                  h.nodes[m].in[j] = IF g.nodes[m].in[j] \in gone THEN Empty ELSE g.nodes[m].in[j]
      /\ DOMAIN h.tensors = DOMAIN g.tensors
      /\ \A t \in DOMAIN g.tensors : h.tensors[t].bound = g.tensors[t].bound \ gone
  BY DEF Cut
<1>2. \A e \in LiveEdges(h) : e \in LiveEdges(g) /\ e \notin gone /\ g.edges[e].from # n /\ g.edges[e].to # n
  BY <1>1 DEF EdgesOf
<1> HIDE DEF gone
<1>3. \A m \in LiveNodes(h) : Inputs(h, m) = Inputs(g, m) /\ Outputs(h, m) = Outputs(g, m)
  BY <1>1 DEF Inputs, Outputs
<1>4. ASSUME NEW e \in LiveEdges(h) PROVE EdgeKnown(h, e)
  <2> DEFINE c == g.edges[e]
  <2>1. /\ c.from \in LiveNodes(g) /\ c.to \in LiveNodes(g)
        /\ c.fromIdx \in Outputs(g, c.from) /\ c.toIdx \in Inputs(g, c.to)
        /\ e \in g.nodes[c.from].out
        /\ g.nodes[c.to].in[c.toIdx] = e
        /\ c.tensor = g.nodes[c.from].outputs[c.fromIdx]
        /\ e \in g.tensors[c.tensor].bound
        /\ c.tensor \in DOMAIN g.tensors
    BY <1>2, EdgeFacts
  <2>2. h.edges[e] = c /\ c.from # n /\ c.to # n /\ e \notin gone BY <1>1, <1>2
  <2> HIDE DEF c
  <2>3. c.from \in LiveNodes(h) /\ c.to \in LiveNodes(h) BY <1>1, <2>1, <2>2
  <2>4. h.nodes[c.to].in[c.toIdx] = e BY <1>1, <2>1, <2>2, <2>3 DEF Inputs
  <2>5. e \in h.nodes[c.from].out /\ c.tensor = h.nodes[c.from].outputs[c.fromIdx] BY <1>1, <2>1, <2>2, <2>3
  <2>6. e \in h.tensors[c.tensor].bound BY <1>1, <2>1, <2>2
  <2> QED BY <1>3, <2>1, <2>2, <2>3, <2>4, <2>5, <2>6 DEF EdgeKnown
<1>5. ASSUME NEW m \in LiveNodes(h) PROVE NodeKnows(h, m)
  <2>1. NodeKnows(g, m) /\ m \in LiveNodes(g) BY <1>1 DEF WellFormed
  <2>2. ASSUME NEW e \in h.nodes[m].out PROVE e \in LiveEdges(h) /\ h.edges[e].from = m
    BY <1>1, <2>1, <2>2 DEF NodeKnows
  <2>3. ASSUME NEW j \in Inputs(h, m), h.nodes[m].in[j] # Empty
        PROVE  LET e == h.nodes[m].in[j] IN e \in LiveEdges(h) /\ h.edges[e].to = m /\ h.edges[e].toIdx = j
    <3>1. j \in Inputs(g, m) /\ j \in DOMAIN g.nodes[m].in BY <1>3, <2>3 DEF Inputs
    <3>2. h.nodes[m].in[j] = g.nodes[m].in[j] /\ g.nodes[m].in[j] \notin gone BY <1>1, <2>3, <3>1
    <3> QED BY <1>1, <2>1, <2>3, <3>1, <3>2 DEF NodeKnows
  <2>4. \A x \in Outputs(h, m) : h.nodes[m].outputs[x] \in DOMAIN h.tensors
    BY <1>1, <1>3, <2>1 DEF NodeKnows
  <2>5. Shaped(h.nodes[m])
    <3>1. g.nodes[m] \in Nodes /\ h.nodes[m] \in Nodes BY <1>1, <2>1, GraphIs DEF WellFormed
    <3>2. Len(h.nodes[m].in) = Len(g.nodes[m].in)
      <4>1. g.nodes[m].in \in Seq(Nat) /\ h.nodes[m].in \in Seq(Nat) BY <3>1 DEF Nodes
      <4>2. DOMAIN h.nodes[m].in = DOMAIN g.nodes[m].in BY <1>1
      <4> QED BY <4>1, <4>2
    <3>3. Shaped(g.nodes[m]) BY <2>1 DEF NodeKnows
    <3> QED BY <1>1, <3>2, <3>3 DEF Shaped
  <2> QED BY <2>2, <2>3, <2>4, <2>5 DEF NodeKnows
<1>6. ASSUME NEW t \in DOMAIN h.tensors PROVE TensorKnows(h, t)
  <2>1. TensorKnows(g, t) /\ t \in DOMAIN g.tensors BY <1>1 DEF WellFormed
  <2> QED BY <1>1, <2>1 DEF TensorKnows
<1> QED BY <1>1, <1>4, <1>5, <1>6 DEF WellFormed

-----------------------------------------------------------------------------
(* Graphs between the calls and the passes: every slot is connected, and   *)
(* nodes can be numbered so that every edge leads to a larger number.      *)

Full(g) == \A n \in LiveNodes(g) : \A i \in Inputs(g, n) : g.nodes[n].in[i] # Empty

Ranks == [Nat -> Nat]

OrderedBy(g, rank) == \A e \in LiveEdges(g) : rank[g.edges[e].from] < rank[g.edges[e].to]

Good(g) == WellFormed(g) /\ Full(g) /\ \E rank \in Ranks : OrderedBy(g, rank)

LEMMA AlikeGood ==
    ASSUME NEW g, Good(g), NEW h, Alike(h, g)
    PROVE  Good(h)
<1>1. WellFormed(h) BY AlikeWellFormed DEF Good
<1>2. Full(h) BY DEF Good, Full, Alike, Inputs
<1>3. \A rank \in Ranks : OrderedBy(g, rank) => OrderedBy(h, rank) BY DEF OrderedBy, Alike, LiveEdges
<1> QED BY <1>1, <1>2, <1>3 DEF Good

LEMMA AlikeSelf ==
    ASSUME NEW g \in Graphs
    PROVE  Alike(g, g)
BY DEF Alike

LEMMA AlikeAgain ==
    ASSUME NEW g, NEW h, NEW k, Alike(h, g), Alike(k, h)
    PROVE  Alike(k, g)
BY DEF Alike

LEMMA GraphOf ==
    ASSUME NEW nodes \in Seq(Nodes \union {NoNode}), NEW edges \in Seq(Edges \union {NoEdge}),
           NEW tensors \in Seq(Tensors), NEW handles \in Seq(Handles),
           NEW h, h = [nodes |-> nodes, edges |-> edges, tensors |-> tensors, handles |-> handles]
    PROVE  h \in Graphs /\ h.nodes = nodes /\ h.edges = edges /\ h.tensors = tensors /\ h.handles = handles
<1> HIDE DEF Nodes, NoNode, Edges, NoEdge, Tensors, Handles
<1> QED BY DEF Graphs

(* A node whose other fields change, and a tensor.                         *)
LEMMA NodeChanged ==
    ASSUME NEW g \in Graphs, NEW n \in LiveNodes(g), NEW node \in Nodes, NEW h,
           h = [g EXCEPT !.nodes[n] = node],
           node.type = g.nodes[n].type, node.in = g.nodes[n].in,
           node.out = g.nodes[n].out, node.outputs = g.nodes[n].outputs
    PROVE  Alike(h, g)
<1>1. /\ g.nodes \in Seq(Nodes \union {NoNode}) /\ g.edges \in Seq(Edges \union {NoEdge})
      /\ g.tensors \in Seq(Tensors) /\ g.handles \in Seq(Handles)
  BY DEF Graphs
<1> DEFINE nodes == [g.nodes EXCEPT ![n] = node]
<1>2. h = [g EXCEPT !.nodes = nodes] OBVIOUS
<1>3. n \in DOMAIN g.nodes BY DEF LiveNodes
<1>4. /\ nodes \in Seq(Nodes \union {NoNode}) /\ DOMAIN nodes = DOMAIN g.nodes /\ nodes[n] = node
      /\ \A m \in DOMAIN g.nodes \ {n} : nodes[m] = g.nodes[m]
  <2>1. node \in Nodes \union {NoNode} OBVIOUS
  <2> HIDE DEF Nodes, NoNode
  <2> QED BY <1>1, <1>3, <2>1, SequenceChanged
<1> HIDE DEF nodes
<1>5. h = [nodes |-> nodes, edges |-> g.edges, tensors |-> g.tensors, handles |-> g.handles] BY <1>2 DEF Graphs
<1>6. h \in Graphs /\ h.nodes = nodes /\ h.edges = g.edges /\ h.tensors = g.tensors
  <2> HIDE DEF Nodes, NoNode, Edges, NoEdge, Tensors, Handles
  <2> QED BY ONLY <1>1, <1>4, <1>5 DEF Graphs
<1>7. h.nodes = nodes /\ h.edges = g.edges /\ h.tensors = g.tensors BY <1>6
<1>8. LiveNodes(h) = LiveNodes(g)
  <2>1. node # NoNode BY NotNoNode
  <2> QED BY <1>3, <1>4, <1>7, <2>1 DEF LiveNodes
<1>9. \A m \in LiveNodes(g) : m \in DOMAIN g.nodes BY DEF LiveNodes
<1> HIDE DEF Nodes
<1> QED BY <1>4, <1>6, <1>7, <1>8, <1>9 DEF Alike

LEMMA TensorChanged ==
    ASSUME NEW g \in Graphs, NEW t \in DOMAIN g.tensors, NEW tensor \in Tensors,
           tensor.bound = g.tensors[t].bound, NEW handles \in Seq(Handles), NEW h,
           h = [g EXCEPT !.tensors[t] = tensor, !.handles = handles]
    PROVE  Alike(h, g)
<1>1. /\ g.nodes \in Seq(Nodes \union {NoNode}) /\ g.edges \in Seq(Edges \union {NoEdge})
      /\ g.tensors \in Seq(Tensors)
  BY DEF Graphs
<1> DEFINE tensors == [g.tensors EXCEPT ![t] = tensor]
<1>2. h = [g EXCEPT !.tensors = tensors, !.handles = handles] OBVIOUS
<1>3. /\ tensors \in Seq(Tensors) /\ DOMAIN tensors = DOMAIN g.tensors /\ tensors[t] = tensor
      /\ \A u \in DOMAIN g.tensors \ {t} : tensors[u] = g.tensors[u]
  <2> HIDE DEF Tensors
  <2> QED BY <1>1, SequenceChanged
<1> HIDE DEF tensors
<1>4. h = [nodes |-> g.nodes, edges |-> g.edges, tensors |-> tensors, handles |-> handles] BY <1>2 DEF Graphs
<1>5. h \in Graphs /\ h.nodes = g.nodes /\ h.edges = g.edges /\ h.tensors = tensors
  <2> HIDE DEF Nodes, NoNode, Edges, NoEdge, Tensors, Handles
  <2> QED BY ONLY <1>1, <1>3, <1>4, handles \in Seq(Handles) DEF Graphs
<1> QED BY <1>3, <1>5 DEF Alike, LiveNodes

LEMMA ConfigureTensorAlike ==
    ASSUME NEW g \in Graphs, NEW t \in DOMAIN g.tensors
    PROVE  Alike(ConfigureTensor(g, t), g)
<1> DEFINE hd == [parent |-> Empty, offset |-> 0, width |-> g.tensors[t].width]
           handles == Append(g.handles, hd)
           tensor == [g.tensors[t] EXCEPT !.handle = Len(g.handles) + 1]
           h == [g EXCEPT !.tensors[t] = tensor, !.handles = handles]
<1>1. g.tensors[t] \in Tensors /\ g.handles \in Seq(Handles) BY GraphIs DEF Graphs
<1>2. hd \in Handles BY <1>1 DEF Handles, Tensors, Empty
<1>3. handles \in Seq(Handles) /\ Len(g.handles) \in Nat
  <2> HIDE DEF Handles, hd
  <2> QED BY <1>1, <1>2, AppendedElements
<1>4. tensor \in Tensors /\ tensor.bound = g.tensors[t].bound BY <1>1, <1>3 DEF Tensors
<1>5. ConfigureTensor(g, t) = IF g.tensors[t].handle # Empty THEN g ELSE h
  <2>1. [g EXCEPT !.handles = Append(@, hd), !.tensors[t].handle = Len(g.handles) + 1] = h OBVIOUS
  <2> HIDE DEF h
  <2> QED BY <2>1 DEF ConfigureTensor, Width
<1> HIDE DEF tensor, handles
<1>6. Alike(h, g) BY <1>3, <1>4, TensorChanged
<1> HIDE DEF h
<1> QED BY <1>5, <1>6, AlikeSelf

LEMMA SetSubTensorAlike ==
    ASSUME NEW g \in Graphs, NEW t \in DOMAIN g.tensors, NEW parent \in DOMAIN g.tensors, NEW offset \in Nat
    PROVE  Alike(SetSubTensor(g, t, parent, offset), g)
<1> DEFINE hd == [parent |-> g.tensors[parent].handle, offset |-> offset, width |-> g.tensors[t].width]
           handles == Append(g.handles, hd)
           tensor == [g.tensors[t] EXCEPT !.handle = Len(g.handles) + 1]
           h == [g EXCEPT !.tensors[t] = tensor, !.handles = handles]
<1>1. g.tensors[t] \in Tensors /\ g.tensors[parent] \in Tensors /\ g.handles \in Seq(Handles) BY GraphIs DEF Graphs
<1>2. hd \in Handles BY <1>1 DEF Handles, Tensors
<1>3. handles \in Seq(Handles) /\ Len(g.handles) \in Nat
  <2> HIDE DEF Handles, hd
  <2> QED BY <1>1, <1>2, AppendedElements
<1>4. tensor \in Tensors /\ tensor.bound = g.tensors[t].bound BY <1>1, <1>3 DEF Tensors
<1>5. SetSubTensor(g, t, parent, offset) = h
  <2>1. [g EXCEPT !.handles = Append(@, hd), !.tensors[t].handle = Len(g.handles) + 1] = h OBVIOUS
  <2> HIDE DEF h
  <2> QED BY <2>1 DEF SetSubTensor, Width
<1> HIDE DEF tensor, handles
<1>6. Alike(h, g) BY <1>3, <1>4, TensorChanged
<1> HIDE DEF h
<1> QED BY <1>5, <1>6

LEMMA AccessorAlike ==
    ASSUME NEW g \in Graphs, NEW t \in DOMAIN g.tensors, NEW v \in BOOLEAN
    PROVE  Alike([g EXCEPT !.tensors[t].accessor = v], g)
<1> DEFINE tensor == [g.tensors[t] EXCEPT !.accessor = v]
           h == [g EXCEPT !.tensors[t] = tensor, !.handles = g.handles]
<1>1. g.tensors[t] \in Tensors /\ g.handles \in Seq(Handles) BY GraphIs DEF Graphs
<1>2. tensor \in Tensors /\ tensor.bound = g.tensors[t].bound BY <1>1 DEF Tensors
<1>3. [g EXCEPT !.tensors[t].accessor = v] = h BY DEF Graphs
<1> HIDE DEF tensor
<1>4. Alike(h, g) BY <1>1, <1>2, TensorChanged
<1> HIDE DEF h
<1> QED BY <1>3, <1>4

LEMMA EnabledAlike ==
    ASSUME NEW g \in Graphs, NEW n \in LiveNodes(g)
    PROVE  Alike([g EXCEPT !.nodes[n].enabled = FALSE], g)
<1> DEFINE node == [g.nodes[n] EXCEPT !.enabled = FALSE]
           h == [g EXCEPT !.nodes[n] = node]
<1>1. g.nodes[n] \in Nodes BY GraphIs
<1>2. /\ node \in Nodes /\ node.type = g.nodes[n].type /\ node.in = g.nodes[n].in
      /\ node.out = g.nodes[n].out /\ node.outputs = g.nodes[n].outputs
  BY <1>1 DEF Nodes
<1>3. [g EXCEPT !.nodes[n].enabled = FALSE] = h OBVIOUS
<1> HIDE DEF node
<1>4. Alike(h, g) BY <1>2, NodeChanged
<1> HIDE DEF h
<1> QED BY <1>3, <1>4

LEMMA LastAlike ==
    ASSUME NEW g \in Graphs, NEW n \in LiveNodes(g), NEW m \in Nat
    PROVE  Alike([g EXCEPT !.nodes[n].last = m], g)
<1> DEFINE node == [g.nodes[n] EXCEPT !.last = m]
           h == [g EXCEPT !.nodes[n] = node]
<1>1. g.nodes[n] \in Nodes BY GraphIs
<1>2. /\ node \in Nodes /\ node.type = g.nodes[n].type /\ node.in = g.nodes[n].in
      /\ node.out = g.nodes[n].out /\ node.outputs = g.nodes[n].outputs
  BY <1>1 DEF Nodes
<1>3. [g EXCEPT !.nodes[n].last = m] = h OBVIOUS
<1> HIDE DEF node
<1>4. Alike(h, g) BY <1>2, NodeChanged
<1> HIDE DEF h
<1> QED BY <1>3, <1>4

LEMMA FirstLastAlike ==
    ASSUME NEW g \in Graphs, NEW n \in LiveNodes(g), NEW m \in Nat, NEW l \in Nat
    PROVE  Alike([g EXCEPT !.nodes[n].first = m, !.nodes[n].last = l], g)
<1> DEFINE node == [g.nodes[n] EXCEPT !.first = m, !.last = l]
           h == [g EXCEPT !.nodes[n] = node]
<1>1. g.nodes[n] \in Nodes /\ n \in DOMAIN g.nodes BY GraphIs
<1>2. /\ node \in Nodes /\ node.type = g.nodes[n].type /\ node.in = g.nodes[n].in
      /\ node.out = g.nodes[n].out /\ node.outputs = g.nodes[n].outputs
  BY <1>1 DEF Nodes
<1>3. [g EXCEPT !.nodes[n].first = m, !.nodes[n].last = l] = h BY <1>1 DEF Graphs
<1> HIDE DEF node
<1>4. Alike(h, g) BY <1>2, NodeChanged
<1> HIDE DEF h
<1> QED BY <1>3, <1>4

LEMMA PartAlike ==
    ASSUME NEW g \in Graphs, NEW n \in LiveNodes(g), NEW m \in Nat, NEW l \in Nat, NEW part \in Nat \X Nat
    PROVE  Alike([g EXCEPT !.nodes[n].first = m, !.nodes[n].last = l, !.nodes[n].part = part], g)
<1> DEFINE node == [g.nodes[n] EXCEPT !.first = m, !.last = l, !.part = part]
           h == [g EXCEPT !.nodes[n] = node]
<1>1. g.nodes[n] \in Nodes /\ n \in DOMAIN g.nodes BY GraphIs
<1>2. /\ node \in Nodes /\ node.type = g.nodes[n].type /\ node.in = g.nodes[n].in
      /\ node.out = g.nodes[n].out /\ node.outputs = g.nodes[n].outputs
  BY <1>1 DEF Nodes
<1>3. [g EXCEPT !.nodes[n].first = m, !.nodes[n].last = l, !.nodes[n].part = part] = h BY <1>1 DEF Graphs
<1> HIDE DEF node
<1>4. Alike(h, g) BY <1>2, NodeChanged
<1> HIDE DEF h
<1> QED BY <1>3, <1>4

(* The graphs like g.                                                      *)
Likes(g) == {h \in Graphs : Alike(h, g)}

LEMMA ConfigureTensorsSteps ==
    ASSUME NEW g \in Graphs
    PROVE  \E steps \in [0..Len([t \in DOMAIN g.tensors |-> t]) -> Likes(g)] :
              /\ steps[0] = g /\ \A k \in 1..Len([t \in DOMAIN g.tensors |-> t]) : steps[k] = ConfigureTensor(steps[k - 1], [t \in DOMAIN g.tensors |-> t][k])
              /\ ConfigureTensors(g) = steps[Len([t \in DOMAIN g.tensors |-> t])]
<1> DEFINE n == Len([t \in DOMAIN g.tensors |-> t])
           Step == [x \in (Likes(g)) \X (1..n) |-> ConfigureTensor(x[1], [t \in DOMAIN g.tensors |-> t][x[2]])]
<1>1. n \in Nat /\ DOMAIN [t \in DOMAIN g.tensors |-> t] = 1..n BY GraphIs
<1>2. /\ g \in Likes(g)
      /\ \A x \in Likes(g), k \in 1..n : ConfigureTensor(x, [t \in DOMAIN g.tensors |-> t][k]) \in Likes(g)
  <2>1. g \in Likes(g) BY AlikeSelf DEF Likes
  <2>2. ASSUME NEW x \in Likes(g), NEW k \in 1..n PROVE ConfigureTensor(x, [t \in DOMAIN g.tensors |-> t][k]) \in Likes(g)
    <3>1. k \in DOMAIN g.tensors /\ [t \in DOMAIN g.tensors |-> t][k] = k BY <1>1
    <3>2. x \in Graphs /\ Alike(x, g) /\ k \in DOMAIN x.tensors BY <3>1 DEF Likes, Alike
    <3>3. Alike(ConfigureTensor(x, k), x) BY <3>2, ConfigureTensorAlike
    <3>4. Alike(ConfigureTensor(x, k), g) BY <3>2, <3>3, AlikeAgain
    <3> HIDE DEF n
    <3> QED BY <3>1, <3>4 DEF Likes, Alike
  <2> QED BY <2>1, <2>2
<1>3. Step \in [(Likes(g)) \X (1..n) -> Likes(g)] /\ \A x \in Likes(g), k \in 1..n : Step[<<x, k>>] = ConfigureTensor(x, [t \in DOMAIN g.tensors |-> t][k])
  BY <1>2
<1> HIDE DEF n, Step
<1> DEFINE Eq(it) == it = [z \in SUBSET DOMAIN [t \in DOMAIN g.tensors |-> t] |->
                             IF z = {} THEN g ELSE ConfigureTensor(it[z \ {Max(z)}], [t \in DOMAIN g.tensors |-> t][Max(z)])]
           tab == CHOOSE it : Eq(it)
<1>4. ConfigureTensors(g) = tab[DOMAIN [t \in DOMAIN g.tensors |-> t]]
  BY Zenon DEF FoldLeft, MapThenFoldSet, ConfigureTensors
<1>5. PICK it \in [SUBSET (1..n) -> Likes(g)] : FoldsBy(it, 1..n, g, Step)
  <2>1. HasFold(n, Likes(g), g, Step) BY <1>1, <1>2, <1>3, FoldOfSet
  <2> QED BY <2>1 DEF HasFold
<1>6. Eq(it)
  <2>1. ASSUME NEW z \in SUBSET (1..n)
        PROVE  it[z] = IF z = {} THEN g ELSE ConfigureTensor(it[z \ {Max(z)}], [t \in DOMAIN g.tensors |-> t][Max(z)])
    <3>1. CASE z = {} BY <1>5, <3>1 DEF FoldsBy
    <3>2. CASE z # {}
      <4>1. Max(z) \in 1..n BY <1>1, <3>2, MaxOfSome
      <4>2. it[z \ {Max(z)}] \in Likes(g)
        <5>1. z \ {Max(z)} \in SUBSET (1..n) OBVIOUS
        <5> QED BY <1>5, <5>1
      <4>3. it[z] = Step[<<it[z \ {Max(z)}], Max(z)>>] BY <1>5, <3>2 DEF FoldsBy
      <4> QED BY <1>3, <3>2, <4>1, <4>2, <4>3
    <3> QED BY <3>1, <3>2
  <2> QED BY <1>1, <1>5, <2>1
<1>7. Eq(tab)
  <2> HIDE DEF Eq
  <2> QED BY <1>6
<1> HIDE DEF tab
<1>8. ASSUME NEW z \in SUBSET (1..n), z # {}, tab[z \ {Max(z)}] \in Likes(g)
      PROVE  tab[z] = Step[<<tab[z \ {Max(z)}], Max(z)>>]
  <2>1. Max(z) \in 1..n BY <1>1, <1>8, MaxOfSome
  <2>2. tab[z] = ConfigureTensor(tab[z \ {Max(z)}], [t \in DOMAIN g.tensors |-> t][Max(z)]) BY <1>1, <1>7, <1>8
  <2> QED BY <1>3, <1>8, <2>1, <2>2
<1>9. tab[{}] = g BY <1>1, <1>7
<1>10. Folded(tab[1..n], n, Likes(g), g, Step) BY <1>1, <1>2, <1>3, <1>8, <1>9, FoldTable
<1>11. PICK steps \in [0..n -> Likes(g)] : Stepwise(steps, n, g, Step) /\ tab[1..n] = steps[n]
  BY <1>10 DEF Folded
<1>12. ASSUME NEW k \in 1..n PROVE steps[k] = ConfigureTensor(steps[k - 1], [t \in DOMAIN g.tensors |-> t][k])
  <2>1. k - 1 \in 0..n BY <1>1
  <2>2. steps[k - 1] \in Likes(g) BY <1>11, <2>1
  <2> QED BY <1>3, <1>11, <2>2 DEF Stepwise
<1>13. steps[0] = g BY <1>11 DEF Stepwise
<1>14. ConfigureTensors(g) = steps[n] BY <1>1, <1>4, <1>11
<1> HIDE <1>2, <1>7, <1>8
<1> QED BY <1>11, <1>12, <1>13, <1>14 DEF n


LEMMA ConfigureTensorsAlike ==
    ASSUME NEW g \in Graphs
    PROVE  Alike(ConfigureTensors(g), g)
<1> DEFINE q == [t \in DOMAIN g.tensors |-> t]
<1>1. PICK steps \in [0..Len(q) -> Likes(g)] : ConfigureTensors(g) = steps[Len(q)] BY ConfigureTensorsSteps
<1>2. Len(q) \in Nat BY GraphIs
<1> HIDE DEF q
<1> QED BY <1>1, <1>2 DEF Likes

(* set_output_tensor, for a node with one output.                          *)
Moved(h, g, n, t) == LET es == g.nodes[n].out IN
    /\ h \in Graphs /\ DOMAIN h.nodes = DOMAIN g.nodes /\ LiveNodes(h) = LiveNodes(g)
    /\ \A m \in LiveNodes(g) :
          /\ h.nodes[m].type = g.nodes[m].type /\ h.nodes[m].in = g.nodes[m].in /\ h.nodes[m].out = g.nodes[m].out
          /\ DOMAIN h.nodes[m].outputs = DOMAIN g.nodes[m].outputs
          /\ \A k \in DOMAIN g.nodes[m].outputs : h.nodes[m].outputs[k] = IF m = n THEN t ELSE g.nodes[m].outputs[k]
    /\ DOMAIN h.edges = DOMAIN g.edges /\ LiveEdges(h) = LiveEdges(g)
    /\ \A e \in LiveEdges(g) :
          /\ h.edges[e].from = g.edges[e].from /\ h.edges[e].fromIdx = g.edges[e].fromIdx
          /\ h.edges[e].to = g.edges[e].to /\ h.edges[e].toIdx = g.edges[e].toIdx
          /\ h.edges[e].tensor = IF e \in es THEN t ELSE g.edges[e].tensor
    /\ DOMAIN h.tensors = DOMAIN g.tensors
    /\ \A u \in DOMAIN g.tensors :
          h.tensors[u].bound = IF u = t THEN g.tensors[u].bound \union es ELSE g.tensors[u].bound \ es

LEMMA SetOutputTensorIs ==
    ASSUME NEW g, WellFormed(g), NEW n \in LiveNodes(g), Len(g.nodes[n].outputs) = 1, NEW t \in DOMAIN g.tensors
    PROVE  Moved(SetOutputTensor(g, n, t, 1), g, n, t)
<1> DEFINE es == g.nodes[n].out
           node == [g.nodes[n] EXCEPT !.outputs[1] = t]
           edge(e) == IF e \in es THEN [g.edges[e] EXCEPT !.tensor = t] ELSE g.edges[e]
           tensor(u) == [g.tensors[u] EXCEPT !.bound = IF u = t THEN @ \union es ELSE @ \ es]
           nodes == [g.nodes EXCEPT ![n] = node]
           edges == [e \in DOMAIN g.edges |-> edge(e)]
           tensors == [u \in DOMAIN g.tensors |-> tensor(u)]
           h == SetOutputTensor(g, n, t, 1)
<1>0. g \in Graphs /\ n \in DOMAIN g.nodes /\ g.nodes[n] \in Nodes /\ NodeKnows(g, n) BY GraphIs DEF WellFormed
<1>1. /\ g.nodes \in Seq(Nodes \union {NoNode}) /\ g.edges \in Seq(Edges \union {NoEdge})
      /\ g.tensors \in Seq(Tensors) /\ g.handles \in Seq(Handles)
  BY <1>0 DEF Graphs
<1>2. /\ Len(g.edges) \in Nat /\ DOMAIN g.edges = 1..Len(g.edges)
      /\ Len(g.tensors) \in Nat /\ DOMAIN g.tensors = 1..Len(g.tensors) /\ t \in Nat
      /\ es \subseteq LiveEdges(g) /\ es \subseteq Nat
  <2>1. es \subseteq LiveEdges(g) BY <1>0 DEF NodeKnows
  <2>2. \A e \in LiveEdges(g) : e \in Nat BY <1>0, GraphIs
  <2> QED BY <1>0, <2>1, <2>2, GraphIs
<1>3. h = [g EXCEPT !.nodes = nodes, !.edges = Evaluated(edges), !.tensors = Evaluated(tensors)]
  BY DEF SetOutputTensor
<1>4. /\ node \in Nodes /\ node.type = g.nodes[n].type /\ node.in = g.nodes[n].in /\ node.out = g.nodes[n].out
      /\ DOMAIN node.outputs = DOMAIN g.nodes[n].outputs /\ \A k \in DOMAIN g.nodes[n].outputs : node.outputs[k] = t
  <2> DEFINE outputs == [g.nodes[n].outputs EXCEPT ![1] = t]
  <2>1. g.nodes[n].outputs \in Seq(Nat) /\ DOMAIN g.nodes[n].outputs = {1} BY <1>0 DEF Nodes
  <2>2. outputs \in Seq(Nat) /\ DOMAIN outputs = {1} /\ outputs[1] = t BY <1>2, <2>1, SequenceChanged
  <2>3. node = [g.nodes[n] EXCEPT !.outputs = outputs] OBVIOUS
  <2> HIDE DEF node, outputs
  <2>4. /\ node \in Nodes /\ node.type = g.nodes[n].type /\ node.in = g.nodes[n].in /\ node.out = g.nodes[n].out
        /\ node.outputs = outputs
    BY <1>0, <2>2, <2>3 DEF Nodes
  <2> QED BY <2>1, <2>2, <2>4
<1>5. ASSUME NEW e \in LiveEdges(g)
      PROVE  /\ edge(e) \in Edges /\ edge(e).from = g.edges[e].from /\ edge(e).fromIdx = g.edges[e].fromIdx
             /\ edge(e).to = g.edges[e].to /\ edge(e).toIdx = g.edges[e].toIdx
             /\ edge(e).tensor = IF e \in es THEN t ELSE g.edges[e].tensor
  <2>1. g.edges[e] \in Edges BY <1>0, GraphIs
  <2> HIDE DEF es
  <2> QED BY <1>2, <2>1 DEF Edges
<1>6. ASSUME NEW u \in DOMAIN g.tensors
      PROVE  /\ tensor(u) \in Tensors
             /\ tensor(u).bound = IF u = t THEN g.tensors[u].bound \union es ELSE g.tensors[u].bound \ es
  <2>1. g.tensors[u] \in Tensors BY <1>0, GraphIs
  <2> HIDE DEF es
  <2> QED BY <1>2, <2>1 DEF Tensors
<1>7. \A e \in DOMAIN g.edges \ LiveEdges(g) : edge(e) = NoEdge
  <2> HIDE DEF es
  <2> QED BY <1>0, <1>2, GraphIs
<1> HIDE DEF node, edge, tensor
<1>8. /\ nodes \in Seq(Nodes \union {NoNode}) /\ DOMAIN nodes = DOMAIN g.nodes /\ nodes[n] = node
      /\ \A m \in DOMAIN g.nodes \ {n} : nodes[m] = g.nodes[m]
  <2>1. node \in Nodes \union {NoNode} BY <1>4
  <2> HIDE DEF Nodes, NoNode
  <2> QED BY <1>0, <1>1, <2>1, SequenceChanged
<1>9. edges \in Seq(Edges \union {NoEdge}) /\ DOMAIN edges = DOMAIN g.edges /\ \A e \in DOMAIN g.edges : edges[e] = edge(e)
  <2>1. \A e \in 1..Len(g.edges) : edges[e] \in Edges \union {NoEdge}
    <3> HIDE DEF Edges, NoEdge
    <3> QED BY <1>2, <1>5, <1>7
  <2>2. edges = [e \in 1..Len(g.edges) |-> edges[e]] BY <1>2
  <2>3. \A e \in DOMAIN g.edges : edges[e] = edge(e) OBVIOUS
  <2> HIDE DEF edges, Edges, NoEdge
  <2> QED BY <1>2, <2>1, <2>2, <2>3, FunctionIsSequence
<1>10. tensors \in Seq(Tensors) /\ DOMAIN tensors = DOMAIN g.tensors /\ \A u \in DOMAIN g.tensors : tensors[u] = tensor(u)
  <2>1. \A u \in 1..Len(g.tensors) : tensors[u] \in Tensors BY <1>2, <1>6
  <2>2. tensors = [u \in 1..Len(g.tensors) |-> tensors[u]] BY <1>2
  <2>3. \A u \in DOMAIN g.tensors : tensors[u] = tensor(u) OBVIOUS
  <2> HIDE DEF tensors, Tensors
  <2> QED BY <1>2, <2>1, <2>2, <2>3, FunctionIsSequence
<1> HIDE DEF nodes, edges, tensors, h
<1>11. h = [nodes |-> nodes, edges |-> edges, tensors |-> tensors, handles |-> g.handles]
  <2>1. Evaluated(edges) = edges /\ Evaluated(tensors) = tensors
    <3> HIDE DEF Edges, NoEdge, Tensors
    <3> QED BY <1>9, <1>10, EvaluatedIs
  <2>2. h = [g EXCEPT !.nodes = nodes, !.edges = edges, !.tensors = tensors] BY <1>3, <2>1
  <2> QED BY <1>0, <2>2 DEF Graphs
<1>12. h \in Graphs /\ h.nodes = nodes /\ h.edges = edges /\ h.tensors = tensors
  <2> HIDE DEF Nodes, NoNode, Edges, NoEdge, Tensors, Handles
  <2> QED BY ONLY <1>1, <1>8, <1>9, <1>10, <1>11 DEF Graphs
<1>13. LiveNodes(h) = LiveNodes(g)
  <2>1. node # NoNode BY <1>4, NotNoNode
  <2> QED BY <1>0, <1>8, <1>12, <2>1 DEF LiveNodes
<1>14. LiveEdges(h) = LiveEdges(g)
  <2>1. \A e \in LiveEdges(g) : edge(e) # NoEdge BY <1>5, NotNoEdge
  <2> QED BY <1>7, <1>9, <1>12, <2>1 DEF LiveEdges
<1>15. ASSUME NEW m \in LiveNodes(g)
       PROVE  /\ h.nodes[m].type = g.nodes[m].type /\ h.nodes[m].in = g.nodes[m].in /\ h.nodes[m].out = g.nodes[m].out
              /\ DOMAIN h.nodes[m].outputs = DOMAIN g.nodes[m].outputs
              /\ \A k \in DOMAIN g.nodes[m].outputs :
                    h.nodes[m].outputs[k] = IF m = n THEN t ELSE g.nodes[m].outputs[k]
  <2>1. m \in DOMAIN g.nodes BY DEF LiveNodes
  <2>2. CASE m = n BY <1>4, <1>8, <1>12, <2>2
  <2>3. CASE m # n BY <1>8, <1>12, <2>1, <2>3
  <2> QED BY <2>2, <2>3
<1>16. \A e \in LiveEdges(g) : e \in DOMAIN g.edges BY DEF LiveEdges
<1> HIDE DEF Edges, Tensors, Nodes
<1>17. DOMAIN h.nodes = DOMAIN g.nodes /\ DOMAIN h.edges = DOMAIN g.edges /\ DOMAIN h.tensors = DOMAIN g.tensors
  BY <1>8, <1>9, <1>10, <1>12
<1>18. \A e \in LiveEdges(g) :
          /\ h.edges[e].from = g.edges[e].from /\ h.edges[e].fromIdx = g.edges[e].fromIdx
          /\ h.edges[e].to = g.edges[e].to /\ h.edges[e].toIdx = g.edges[e].toIdx
          /\ h.edges[e].tensor = IF e \in es THEN t ELSE g.edges[e].tensor
  BY <1>5, <1>9, <1>12, <1>16
<1>19. \A u \in DOMAIN g.tensors :
          h.tensors[u].bound = IF u = t THEN g.tensors[u].bound \union es ELSE g.tensors[u].bound \ es
  BY <1>6, <1>10, <1>12
<1> QED BY ONLY <1>12, <1>13, <1>14, <1>15, <1>17, <1>18, <1>19 DEF Moved, es, h

LEMMA MovedWellFormed ==
    ASSUME NEW g, WellFormed(g), NEW n \in LiveNodes(g), Len(g.nodes[n].outputs) = 1, NEW t \in DOMAIN g.tensors,
           NEW h, Moved(h, g, n, t)
    PROVE  WellFormed(h)
<1> DEFINE es == g.nodes[n].out
<1>1. /\ h \in Graphs /\ LiveNodes(h) = LiveNodes(g) /\ LiveEdges(h) = LiveEdges(g)
      /\ DOMAIN h.tensors = DOMAIN g.tensors
  BY DEF Moved
<1>2. \A m \in LiveNodes(g) :
          /\ h.nodes[m].type = g.nodes[m].type /\ h.nodes[m].in = g.nodes[m].in /\ h.nodes[m].out = g.nodes[m].out
          /\ DOMAIN h.nodes[m].outputs = DOMAIN g.nodes[m].outputs
          /\ \A k \in DOMAIN g.nodes[m].outputs : h.nodes[m].outputs[k] = IF m = n THEN t ELSE g.nodes[m].outputs[k]
  BY DEF Moved
<1>3. \A e \in LiveEdges(g) :
          /\ h.edges[e].from = g.edges[e].from /\ h.edges[e].fromIdx = g.edges[e].fromIdx
          /\ h.edges[e].to = g.edges[e].to /\ h.edges[e].toIdx = g.edges[e].toIdx
          /\ h.edges[e].tensor = IF e \in es THEN t ELSE g.edges[e].tensor
  BY DEF Moved
<1>4. \A u \in DOMAIN g.tensors :
          h.tensors[u].bound = IF u = t THEN g.tensors[u].bound \union es ELSE g.tensors[u].bound \ es
  BY DEF Moved
<1>5. es \subseteq LiveEdges(g) /\ \A e \in LiveEdges(g) : e \in es <=> g.edges[e].from = n
  <2>1. NodeKnows(g, n) BY DEF WellFormed
  <2>2. \A e \in LiveEdges(g) : e \in g.nodes[g.edges[e].from].out BY EdgeFacts
  <2> QED BY <2>1, <2>2 DEF NodeKnows
<1> HIDE DEF es
<1>6. \A m \in LiveNodes(g) : Inputs(h, m) = Inputs(g, m) /\ Outputs(h, m) = Outputs(g, m)
  BY <1>2 DEF Inputs, Outputs
<1>7. ASSUME NEW e \in LiveEdges(h) PROVE EdgeKnown(h, e)
  <2> DEFINE c == g.edges[e]
             d == h.edges[e]
  <2>1. /\ c.from \in LiveNodes(g) /\ c.to \in LiveNodes(g)
        /\ c.fromIdx \in Outputs(g, c.from) /\ c.toIdx \in Inputs(g, c.to)
        /\ e \in g.nodes[c.from].out
        /\ g.nodes[c.to].in[c.toIdx] = e
        /\ c.tensor = g.nodes[c.from].outputs[c.fromIdx]
        /\ e \in g.tensors[c.tensor].bound
        /\ c.tensor \in DOMAIN g.tensors
    BY <1>1, EdgeFacts
  <2>2. /\ d.from = c.from /\ d.fromIdx = c.fromIdx /\ d.to = c.to /\ d.toIdx = c.toIdx
        /\ d.tensor = (IF e \in es THEN t ELSE c.tensor) /\ (e \in es <=> c.from = n)
    BY <1>1, <1>3, <1>5
  <2> HIDE DEF c
  <2>3. e \in h.nodes[c.from].out /\ h.nodes[c.to].in[c.toIdx] = e BY <1>2, <2>1
  <2>4. d.tensor = h.nodes[c.from].outputs[c.fromIdx] BY <1>2, <2>1, <2>2 DEF Outputs
  <2>5. e \in h.tensors[d.tensor].bound BY <1>4, <2>1, <2>2
  <2> QED BY <1>1, <1>6, <2>1, <2>2, <2>3, <2>4, <2>5 DEF EdgeKnown
<1>8. ASSUME NEW m \in LiveNodes(h) PROVE NodeKnows(h, m)
  <2>1. NodeKnows(g, m) /\ m \in LiveNodes(g) BY <1>1 DEF WellFormed
  <2>2. ASSUME NEW e \in h.nodes[m].out PROVE e \in LiveEdges(h) /\ h.edges[e].from = m
    BY <1>1, <1>2, <1>3, <2>1, <2>2 DEF NodeKnows
  <2>3. ASSUME NEW j \in Inputs(h, m), h.nodes[m].in[j] # Empty
        PROVE  LET e == h.nodes[m].in[j] IN e \in LiveEdges(h) /\ h.edges[e].to = m /\ h.edges[e].toIdx = j
    <3>1. j \in Inputs(g, m) /\ h.nodes[m].in[j] = g.nodes[m].in[j] BY <1>2, <1>6, <2>1, <2>3
    <3>2. LET e == g.nodes[m].in[j] IN e \in LiveEdges(g) /\ g.edges[e].to = m /\ g.edges[e].toIdx = j
      BY <2>1, <2>3, <3>1 DEF NodeKnows
    <3> QED BY <1>1, <1>3, <3>1, <3>2
  <2>4. \A x \in Outputs(h, m) : h.nodes[m].outputs[x] \in DOMAIN h.tensors
    BY <1>1, <1>2, <1>6, <2>1 DEF NodeKnows, Outputs
  <2>5. Shaped(h.nodes[m])
    <3>1. g.nodes[m] \in Nodes /\ h.nodes[m] \in Nodes BY <1>1, <2>1, GraphIs DEF WellFormed
    <3>2. Len(h.nodes[m].outputs) = Len(g.nodes[m].outputs)
      <4>1. g.nodes[m].outputs \in Seq(Nat) /\ h.nodes[m].outputs \in Seq(Nat) BY <3>1 DEF Nodes
      <4>2. DOMAIN h.nodes[m].outputs = DOMAIN g.nodes[m].outputs BY <1>2, <2>1
      <4> QED BY <4>1, <4>2
    <3>3. Shaped(g.nodes[m]) BY <2>1 DEF NodeKnows
    <3> QED BY <1>2, <2>1, <3>2, <3>3 DEF Shaped
  <2> QED BY <2>2, <2>3, <2>4, <2>5 DEF NodeKnows
<1>9. ASSUME NEW u \in DOMAIN h.tensors PROVE TensorKnows(h, u)
  <2>1. TensorKnows(g, u) /\ u \in DOMAIN g.tensors BY <1>1 DEF WellFormed
  <2> SUFFICES ASSUME NEW e \in h.tensors[u].bound PROVE e \in LiveEdges(h) /\ h.edges[e].tensor = u
    BY DEF TensorKnows
  <2>2. e \in LiveEdges(g) BY <1>4, <1>5, <2>1 DEF TensorKnows
  <2> QED BY <1>1, <1>3, <1>4, <1>5, <2>1, <2>2 DEF TensorKnows
<1> QED BY <1>1, <1>7, <1>8, <1>9 DEF WellFormed

LEMMA MovedGood ==
    ASSUME NEW g, Good(g), NEW n \in LiveNodes(g), Len(g.nodes[n].outputs) = 1, NEW t \in DOMAIN g.tensors
    PROVE  LET h == SetOutputTensor(g, n, t, 1) IN Good(h) /\ DOMAIN h.nodes = DOMAIN g.nodes
<1> DEFINE h == SetOutputTensor(g, n, t, 1)
<1>1. Moved(h, g, n, t) BY SetOutputTensorIs DEF Good
<1> HIDE DEF h
<1>2. WellFormed(h) BY <1>1, MovedWellFormed DEF Good
<1>3. Full(h) BY <1>1 DEF Good, Full, Moved, Inputs
<1>4. \A rank \in Ranks : OrderedBy(g, rank) => OrderedBy(h, rank) BY <1>1 DEF OrderedBy, Moved
<1> QED BY <1>1, <1>2, <1>3, <1>4 DEF Good, Moved, h

-----------------------------------------------------------------------------
(* Connections that are made one by one, each to an empty slot of its own. *)

Plan(g, links) ==
    /\ \A l \in links : /\ l.from \in LiveNodes(g) /\ l.fromIdx \in Outputs(g, l.from)
                        /\ l.to \in LiveNodes(g) /\ l.toIdx \in Inputs(g, l.to)
                        /\ l.from # l.to /\ g.nodes[l.to].in[l.toIdx] = Empty
    /\ \A l, m \in links : l.to = m.to /\ l.toIdx = m.toIdx => l.from = m.from /\ l.fromIdx = m.fromIdx

(* Some of them have been made.                                            *)
Wired(h, g, links) ==
    /\ WellFormed(h) /\ LiveNodes(h) = LiveNodes(g)
    /\ DOMAIN h.nodes = DOMAIN g.nodes /\ DOMAIN h.tensors = DOMAIN g.tensors
    /\ \A n \in LiveNodes(g) :
          /\ h.nodes[n].type = g.nodes[n].type /\ h.nodes[n].outputs = g.nodes[n].outputs
          /\ DOMAIN h.nodes[n].in = DOMAIN g.nodes[n].in
          /\ \A j \in DOMAIN g.nodes[n].in :
                g.nodes[n].in[j] # Empty => h.nodes[n].in[j] = g.nodes[n].in[j]
    /\ LiveEdges(g) \subseteq LiveEdges(h) /\ \A e \in LiveEdges(g) : h.edges[e] = g.edges[e]
    /\ \A e \in LiveEdges(h) \ LiveEdges(g) : \E l \in links :
          /\ h.edges[e].from = l.from /\ h.edges[e].fromIdx = l.fromIdx
          /\ h.edges[e].to = l.to /\ h.edges[e].toIdx = l.toIdx

(* What was connected in h is so in k.                                     *)
Keeps(k, h) == \A n \in LiveNodes(h) : \A j \in DOMAIN h.nodes[n].in :
                   h.nodes[n].in[j] # Empty => k.nodes[n].in[j] # Empty

LEMMA WiredBefore ==
    ASSUME NEW g, WellFormed(g), NEW links
    PROVE  Wired(g, g, links)
BY DEF Wired

LEMMA WiredAlike ==
    ASSUME NEW g, NEW links, NEW h, Wired(h, g, links), NEW k, Alike(k, h)
    PROVE  Wired(k, g, links) /\ Keeps(k, h)
<1>1. WellFormed(k) BY AlikeWellFormed DEF Wired
<1>2. LiveEdges(k) = LiveEdges(h) BY DEF Alike, LiveEdges
<1>3. Keeps(k, h) BY DEF Keeps, Alike
<1>4. /\ LiveNodes(k) = LiveNodes(g)
      /\ DOMAIN k.nodes = DOMAIN g.nodes /\ DOMAIN k.tensors = DOMAIN g.tensors /\ k.edges = h.edges
  BY DEF Alike, Wired
<1>5. ASSUME NEW n \in LiveNodes(g)
      PROVE  /\ k.nodes[n].type = g.nodes[n].type /\ k.nodes[n].outputs = g.nodes[n].outputs
             /\ DOMAIN k.nodes[n].in = DOMAIN g.nodes[n].in
             /\ \A j \in DOMAIN g.nodes[n].in :
                   g.nodes[n].in[j] # Empty => k.nodes[n].in[j] = g.nodes[n].in[j]
  BY DEF Alike, Wired
<1>6. LiveEdges(g) \subseteq LiveEdges(k) /\ \A e \in LiveEdges(g) : k.edges[e] = g.edges[e]
  BY <1>2, <1>4 DEF Wired
<1>7. \A e \in LiveEdges(k) \ LiveEdges(g) : \E l \in links :
          /\ k.edges[e].from = l.from /\ k.edges[e].fromIdx = l.fromIdx
          /\ k.edges[e].to = l.to /\ k.edges[e].toIdx = l.toIdx
  BY <1>2, <1>4 DEF Wired
<1> QED BY <1>1, <1>3, <1>4, <1>5, <1>6, <1>7 DEF Wired

LEMMA Linked ==
    ASSUME NEW g, WellFormed(g), NEW links, Plan(g, links), NEW h, Wired(h, g, links), NEW l \in links
    PROVE  LET k == AddConnection(h, l.from, l.fromIdx, l.to, l.toIdx)
           IN  Wired(k, g, links) /\ Keeps(k, h) /\ k.nodes[l.to].in[l.toIdx] # Empty
<1> DEFINE k == AddConnection(h, l.from, l.fromIdx, l.to, l.toIdx)
           old == h.nodes[l.to].in[l.toIdx]
<1>1. /\ l.from \in LiveNodes(g) /\ l.fromIdx \in Outputs(g, l.from)
      /\ l.to \in LiveNodes(g) /\ l.toIdx \in Inputs(g, l.to)
      /\ l.from # l.to /\ g.nodes[l.to].in[l.toIdx] = Empty
  BY DEF Plan
<1>2. /\ WellFormed(h) /\ h \in Graphs /\ LiveNodes(h) = LiveNodes(g)
      /\ DOMAIN h.nodes = DOMAIN g.nodes /\ DOMAIN h.tensors = DOMAIN g.tensors
      /\ LiveEdges(g) \subseteq LiveEdges(h) /\ \A e \in LiveEdges(g) : h.edges[e] = g.edges[e]
  BY DEF Wired, WellFormed
<1>3. \A n \in LiveNodes(g) :
          /\ h.nodes[n].type = g.nodes[n].type /\ h.nodes[n].outputs = g.nodes[n].outputs
          /\ DOMAIN h.nodes[n].in = DOMAIN g.nodes[n].in
          /\ \A j \in DOMAIN g.nodes[n].in :
                g.nodes[n].in[j] # Empty => h.nodes[n].in[j] = g.nodes[n].in[j]
  BY DEF Wired
<1>4. \A e \in LiveEdges(h) \ LiveEdges(g) : \E m \in links :
          /\ h.edges[e].from = m.from /\ h.edges[e].fromIdx = m.fromIdx
          /\ h.edges[e].to = m.to /\ h.edges[e].toIdx = m.toIdx
  BY DEF Wired
<1>5. l.fromIdx \in Outputs(h, l.from) /\ l.toIdx \in Inputs(h, l.to) BY <1>1, <1>3 DEF Inputs, Outputs
<1>6. CASE old # Empty
  <2>1. old \in LiveEdges(h) /\ h.edges[old].to = l.to /\ h.edges[old].toIdx = l.toIdx
    <3>1. NodeKnows(h, l.to) BY <1>1, <1>2 DEF WellFormed
    <3> QED BY <1>5, <1>6, <3>1 DEF NodeKnows
  <2>2. old \notin LiveEdges(g)
    <3> SUFFICES ASSUME old \in LiveEdges(g) PROVE FALSE OBVIOUS
    <3>1. g.edges[old].to = l.to /\ g.edges[old].toIdx = l.toIdx BY <1>2, <2>1
    <3>2. g.nodes[g.edges[old].to].in[g.edges[old].toIdx] = old
      <4> HIDE DEF old
      <4> QED BY EdgeFacts
    <3>3. g.nodes[l.to].in[l.toIdx] = Empty BY <1>1
    <3> QED BY ONLY <1>6, <3>1, <3>2, <3>3
  <2>3. h.edges[old].from = l.from /\ h.edges[old].fromIdx = l.fromIdx
    <3>1. PICK m \in links : /\ h.edges[old].from = m.from /\ h.edges[old].fromIdx = m.fromIdx
                             /\ h.edges[old].to = m.to /\ h.edges[old].toIdx = m.toIdx
      BY <1>4, <2>1, <2>2
    <3>2. m.to = l.to /\ m.toIdx = l.toIdx BY <2>1, <3>1
    <3>3. l.from = m.from /\ l.fromIdx = m.fromIdx
      <4>1. \A a, b \in links : a.to = b.to /\ a.toIdx = b.toIdx => a.from = b.from /\ a.fromIdx = b.fromIdx
        BY DEF Plan
      <4> QED BY <3>2, <4>1
    <3> QED BY ONLY <3>1, <3>3
  <2>4. k = h BY <1>6, <2>3 DEF AddConnection
  <2> HIDE DEF k
  <2> QED BY <1>6, <2>4 DEF Keeps, k
<1>7. CASE old = Empty
  <2>1. h.nodes[l.from].outputs[l.fromIdx] \in DOMAIN h.tensors
    BY <1>1, <1>2, <1>5 DEF WellFormed, NodeKnows
  <2>2. Joined(k, h, l.from, l.fromIdx, l.to, l.toIdx) BY <1>1, <1>2, <1>5, <1>7, <2>1, AddConnectionIs
  <2> DEFINE eid == Len(h.edges) + 1
             tid == h.nodes[l.from].outputs[l.fromIdx]
             new == [from |-> l.from, fromIdx |-> l.fromIdx, to |-> l.to, toIdx |-> l.toIdx, tensor |-> tid]
  <2> HIDE DEF k
  <2>3. /\ WellFormed(k) /\ LiveNodes(k) = LiveNodes(h) /\ eid \in Nat \ {0}
        /\ LiveEdges(k) = LiveEdges(h) \union {eid} /\ eid \notin LiveEdges(h)
    BY <1>1, <1>2, <1>5, <1>7, <2>2, JoinedWellFormed
  <2>4. /\ k.edges[eid] = new /\ \A e \in DOMAIN h.edges : k.edges[e] = h.edges[e]
        /\ DOMAIN k.nodes = DOMAIN h.nodes /\ DOMAIN k.tensors = DOMAIN h.tensors
    BY <2>2 DEF Joined
  <2>5. \A n \in LiveNodes(h) :
          /\ k.nodes[n].type = h.nodes[n].type /\ k.nodes[n].outputs = h.nodes[n].outputs
          /\ DOMAIN k.nodes[n].in = DOMAIN h.nodes[n].in
          /\ \A j \in DOMAIN h.nodes[n].in :
                k.nodes[n].in[j] = IF n = l.to /\ j = l.toIdx THEN eid ELSE h.nodes[n].in[j]
    BY <2>2 DEF Joined
  <2>6. new.from = l.from /\ new.fromIdx = l.fromIdx /\ new.to = l.to /\ new.toIdx = l.toIdx OBVIOUS
  <2> HIDE DEF new, eid
  <2>7. \A e \in LiveEdges(h) : k.edges[e] = h.edges[e] BY <2>4 DEF LiveEdges
  <2>8. eid # Empty BY <2>3 DEF Empty
  <2>9. ASSUME NEW n \in LiveNodes(g)
        PROVE  /\ k.nodes[n].type = g.nodes[n].type /\ k.nodes[n].outputs = g.nodes[n].outputs
               /\ DOMAIN k.nodes[n].in = DOMAIN g.nodes[n].in
               /\ \A j \in DOMAIN g.nodes[n].in :
                     g.nodes[n].in[j] # Empty => k.nodes[n].in[j] = g.nodes[n].in[j]
    BY <1>1, <1>2, <1>3, <2>5
  <2>10. ASSUME NEW e \in LiveEdges(k) \ LiveEdges(g)
         PROVE  \E m \in links : /\ k.edges[e].from = m.from /\ k.edges[e].fromIdx = m.fromIdx
                                 /\ k.edges[e].to = m.to /\ k.edges[e].toIdx = m.toIdx
    <3>1. CASE e = eid BY <2>4, <2>6, <3>1
    <3>2. CASE e # eid
      <4>1. e \in LiveEdges(h) \ LiveEdges(g) BY <2>3, <2>10, <3>2
      <4>2. k.edges[e] = h.edges[e] BY <2>7, <4>1
      <4> QED BY <1>4, <4>1, <4>2
    <3> QED BY <3>1, <3>2
  <2>11. LiveEdges(g) \subseteq LiveEdges(k) /\ \A e \in LiveEdges(g) : k.edges[e] = g.edges[e]
    BY <1>2, <2>3, <2>7
  <2>12. Wired(k, g, links)
    <3>1. LiveNodes(k) = LiveNodes(g) /\ DOMAIN k.nodes = DOMAIN g.nodes /\ DOMAIN k.tensors = DOMAIN g.tensors
      BY <1>2, <2>3, <2>4
    <3> QED BY <2>3, <2>9, <2>10, <2>11, <3>1 DEF Wired
  <2>13. Keeps(k, h) BY <2>5, <2>8 DEF Keeps
  <2>14. k.nodes[l.to].in[l.toIdx] # Empty BY <1>1, <1>2, <1>5, <2>5, <2>8 DEF Inputs
  <2> QED BY <2>12, <2>13, <2>14 DEF k
<1> QED BY <1>6, <1>7

(* All of them have been made.                                             *)
LEMMA WiredFull ==
    ASSUME NEW g, NEW links, NEW h, Wired(h, g, links),
           \A l \in links : h.nodes[l.to].in[l.toIdx] # Empty,
           \A n \in LiveNodes(g) : \A j \in Inputs(g, n) :
               g.nodes[n].in[j] # Empty \/ \E l \in links : l.to = n /\ l.toIdx = j
    PROVE  Full(h)
BY DEF Full, Wired, Inputs

LEMMA WiredOrdered ==
    ASSUME NEW g, NEW links, NEW h, Wired(h, g, links), NEW rank, OrderedBy(g, rank),
           \A l \in links : rank[l.from] < rank[l.to]
    PROVE  OrderedBy(h, rank)
BY DEF OrderedBy, Wired

(* remove_node, and the rank.                                              *)
LEMMA CutOrdered ==
    ASSUME NEW g, NEW n, NEW h, Cut(h, g, n), NEW rank, OrderedBy(g, rank)
    PROVE  OrderedBy(h, rank)
BY DEF OrderedBy, Cut

LEMMA CutFull ==
    ASSUME NEW g, WellFormed(g), NEW n \in LiveNodes(g), NEW h, Cut(h, g, n), Full(g), g.nodes[n].out = {}
    PROVE  Full(h)
<1> SUFFICES ASSUME NEW m \in LiveNodes(h), NEW i \in Inputs(h, m) PROVE h.nodes[m].in[i] # Empty
  BY DEF Full
<1>1. /\ m \in LiveNodes(g) /\ m # n /\ i \in DOMAIN g.nodes[m].in
      /\ h.nodes[m].in[i] = IF g.nodes[m].in[i] \in EdgesOf(g, n) THEN Empty ELSE g.nodes[m].in[i]
  BY DEF Cut, Inputs
<1>2. g.nodes[m].in[i] # Empty BY <1>1 DEF Full, Inputs
<1>3. LET e == g.nodes[m].in[i] IN e \in LiveEdges(g) /\ g.edges[e].to = m
  BY <1>1, <1>2 DEF WellFormed, NodeKnows, Inputs
<1>4. g.edges[g.nodes[m].in[i]].from # n
  <2>1. \A e \in LiveEdges(g) : e \in g.nodes[g.edges[e].from].out BY EdgeFacts
  <2> QED BY <1>3, <2>1
<1> QED BY <1>1, <1>2, <1>3, <1>4 DEF EdgesOf

-----------------------------------------------------------------------------
(* Parts of sequences, and sets in ascending order.                        *)

LEMMA OnlyIs ==
    ASSUME NEW T, NEW s \in Seq(T), NEW S
    PROVE  /\ Only(s, S) \in Seq(T) /\ \A x \in DOMAIN Only(s, S) : Only(s, S)[x] \in S
           /\ \A x \in DOMAIN s : s[x] \in S => \E y \in DOMAIN Only(s, S) : Only(s, S)[y] = s[x]
<1>1. PICK steps \in [0..Len(s) -> Seq(T)] :
         /\ steps[0] = <<>> /\ \A k \in 1..Len(s) : steps[k] = Kept(steps[k - 1], s[k], S)
         /\ Only(s, S) = steps[Len(s)]
  BY OnlySteps
<1>2. Len(s) \in Nat /\ DOMAIN s = 1..Len(s) /\ \A x \in DOMAIN s : s[x] \in T OBVIOUS
<1> DEFINE Holds(k) == /\ \A x \in DOMAIN steps[k] : steps[k][x] \in S
                       /\ \A x \in 1..k : s[x] \in S => \E y \in DOMAIN steps[k] : steps[k][y] = s[x]
           P == {k \in Nat : k <= Len(s) => Holds(k)}
<1>3. 0 \in P BY <1>1
<1>4. ASSUME NEW k \in Nat, k \in P PROVE k + 1 \in P
  <2> SUFFICES ASSUME k + 1 <= Len(s) PROVE Holds(k + 1) OBVIOUS
  <2>1. k + 1 \in 1..Len(s) /\ (k + 1) - 1 = k /\ k \in 0..Len(s) /\ k <= Len(s) BY <1>2
  <2>2. Holds(k) BY <1>4, <2>1
  <2>3. steps[k + 1] = Kept(steps[k], s[k + 1], S) BY <1>1, <2>1
  <2>4. steps[k] \in Seq(T) /\ s[k + 1] \in T BY <1>1, <1>2, <2>1
  <2>5. CASE s[k + 1] \in S
    <3>1. steps[k + 1] = Append(steps[k], s[k + 1]) BY <2>3, <2>5 DEF Kept
    <3> DEFINE a == steps[k]  b == steps[k + 1]
    <3>2. /\ DOMAIN a = 1..Len(a) /\ DOMAIN b = 1..Len(a)+1 /\ Len(a) \in Nat
          /\ b[Len(a) + 1] = s[k + 1] /\ \A x \in 1..Len(a) : b[x] = a[x]
      BY <2>4, <3>1, AppendedElements
    <3> HIDE DEF a, b
    <3>3. \A x \in DOMAIN b : b[x] \in S BY <2>2, <2>5, <3>2 DEF a
    <3>4. ASSUME NEW x \in 1..k+1, s[x] \in S PROVE \E y \in DOMAIN b : b[y] = s[x]
      <4>1. CASE x = k + 1 BY <3>2, <4>1
      <4>2. CASE x # k + 1
        <5>1. x \in 1..k BY <4>2
        <5>2. PICK y \in DOMAIN a : a[y] = s[x] BY <2>2, <3>4, <5>1 DEF a
        <5> QED BY <3>2, <5>2
      <4> QED BY <4>1, <4>2
    <3> QED BY <3>3, <3>4 DEF b
  <2>6. CASE s[k + 1] \notin S
    <3>1. steps[k + 1] = steps[k] BY <2>3, <2>6 DEF Kept
    <3>2. \A x \in 1..k+1 : s[x] \in S => x \in 1..k BY <2>6
    <3> QED BY <2>2, <3>1, <3>2
  <2> QED BY <2>5, <2>6
<1> HIDE DEF P
<1>5. Nat \subseteq P BY <1>3, <1>4, SetInduction
<1>6. Holds(Len(s)) BY <1>2, <1>5 DEF P
<1>7. Only(s, S) \in Seq(T) BY <1>1, <1>2
<1> QED BY <1>1, <1>2, <1>6, <1>7

(* A sequence that names nothing twice.                                    *)
Once(s) == \A x, y \in DOMAIN s : s[x] = s[y] => x = y

LEMMA OnlyOnce ==
    ASSUME NEW T, NEW s \in Seq(T), NEW S, Once(s)
    PROVE  Once(Only(s, S))
<1>1. PICK steps \in [0..Len(s) -> Seq(T)] :
         /\ steps[0] = <<>> /\ \A k \in 1..Len(s) : steps[k] = Kept(steps[k - 1], s[k], S)
         /\ Only(s, S) = steps[Len(s)]
  BY OnlySteps
<1>2. Len(s) \in Nat /\ DOMAIN s = 1..Len(s) /\ \A x \in DOMAIN s : s[x] \in T OBVIOUS
<1> DEFINE Holds(k) == /\ \A x \in DOMAIN steps[k] : \E y \in 1..k : steps[k][x] = s[y]
                       /\ Once(steps[k])
           P == {k \in Nat : k <= Len(s) => Holds(k)}
<1>3. 0 \in P BY <1>1 DEF Once
<1>4. ASSUME NEW k \in Nat, k \in P PROVE k + 1 \in P
  <2> SUFFICES ASSUME k + 1 <= Len(s) PROVE Holds(k + 1) OBVIOUS
  <2>1. k + 1 \in 1..Len(s) /\ (k + 1) - 1 = k /\ k \in 0..Len(s) /\ k <= Len(s) BY <1>2
  <2>2. Holds(k) BY <1>4, <2>1
  <2>3. steps[k + 1] = Kept(steps[k], s[k + 1], S) BY <1>1, <2>1
  <2>4. steps[k] \in Seq(T) /\ s[k + 1] \in T BY <1>1, <1>2, <2>1
  <2>5. CASE s[k + 1] \in S
    <3>1. steps[k + 1] = Append(steps[k], s[k + 1]) BY <2>3, <2>5 DEF Kept
    <3> DEFINE a == steps[k]  b == steps[k + 1]
    <3>2. /\ DOMAIN a = 1..Len(a) /\ DOMAIN b = 1..Len(a)+1 /\ Len(a) \in Nat
          /\ b[Len(a) + 1] = s[k + 1] /\ \A x \in 1..Len(a) : b[x] = a[x]
      BY <2>4, <3>1, AppendedElements
    <3> HIDE DEF a, b
    <3>3. \A x \in DOMAIN a : \E y \in 1..k : a[x] = s[y] BY <2>2 DEF a
    <3>4. \A x \in DOMAIN b : \E y \in 1..k+1 : b[x] = s[y]
      <4> SUFFICES ASSUME NEW x \in DOMAIN b PROVE \E y \in 1..k+1 : b[x] = s[y] OBVIOUS
      <4>1. CASE x = Len(a) + 1 BY <3>2, <4>1
      <4>2. CASE x # Len(a) + 1
        <5>1. x \in 1..Len(a) BY <3>2, <4>2
        <5>2. PICK y \in 1..k : a[x] = s[y] BY <3>2, <3>3, <5>1
        <5> QED BY <3>2, <5>1, <5>2
      <4> QED BY <4>1, <4>2
    <3>5. \A x \in DOMAIN a : a[x] # s[k + 1]
      <4> SUFFICES ASSUME NEW x \in DOMAIN a, a[x] = s[k + 1] PROVE FALSE OBVIOUS
      <4>1. PICK y \in 1..k : a[x] = s[y] BY <3>3
      <4>2. y \in DOMAIN s /\ k + 1 \in DOMAIN s /\ y # k + 1 BY <1>2, <2>1
      <4> QED BY <4>1, <4>2 DEF Once
    <3>6. Once(a) BY <2>2 DEF a
    <3>7. Once(b)
      <4> SUFFICES ASSUME NEW x \in DOMAIN b, NEW y \in DOMAIN b, b[x] = b[y] PROVE x = y BY DEF Once
      <4>1. \A z \in DOMAIN b : z = Len(a) + 1 \/ z \in DOMAIN a BY <3>2
      <4> QED BY <3>2, <3>5, <3>6, <4>1 DEF Once
    <3> QED BY <3>4, <3>7 DEF b
  <2>6. CASE s[k + 1] \notin S
    <3>1. steps[k + 1] = steps[k] BY <2>3, <2>6 DEF Kept
    <3>2. \A y \in 1..k : y \in 1..k+1 OBVIOUS
    <3> QED BY <2>2, <3>1, <3>2
  <2> QED BY <2>5, <2>6
<1> HIDE DEF P
<1>5. Nat \subseteq P BY <1>3, <1>4, SetInduction
<1>6. Holds(Len(s)) BY <1>2, <1>5 DEF P
<1> QED BY <1>1, <1>6

LEMMA OfSubset ==
    ASSUME NEW T, NEW s \in Seq(T), NEW S, \A x \in DOMAIN s : s[x] \in S
    PROVE  s \in Seq(S)
<1>1. Len(s) \in Nat /\ DOMAIN s = 1..Len(s) /\ s = [x \in 1..Len(s) |-> s[x]] OBVIOUS
<1>2. \A x \in 1..Len(s) : s[x] \in S BY <1>1
<1> QED BY <1>1, <1>2, FunctionIsSequence

LEMMA AscendingIs ==
    ASSUME NEW n \in Nat, NEW S \in SUBSET (1..n)
    PROVE  /\ Ascending(S) \in Seq(S)
           /\ \A x \in S : \E y \in DOMAIN Ascending(S) : Ascending(S)[y] = x
           /\ Once(Ascending(S))
<1> DEFINE m == Max(S \union {0})
           q == [x \in 1..m |-> x]
<1>0. \A x \in S : x \in Nat /\ x <= n OBVIOUS
<1>1. m \in Nat /\ \A x \in S : x <= m
  <2>1. \E x \in S \union {0} : \A y \in S \union {0} : x >= y
    <3>1. CASE S = {} BY <3>1
    <3>2. CASE S # {}
      <4> DEFINE T == {n - x : x \in S}
      <4>1. T \in SUBSET Nat /\ T # {}
        <5>1. \A x \in S : n - x \in Nat BY <1>0
        <5> QED BY <3>2, <5>1
      <4>2. PICK t \in T : \A u \in T : t <= u BY <4>1, SmallestExists
      <4>3. PICK x \in S : t = n - x OBVIOUS
      <4>4. \A y \in S : x >= y
        <5> SUFFICES ASSUME NEW y \in S PROVE x >= y OBVIOUS
        <5>1. n - y \in T OBVIOUS
        <5>2. n - x <= n - y BY <4>2, <4>3, <5>1
        <5>3. x \in Nat /\ y \in Nat BY <1>0
        <5> QED BY <5>2, <5>3
      <4>5. x >= 0 BY <1>0
      <4> QED BY <4>4, <4>5
    <3> QED BY <3>1, <3>2
  <2> DEFINE U == S \union {0}
  <2>2. m \in U /\ \A y \in U : m >= y
    <3>1. \E x \in U : \A y \in U : x >= y BY <2>1
    <3>2. m = Max(U) OBVIOUS
    <3> HIDE DEF U, m
    <3> QED BY <3>1, <3>2, Zenon DEF Max
  <2> HIDE DEF m
  <2>3. m \in Nat BY <2>2
  <2> QED BY <2>2, <2>3
<1> HIDE DEF m
<1>2. q \in Seq(Nat) /\ DOMAIN q = 1..m /\ \A x \in 1..m : q[x] = x
  <2>1. \A x \in 1..m : q[x] \in Nat BY <1>1
  <2>2. \A x \in 1..m : q[x] = x OBVIOUS
  <2>3. q = [x \in 1..m |-> q[x]] OBVIOUS
  <2> HIDE DEF q
  <2> QED BY <1>1, <2>1, <2>2, <2>3, FunctionIsSequence
<1>3. Ascending(S) = Only(q, S) BY DEF Ascending, m
<1> HIDE DEF q
<1>4. /\ Only(q, S) \in Seq(Nat) /\ \A x \in DOMAIN Only(q, S) : Only(q, S)[x] \in S
      /\ \A x \in DOMAIN q : q[x] \in S => \E y \in DOMAIN Only(q, S) : Only(q, S)[y] = q[x]
  <2>1. q \in Seq(Nat) BY <1>2
  <2> QED BY ONLY <2>1, OnlyIs
<1>5. Only(q, S) \in Seq(S) BY <1>4, OfSubset
<1>6. \A x \in S : x \in 1..m /\ q[x] = x BY <1>1, <1>2
<1>7. Once(Only(q, S))
  <2>1. Once(q) /\ q \in Seq(Nat) BY <1>2 DEF Once
  <2> QED BY ONLY <2>1, OnlyOnce
<1> QED BY <1>2, <1>3, <1>4, <1>5, <1>6, <1>7

-----------------------------------------------------------------------------
(* A node with its connections.                                            *)

Addable(g, type, inputs, widths) ==
    /\ WellFormed(g) /\ type \in NodeTypes /\ widths \in Seq(Nat)
    /\ inputs \in Seq(Nat \X Nat) /\ \A i \in DOMAIN inputs : inputs[i] \in Readable(g)
    /\ type \in SourceTypes => Len(inputs) = 0
    /\ type \notin SourceTypes => Len(inputs) >= 1
    /\ type \in (OperationTypes \ {"Split"}) \union {"FusedConv"} => Len(widths) = 1
    /\ type = "FullyConnected" => Len(inputs) = 2

Indices(s) == [i \in DOMAIN s |-> i]

LEMMA IndicesAre ==
    ASSUME NEW S, NEW s \in Seq(S)
    PROVE  /\ Len(Indices(s)) = Len(s) /\ Len(s) \in Nat /\ DOMAIN Indices(s) = 1..Len(s) /\ DOMAIN s = 1..Len(s)
           /\ \A k \in DOMAIN s : Indices(s)[k] = k
BY DEF Indices

Links(inputs, n) == {[from |-> inputs[i][1], fromIdx |-> inputs[i][2], to |-> n, toIdx |-> i] : i \in DOMAIN inputs}

Wirings(g, links) == {h \in Graphs : Wired(h, g, links)}

LEMMA AddablePlan ==
    ASSUME NEW g, NEW type, NEW inputs, NEW widths, Addable(g, type, inputs, widths)
    PROVE  LET h == AddNode(g, type, Len(inputs), widths)
           IN  /\ WellFormed(h) /\ Plan(h, Links(inputs, Len(g.nodes) + 1))
               /\ Extended(h, g, type, Len(inputs), widths) /\ Len(inputs) \in Nat
<1> DEFINE n == Len(g.nodes) + 1
           h == AddNode(g, type, Len(inputs), widths)
<1>1. /\ g \in Graphs /\ type \in NodeTypes /\ widths \in Seq(Nat) /\ inputs \in Seq(Nat \X Nat)
      /\ Len(inputs) \in Nat /\ DOMAIN inputs = 1..Len(inputs) /\ WellFormed(g)
      /\ \A i \in DOMAIN inputs : inputs[i] \in Readable(g)
  BY DEF Addable, WellFormed
<1>2. Extended(h, g, type, Len(inputs), widths) BY <1>1, AddNodeIs
<1> HIDE DEF h
<1> DEFINE new == h.nodes[n]
<1>3. /\ new \in Nodes /\ new.type = type /\ Len(new.in) = Len(inputs) /\ \A i \in 1..Len(inputs) : new.in[i] = Empty
      /\ Len(new.outputs) = Len(widths)
  BY <1>2 DEF Extended
<1>4. Shaped(new) BY <1>3 DEF Shaped, Addable
<1>5. WellFormed(h) BY <1>1, <1>2, <1>4, ExtendedWellFormed
<1>6. LiveNodes(h) = LiveNodes(g) \union {n} /\ n \notin LiveNodes(g) /\ \A m \in LiveNodes(g) : h.nodes[m] = g.nodes[m]
  <2>1. \A m \in DOMAIN g.nodes : h.nodes[m] = g.nodes[m] BY <1>2 DEF Extended
  <2>2. LiveNodes(h) = LiveNodes(g) \union {n} /\ n \notin LiveNodes(g) BY <1>1, <1>2, ExtendedLive
  <2> QED BY <2>1, <2>2 DEF LiveNodes
<1>7. Inputs(h, n) = DOMAIN inputs
  <2>1. new.in \in Seq(Nat) BY <1>3 DEF Nodes
  <2>2. DOMAIN new.in = 1..Len(inputs) BY <1>3, <2>1
  <2> QED BY <1>1, <2>2 DEF Inputs
<1>8. \A i \in DOMAIN inputs : inputs[i][1] \in LiveNodes(g) /\ inputs[i][2] \in Outputs(g, inputs[i][1])
  BY <1>1 DEF Readable
<1> HIDE DEF n
<1>9. ASSUME NEW i \in DOMAIN inputs
      PROVE  /\ inputs[i][1] \in LiveNodes(h) /\ inputs[i][2] \in Outputs(h, inputs[i][1])
             /\ n \in LiveNodes(h) /\ i \in Inputs(h, n) /\ inputs[i][1] # n /\ h.nodes[n].in[i] = Empty
  BY <1>1, <1>3, <1>6, <1>7, <1>8 DEF Outputs
<1>10. Plan(h, Links(inputs, n))
  <2>1. ASSUME NEW l \in Links(inputs, n)
        PROVE  /\ l.from \in LiveNodes(h) /\ l.fromIdx \in Outputs(h, l.from)
               /\ l.to \in LiveNodes(h) /\ l.toIdx \in Inputs(h, l.to)
               /\ l.from # l.to /\ h.nodes[l.to].in[l.toIdx] = Empty
    <3>1. PICK i \in DOMAIN inputs : l = [from |-> inputs[i][1], fromIdx |-> inputs[i][2], to |-> n, toIdx |-> i]
      BY DEF Links
    <3>2. l.from = inputs[i][1] /\ l.fromIdx = inputs[i][2] /\ l.to = n /\ l.toIdx = i BY <3>1
    <3> QED BY <1>9, <3>2
  <2>2. ASSUME NEW l \in Links(inputs, n), NEW m \in Links(inputs, n), l.toIdx = m.toIdx
        PROVE  l.from = m.from /\ l.fromIdx = m.fromIdx
    BY <2>2 DEF Links
  <2> QED BY <2>1, <2>2 DEF Plan
<1> QED BY <1>1, <1>2, <1>5, <1>10 DEF n, h

LEMMA AddConnectedSteps ==
    ASSUME NEW g, NEW type, NEW inputs, NEW widths, Addable(g, type, inputs, widths)
    PROVE  \E steps \in [0..Len(Indices(inputs)) -> Wirings(AddNode(g, type, Len(inputs), widths), Links(inputs, Len(g.nodes) + 1))] :
              /\ steps[0] = AddNode(g, type, Len(inputs), widths) /\ \A k \in 1..Len(Indices(inputs)) : steps[k] = AddConnection(steps[k - 1], inputs[Indices(inputs)[k]][1], inputs[Indices(inputs)[k]][2], Len(g.nodes) + 1, Indices(inputs)[k])
              /\ AddConnected(g, type, inputs, widths) = steps[Len(Indices(inputs))]
<1> DEFINE n == Len(Indices(inputs))
           Step == [x \in (Wirings(AddNode(g, type, Len(inputs), widths), Links(inputs, Len(g.nodes) + 1))) \X (1..n) |-> AddConnection(x[1], inputs[Indices(inputs)[x[2]]][1], inputs[Indices(inputs)[x[2]]][2], Len(g.nodes) + 1, Indices(inputs)[x[2]])]
<1>1. n \in Nat /\ DOMAIN Indices(inputs) = 1..n BY AddablePlan, IndicesAre DEF Addable
<1>2. /\ AddNode(g, type, Len(inputs), widths) \in Wirings(AddNode(g, type, Len(inputs), widths), Links(inputs, Len(g.nodes) + 1))
      /\ \A x \in Wirings(AddNode(g, type, Len(inputs), widths), Links(inputs, Len(g.nodes) + 1)), k \in 1..n : AddConnection(x, inputs[Indices(inputs)[k]][1], inputs[Indices(inputs)[k]][2], Len(g.nodes) + 1, Indices(inputs)[k]) \in Wirings(AddNode(g, type, Len(inputs), widths), Links(inputs, Len(g.nodes) + 1))
  <2> DEFINE h0 == AddNode(g, type, Len(inputs), widths)
             links == Links(inputs, Len(g.nodes) + 1)
  <2>1. WellFormed(h0) /\ Plan(h0, links) BY AddablePlan
  <2>2. h0 \in Wirings(h0, links) BY <2>1, WiredBefore DEF Wirings, WellFormed
  <2>3. ASSUME NEW x \in Wirings(h0, links), NEW k \in 1..n
        PROVE  LET i == Indices(inputs)[k]
               IN  AddConnection(x, inputs[i][1], inputs[i][2], Len(g.nodes) + 1, i) \in Wirings(h0, links)
    <3>1. k \in DOMAIN inputs /\ Indices(inputs)[k] = k BY <1>1, IndicesAre DEF Addable
    <3> DEFINE l == [from |-> inputs[k][1], fromIdx |-> inputs[k][2], to |-> Len(g.nodes) + 1, toIdx |-> k]
    <3>2. l \in links BY <3>1 DEF Links
    <3>3. /\ l.from = inputs[k][1] /\ l.fromIdx = inputs[k][2] /\ l.to = Len(g.nodes) + 1 /\ l.toIdx = k OBVIOUS
    <3> HIDE DEF l, links, h0, n
    <3>4. Wired(x, h0, links) BY DEF Wirings
    <3>5. Wired(AddConnection(x, l.from, l.fromIdx, l.to, l.toIdx), h0, links) BY <2>1, <3>2, <3>4, Linked
    <3>6. AddConnection(x, l.from, l.fromIdx, l.to, l.toIdx) \in Wirings(h0, links)
      BY <3>5 DEF Wirings, Wired, WellFormed
    <3> QED BY ONLY <3>1, <3>3, <3>6
  <2> QED BY <2>2, <2>3
<1>3. Step \in [(Wirings(AddNode(g, type, Len(inputs), widths), Links(inputs, Len(g.nodes) + 1))) \X (1..n) -> Wirings(AddNode(g, type, Len(inputs), widths), Links(inputs, Len(g.nodes) + 1))] /\ \A x \in Wirings(AddNode(g, type, Len(inputs), widths), Links(inputs, Len(g.nodes) + 1)), k \in 1..n : Step[<<x, k>>] = AddConnection(x, inputs[Indices(inputs)[k]][1], inputs[Indices(inputs)[k]][2], Len(g.nodes) + 1, Indices(inputs)[k])
  BY <1>2
<1> HIDE DEF n, Step
<1> DEFINE Eq(it) == it = [z \in SUBSET DOMAIN Indices(inputs) |->
                             IF z = {} THEN AddNode(g, type, Len(inputs), widths) ELSE AddConnection(it[z \ {Max(z)}], inputs[Indices(inputs)[Max(z)]][1], inputs[Indices(inputs)[Max(z)]][2], Len(g.nodes) + 1, Indices(inputs)[Max(z)])]
           tab == CHOOSE it : Eq(it)
<1>4. AddConnected(g, type, inputs, widths) = tab[DOMAIN Indices(inputs)]
  BY Zenon DEF FoldLeft, MapThenFoldSet, AddConnected, Indices
<1>5. PICK it \in [SUBSET (1..n) -> Wirings(AddNode(g, type, Len(inputs), widths), Links(inputs, Len(g.nodes) + 1))] : FoldsBy(it, 1..n, AddNode(g, type, Len(inputs), widths), Step)
  <2>1. HasFold(n, Wirings(AddNode(g, type, Len(inputs), widths), Links(inputs, Len(g.nodes) + 1)), AddNode(g, type, Len(inputs), widths), Step) BY <1>1, <1>2, <1>3, FoldOfSet
  <2> QED BY <2>1 DEF HasFold
<1>6. Eq(it)
  <2>1. ASSUME NEW z \in SUBSET (1..n)
        PROVE  it[z] = IF z = {} THEN AddNode(g, type, Len(inputs), widths) ELSE AddConnection(it[z \ {Max(z)}], inputs[Indices(inputs)[Max(z)]][1], inputs[Indices(inputs)[Max(z)]][2], Len(g.nodes) + 1, Indices(inputs)[Max(z)])
    <3>1. CASE z = {} BY <1>5, <3>1 DEF FoldsBy
    <3>2. CASE z # {}
      <4>1. Max(z) \in 1..n BY <1>1, <3>2, MaxOfSome
      <4>2. it[z \ {Max(z)}] \in Wirings(AddNode(g, type, Len(inputs), widths), Links(inputs, Len(g.nodes) + 1))
        <5>1. z \ {Max(z)} \in SUBSET (1..n) OBVIOUS
        <5> QED BY <1>5, <5>1
      <4>3. it[z] = Step[<<it[z \ {Max(z)}], Max(z)>>] BY <1>5, <3>2 DEF FoldsBy
      <4> QED BY <1>3, <3>2, <4>1, <4>2, <4>3
    <3> QED BY <3>1, <3>2
  <2> QED BY <1>1, <1>5, <2>1
<1>7. Eq(tab)
  <2> HIDE DEF Eq
  <2> QED BY <1>6
<1> HIDE DEF tab
<1>8. ASSUME NEW z \in SUBSET (1..n), z # {}, tab[z \ {Max(z)}] \in Wirings(AddNode(g, type, Len(inputs), widths), Links(inputs, Len(g.nodes) + 1))
      PROVE  tab[z] = Step[<<tab[z \ {Max(z)}], Max(z)>>]
  <2>1. Max(z) \in 1..n BY <1>1, <1>8, MaxOfSome
  <2>2. tab[z] = AddConnection(tab[z \ {Max(z)}], inputs[Indices(inputs)[Max(z)]][1], inputs[Indices(inputs)[Max(z)]][2], Len(g.nodes) + 1, Indices(inputs)[Max(z)]) BY <1>1, <1>7, <1>8
  <2> QED BY <1>3, <1>8, <2>1, <2>2
<1>9. tab[{}] = AddNode(g, type, Len(inputs), widths) BY <1>1, <1>7
<1>10. Folded(tab[1..n], n, Wirings(AddNode(g, type, Len(inputs), widths), Links(inputs, Len(g.nodes) + 1)), AddNode(g, type, Len(inputs), widths), Step) BY <1>1, <1>2, <1>3, <1>8, <1>9, FoldTable
<1>11. PICK steps \in [0..n -> Wirings(AddNode(g, type, Len(inputs), widths), Links(inputs, Len(g.nodes) + 1))] : Stepwise(steps, n, AddNode(g, type, Len(inputs), widths), Step) /\ tab[1..n] = steps[n]
  BY <1>10 DEF Folded
<1>12. ASSUME NEW k \in 1..n PROVE steps[k] = AddConnection(steps[k - 1], inputs[Indices(inputs)[k]][1], inputs[Indices(inputs)[k]][2], Len(g.nodes) + 1, Indices(inputs)[k])
  <2>1. k - 1 \in 0..n BY <1>1
  <2>2. steps[k - 1] \in Wirings(AddNode(g, type, Len(inputs), widths), Links(inputs, Len(g.nodes) + 1)) BY <1>11, <2>1
  <2> QED BY <1>3, <1>11, <2>2 DEF Stepwise
<1>13. steps[0] = AddNode(g, type, Len(inputs), widths) BY <1>11 DEF Stepwise
<1>14. AddConnected(g, type, inputs, widths) = steps[n] BY <1>1, <1>4, <1>11
<1> HIDE <1>2, <1>7, <1>8
<1> QED BY <1>11, <1>12, <1>13, <1>14 DEF n

LEMMA SameDomain ==
    ASSUME NEW S, NEW s \in Seq(S), NEW T, NEW t \in Seq(T), DOMAIN s = DOMAIN t
    PROVE  Len(s) = Len(t)
OBVIOUS

LEMMA SameSizes ==
    ASSUME NEW g \in Graphs, NEW h \in Graphs
    PROVE  /\ DOMAIN g.nodes = DOMAIN h.nodes => Len(g.nodes) = Len(h.nodes)
           /\ DOMAIN g.tensors = DOMAIN h.tensors => Len(g.tensors) = Len(h.tensors)
<1>1. /\ g.nodes \in Seq(Nodes \union {NoNode}) /\ h.nodes \in Seq(Nodes \union {NoNode})
      /\ g.tensors \in Seq(Tensors) /\ h.tensors \in Seq(Tensors)
  BY DEF Graphs
<1> HIDE DEF Nodes, NoNode, Tensors
<1> QED BY <1>1, SameDomain

LEMMA AddConnectedAll ==
    ASSUME NEW g, NEW type, NEW inputs, NEW widths, Addable(g, type, inputs, widths)
    PROVE  LET h == AddConnected(g, type, inputs, widths)
               n == Len(g.nodes) + 1
           IN  /\ Wired(h, AddNode(g, type, Len(inputs), widths), Links(inputs, n))
               /\ \A i \in DOMAIN inputs : h.nodes[n].in[i] # Empty
<1> DEFINE n == Len(g.nodes) + 1
           h0 == AddNode(g, type, Len(inputs), widths)
           links == Links(inputs, n)
           q == Indices(inputs)
<1>1. WellFormed(h0) /\ Plan(h0, links) /\ Len(inputs) \in Nat BY AddablePlan
<1>2. DOMAIN inputs = 1..Len(inputs) BY DEF Addable
<1>3. Len(q) = Len(inputs) /\ \A k \in 1..Len(inputs) : q[k] = k BY IndicesAre DEF Addable
<1>4. PICK steps \in [0..Len(q) -> Wirings(h0, links)] :
         /\ steps[0] = h0
         /\ \A k \in 1..Len(q) : steps[k] = AddConnection(steps[k - 1], inputs[q[k]][1], inputs[q[k]][2], n, q[k])
         /\ AddConnected(g, type, inputs, widths) = steps[Len(q)]
  BY AddConnectedSteps
<1> DEFINE l(i) == [from |-> inputs[i][1], fromIdx |-> inputs[i][2], to |-> n, toIdx |-> i]
<1>5. \A i \in DOMAIN inputs : /\ l(i) \in links /\ l(i).from = inputs[i][1] /\ l(i).fromIdx = inputs[i][2]
                               /\ l(i).to = n /\ l(i).toIdx = i
  BY DEF Links
<1> HIDE DEF l, h0, links, n, q
<1>6. ASSUME NEW k \in 1..Len(inputs)
      PROVE  Keeps(steps[k], steps[k - 1]) /\ steps[k].nodes[n].in[k] # Empty
  <2>1. k - 1 \in 0..Len(q) /\ k \in DOMAIN inputs BY <1>1, <1>2, <1>3
  <2>2. Wired(steps[k - 1], h0, links) BY <1>4, <2>1 DEF Wirings
  <2>3. steps[k] = AddConnection(steps[k - 1], l(k).from, l(k).fromIdx, l(k).to, l(k).toIdx)
    BY <1>3, <1>4, <1>5, <2>1
  <2>4. LET x == AddConnection(steps[k - 1], l(k).from, l(k).fromIdx, l(k).to, l(k).toIdx)
        IN  Keeps(x, steps[k - 1]) /\ x.nodes[l(k).to].in[l(k).toIdx] # Empty
    BY <1>1, <1>5, <2>1, <2>2, Linked
  <2> QED BY <1>5, <2>1, <2>3, <2>4
<1>7. \A k \in 0..Len(inputs) : /\ n \in LiveNodes(steps[k])
                                /\ \A j \in DOMAIN inputs : j \in DOMAIN steps[k].nodes[n].in
  <2> SUFFICES ASSUME NEW k \in 0..Len(inputs)
               PROVE  n \in LiveNodes(steps[k]) /\ \A j \in DOMAIN inputs : j \in DOMAIN steps[k].nodes[n].in
    OBVIOUS
  <2>1. Wired(steps[k], h0, links) BY <1>3, <1>4 DEF Wirings
  <2>2. n \in LiveNodes(h0) /\ Inputs(h0, n) = DOMAIN inputs
    <3>1. Extended(h0, g, type, Len(inputs), widths) BY AddablePlan DEF h0
    <3>2. n \in LiveNodes(h0)
      <4>1. g \in Graphs /\ widths \in Seq(Nat) BY DEF Addable, WellFormed
      <4>2. LiveNodes(h0) = LiveNodes(g) \union {Len(g.nodes) + 1} BY <1>1, <3>1, <4>1, ExtendedLive
      <4> QED BY <4>2 DEF n
    <3>3. h0.nodes[n].in \in Seq(Nat) /\ Len(h0.nodes[n].in) = Len(inputs) BY <3>1 DEF Extended, Nodes, n
    <3> QED BY <1>2, <3>2, <3>3 DEF Inputs
  <2> QED BY <2>1, <2>2 DEF Wired, Inputs
<1> DEFINE P == {k \in Nat : k <= Len(inputs) => \A j \in 1..k : steps[k].nodes[n].in[j] # Empty}
<1>8. 0 \in P OBVIOUS
<1>9. ASSUME NEW k \in Nat, k \in P PROVE k + 1 \in P
  <2> SUFFICES ASSUME k + 1 <= Len(inputs), NEW j \in 1..k+1 PROVE steps[k + 1].nodes[n].in[j] # Empty OBVIOUS
  <2>1. k + 1 \in 1..Len(inputs) /\ (k + 1) - 1 = k /\ k \in 0..Len(inputs) /\ k <= Len(inputs) BY <1>1
  <2>2. Keeps(steps[k + 1], steps[k]) /\ steps[k + 1].nodes[n].in[k + 1] # Empty BY <1>6, <2>1
  <2>3. CASE j = k + 1 BY <2>2, <2>3
  <2>4. CASE j # k + 1
    <3>1. j \in 1..k /\ j \in DOMAIN inputs BY <1>2, <2>1, <2>4
    <3>2. steps[k].nodes[n].in[j] # Empty BY <1>9, <2>1, <3>1
    <3>3. n \in LiveNodes(steps[k]) /\ j \in DOMAIN steps[k].nodes[n].in BY <1>7, <2>1, <3>1
    <3> QED BY <2>2, <3>2, <3>3 DEF Keeps
  <2> QED BY <2>3, <2>4
<1> HIDE DEF P
<1>10. Nat \subseteq P BY <1>8, <1>9, SetInduction
<1>11. \A i \in DOMAIN inputs : steps[Len(inputs)].nodes[n].in[i] # Empty BY <1>1, <1>2, <1>10 DEF P
<1>12. Wired(steps[Len(inputs)], h0, links) BY <1>1, <1>3, <1>4 DEF Wirings
<1> QED BY <1>3, <1>4, <1>11, <1>12 DEF h0, links, n

(* The graph with this node.                                               *)
Grown(h, g, type, inputs, widths) == LET n == Len(g.nodes) + 1 IN
    /\ WellFormed(h) /\ n \in Nat \ {0} /\ n \notin LiveNodes(g) /\ LiveNodes(h) = LiveNodes(g) \union {n}
    /\ Len(h.nodes) = n
    /\ \A m \in LiveNodes(g) :
          /\ h.nodes[m].type = g.nodes[m].type /\ h.nodes[m].outputs = g.nodes[m].outputs
          /\ DOMAIN h.nodes[m].in = DOMAIN g.nodes[m].in
          /\ \A j \in DOMAIN g.nodes[m].in :
                g.nodes[m].in[j] # Empty => h.nodes[m].in[j] = g.nodes[m].in[j]
    /\ h.nodes[n].type = type /\ Inputs(h, n) = DOMAIN inputs
    /\ \A i \in DOMAIN inputs : h.nodes[n].in[i] # Empty
    /\ Outputs(h, n) = DOMAIN widths /\ \A k \in DOMAIN widths : h.nodes[n].outputs[k] = Len(g.tensors) + k
    /\ Len(h.tensors) = Len(g.tensors) + Len(widths)
    /\ LiveEdges(g) \subseteq LiveEdges(h) /\ \A e \in LiveEdges(g) : h.edges[e] = g.edges[e]
    /\ \A e \in LiveEdges(h) \ LiveEdges(g) : \E i \in DOMAIN inputs :
          /\ h.edges[e].from = inputs[i][1] /\ h.edges[e].fromIdx = inputs[i][2] /\ h.edges[e].to = n

LEMMA AddConnectedIs ==
    ASSUME NEW g, NEW type, NEW inputs, NEW widths, Addable(g, type, inputs, widths)
    PROVE  Grown(AddConnected(g, type, inputs, widths), g, type, inputs, widths)
<1> DEFINE n == Len(g.nodes) + 1
           h0 == AddNode(g, type, Len(inputs), widths)
           links == Links(inputs, n)
           h == AddConnected(g, type, inputs, widths)
<1>1. Wired(h, h0, links) /\ \A i \in DOMAIN inputs : h.nodes[n].in[i] # Empty BY AddConnectedAll
<1>2. /\ WellFormed(h0) /\ Extended(h0, g, type, Len(inputs), widths) /\ Len(inputs) \in Nat BY AddablePlan
<1>3. g \in Graphs /\ WellFormed(g) /\ widths \in Seq(Nat) /\ DOMAIN inputs = 1..Len(inputs) BY DEF Addable, WellFormed
<1>4. /\ LiveNodes(h0) = LiveNodes(g) \union {n} /\ LiveEdges(h0) = LiveEdges(g)
      /\ n \notin LiveNodes(g) /\ n \in Nat
  BY <1>2, <1>3, ExtendedLive
<1>5. /\ h0.edges = g.edges /\ Len(h0.nodes) = n /\ \A m \in DOMAIN g.nodes : h0.nodes[m] = g.nodes[m]
      /\ h0.nodes[n] \in Nodes /\ h0.nodes[n].type = type
      /\ Len(h0.nodes[n].in) = Len(inputs) /\ Len(h0.nodes[n].outputs) = Len(widths)
      /\ \A k \in DOMAIN widths : h0.nodes[n].outputs[k] = Len(g.tensors) + k
      /\ Len(h0.tensors) = Len(g.tensors) + Len(widths)
  BY <1>2 DEF Extended
<1>6. n > 0 /\ \A m \in LiveNodes(g) : m \in DOMAIN g.nodes
  <2>1. Len(g.nodes) \in Nat BY <1>3, GraphIs
  <2> QED BY <2>1 DEF LiveNodes
<1> HIDE DEF h, h0, n
<1>7. /\ WellFormed(h) /\ LiveNodes(h) = LiveNodes(h0)
      /\ DOMAIN h.nodes = DOMAIN h0.nodes /\ DOMAIN h.tensors = DOMAIN h0.tensors
      /\ LiveEdges(h0) \subseteq LiveEdges(h) /\ \A e \in LiveEdges(h0) : h.edges[e] = h0.edges[e]
  BY <1>1 DEF Wired
<1>8. \A m \in LiveNodes(h0) :
          /\ h.nodes[m].type = h0.nodes[m].type /\ h.nodes[m].outputs = h0.nodes[m].outputs
          /\ DOMAIN h.nodes[m].in = DOMAIN h0.nodes[m].in
          /\ \A j \in DOMAIN h0.nodes[m].in :
                h0.nodes[m].in[j] # Empty => h.nodes[m].in[j] = h0.nodes[m].in[j]
  BY <1>1 DEF Wired
<1>9. Len(h.nodes) = Len(h0.nodes) /\ Len(h.tensors) = Len(h0.tensors)
  <2>1. h \in Graphs /\ h0 \in Graphs BY <1>2, <1>7 DEF WellFormed
  <2> QED BY <1>7, <2>1, SameSizes
<1>10. DOMAIN h0.nodes[n].in = DOMAIN inputs /\ DOMAIN h0.nodes[n].outputs = DOMAIN widths
  <2>1. h0.nodes[n].in \in Seq(Nat) /\ h0.nodes[n].outputs \in Seq(Nat) BY <1>5 DEF Nodes
  <2>2. DOMAIN h0.nodes[n].in = 1..Len(inputs) /\ DOMAIN h0.nodes[n].outputs = 1..Len(widths) BY <1>5, <2>1
  <2>3. DOMAIN widths = 1..Len(widths) BY <1>3
  <2> QED BY <1>3, <2>2, <2>3
<1>11. Inputs(h, n) = DOMAIN inputs /\ Outputs(h, n) = DOMAIN widths
  BY <1>4, <1>8, <1>10 DEF Inputs, Outputs
<1>12. \A e \in LiveEdges(h) \ LiveEdges(g) : \E i \in DOMAIN inputs :
          h.edges[e].from = inputs[i][1] /\ h.edges[e].fromIdx = inputs[i][2] /\ h.edges[e].to = n
  <2> SUFFICES ASSUME NEW e \in LiveEdges(h) \ LiveEdges(g)
               PROVE  \E i \in DOMAIN inputs :
                         h.edges[e].from = inputs[i][1] /\ h.edges[e].fromIdx = inputs[i][2] /\ h.edges[e].to = n
    OBVIOUS
  <2>1. PICK l \in links : h.edges[e].from = l.from /\ h.edges[e].fromIdx = l.fromIdx /\ h.edges[e].to = l.to
    BY <1>1, <1>4 DEF Wired
  <2>2. PICK i \in DOMAIN inputs : l = [from |-> inputs[i][1], fromIdx |-> inputs[i][2], to |-> n, toIdx |-> i]
    BY DEF Links
  <2>3. l.from = inputs[i][1] /\ l.fromIdx = inputs[i][2] /\ l.to = n BY <2>2
  <2> QED BY <2>1, <2>3
<1>13. ASSUME NEW m \in LiveNodes(g)
       PROVE  /\ h.nodes[m].type = g.nodes[m].type /\ h.nodes[m].outputs = g.nodes[m].outputs
              /\ DOMAIN h.nodes[m].in = DOMAIN g.nodes[m].in
              /\ \A j \in DOMAIN g.nodes[m].in :
                    g.nodes[m].in[j] # Empty => h.nodes[m].in[j] = g.nodes[m].in[j]
  BY <1>4, <1>5, <1>6, <1>8
<1>14. h.nodes[n].type = type /\ \A k \in DOMAIN widths : h.nodes[n].outputs[k] = Len(g.tensors) + k
  BY <1>4, <1>5, <1>8
<1>15. LiveEdges(g) \subseteq LiveEdges(h) /\ \A e \in LiveEdges(g) : h.edges[e] = g.edges[e]
  BY <1>4, <1>5, <1>7
<1> HIDE DEF links
<1>16. n \in Nat \ {0} BY <1>4, <1>6
<1> QED BY <1>1, <1>4, <1>5, <1>7, <1>9, <1>11, <1>12, <1>13, <1>14, <1>15, <1>16 DEF Grown, h, n

LEMMA GrownFull ==
    ASSUME NEW g, NEW type, NEW inputs, NEW widths, NEW h, Grown(h, g, type, inputs, widths), Full(g)
    PROVE  Full(h)
<1> DEFINE n == Len(g.nodes) + 1
<1>1. /\ LiveNodes(h) = LiveNodes(g) \union {n} /\ Inputs(h, n) = DOMAIN inputs
      /\ \A i \in DOMAIN inputs : h.nodes[n].in[i] # Empty
  BY DEF Grown
<1>2. \A m \in LiveNodes(g) :
          /\ DOMAIN h.nodes[m].in = DOMAIN g.nodes[m].in
          /\ \A j \in DOMAIN g.nodes[m].in :
                g.nodes[m].in[j] # Empty => h.nodes[m].in[j] = g.nodes[m].in[j]
  BY DEF Grown
<1> HIDE DEF n
<1>3. ASSUME NEW m \in LiveNodes(h), NEW i \in Inputs(h, m) PROVE h.nodes[m].in[i] # Empty
  <2>1. CASE m = n BY <1>1, <1>3, <2>1
  <2>2. CASE m \in LiveNodes(g) BY <1>2, <1>3, <2>2 DEF Full, Inputs
  <2> QED BY <1>1, <2>1, <2>2
<1> QED BY <1>3 DEF Full

LEMMA GrownOrdered ==
    ASSUME NEW g, WellFormed(g), NEW type, NEW inputs, NEW widths, NEW h, Grown(h, g, type, inputs, widths),
           \A i \in DOMAIN inputs : inputs[i][1] \in LiveNodes(g),
           NEW rank \in Ranks, OrderedBy(g, rank),
           NEW r \in Nat, \A i \in DOMAIN inputs : rank[inputs[i][1]] < r
    PROVE  LET raised == [rank EXCEPT ![Len(g.nodes) + 1] = r]
           IN  /\ raised \in Ranks /\ OrderedBy(h, raised) /\ raised[Len(g.nodes) + 1] = r
               /\ \A m \in LiveNodes(g) : raised[m] = rank[m]
<1> DEFINE n == Len(g.nodes) + 1
           raised == [rank EXCEPT ![n] = r]
<1>1. n \in Nat /\ n \notin LiveNodes(g) BY DEF Grown
<1>2. /\ LiveEdges(g) \subseteq LiveEdges(h) /\ \A e \in LiveEdges(g) : h.edges[e] = g.edges[e]
      /\ \A e \in LiveEdges(h) \ LiveEdges(g) : \E i \in DOMAIN inputs :
            h.edges[e].from = inputs[i][1] /\ h.edges[e].to = n
  BY DEF Grown
<1> HIDE DEF n
<1>3. \A m \in LiveNodes(g) : m \in Nat BY GraphIs DEF WellFormed
<1>4. raised \in Ranks /\ raised[n] = r /\ \A m \in LiveNodes(g) : raised[m] = rank[m]
  BY <1>1, <1>3 DEF Ranks
<1> HIDE DEF raised
<1>5. ASSUME NEW e \in LiveEdges(h) PROVE raised[h.edges[e].from] < raised[h.edges[e].to]
  <2>1. CASE e \in LiveEdges(g)
    <3>1. g.edges[e].from \in LiveNodes(g) /\ g.edges[e].to \in LiveNodes(g) BY <2>1, EdgeFacts
    <3> QED BY <1>2, <1>4, <2>1, <3>1 DEF OrderedBy
  <2>2. CASE e \notin LiveEdges(g)
    <3>1. PICK i \in DOMAIN inputs : h.edges[e].from = inputs[i][1] /\ h.edges[e].to = n BY <1>2, <2>2
    <3> QED BY <1>4, <3>1
  <2> QED BY <2>1, <2>2
<1> QED BY <1>4, <1>5 DEF OrderedBy, n, raised

-----------------------------------------------------------------------------
(* transfer_driving_nodes_and_remove_old_node                              *)

Transferable(g, new, old, rank) ==
    /\ WellFormed(g) /\ Full(g) /\ rank \in Ranks /\ OrderedBy(g, rank)
    /\ new \in LiveNodes(g) /\ old \in LiveNodes(g) /\ new # old
    /\ 1 \in Outputs(g, new) /\ 1 \in Outputs(g, old)
    /\ \A e \in LiveEdges(g) : g.edges[e].from = old => rank[new] < rank[g.edges[e].to]

Driven(g, new, old) ==
    {[from |-> new, fromIdx |-> 1, to |-> g.edges[e].to, toIdx |-> g.edges[e].toIdx] : e \in g.nodes[old].out}

WithAccessor(g, new, old, h) ==
    [h EXCEPT !.tensors[g.nodes[new].outputs[1]].accessor = g.tensors[g.nodes[old].outputs[1]].accessor]

Removed(g, old) == [RemoveNode(g, old) EXCEPT !.tensors[g.nodes[old].outputs[1]].accessor = FALSE]

LEMMA RemovedIs ==
    ASSUME NEW g, NEW new, NEW old, NEW rank, Transferable(g, new, old, rank)
    PROVE  LET r == Removed(g, old) IN
              /\ WellFormed(r) /\ OrderedBy(r, rank) /\ LiveNodes(r) = LiveNodes(g) \ {old}
              /\ DOMAIN r.nodes = DOMAIN g.nodes /\ DOMAIN r.tensors = DOMAIN g.tensors
              /\ LiveEdges(r) = LiveEdges(g) \ EdgesOf(g, old) /\ \A e \in LiveEdges(r) : r.edges[e] = g.edges[e]
              /\ \A m \in LiveNodes(r) :
                    /\ r.nodes[m].type = g.nodes[m].type /\ r.nodes[m].outputs = g.nodes[m].outputs
                    /\ DOMAIN r.nodes[m].in = DOMAIN g.nodes[m].in
                    /\ \A j \in DOMAIN g.nodes[m].in :
                          r.nodes[m].in[j] = IF g.nodes[m].in[j] \in EdgesOf(g, old) THEN Empty ELSE g.nodes[m].in[j]
<1> DEFINE c == RemoveNode(g, old)
           r == Removed(g, old)
           t == g.nodes[old].outputs[1]
<1>1. /\ WellFormed(g) /\ old \in LiveNodes(g) /\ OrderedBy(g, rank) /\ 1 \in Outputs(g, old) BY DEF Transferable
<1>2. Cut(c, g, old) BY <1>1, RemoveNodeIs
<1>3. t \in DOMAIN g.tensors BY <1>1 DEF WellFormed, NodeKnows
<1>4. r = [c EXCEPT !.tensors[t].accessor = FALSE] BY DEF Removed
<1> HIDE DEF c, r, t
<1>5. WellFormed(c) /\ OrderedBy(c, rank) BY <1>1, <1>2, CutWellFormed, CutOrdered
<1>6. c \in Graphs /\ t \in DOMAIN c.tensors BY <1>2, <1>3 DEF Cut
<1>7. Alike(r, c) BY <1>4, <1>6, AccessorAlike
<1>8. WellFormed(r) BY <1>5, <1>7, AlikeWellFormed
<1>9. OrderedBy(r, rank) BY <1>5, <1>7 DEF OrderedBy, Alike, LiveEdges
<1>10. LiveEdges(r) = LiveEdges(c) /\ r.edges = c.edges /\ LiveNodes(r) = LiveNodes(c) BY <1>7 DEF Alike, LiveEdges
<1>11. /\ LiveNodes(r) = LiveNodes(g) \ {old}
       /\ DOMAIN r.nodes = DOMAIN g.nodes /\ DOMAIN r.tensors = DOMAIN g.tensors
  BY <1>2, <1>7, <1>10 DEF Cut, Alike
<1>12. LiveEdges(r) = LiveEdges(g) \ EdgesOf(g, old) /\ \A e \in LiveEdges(r) : r.edges[e] = g.edges[e]
  BY <1>2, <1>10 DEF Cut
<1>13. ASSUME NEW m \in LiveNodes(r)
       PROVE  /\ r.nodes[m].type = g.nodes[m].type /\ r.nodes[m].outputs = g.nodes[m].outputs
              /\ DOMAIN r.nodes[m].in = DOMAIN g.nodes[m].in
              /\ \A j \in DOMAIN g.nodes[m].in :
                    r.nodes[m].in[j] = IF g.nodes[m].in[j] \in EdgesOf(g, old) THEN Empty ELSE g.nodes[m].in[j]
  BY <1>2, <1>7, <1>10 DEF Cut, Alike
<1> QED BY <1>8, <1>9, <1>11, <1>12, <1>13 DEF r

LEMMA DrivenPlan ==
    ASSUME NEW g, NEW new, NEW old, NEW rank, Transferable(g, new, old, rank)
    PROVE  LET r == Removed(g, old) links == Driven(g, new, old) driving == Ascending(g.nodes[old].out) IN
              /\ WellFormed(r) /\ Plan(r, links) /\ \A l \in links : rank[l.from] < rank[l.to]
              /\ \A n \in LiveNodes(r) : \A j \in Inputs(r, n) :
                    r.nodes[n].in[j] # Empty \/ \E l \in links : l.to = n /\ l.toIdx = j
              /\ driving \in Seq(g.nodes[old].out) /\ Len(driving) \in Nat /\ DOMAIN driving = 1..Len(driving)
              /\ \A e \in g.nodes[old].out : \E y \in DOMAIN driving : driving[y] = e
              /\ g.nodes[new].outputs[1] \in DOMAIN r.tensors
<1> DEFINE r == Removed(g, old)
           links == Driven(g, new, old)
           driving == Ascending(g.nodes[old].out)
           out == g.nodes[old].out
<1>1. /\ WellFormed(r) /\ LiveNodes(r) = LiveNodes(g) \ {old} /\ DOMAIN r.tensors = DOMAIN g.tensors
      /\ \A m \in LiveNodes(r) :
            /\ r.nodes[m].outputs = g.nodes[m].outputs
            /\ DOMAIN r.nodes[m].in = DOMAIN g.nodes[m].in
            /\ \A j \in DOMAIN g.nodes[m].in :
                  r.nodes[m].in[j] = IF g.nodes[m].in[j] \in EdgesOf(g, old) THEN Empty ELSE g.nodes[m].in[j]
  BY RemovedIs
<1>2. /\ WellFormed(g) /\ g \in Graphs /\ Full(g) /\ rank \in Ranks /\ OrderedBy(g, rank)
      /\ new \in LiveNodes(g) /\ old \in LiveNodes(g) /\ new # old
      /\ 1 \in Outputs(g, new)
      /\ \A e \in LiveEdges(g) : g.edges[e].from = old => rank[new] < rank[g.edges[e].to]
  BY DEF Transferable, WellFormed
<1>3. out \subseteq LiveEdges(g) /\ \A e \in out : g.edges[e].from = old BY <1>2 DEF WellFormed, NodeKnows
<1>4. \A x \in LiveNodes(g) : rank[x] \in Nat
  <2>1. \A x \in LiveNodes(g) : x \in Nat BY <1>2, GraphIs
  <2> QED BY <1>2, <2>1 DEF Ranks
<1> HIDE DEF r, links, out, driving
<1>5. ASSUME NEW e \in out
      PROVE  LET c == g.edges[e] IN
                /\ c.to \in LiveNodes(r) /\ c.toIdx \in Inputs(r, c.to) /\ c.to # new
                /\ r.nodes[c.to].in[c.toIdx] = Empty /\ rank[new] < rank[c.to]
  <2> DEFINE c == g.edges[e]
  <2>1. /\ c.to \in LiveNodes(g) /\ c.toIdx \in Inputs(g, c.to) /\ g.nodes[c.to].in[c.toIdx] = e
    BY <1>2, <1>3, EdgeFacts
  <2>2. rank[new] < rank[c.to] /\ rank[old] < rank[c.to] BY <1>2, <1>3 DEF OrderedBy
  <2>3. e \in EdgesOf(g, old) BY <1>3 DEF EdgesOf
  <2> HIDE DEF c
  <2>4. c.to # new /\ c.to # old BY <1>2, <1>4, <2>1, <2>2
  <2>5. c.to \in LiveNodes(r) BY <1>1, <2>1, <2>4
  <2> QED BY <1>1, <2>1, <2>2, <2>3, <2>4, <2>5 DEF Inputs, c
<1>6. ASSUME NEW l \in links
      PROVE  \E e \in out : /\ l.from = new /\ l.fromIdx = 1
                            /\ l.to = g.edges[e].to /\ l.toIdx = g.edges[e].toIdx
  <2>1. PICK e \in out : l = [from |-> new, fromIdx |-> 1, to |-> g.edges[e].to, toIdx |-> g.edges[e].toIdx]
    BY DEF links, Driven, out
  <2> QED BY <2>1
<1>7. Plan(r, links)
  <2>1. new \in LiveNodes(r) /\ 1 \in Outputs(r, new) BY <1>1, <1>2 DEF Outputs
  <2> QED BY <1>5, <1>6, <2>1 DEF Plan
<1>8. \A l \in links : rank[l.from] < rank[l.to] BY <1>5, <1>6
<1>9. ASSUME NEW n \in LiveNodes(r), NEW j \in Inputs(r, n), r.nodes[n].in[j] = Empty
      PROVE  \E l \in links : l.to = n /\ l.toIdx = j
  <2>1. n \in LiveNodes(g) /\ n # old /\ j \in DOMAIN g.nodes[n].in BY <1>1 DEF Inputs
  <2>2. g.nodes[n].in[j] # Empty BY <1>2, <2>1 DEF Full, Inputs
  <2>3. g.nodes[n].in[j] \in EdgesOf(g, old) BY <1>1, <1>9, <2>1, <2>2
  <2> DEFINE e == g.nodes[n].in[j]
  <2>4. e \in LiveEdges(g) /\ g.edges[e].to = n /\ g.edges[e].toIdx = j
    BY <1>2, <2>1, <2>2 DEF WellFormed, NodeKnows, Inputs
  <2>5. g.edges[e].from = old BY <2>1, <2>3, <2>4 DEF EdgesOf
  <2> HIDE DEF e
  <2>6. e \in out BY <1>2, <2>4, <2>5, EdgeFacts DEF out
  <2> DEFINE l == [from |-> new, fromIdx |-> 1, to |-> g.edges[e].to, toIdx |-> g.edges[e].toIdx]
  <2>7. l \in links BY <2>6 DEF links, Driven, out
  <2>8. l.to = n /\ l.toIdx = j BY <2>4
  <2> QED BY <2>7, <2>8
<1>10. /\ driving \in Seq(out) /\ \A e \in out : \E y \in DOMAIN driving : driving[y] = e
  <2>1. Len(g.edges) \in Nat /\ out \in SUBSET (1..Len(g.edges))
    <3>1. \A e \in LiveEdges(g) : e \in DOMAIN g.edges BY DEF LiveEdges
    <3> QED BY <1>2, <1>3, <3>1, GraphIs
  <2> QED BY <2>1, AscendingIs DEF driving, out
<1>11. Len(driving) \in Nat /\ DOMAIN driving = 1..Len(driving) BY <1>10
<1>12. g.nodes[new].outputs[1] \in DOMAIN r.tensors BY <1>1, <1>2 DEF WellFormed, NodeKnows
<1> QED BY <1>1, <1>7, <1>8, <1>9, <1>10, <1>11, <1>12 DEF r, links, out, driving

LEMMA DrivenStep ==
    ASSUME NEW g, NEW new, NEW old, NEW rank, Transferable(g, new, old, rank),
           NEW h, Wired(h, Removed(g, old), Driven(g, new, old)), NEW e \in g.nodes[old].out
    PROVE  LET k == ConfigureTensor(AddConnection(h, new, 1, g.edges[e].to, g.edges[e].toIdx), g.nodes[new].outputs[1])
           IN  /\ Wired(k, Removed(g, old), Driven(g, new, old)) /\ Keeps(k, h)
               /\ k.nodes[g.edges[e].to].in[g.edges[e].toIdx] # Empty
<1> DEFINE r == Removed(g, old)
           links == Driven(g, new, old)
           c == g.edges[e]
           t == g.nodes[new].outputs[1]
           h1 == AddConnection(h, new, 1, c.to, c.toIdx)
           k == ConfigureTensor(h1, t)
           l == [from |-> new, fromIdx |-> 1, to |-> c.to, toIdx |-> c.toIdx]
<1>1. WellFormed(r) /\ Plan(r, links) /\ t \in DOMAIN r.tensors BY DrivenPlan
<1>2. l \in links BY DEF Driven
<1>3. l.from = new /\ l.fromIdx = 1 /\ l.to = c.to /\ l.toIdx = c.toIdx OBVIOUS
<1> HIDE DEF r, links, c, t, l
<1>4. Wired(h, r, links) BY DEF r, links
<1>5. Wired(h1, r, links) /\ Keeps(h1, h) /\ h1.nodes[c.to].in[c.toIdx] # Empty BY <1>1, <1>2, <1>3, <1>4, Linked
<1> HIDE DEF h1
<1>6. h1 \in Graphs /\ t \in DOMAIN h1.tensors /\ LiveNodes(h1) = LiveNodes(r) BY <1>1, <1>5 DEF Wired, WellFormed
<1>7. Alike(k, h1) BY <1>6, ConfigureTensorAlike
<1> HIDE DEF k
<1>8. Wired(k, r, links) /\ Keeps(k, h1) BY <1>5, <1>7, WiredAlike
<1>9. c.to \in LiveNodes(r) /\ c.toIdx \in Inputs(r, c.to) BY <1>1, <1>2, <1>3 DEF Plan
<1>10. c.toIdx \in DOMAIN h1.nodes[c.to].in BY <1>5, <1>9 DEF Wired, Inputs
<1>11. k.nodes[c.to].in[c.toIdx] # Empty BY <1>5, <1>6, <1>8, <1>9, <1>10 DEF Keeps
<1>12. LiveNodes(h) = LiveNodes(h1) /\ \A n \in LiveNodes(h) : DOMAIN h.nodes[n].in = DOMAIN h1.nodes[n].in
  BY <1>4, <1>5 DEF Wired
<1>13. Keeps(k, h) BY <1>5, <1>8, <1>12 DEF Keeps
<1> QED BY <1>8, <1>11, <1>13 DEF r, links, c, t, h1, k

LEMMA TransferSteps ==
    ASSUME NEW g, NEW new, NEW old, NEW rank, Transferable(g, new, old, rank)
    PROVE  \E steps \in [0..Len(Ascending(g.nodes[old].out)) -> Wirings(Removed(g, old), Driven(g, new, old))] :
              /\ steps[0] = Removed(g, old) /\ \A k \in 1..Len(Ascending(g.nodes[old].out)) : steps[k] = ConfigureTensor(AddConnection(steps[k - 1], new, 1, g.edges[Ascending(g.nodes[old].out)[k]].to, g.edges[Ascending(g.nodes[old].out)[k]].toIdx), g.nodes[new].outputs[1])
              /\ TransferDrivingNodes(g, new, old) = WithAccessor(g, new, old, steps[Len(Ascending(g.nodes[old].out))])
<1> DEFINE n == Len(Ascending(g.nodes[old].out))
           Step == [x \in (Wirings(Removed(g, old), Driven(g, new, old))) \X (1..n) |-> ConfigureTensor(AddConnection(x[1], new, 1, g.edges[Ascending(g.nodes[old].out)[x[2]]].to, g.edges[Ascending(g.nodes[old].out)[x[2]]].toIdx), g.nodes[new].outputs[1])]
<1>1. n \in Nat /\ DOMAIN Ascending(g.nodes[old].out) = 1..n BY DrivenPlan
<1>2. /\ Removed(g, old) \in Wirings(Removed(g, old), Driven(g, new, old))
      /\ \A x \in Wirings(Removed(g, old), Driven(g, new, old)), k \in 1..n : ConfigureTensor(AddConnection(x, new, 1, g.edges[Ascending(g.nodes[old].out)[k]].to, g.edges[Ascending(g.nodes[old].out)[k]].toIdx), g.nodes[new].outputs[1]) \in Wirings(Removed(g, old), Driven(g, new, old))
  <2> DEFINE r == Removed(g, old)
             links == Driven(g, new, old)
             q == Ascending(g.nodes[old].out)
  <2>1. WellFormed(r) /\ Plan(r, links) /\ q \in Seq(g.nodes[old].out) BY DrivenPlan
  <2>2. r \in Wirings(r, links) BY <2>1, WiredBefore DEF Wirings, WellFormed
  <2>3. ASSUME NEW x \in Wirings(r, links), NEW k \in 1..n
        PROVE  ConfigureTensor(AddConnection(x, new, 1, g.edges[q[k]].to, g.edges[q[k]].toIdx),
                               g.nodes[new].outputs[1]) \in Wirings(r, links)
    <3>1. q[k] \in g.nodes[old].out BY <1>1, <2>1
    <3>2. Wired(x, r, links) BY DEF Wirings
    <3> HIDE DEF q, n
    <3>3. Wired(ConfigureTensor(AddConnection(x, new, 1, g.edges[q[k]].to, g.edges[q[k]].toIdx),
                                g.nodes[new].outputs[1]), r, links)
      BY <3>1, <3>2, DrivenStep
    <3> HIDE DEF r, links
    <3> QED BY <3>3 DEF Wirings, Wired, WellFormed
  <2> QED BY <2>2, <2>3
<1>3. Step \in [(Wirings(Removed(g, old), Driven(g, new, old))) \X (1..n) -> Wirings(Removed(g, old), Driven(g, new, old))] /\ \A x \in Wirings(Removed(g, old), Driven(g, new, old)), k \in 1..n : Step[<<x, k>>] = ConfigureTensor(AddConnection(x, new, 1, g.edges[Ascending(g.nodes[old].out)[k]].to, g.edges[Ascending(g.nodes[old].out)[k]].toIdx), g.nodes[new].outputs[1])
  BY <1>2
<1> HIDE DEF n, Step
<1> DEFINE Eq(it) == it = [z \in SUBSET DOMAIN Ascending(g.nodes[old].out) |->
                             IF z = {} THEN Removed(g, old) ELSE ConfigureTensor(AddConnection(it[z \ {Max(z)}], new, 1, g.edges[Ascending(g.nodes[old].out)[Max(z)]].to, g.edges[Ascending(g.nodes[old].out)[Max(z)]].toIdx), g.nodes[new].outputs[1])]
           tab == CHOOSE it : Eq(it)
<1>4. TransferDrivingNodes(g, new, old) = WithAccessor(g, new, old, tab[DOMAIN Ascending(g.nodes[old].out)])
  BY Zenon DEF FoldLeft, MapThenFoldSet, TransferDrivingNodes, Removed, WithAccessor
<1>5. PICK it \in [SUBSET (1..n) -> Wirings(Removed(g, old), Driven(g, new, old))] : FoldsBy(it, 1..n, Removed(g, old), Step)
  <2>1. HasFold(n, Wirings(Removed(g, old), Driven(g, new, old)), Removed(g, old), Step) BY <1>1, <1>2, <1>3, FoldOfSet
  <2> QED BY <2>1 DEF HasFold
<1>6. Eq(it)
  <2>1. ASSUME NEW z \in SUBSET (1..n)
        PROVE  it[z] = IF z = {} THEN Removed(g, old) ELSE ConfigureTensor(AddConnection(it[z \ {Max(z)}], new, 1, g.edges[Ascending(g.nodes[old].out)[Max(z)]].to, g.edges[Ascending(g.nodes[old].out)[Max(z)]].toIdx), g.nodes[new].outputs[1])
    <3>1. CASE z = {} BY <1>5, <3>1 DEF FoldsBy
    <3>2. CASE z # {}
      <4>1. Max(z) \in 1..n BY <1>1, <3>2, MaxOfSome
      <4>2. it[z \ {Max(z)}] \in Wirings(Removed(g, old), Driven(g, new, old))
        <5>1. z \ {Max(z)} \in SUBSET (1..n) OBVIOUS
        <5> QED BY <1>5, <5>1
      <4>3. it[z] = Step[<<it[z \ {Max(z)}], Max(z)>>] BY <1>5, <3>2 DEF FoldsBy
      <4> QED BY <1>3, <3>2, <4>1, <4>2, <4>3
    <3> QED BY <3>1, <3>2
  <2> QED BY <1>1, <1>5, <2>1
<1>7. Eq(tab)
  <2> HIDE DEF Eq
  <2> QED BY <1>6
<1> HIDE DEF tab
<1>8. ASSUME NEW z \in SUBSET (1..n), z # {}, tab[z \ {Max(z)}] \in Wirings(Removed(g, old), Driven(g, new, old))
      PROVE  tab[z] = Step[<<tab[z \ {Max(z)}], Max(z)>>]
  <2>1. Max(z) \in 1..n BY <1>1, <1>8, MaxOfSome
  <2>2. tab[z] = ConfigureTensor(AddConnection(tab[z \ {Max(z)}], new, 1, g.edges[Ascending(g.nodes[old].out)[Max(z)]].to, g.edges[Ascending(g.nodes[old].out)[Max(z)]].toIdx), g.nodes[new].outputs[1]) BY <1>1, <1>7, <1>8
  <2> QED BY <1>3, <1>8, <2>1, <2>2
<1>9. tab[{}] = Removed(g, old) BY <1>1, <1>7
<1>10. Folded(tab[1..n], n, Wirings(Removed(g, old), Driven(g, new, old)), Removed(g, old), Step) BY <1>1, <1>2, <1>3, <1>8, <1>9, FoldTable
<1>11. PICK steps \in [0..n -> Wirings(Removed(g, old), Driven(g, new, old))] : Stepwise(steps, n, Removed(g, old), Step) /\ tab[1..n] = steps[n]
  BY <1>10 DEF Folded
<1>12. ASSUME NEW k \in 1..n PROVE steps[k] = ConfigureTensor(AddConnection(steps[k - 1], new, 1, g.edges[Ascending(g.nodes[old].out)[k]].to, g.edges[Ascending(g.nodes[old].out)[k]].toIdx), g.nodes[new].outputs[1])
  <2>1. k - 1 \in 0..n BY <1>1
  <2>2. steps[k - 1] \in Wirings(Removed(g, old), Driven(g, new, old)) BY <1>11, <2>1
  <2> QED BY <1>3, <1>11, <2>2 DEF Stepwise
<1>13. steps[0] = Removed(g, old) BY <1>11 DEF Stepwise
<1>14. TransferDrivingNodes(g, new, old) = WithAccessor(g, new, old, steps[n]) BY <1>1, <1>4, <1>11
<1> HIDE <1>2, <1>7, <1>8
<1> QED BY <1>11, <1>12, <1>13, <1>14 DEF n

Transferred(h, g, new, old, rank) ==
    /\ WellFormed(h) /\ Full(h) /\ OrderedBy(h, rank) /\ LiveNodes(h) = LiveNodes(g) \ {old}
    /\ DOMAIN h.nodes = DOMAIN g.nodes /\ DOMAIN h.tensors = DOMAIN g.tensors
    /\ \A m \in LiveNodes(h) :
          /\ h.nodes[m].type = g.nodes[m].type /\ h.nodes[m].outputs = g.nodes[m].outputs
    /\ \A e \in LiveEdges(h) :
          \/ h.edges[e].from = new
          \/ /\ e \in LiveEdges(g) /\ h.edges[e] = g.edges[e]
             /\ g.edges[e].from # old /\ g.edges[e].to # old

LEMMA TransferDrivingNodesIs ==
    ASSUME NEW g, NEW new, NEW old, NEW rank, Transferable(g, new, old, rank)
    PROVE  Transferred(TransferDrivingNodes(g, new, old), g, new, old, rank)
<1> DEFINE r == Removed(g, old)
           links == Driven(g, new, old)
           q == Ascending(g.nodes[old].out)
           out == g.nodes[old].out
           h == TransferDrivingNodes(g, new, old)
           slot(x, y) == x.nodes[g.edges[q[y]].to].in[g.edges[q[y]].toIdx]
<1>1. PICK steps \in [0..Len(q) -> Wirings(r, links)] :
         /\ steps[0] = r
         /\ \A k \in 1..Len(q) : steps[k] = ConfigureTensor(AddConnection(steps[k - 1], new, 1,
                                    g.edges[q[k]].to, g.edges[q[k]].toIdx), g.nodes[new].outputs[1])
         /\ h = WithAccessor(g, new, old, steps[Len(q)])
  BY TransferSteps
<1>2. /\ WellFormed(r) /\ Plan(r, links) /\ \A l \in links : rank[l.from] < rank[l.to]
      /\ \A n \in LiveNodes(r) : \A j \in Inputs(r, n) :
            r.nodes[n].in[j] # Empty \/ \E l \in links : l.to = n /\ l.toIdx = j
      /\ q \in Seq(out) /\ Len(q) \in Nat /\ DOMAIN q = 1..Len(q)
      /\ \A e \in out : \E y \in DOMAIN q : q[y] = e
      /\ g.nodes[new].outputs[1] \in DOMAIN r.tensors
  BY DrivenPlan
<1>3. /\ OrderedBy(r, rank) /\ LiveNodes(r) = LiveNodes(g) \ {old}
      /\ DOMAIN r.nodes = DOMAIN g.nodes /\ DOMAIN r.tensors = DOMAIN g.tensors
      /\ LiveEdges(r) = LiveEdges(g) \ EdgesOf(g, old) /\ \A e \in LiveEdges(r) : r.edges[e] = g.edges[e]
      /\ \A m \in LiveNodes(r) : r.nodes[m].type = g.nodes[m].type /\ r.nodes[m].outputs = g.nodes[m].outputs
  BY RemovedIs
<1>4. \A y \in DOMAIN q : q[y] \in out BY <1>2
<1>5. \A l \in links : \E y \in DOMAIN q : /\ l.from = new /\ l.to = g.edges[q[y]].to
                                           /\ l.toIdx = g.edges[q[y]].toIdx
  <2> SUFFICES ASSUME NEW l \in links
               PROVE  \E y \in DOMAIN q : /\ l.from = new /\ l.to = g.edges[q[y]].to
                                          /\ l.toIdx = g.edges[q[y]].toIdx
    OBVIOUS
  <2>1. PICK e \in out : l = [from |-> new, fromIdx |-> 1, to |-> g.edges[e].to, toIdx |-> g.edges[e].toIdx]
    BY DEF Driven
  <2>2. l.from = new /\ l.to = g.edges[e].to /\ l.toIdx = g.edges[e].toIdx BY <2>1
  <2>3. PICK y \in DOMAIN q : q[y] = e BY <1>2
  <2> QED BY <2>2, <2>3
<1>6. ASSUME NEW y \in DOMAIN q
      PROVE  g.edges[q[y]].to \in LiveNodes(r) /\ g.edges[q[y]].toIdx \in Inputs(r, g.edges[q[y]].to)
  <2> DEFINE l == [from |-> new, fromIdx |-> 1, to |-> g.edges[q[y]].to, toIdx |-> g.edges[q[y]].toIdx]
  <2>1. l \in links BY <1>4 DEF Driven
  <2>2. l.to = g.edges[q[y]].to /\ l.toIdx = g.edges[q[y]].toIdx OBVIOUS
  <2> HIDE DEF l, links
  <2> QED BY <1>2, <2>1, <2>2 DEF Plan
<1>7. ASSUME NEW k \in 1..Len(q) PROVE Keeps(steps[k], steps[k - 1]) /\ slot(steps[k], k) # Empty
  <2>1. k - 1 \in 0..Len(q) /\ k \in DOMAIN q BY <1>2
  <2>2. Wired(steps[k - 1], r, links) BY <1>1, <2>1 DEF Wirings
  <2>3. q[k] \in out BY <1>4, <2>1
  <2>4. LET x == ConfigureTensor(AddConnection(steps[k - 1], new, 1, g.edges[q[k]].to, g.edges[q[k]].toIdx),
                                 g.nodes[new].outputs[1])
        IN  Keeps(x, steps[k - 1]) /\ x.nodes[g.edges[q[k]].to].in[g.edges[q[k]].toIdx] # Empty
    <3> HIDE DEF q
    <3> QED BY <2>2, <2>3, DrivenStep
  <2> HIDE DEF q
  <2> QED BY <1>1, <2>4
<1> HIDE DEF r, links, q, out, h
<1>8. \A k \in 0..Len(q) : Wired(steps[k], r, links) BY <1>1 DEF Wirings
<1> HIDE DEF slot
<1> DEFINE P == {k \in Nat : k <= Len(q) => \A y \in 1..k : slot(steps[k], y) # Empty}
<1>9. 0 \in P OBVIOUS
<1>10. ASSUME NEW k \in Nat, k \in P PROVE k + 1 \in P
  <2> SUFFICES ASSUME k + 1 <= Len(q), NEW y \in 1..k+1 PROVE slot(steps[k + 1], y) # Empty OBVIOUS
  <2>1. k + 1 \in 1..Len(q) /\ (k + 1) - 1 = k /\ k \in 0..Len(q) /\ k <= Len(q) BY <1>2
  <2>2. Keeps(steps[k + 1], steps[k]) /\ slot(steps[k + 1], k + 1) # Empty BY <1>7, <2>1
  <2>3. CASE y = k + 1 BY <2>2, <2>3
  <2>4. CASE y # k + 1
    <3>1. y \in 1..k /\ y \in DOMAIN q BY <1>2, <2>1, <2>4
    <3>2. slot(steps[k], y) # Empty BY <1>10, <2>1, <3>1
    <3>3. g.edges[q[y]].to \in LiveNodes(steps[k]) /\ g.edges[q[y]].toIdx \in DOMAIN steps[k].nodes[g.edges[q[y]].to].in
      BY <1>6, <1>8, <2>1, <3>1 DEF Wired, Inputs
    <3> QED BY <2>2, <3>2, <3>3 DEF Keeps, slot
  <2> QED BY <2>3, <2>4
<1> HIDE DEF P
<1>11. Nat \subseteq P BY <1>9, <1>10, SetInduction
<1> DEFINE k == steps[Len(q)]
<1>12. Wired(k, r, links) BY <1>2, <1>8
<1>13. ASSUME NEW l \in links PROVE k.nodes[l.to].in[l.toIdx] # Empty
  <2>1. PICK y \in DOMAIN q : l.to = g.edges[q[y]].to /\ l.toIdx = g.edges[q[y]].toIdx BY <1>5
  <2>2. slot(k, y) # Empty BY <1>2, <1>11 DEF P
  <2> HIDE DEF k
  <2> QED BY <2>1, <2>2 DEF slot
<1>14. Full(k) BY <1>2, <1>12, <1>13, WiredFull
<1>15. OrderedBy(k, rank) BY <1>2, <1>3, <1>12, WiredOrdered
<1> DEFINE t == g.nodes[new].outputs[1]
           v == g.tensors[g.nodes[old].outputs[1]].accessor
<1>16. h = [k EXCEPT !.tensors[t].accessor = v] BY <1>1 DEF WithAccessor
<1> HIDE DEF k
<1>17. v \in BOOLEAN
  <2>1. g.nodes[old].outputs[1] \in DOMAIN g.tensors /\ g \in Graphs
    BY DEF Transferable, WellFormed, NodeKnows
  <2> QED BY <2>1, GraphIs DEF Tensors
<1> HIDE DEF t, v
<1>18. k \in Graphs /\ t \in DOMAIN k.tensors /\ DOMAIN k.tensors = DOMAIN r.tensors BY <1>2, <1>12 DEF Wired, WellFormed, t
<1>19. Alike(h, k) BY <1>16, <1>17, <1>18, AccessorAlike
<1>20. Wired(h, r, links) BY <1>12, <1>19, WiredAlike
<1>21. Full(h) BY <1>14, <1>19 DEF Full, Alike, Inputs
<1>22. OrderedBy(h, rank) BY <1>15, <1>19 DEF OrderedBy, Alike, LiveEdges
<1>23. /\ WellFormed(h) /\ LiveNodes(h) = LiveNodes(r) /\ DOMAIN h.nodes = DOMAIN r.nodes
       /\ DOMAIN h.tensors = DOMAIN r.tensors
       /\ \A m \in LiveNodes(r) : h.nodes[m].type = r.nodes[m].type /\ h.nodes[m].outputs = r.nodes[m].outputs
  BY <1>20 DEF Wired
<1>24. ASSUME NEW e \in LiveEdges(h), h.edges[e].from # new
       PROVE  /\ e \in LiveEdges(g) /\ h.edges[e] = g.edges[e]
              /\ g.edges[e].from # old /\ g.edges[e].to # old
  <2>1. e \in LiveEdges(r)
    <3> SUFFICES ASSUME e \notin LiveEdges(r) PROVE FALSE OBVIOUS
    <3>1. PICK l \in links : h.edges[e].from = l.from BY <1>20 DEF Wired
    <3> QED BY <1>5, <1>24, <3>1
  <2>2. h.edges[e] = r.edges[e] BY <1>20, <2>1 DEF Wired
  <2> QED BY <1>3, <2>1, <2>2 DEF EdgesOf
<1> QED BY <1>3, <1>21, <1>22, <1>23, <1>24 DEF Transferred, h

-----------------------------------------------------------------------------
(* The lifetimes of handles                                                *)

Places(s, h) == {x \in DOMAIN s : s[x] = h}

(* How often a handle is read: once for each place it has in the list.     *)
LEMMA ReadsAreFinite ==
    ASSUME NEW V, NEW s \in Seq(V), NEW h
    PROVE  /\ IsFiniteSet(Places(s, h)) /\ Reads(s, h) = Cardinality(Places(s, h))
           /\ Reads(s, h) \in Nat /\ (Reads(s, h) = 0 <=> h \notin ToSet(s))
<1>1. Len(s) \in Nat /\ DOMAIN s = 1..Len(s) OBVIOUS
<1>2. IsFiniteSet(1..Len(s)) BY <1>1, FS_Interval
<1>3. Places(s, h) \in SUBSET (1..Len(s)) BY <1>1 DEF Places
<1>4. IsFiniteSet(Places(s, h)) BY <1>2, <1>3, FS_Subset
<1>5. Reads(s, h) = Cardinality(Places(s, h)) BY DEF Reads, Places
<1>6. Cardinality(Places(s, h)) \in Nat BY <1>4, FS_CardinalityType
<1>7. Cardinality(Places(s, h)) = 0 <=> Places(s, h) = {} BY <1>4, FS_EmptySet
<1>8. Places(s, h) = {} <=> h \notin ToSet(s) BY DEF Places, ToSet
<1> QED BY <1>4, <1>5, <1>6, <1>7, <1>8

LEMMA ReadsOfBoth ==
    ASSUME NEW V, NEW a \in Seq(V), NEW b \in Seq(V), NEW h
    PROVE  /\ a \o b \in Seq(V) /\ Reads(a \o b, h) = Reads(a, h) + Reads(b, h)
<1> DEFINE A == Places(a, h)
           B == Places(b, h)
           C == {x + Len(a) : x \in B}
           f == [x \in B |-> x + Len(a)]
<1>1. a \o b \in Seq(V) /\ Len(a) \in Nat /\ Len(b) \in Nat /\ DOMAIN a = 1..Len(a) /\ DOMAIN b = 1..Len(b)
  OBVIOUS
<1>2. /\ DOMAIN (a \o b) = 1..Len(a) + Len(b)
      /\ \A x \in 1..Len(a) : (a \o b)[x] = a[x]
      /\ \A x \in 1..Len(b) : (a \o b)[x + Len(a)] = b[x]
  OBVIOUS
<1>3. A \subseteq 1..Len(a) /\ B \subseteq 1..Len(b) BY <1>1 DEF Places
<1>4. Places(a \o b, h) = A \union C
  <2>1. \A x \in DOMAIN (a \o b) : x \in 1..Len(a) \/ (x - Len(a)) \in 1..Len(b) BY <1>1, <1>2
  <2>2. ASSUME NEW x \in Places(a \o b, h) PROVE x \in A \union C
    <3>1. CASE x \in 1..Len(a) BY <1>1, <1>2, <3>1 DEF Places
    <3>2. CASE x - Len(a) \in 1..Len(b)
      <4>1. x = (x - Len(a)) + Len(a) BY <1>1, <1>2, <3>2 DEF Places
      <4>2. x - Len(a) \in B BY <1>1, <1>2, <3>2, <4>1 DEF Places
      <4> QED BY <4>1, <4>2
    <3> QED BY <2>1, <3>1, <3>2 DEF Places
  <2>3. A \subseteq Places(a \o b, h) BY <1>1, <1>2 DEF Places
  <2>4. C \subseteq Places(a \o b, h) BY <1>1, <1>2 DEF Places
  <2> QED BY <2>2, <2>3, <2>4
<1>5. A \intersect C = {} BY <1>1, <1>3
<1>6. IsFiniteSet(A) /\ IsFiniteSet(B) /\ Cardinality(A) \in Nat /\ Cardinality(B) \in Nat
  BY ReadsAreFinite
<1>7. IsFiniteSet(C) /\ Cardinality(C) = Cardinality(B)
  <2>1. f \in Bijection(B, C)
    <3>1. f \in [B -> C] OBVIOUS
    <3>2. \A x, y \in B : f[x] = f[y] => x = y BY <1>1, <1>3
    <3>3. \A y \in C : \E x \in B : f[x] = y OBVIOUS
    <3> QED BY <3>1, <3>2, <3>3 DEF Bijection, Injection, IsInjective, Surjection
  <2>2. ExistsBijection(B, C) BY <2>1 DEF ExistsBijection
  <2> QED BY <1>6, <2>2, FS_Bijection
<1>8. Cardinality(A \union C) = Cardinality(A) + Cardinality(C)
  <2> HIDE DEF A, C
  <2>1. Cardinality(A \union C) = Cardinality(A) + Cardinality(C) - Cardinality(A \intersect C)
    BY <1>6, <1>7, FS_Union
  <2>2. Cardinality(A \intersect C) = 0 BY <1>5, FS_EmptySet
  <2> QED BY <1>6, <1>7, <2>1, <2>2
<1>9. Reads(a \o b, h) = Cardinality(Places(a \o b, h)) BY <1>1, ReadsAreFinite
<1>10. Reads(a, h) = Cardinality(A) /\ Reads(b, h) = Cardinality(B) BY ReadsAreFinite
<1> QED BY <1>1, <1>4, <1>7, <1>8, <1>9, <1>10

(* What is in flight, of the handles in V, in the order of n tasks.        *)
Counters(V)   == UNION {[D -> Int] : D \in SUBSET V}
Starts(V, n)  == UNION {[D -> 1..n] : D \in SUBSET V}
Spans(V, n)   == [handle : V, from : 1..n, to : 1..n]
Flights(V, n) == {s \in [left : Counters(V), from : Starts(V, n), spans : SUBSET Spans(V, n)] :
                    DOMAIN s.left = DOMAIN s.from}

(* A handle is in flight after it was acquired, with its counter and the   *)
(* task that acquired it; it is released if it was read, for the last time.*)
Acquired(s, reads, outputs) == DOMAIN s.left \union ToSet(reads) \union outputs
LeftOf(s, hc, reads, h) == (IF h \in DOMAIN s.left THEN s.left[h] ELSE hc[h]) - Reads(reads, h)
FromOf(s, x, h) == IF h \in DOMAIN s.left THEN s.from[h] ELSE x
Released(s, hc, reads, outputs) ==
    {h \in Acquired(s, reads, outputs) : h \in ToSet(reads) /\ ~(LeftOf(s, hc, reads, h) > 0)}

Advanced(t, s, hc, reads, outputs, x) ==
    /\ DOMAIN t.left = Acquired(s, reads, outputs) \ Released(s, hc, reads, outputs)
    /\ DOMAIN t.from = DOMAIN t.left
    /\ \A h \in DOMAIN t.left : t.left[h] = LeftOf(s, hc, reads, h) /\ t.from[h] = FromOf(s, x, h)
    /\ t.spans = s.spans \union {[handle |-> h, from |-> FromOf(s, x, h), to |-> x] :
                                   h \in Released(s, hc, reads, outputs)}

LEMMA AcquireReleaseIs ==
    ASSUME NEW V, NEW hc \in [V -> Nat], NEW n \in Nat, NEW x \in 1..n, NEW s \in Flights(V, n),
           NEW reads \in Seq(V), NEW outputs \in SUBSET V
    PROVE  /\ AcquireRelease(s, hc, reads, outputs, x) \in Flights(V, n)
           /\ Advanced(AcquireRelease(s, hc, reads, outputs, x), s, hc, reads, outputs, x)
<1> DEFINE new == (ToSet(reads) \union outputs) \ DOMAIN s.left
           left == [h \in DOMAIN s.left \union new |->
                       (IF h \in new THEN hc[h] ELSE s.left[h]) - Reads(reads, h)]
           from == [h \in DOMAIN left |-> IF h \in new THEN x ELSE s.from[h]]
           keep == {h \in DOMAIN left : left[h] > 0 \/ h \notin ToSet(reads)}
           ended == {[handle |-> h, from |-> from[h], to |-> x] : h \in DOMAIN left \ keep}
           kl == [h \in keep |-> left[h]]
           kf == [h \in keep |-> from[h]]
           t == AcquireRelease(s, hc, reads, outputs, x)
           A == Acquired(s, reads, outputs)
           R == Released(s, hc, reads, outputs)
<1>1. t = [left |-> kl, from |-> kf, spans |-> s.spans \union ended] BY DEF AcquireRelease
<1>2. PICK D \in SUBSET V : s.left \in [D -> Int] BY DEF Flights, Counters
<1>3. PICK E \in SUBSET V : s.from \in [E -> 1..n] BY DEF Flights, Starts
<1>4. DOMAIN s.left = D /\ E = D /\ s.spans \in SUBSET Spans(V, n) BY <1>2, <1>3 DEF Flights
<1>5. \A h \in ToSet(reads) : h \in V BY DEF ToSet
<1>6. A \in SUBSET V /\ A = DOMAIN s.left \union new /\ DOMAIN left = A BY <1>2, <1>4, <1>5 DEF Acquired
<1>7. \A h : Reads(reads, h) \in Nat BY ReadsAreFinite
<1>8. \A h \in A : h \in new <=> h \notin DOMAIN s.left BY <1>6
<1>9. \A h \in A : left[h] = LeftOf(s, hc, reads, h) /\ left[h] \in Int /\ from[h] = FromOf(s, x, h) /\ from[h] \in 1..n
  <2> SUFFICES ASSUME NEW h \in A
               PROVE  left[h] = LeftOf(s, hc, reads, h) /\ left[h] \in Int /\ from[h] = FromOf(s, x, h) /\ from[h] \in 1..n
    OBVIOUS
  <2>1. left[h] = (IF h \in new THEN hc[h] ELSE s.left[h]) - Reads(reads, h) BY <1>6
  <2>2. from[h] = IF h \in new THEN x ELSE s.from[h] BY <1>6
  <2> HIDE DEF new, left, from
  <2>3. CASE h \in DOMAIN s.left
    <3>1. s.left[h] \in Int /\ s.from[h] \in 1..n BY <1>2, <1>3, <1>4, <2>3
    <3> QED BY <1>7, <1>8, <2>1, <2>2, <2>3, <3>1 DEF LeftOf, FromOf
  <2>4. CASE h \notin DOMAIN s.left
    <3>1. hc[h] \in Nat BY <1>6
    <3> QED BY <1>7, <1>8, <2>1, <2>2, <2>4, <3>1 DEF LeftOf, FromOf
  <2> QED BY <2>3, <2>4
<1> HIDE DEF new, left, from
<1>10. DOMAIN left \ keep = R /\ keep = A \ R BY <1>6, <1>9 DEF Released
<1> HIDE DEF keep
<1>11. keep \in SUBSET V /\ R \subseteq A BY <1>6, <1>10 DEF Released
<1>12. \A h \in keep : h \in A BY <1>10
<1>13. kl \in [keep -> Int] /\ kf \in [keep -> 1..n] BY <1>9, <1>12
<1>14. ended = {[handle |-> h, from |-> FromOf(s, x, h), to |-> x] : h \in R} BY <1>9, <1>10, <1>11
<1>15. ended \in SUBSET Spans(V, n) BY <1>6, <1>9, <1>10, <1>11 DEF Spans
<1>16. \A h \in keep : kl[h] = LeftOf(s, hc, reads, h) /\ kf[h] = FromOf(s, x, h) BY <1>9, <1>12
<1>17. DOMAIN kl = keep /\ DOMAIN kf = keep OBVIOUS
<1> HIDE DEF kl, kf, ended, t
<1>18. t.left = kl /\ t.from = kf /\ t.spans = s.spans \union ended BY <1>1
<1>19. kl \in Counters(V) /\ kf \in Starts(V, n) BY <1>11, <1>13 DEF Counters, Starts
<1>20. t \in Flights(V, n) BY <1>1, <1>4, <1>15, <1>17, <1>19 DEF Flights
<1>21. Advanced(t, s, hc, reads, outputs, x)
  BY <1>10, <1>14, <1>16, <1>17, <1>18 DEF Advanced
<1> QED BY <1>20, <1>21 DEF t

(* A handle after the first k tasks.  Fresh: its lifetime has not ended,   *)
(* and its counter is the number of its reads to come.  Over: its lifetime *)
(* began with the first task that touched it and ended with its last read. *)
Touching(R, W, x, h) == h \in ToSet(R[x]) \union W[x]

Fresh(t, hc, F, R, W, k, h) ==
    /\ \A r \in t.spans : r.handle # h
    /\ IF h \in DOMAIN t.left
       THEN /\ t.left[h] = hc[h] - Reads(F[k], h) /\ t.left[h] > 0 /\ t.from[h] <= k
            /\ \A x \in 1..k : Touching(R, W, x, h) => t.from[h] <= x
       ELSE Reads(F[k], h) = 0 /\ \A x \in 1..k : ~Touching(R, W, x, h)

Covers(r, R, W, k) ==
    /\ \A x \in 1..k : Touching(R, W, x, r.handle) => r.from <= x
    /\ \A y \in 1..k : r.handle \in ToSet(R[y]) => y <= r.to

Over(t, hc, F, R, W, k, h) ==
    /\ \E r \in t.spans : /\ r.handle = h /\ \A q \in t.spans : q.handle = h => q = r
                          /\ Covers(r, R, W, k) /\ r.from <= k
    /\ Reads(F[k], h) = hc[h]

LEMMA ReadsGrow ==
    ASSUME NEW V, NEW n \in Nat, NEW R \in [1..n -> Seq(V)], NEW F \in [0..n -> Seq(V)], Joining(F, R, n),
           NEW h, NEW k \in 0..n
    PROVE  Reads(F[k], h) <= Reads(F[n], h)
<1> DEFINE P == {d \in Nat : k + d <= n => Reads(F[k], h) <= Reads(F[k + d], h)}
<1>1. \A j \in 0..n : Reads(F[j], h) \in Nat BY ReadsAreFinite
<1>2. 0 \in P BY <1>1
<1>3. ASSUME NEW d \in Nat, d \in P PROVE d + 1 \in P
  <2> SUFFICES ASSUME k + (d + 1) <= n PROVE Reads(F[k], h) <= Reads(F[k + (d + 1)], h) OBVIOUS
  <2> DEFINE j == k + (d + 1)
  <2>1. j \in 1..n /\ j - 1 = k + d /\ j - 1 \in 0..n /\ j \in 0..n /\ k + d <= n OBVIOUS
  <2>2. Reads(F[k], h) <= Reads(F[j - 1], h) BY <1>3, <2>1
  <2>3. F[j] = F[j - 1] \o R[j] BY <2>1 DEF Joining
  <2> HIDE DEF j
  <2>4. Reads(F[j], h) = Reads(F[j - 1], h) + Reads(R[j], h) /\ Reads(R[j], h) \in Nat
    BY <2>1, <2>3, ReadsOfBoth, ReadsAreFinite
  <2>5. Reads(F[k], h) <= Reads(F[j], h) BY <1>1, <2>1, <2>2, <2>4
  <2> QED BY <2>5 DEF j
<1>4. Nat \subseteq P
  <2> HIDE DEF P
  <2> QED BY <1>2, <1>3, SetInduction
<1>5. n - k \in Nat /\ k + (n - k) = n OBVIOUS
<1>6. n - k \in P BY <1>4, <1>5
<1> QED BY <1>5, <1>6

(* One task more.                                                          *)
LEMMA OneMoreTask ==
    ASSUME NEW V, NEW hc \in [V -> Nat], NEW n \in Nat, NEW k \in 1..n,
           NEW R \in [1..n -> Seq(V)], NEW W \in [1..n -> SUBSET V], NEW F \in [0..n -> Seq(V)],
           F[k] = F[k - 1] \o R[k],
           NEW h \in V, hc[h] > 0, Reads(F[k], h) <= hc[h],
           NEW s \in Flights(V, n), NEW t \in Flights(V, n), Advanced(t, s, hc, R[k], W[k], k),
           Fresh(s, hc, F, R, W, k - 1, h) \/ Over(s, hc, F, R, W, k - 1, h)
    PROVE  Fresh(t, hc, F, R, W, k, h) \/ Over(t, hc, F, R, W, k, h)
<1> DEFINE A == Acquired(s, R[k], W[k])
           Z == Released(s, hc, R[k], W[k])
           left == LeftOf(s, hc, R[k], h)
           c == Reads(R[k], h)
           before == Reads(F[k - 1], h)
<1>1. k - 1 \in 0..n /\ k \in 0..n /\ R[k] \in Seq(V) /\ \A x \in 1..k : x \in 1..k-1 \/ x = k OBVIOUS
<1>2. /\ Reads(F[k], h) = before + c /\ c \in Nat /\ before \in Nat
      /\ (c = 0 <=> h \notin ToSet(R[k]))
  BY <1>1, ReadsOfBoth, ReadsAreFinite
<1>3. /\ DOMAIN t.left = A \ Z
      /\ h \in DOMAIN t.left => t.left[h] = left /\ t.from[h] = FromOf(s, k, h)
      /\ t.spans = s.spans \union {[handle |-> g, from |-> FromOf(s, k, g), to |-> k] : g \in Z}
  BY DEF Advanced
<1>4. \A r \in t.spans : r.handle = h =>
         r \in s.spans \/ (h \in Z /\ r = [handle |-> h, from |-> FromOf(s, k, h), to |-> k])
  BY <1>3
<1>5. \A x \in 1..k : Touching(R, W, x, h) => x \in 1..k-1 \/ (x = k /\ h \in A) BY <1>1 DEF Touching, Acquired
<1>6. h \in A <=> h \in DOMAIN s.left \/ Touching(R, W, k, h) BY DEF Acquired, Touching
<1>7. h \in Z <=> h \in A /\ c # 0 /\ ~(left > 0) BY <1>2 DEF Released
<1>8. CASE Fresh(s, hc, F, R, W, k - 1, h)
  <2>1. CASE h \notin A
    <3>1. c = 0 /\ h \notin DOMAIN t.left /\ h \notin Z BY <1>2, <1>3, <1>6, <1>7, <2>1 DEF Touching
    <3>2. \A r \in t.spans : r.handle # h BY <1>4, <1>8, <3>1 DEF Fresh
    <3>3. Reads(F[k], h) = 0 /\ \A x \in 1..k : ~Touching(R, W, x, h)
      BY <1>1, <1>2, <1>5, <1>6, <1>8, <2>1, <3>1 DEF Fresh
    <3>4. Fresh(t, hc, F, R, W, k, h) BY <3>1, <3>2, <3>3 DEF Fresh
    <3> QED BY <3>4
  <2>2. CASE h \in A
    <3>1. left = hc[h] - Reads(F[k], h) /\ left \in Int
      <4>1. CASE h \in DOMAIN s.left
        <5>1. s.left[h] = hc[h] - before BY <1>8, <4>1 DEF Fresh
        <5> QED BY <1>2, <4>1, <5>1 DEF LeftOf
      <4>2. CASE h \notin DOMAIN s.left
        <5>1. before = 0 BY <1>8, <4>2 DEF Fresh
        <5> QED BY <1>2, <4>2, <5>1 DEF LeftOf
      <4> QED BY <4>1, <4>2
    <3>2. FromOf(s, k, h) \in 1..k /\ \A x \in 1..k : Touching(R, W, x, h) => FromOf(s, k, h) <= x
      <4>1. CASE h \in DOMAIN s.left
        <5>1. s.from[h] = FromOf(s, k, h) BY <4>1 DEF FromOf
        <5>2. s.from[h] <= k - 1 /\ \A x \in 1..k-1 : Touching(R, W, x, h) => s.from[h] <= x
          BY <1>8, <4>1 DEF Fresh
        <5>3. s.from[h] \in 1..n BY <4>1 DEF Flights, Starts
        <5> QED BY <1>1, <5>1, <5>2, <5>3
      <4>2. CASE h \notin DOMAIN s.left
        <5>1. \A x \in 1..k-1 : ~Touching(R, W, x, h) BY <1>8, <4>2 DEF Fresh
        <5> QED BY <1>1, <4>2, <5>1 DEF FromOf
      <4> QED BY <4>1, <4>2
    <3> HIDE DEF left, c, before, A, Z
    <3>3. CASE h \in Z
      <4> DEFINE r == [handle |-> h, from |-> FromOf(s, k, h), to |-> k]
      <4>1. r \in t.spans /\ r.handle = h /\ r.from = FromOf(s, k, h) /\ r.to = k BY <1>3, <3>3
      <4>2. \A q \in t.spans : q.handle = h => q = r BY <1>4, <1>8 DEF Fresh
      <4> HIDE DEF r
      <4>3. Covers(r, R, W, k) BY <3>2, <4>1 DEF Covers
      <4>4. Reads(F[k], h) = hc[h]
        <5>1. hc[h] \in Nat /\ Reads(F[k], h) \in Nat BY <1>2
        <5>2. ~(left > 0) BY <1>7, <3>3
        <5> QED BY <3>1, <5>1, <5>2
      <4>5. Over(t, hc, F, R, W, k, h) BY <3>2, <4>1, <4>2, <4>3, <4>4 DEF Over
      <4> QED BY <4>5
    <3>4. CASE h \notin Z
      <4>1. h \in DOMAIN t.left BY <1>3, <2>2, <3>4
      <4>2. left > 0
        <5>1. CASE c # 0 BY <1>7, <2>2, <3>4, <5>1
        <5>2. CASE c = 0
          <6>1. CASE h \in DOMAIN s.left
            <7>1. s.left[h] > 0 /\ s.left[h] = hc[h] - before BY <1>8, <6>1 DEF Fresh, before
            <7> QED BY <1>2, <3>1, <5>2, <7>1
          <6>2. CASE h \notin DOMAIN s.left
            <7>1. before = 0 BY <1>8, <6>2 DEF Fresh, before
            <7> QED BY <1>2, <3>1, <5>2, <7>1
          <6> QED BY <6>1, <6>2
        <5> QED BY <5>1, <5>2
      <4>3. \A r \in t.spans : r.handle # h BY <1>4, <1>8, <3>4 DEF Fresh
      <4>4. Fresh(t, hc, F, R, W, k, h) BY <1>3, <3>1, <3>2, <4>1, <4>2, <4>3 DEF Fresh
      <4> QED BY <4>4
    <3> QED BY <3>3, <3>4
  <2> QED BY <2>1, <2>2
<1>9. CASE Over(s, hc, F, R, W, k - 1, h)
  <2>1. before = hc[h] BY <1>9 DEF Over
  <2>2. c = 0 /\ h \notin ToSet(R[k]) BY <1>2, <2>1
  <2>3. h \notin Z BY <1>7, <2>2
  <2>4. PICK r \in s.spans : /\ r.handle = h /\ \A q \in s.spans : q.handle = h => q = r
                             /\ Covers(r, R, W, k - 1) /\ r.from <= k - 1
    BY <1>9 DEF Over
  <2>5. r \in t.spans /\ \A q \in t.spans : q.handle = h => q = r BY <1>3, <1>4, <2>3, <2>4
  <2>6. r.from \in 1..n BY <2>4 DEF Flights, Spans
  <2>7. Covers(r, R, W, k) /\ r.from <= k
    <3>1. \A x \in 1..k-1 : Touching(R, W, x, h) => r.from <= x BY <2>4 DEF Covers
    <3>2. \A y \in 1..k-1 : h \in ToSet(R[y]) => y <= r.to BY <2>4 DEF Covers
    <3>3. r.from <= k BY <2>4, <2>6
    <3> QED BY <1>1, <2>2, <2>4, <3>1, <3>2, <3>3 DEF Covers
  <2>8. Reads(F[k], h) = hc[h] BY <1>2, <2>1, <2>2
  <2>9. Over(t, hc, F, R, W, k, h) BY <2>4, <2>5, <2>7, <2>8 DEF Over
  <2> QED BY <2>9
<1> QED BY <1>8, <1>9

(* The tasks of an order, the handles they read, and their counters.       *)
TasksOf(ts) == [x \in DOMAIN ts |-> x]

ReadsOf(g, ts) == [x \in DOMAIN ts |-> InputHandles(g, ts[x])]

Counted(g, ts) ==
    LET V == DOMAIN HandleCounter(g, ts)
    IN  /\ HandleCounter(g, ts) \in [V -> Nat]
        /\ \A x \in DOMAIN ts : InputHandles(g, ts[x]) \in Seq(V) /\ OutputHandles(g, ts[x]) \in SUBSET V

LEMMA LifetimeSteps ==
    ASSUME NEW g, NEW ts, NEW Q, ts \in Seq(Q), Counted(g, ts)
    PROVE  \E steps \in [0..Len(TasksOf(ts)) -> Flights(DOMAIN HandleCounter(g, ts), Len(ts))] :
              /\ steps[0] = NoneInFlight /\ \A k \in 1..Len(TasksOf(ts)) : steps[k] = AcquireRelease(steps[k - 1], HandleCounter(g, ts), InputHandles(g, ts[TasksOf(ts)[k]]), OutputHandles(g, ts[TasksOf(ts)[k]]), TasksOf(ts)[k])
              /\ HandleLifetimes(g, ts) = steps[Len(TasksOf(ts))]
<1> DEFINE n == Len(TasksOf(ts))
           Step == [x \in (Flights(DOMAIN HandleCounter(g, ts), Len(ts))) \X (1..n) |-> AcquireRelease(x[1], HandleCounter(g, ts), InputHandles(g, ts[TasksOf(ts)[x[2]]]), OutputHandles(g, ts[TasksOf(ts)[x[2]]]), TasksOf(ts)[x[2]])]
<1>1. n \in Nat /\ DOMAIN TasksOf(ts) = 1..n BY DEF TasksOf
<1>2. /\ NoneInFlight \in Flights(DOMAIN HandleCounter(g, ts), Len(ts))
      /\ \A x \in Flights(DOMAIN HandleCounter(g, ts), Len(ts)), k \in 1..n : AcquireRelease(x, HandleCounter(g, ts), InputHandles(g, ts[TasksOf(ts)[k]]), OutputHandles(g, ts[TasksOf(ts)[k]]), TasksOf(ts)[k]) \in Flights(DOMAIN HandleCounter(g, ts), Len(ts))
  <2> DEFINE V == DOMAIN HandleCounter(g, ts)
             m == Len(ts)
             q == TasksOf(ts)
  <2>0. m \in Nat /\ n = m /\ \A k \in 1..n : q[k] = k /\ k \in 1..m /\ k \in DOMAIN ts BY <1>1 DEF TasksOf
  <2>1. NoneInFlight \in Flights(V, m)
    <3>1. {} \in SUBSET V /\ <<>> \in [{} -> Int] /\ <<>> \in [{} -> 1..m] OBVIOUS
    <3>2. <<>> \in Counters(V) /\ <<>> \in Starts(V, m) BY <3>1 DEF Counters, Starts
    <3> QED BY <3>2 DEF NoneInFlight, Flights
  <2>2. /\ HandleCounter(g, ts) \in [V -> Nat]
        /\ \A k \in 1..n : InputHandles(g, ts[q[k]]) \in Seq(V) /\ OutputHandles(g, ts[q[k]]) \in SUBSET V
    BY <2>0 DEF Counted
  <2> HIDE DEF V, m, n, q
  <2>3. ASSUME NEW x \in Flights(V, m), NEW k \in 1..n
        PROVE  AcquireRelease(x, HandleCounter(g, ts), InputHandles(g, ts[q[k]]), OutputHandles(g, ts[q[k]]), q[k])
                 \in Flights(V, m)
    BY <2>0, <2>2, AcquireReleaseIs
  <2> QED BY <2>1, <2>3 DEF V, m, q
<1>3. Step \in [(Flights(DOMAIN HandleCounter(g, ts), Len(ts))) \X (1..n) -> Flights(DOMAIN HandleCounter(g, ts), Len(ts))] /\ \A x \in Flights(DOMAIN HandleCounter(g, ts), Len(ts)), k \in 1..n : Step[<<x, k>>] = AcquireRelease(x, HandleCounter(g, ts), InputHandles(g, ts[TasksOf(ts)[k]]), OutputHandles(g, ts[TasksOf(ts)[k]]), TasksOf(ts)[k])
  BY <1>2
<1> HIDE DEF n, Step
<1> DEFINE Eq(it) == it = [z \in SUBSET DOMAIN TasksOf(ts) |->
                             IF z = {} THEN NoneInFlight ELSE AcquireRelease(it[z \ {Max(z)}], HandleCounter(g, ts), InputHandles(g, ts[TasksOf(ts)[Max(z)]]), OutputHandles(g, ts[TasksOf(ts)[Max(z)]]), TasksOf(ts)[Max(z)])]
           tab == CHOOSE it : Eq(it)
<1>4. HandleLifetimes(g, ts) = tab[DOMAIN TasksOf(ts)]
  BY Zenon DEF FoldLeft, MapThenFoldSet, HandleLifetimes, TasksOf
<1>5. PICK it \in [SUBSET (1..n) -> Flights(DOMAIN HandleCounter(g, ts), Len(ts))] : FoldsBy(it, 1..n, NoneInFlight, Step)
  <2>1. HasFold(n, Flights(DOMAIN HandleCounter(g, ts), Len(ts)), NoneInFlight, Step) BY <1>1, <1>2, <1>3, FoldOfSet
  <2> QED BY <2>1 DEF HasFold
<1>6. Eq(it)
  <2>1. ASSUME NEW z \in SUBSET (1..n)
        PROVE  it[z] = IF z = {} THEN NoneInFlight ELSE AcquireRelease(it[z \ {Max(z)}], HandleCounter(g, ts), InputHandles(g, ts[TasksOf(ts)[Max(z)]]), OutputHandles(g, ts[TasksOf(ts)[Max(z)]]), TasksOf(ts)[Max(z)])
    <3>1. CASE z = {} BY <1>5, <3>1 DEF FoldsBy
    <3>2. CASE z # {}
      <4>1. Max(z) \in 1..n BY <1>1, <3>2, MaxOfSome
      <4>2. it[z \ {Max(z)}] \in Flights(DOMAIN HandleCounter(g, ts), Len(ts))
        <5>1. z \ {Max(z)} \in SUBSET (1..n) OBVIOUS
        <5> QED BY <1>5, <5>1
      <4>3. it[z] = Step[<<it[z \ {Max(z)}], Max(z)>>] BY <1>5, <3>2 DEF FoldsBy
      <4> QED BY <1>3, <3>2, <4>1, <4>2, <4>3
    <3> QED BY <3>1, <3>2
  <2> QED BY <1>1, <1>5, <2>1
<1>7. Eq(tab)
  <2> HIDE DEF Eq
  <2> QED BY <1>6
<1> HIDE DEF tab
<1>8. ASSUME NEW z \in SUBSET (1..n), z # {}, tab[z \ {Max(z)}] \in Flights(DOMAIN HandleCounter(g, ts), Len(ts))
      PROVE  tab[z] = Step[<<tab[z \ {Max(z)}], Max(z)>>]
  <2>1. Max(z) \in 1..n BY <1>1, <1>8, MaxOfSome
  <2>2. tab[z] = AcquireRelease(tab[z \ {Max(z)}], HandleCounter(g, ts), InputHandles(g, ts[TasksOf(ts)[Max(z)]]), OutputHandles(g, ts[TasksOf(ts)[Max(z)]]), TasksOf(ts)[Max(z)]) BY <1>1, <1>7, <1>8
  <2> QED BY <1>3, <1>8, <2>1, <2>2
<1>9. tab[{}] = NoneInFlight BY <1>1, <1>7
<1>10. Folded(tab[1..n], n, Flights(DOMAIN HandleCounter(g, ts), Len(ts)), NoneInFlight, Step) BY <1>1, <1>2, <1>3, <1>8, <1>9, FoldTable
<1>11. PICK steps \in [0..n -> Flights(DOMAIN HandleCounter(g, ts), Len(ts))] : Stepwise(steps, n, NoneInFlight, Step) /\ tab[1..n] = steps[n]
  BY <1>10 DEF Folded
<1>12. ASSUME NEW k \in 1..n PROVE steps[k] = AcquireRelease(steps[k - 1], HandleCounter(g, ts), InputHandles(g, ts[TasksOf(ts)[k]]), OutputHandles(g, ts[TasksOf(ts)[k]]), TasksOf(ts)[k])
  <2>1. k - 1 \in 0..n BY <1>1
  <2>2. steps[k - 1] \in Flights(DOMAIN HandleCounter(g, ts), Len(ts)) BY <1>11, <2>1
  <2> QED BY <1>3, <1>11, <2>2 DEF Stepwise
<1>13. steps[0] = NoneInFlight BY <1>11 DEF Stepwise
<1>14. HandleLifetimes(g, ts) = steps[n] BY <1>1, <1>4, <1>11
<1> HIDE <1>2, <1>7, <1>8
<1> QED BY <1>11, <1>12, <1>13, <1>14 DEF n

LEMMA InputHandlesAre ==
    ASSUME NEW g, NEW n, NEW E, g.nodes[n].in \in Seq(E)
    PROVE  /\ InputHandles(g, n) \in Seq({ParentHandle(g, t) : t \in ReadTensors(g, n)})
           /\ \A h : h \in ToSet(InputHandles(g, n)) <=>
                /\ h \in DOMAIN g.handles \ ConstHandles(g)
                /\ \E t \in ReadTensors(g, n) : ParentHandle(g, t) = h
<1> DEFINE q == [i \in Inputs(g, n) |-> ParentHandle(g, InputTensor(g, n, i))]
           S == DOMAIN g.handles \ ConstHandles(g)
           T == {ParentHandle(g, t) : t \in ReadTensors(g, n)}
<1>1. Inputs(g, n) = 1..Len(g.nodes[n].in) /\ Len(g.nodes[n].in) \in Nat BY DEF Inputs
<1>2. q \in Seq(T)
  <2>1. \A i \in Inputs(g, n) : InputTensor(g, n, i) \in ReadTensors(g, n) BY DEF ReadTensors
  <2>2. \A i \in Inputs(g, n) : ParentHandle(g, InputTensor(g, n, i)) \in T BY <2>1
  <2> HIDE DEF T
  <2> QED BY <1>1, <2>2
<1>3. InputHandles(g, n) = Only(q, S) BY DEF InputHandles
<1>4. DOMAIN q = Inputs(g, n) OBVIOUS
<1>5. \A i \in Inputs(g, n) : q[i] = ParentHandle(g, InputTensor(g, n, i)) OBVIOUS
<1> DEFINE o == Only(q, S)
<1> HIDE DEF q, S, o
<1>6. /\ o \in Seq(T) /\ \A x \in DOMAIN o : o[x] \in S
      /\ \A x \in DOMAIN q : q[x] \in S => \E y \in DOMAIN o : o[y] = q[x]
  BY <1>2, OnlyIs DEF o
<1>7. ASSUME NEW h \in ToSet(o) PROVE h \in S /\ \E t \in ReadTensors(g, n) : ParentHandle(g, t) = h
  <2>1. PICK x \in DOMAIN o : o[x] = h BY <1>7 DEF ToSet
  <2>2. h \in T BY <1>6, <2>1
  <2> QED BY <1>6, <2>1, <2>2
<1>8. ASSUME NEW t \in ReadTensors(g, n), ParentHandle(g, t) \in S PROVE ParentHandle(g, t) \in ToSet(o)
  <2>1. PICK i \in Inputs(g, n) : t = InputTensor(g, n, i) BY DEF ReadTensors
  <2>2. q[i] = ParentHandle(g, t) /\ i \in DOMAIN q BY <1>4, <1>5, <2>1
  <2> QED BY <1>6, <1>8, <2>2 DEF ToSet
<1>9. InputHandles(g, n) = o BY <1>3 DEF o
<1> QED BY <1>6, <1>7, <1>8, <1>9 DEF S

(* The counters of the handles are the numbers of their reads.             *)
LEMMA HandleCounterIs ==
    ASSUME NEW g, NEW ts, NEW Q, ts \in Seq(Q), NEW E, \A x \in DOMAIN ts : g.nodes[ts[x]].in \in Seq(E),
           UnreadOutputs(g, ts) = {}
    PROVE  /\ Counted(g, ts)
           /\ \E F \in [0..Len(ts) -> Seq(DOMAIN HandleCounter(g, ts))] :
                 /\ Joining(F, ReadsOf(g, ts), Len(ts))
                 /\ \A h \in DOMAIN HandleCounter(g, ts) :
                       HandleCounter(g, ts)[h] = Reads(F[Len(ts)], h) /\ HandleCounter(g, ts)[h] > 0
           /\ DOMAIN HandleCounter(g, ts) \subseteq DOMAIN g.handles \ ConstHandles(g)
<1> DEFINE n == Len(ts)
           R == ReadsOf(g, ts)
           S == DOMAIN g.handles \ ConstHandles(g)
           U == UNION {ToSet(R[x]) : x \in 1..n}
           hc == HandleCounter(g, ts)
           V == DOMAIN hc
<1>1. n \in Nat /\ DOMAIN ts = 1..n /\ DOMAIN R = 1..n /\ \A x \in 1..n : R[x] = InputHandles(g, ts[x])
  BY DEF ReadsOf
<1> HIDE DEF R, n
<1>2. ASSUME NEW x \in 1..n PROVE R[x] \in Seq(U) /\ \A h \in ToSet(R[x]) : h \in S
  <2>1. R[x] \in Seq({ParentHandle(g, t) : t \in ReadTensors(g, ts[x])}) /\ \A h \in ToSet(R[x]) : h \in S
    <3>1. R[x] = InputHandles(g, ts[x]) /\ g.nodes[ts[x]].in \in Seq(E) BY <1>1
    <3>2. /\ InputHandles(g, ts[x]) \in Seq({ParentHandle(g, t) : t \in ReadTensors(g, ts[x])})
          /\ \A h : h \in ToSet(InputHandles(g, ts[x])) <=>
                /\ h \in DOMAIN g.handles \ ConstHandles(g)
                /\ \E t \in ReadTensors(g, ts[x]) : ParentHandle(g, t) = h
      BY ONLY <3>1, InputHandlesAre
    <3> QED BY <3>1, <3>2
  <2>2. Len(R[x]) \in Nat /\ DOMAIN R[x] = 1..Len(R[x]) BY <2>1
  <2>3. \A y \in DOMAIN R[x] : R[x][y] \in U BY DEF ToSet
  <2>4. R[x] = [y \in 1..Len(R[x]) |-> R[x][y]] BY <2>1
  <2> HIDE DEF U
  <2> QED BY <2>1, <2>2, <2>3, <2>4
<1>3. U \subseteq S BY <1>2
<1> HIDE DEF U, S
<1>4. R \in Seq(Seq(U)) BY <1>1, <1>2 DEF ReadsOf, R
<1>5. Len(R) = n BY <1>1, <1>4
<1>6. PICK F \in [0..n -> Seq(U)] : Joining(F, R, n) /\ FlattenSeq(R) = F[n] BY <1>4, <1>5, FlattenIsJoining
<1>7. hc = [h \in ToSet(F[n]) |-> Reads(F[n], h)] BY <1>6 DEF HandleCounter, R, ReadsOf
<1>8. V = ToSet(F[n]) /\ \A h \in V : hc[h] = Reads(F[n], h) BY <1>7
<1> HIDE DEF hc, V
<1>9. R \in [1..n -> Seq(U)] BY <1>1, <1>2, <1>4
<1>10. F[n] \in Seq(U) /\ n \in 0..n BY <1>1, <1>6
<1>11. \A h \in V : Reads(F[n], h) \in Nat /\ Reads(F[n], h) > 0
  <2> SUFFICES ASSUME NEW h \in V PROVE Reads(F[n], h) \in Nat /\ Reads(F[n], h) > 0 OBVIOUS
  <2>1. Reads(F[n], h) \in Nat /\ (Reads(F[n], h) = 0 <=> h \notin ToSet(F[n])) BY <1>10, ReadsAreFinite
  <2> QED BY <1>8, <2>1
<1>12. ASSUME NEW k \in 0..n, NEW h, Reads(F[k], h) > 0 PROVE h \in V
  <2>1. Reads(F[k], h) <= Reads(F[n], h) BY <1>1, <1>6, <1>9, ReadsGrow
  <2>2. Reads(F[k], h) \in Nat /\ Reads(F[n], h) \in Nat BY <1>6, <1>10, ReadsAreFinite
  <2>3. Reads(F[n], h) # 0 BY <1>12, <2>1, <2>2
  <2>4. Reads(F[n], h) = 0 <=> h \notin ToSet(F[n]) BY <1>10, ReadsAreFinite
  <2> QED BY <1>8, <2>3, <2>4
<1>13. ASSUME NEW k \in 0..n, NEW h \in ToSet(F[k]) PROVE h \in V
  <2>1. F[k] \in Seq(U) BY <1>6
  <2>2. Reads(F[k], h) \in Nat /\ (Reads(F[k], h) = 0 <=> h \notin ToSet(F[k])) BY <2>1, ReadsAreFinite
  <2> QED BY <1>12, <1>13, <2>2
<1>14. ASSUME NEW k \in 1..n, NEW h \in ToSet(R[k]) PROVE h \in V
  <2>1. k \in 0..n /\ k - 1 \in 0..n /\ R[k] \in Seq(U) /\ F[k - 1] \in Seq(U) BY <1>1, <1>6, <1>9
  <2>2. F[k] = F[k - 1] \o R[k] BY <1>6 DEF Joining
  <2>3. Reads(F[k], h) = Reads(F[k - 1], h) + Reads(R[k], h) BY <2>1, <2>2, ReadsOfBoth
  <2>4. Reads(F[k - 1], h) \in Nat /\ Reads(R[k], h) \in Nat /\ Reads(R[k], h) # 0
    BY <1>14, <2>1, ReadsAreFinite
  <2> QED BY <1>12, <2>1, <2>3, <2>4
<1>15. \A s \in Seq(U) : ToSet(s) \subseteq V => s \in Seq(V)
  <2> SUFFICES ASSUME NEW s \in Seq(U), ToSet(s) \subseteq V PROVE s \in Seq(V) OBVIOUS
  <2>1. Len(s) \in Nat /\ DOMAIN s = 1..Len(s) /\ s = [y \in 1..Len(s) |-> s[y]] OBVIOUS
  <2>2. \A y \in DOMAIN s : s[y] \in V BY DEF ToSet
  <2> QED BY <2>1, <2>2
<1>16. \A k \in 1..n : R[k] \in Seq(V) BY <1>9, <1>14, <1>15
<1>17. F \in [0..n -> Seq(V)]
  <2>1. \A k \in 0..n : F[k] \in Seq(V) BY <1>6, <1>13, <1>15
  <2> QED BY <1>6, <2>1
<1>18. \A x \in DOMAIN ts : OutputHandles(g, ts[x]) \subseteq V BY DEF UnreadOutputs, ToSet, V, hc
<1>19. hc \in [V -> Nat] BY <1>7, <1>8, <1>11
<1>20. Counted(g, ts) BY <1>1, <1>16, <1>18, <1>19 DEF Counted, hc, V
<1>21. V \subseteq S
  <2> SUFFICES ASSUME NEW h \in V PROVE h \in S OBVIOUS
  <2>1. PICK y \in DOMAIN F[n] : F[n][y] = h BY <1>8 DEF ToSet
  <2>2. h \in U BY <1>10, <2>1
  <2> QED BY <1>3, <2>2
<1>22. Joining(F, R, n) BY <1>6
<1> QED BY <1>8, <1>11, <1>17, <1>20, <1>21, <1>22 DEF hc, V, S, n, R

WritesOf(g, ts) == [x \in DOMAIN ts |-> OutputHandles(g, ts[x])]

(* A lifetime that has ended is the only one of its handle; it began with  *)
(* the first task that touches the handle, and no later task reads it.     *)
LEMMA LifetimesCover ==
    ASSUME NEW g, NEW ts, NEW Q, ts \in Seq(Q), NEW E, \A x \in DOMAIN ts : g.nodes[ts[x]].in \in Seq(E),
           UnreadOutputs(g, ts) = {},
           NEW r \in HandleLifetimes(g, ts).spans
    PROVE  /\ r.handle \in DOMAIN g.handles \ ConstHandles(g)
           /\ \A q \in HandleLifetimes(g, ts).spans : q.handle = r.handle => q = r
           /\ Covers(r, ReadsOf(g, ts), WritesOf(g, ts), Len(ts))
<1> DEFINE n == Len(ts)
           R == ReadsOf(g, ts)
           W == WritesOf(g, ts)
           hc == HandleCounter(g, ts)
           V == DOMAIN hc
<1>1. n \in Nat /\ DOMAIN ts = 1..n OBVIOUS
<1>2. Counted(g, ts) /\ V \subseteq DOMAIN g.handles \ ConstHandles(g) BY HandleCounterIs
<1>3. PICK F \in [0..n -> Seq(V)] : Joining(F, R, n) /\ \A h \in V : hc[h] = Reads(F[n], h) /\ hc[h] > 0
  BY HandleCounterIs
<1>4. Len(TasksOf(ts)) = n /\ \A k \in 1..n : TasksOf(ts)[k] = k BY <1>1 DEF TasksOf
<1>5. /\ hc \in [V -> Nat] /\ R \in [1..n -> Seq(V)] /\ W \in [1..n -> SUBSET V]
      /\ \A k \in 1..n : R[k] = InputHandles(g, ts[k]) /\ W[k] = OutputHandles(g, ts[k])
  BY <1>1, <1>2 DEF Counted, ReadsOf, WritesOf
<1>6. PICK steps \in [0..n -> Flights(V, n)] :
         /\ steps[0] = NoneInFlight
         /\ \A k \in 1..n : steps[k] = AcquireRelease(steps[k - 1], hc, R[k], W[k], k)
         /\ HandleLifetimes(g, ts) = steps[n]
  <2>1. PICK steps \in [0..Len(TasksOf(ts)) -> Flights(V, n)] :
           /\ steps[0] = NoneInFlight
           /\ \A k \in 1..Len(TasksOf(ts)) :
                 steps[k] = AcquireRelease(steps[k - 1], hc, InputHandles(g, ts[TasksOf(ts)[k]]),
                                           OutputHandles(g, ts[TasksOf(ts)[k]]), TasksOf(ts)[k])
           /\ HandleLifetimes(g, ts) = steps[Len(TasksOf(ts))]
    BY <1>2, LifetimeSteps
  <2> HIDE DEF n, R, W, hc, V
  <2>2. steps \in [0..n -> Flights(V, n)] /\ HandleLifetimes(g, ts) = steps[n] BY <1>4, <2>1
  <2>3. ASSUME NEW k \in 1..n PROVE steps[k] = AcquireRelease(steps[k - 1], hc, R[k], W[k], k)
    <3>1. TasksOf(ts)[k] = k /\ R[k] = InputHandles(g, ts[k]) /\ W[k] = OutputHandles(g, ts[k])
      BY <1>4, <1>5
    <3>2. steps[k] = AcquireRelease(steps[k - 1], hc, InputHandles(g, ts[TasksOf(ts)[k]]),
                                    OutputHandles(g, ts[TasksOf(ts)[k]]), TasksOf(ts)[k])
      BY <1>4, <2>1
    <3> QED BY <3>1, <3>2
  <2> QED BY <2>1, <2>2, <2>3
<1>7. r \in steps[n].spans /\ HandleLifetimes(g, ts).spans = steps[n].spans BY <1>6
<1> HIDE DEF n, R, W, hc, V
<1> DEFINE P == {k \in Nat : k <= n => \A h \in V : Fresh(steps[k], hc, F, R, W, k, h) \/ Over(steps[k], hc, F, R, W, k, h)}
<1>8. 0 \in P
  <2> SUFFICES ASSUME NEW h \in V PROVE Fresh(steps[0], hc, F, R, W, 0, h) OBVIOUS
  <2>1. F[0] = <<>> /\ F[0] \in Seq(V) BY <1>1, <1>3 DEF Joining
  <2>2. h \notin ToSet(F[0]) BY <2>1 DEF ToSet
  <2>3. Reads(F[0], h) = 0 BY <2>1, <2>2, ReadsAreFinite
  <2>4. steps[0].spans = {} /\ DOMAIN steps[0].left = {} BY <1>6 DEF NoneInFlight
  <2> QED BY <2>3, <2>4 DEF Fresh
<1>9. ASSUME NEW k \in Nat, k \in P PROVE k + 1 \in P
  <2> SUFFICES ASSUME k + 1 <= n, NEW h \in V
               PROVE  Fresh(steps[k + 1], hc, F, R, W, k + 1, h) \/ Over(steps[k + 1], hc, F, R, W, k + 1, h)
    OBVIOUS
  <2> DEFINE j == k + 1
  <2>1. j \in 1..n /\ j - 1 = k /\ j \in 0..n /\ k \in 0..n /\ k <= n BY <1>1
  <2>2. Fresh(steps[j - 1], hc, F, R, W, j - 1, h) \/ Over(steps[j - 1], hc, F, R, W, j - 1, h)
    BY <1>9, <2>1
  <2> HIDE DEF P, j
  <2>3. steps[j] = AcquireRelease(steps[j - 1], hc, R[j], W[j], j) BY <1>6, <2>1
  <2>4. steps[j] \in Flights(V, n) /\ steps[j - 1] \in Flights(V, n) /\ R[j] \in Seq(V) /\ W[j] \in SUBSET V
    BY <1>5, <1>6, <2>1
  <2>5. Advanced(steps[j], steps[j - 1], hc, R[j], W[j], j)
    <3>1. n \in Nat /\ hc \in [V -> Nat] BY <1>1, <1>5
    <3>2. Advanced(AcquireRelease(steps[j - 1], hc, R[j], W[j], j), steps[j - 1], hc, R[j], W[j], j)
      BY ONLY <3>1, <2>1, <2>4, AcquireReleaseIs
    <3> QED BY <2>3, <3>2
  <2>6. F[j] = F[j - 1] \o R[j] BY <1>3, <2>1 DEF Joining
  <2>7. Reads(F[j], h) <= hc[h] /\ hc[h] > 0
    <3>1. Reads(F[j], h) <= Reads(F[n], h) BY <1>1, <1>3, <1>5, <2>1, ReadsGrow
    <3> QED BY <1>3, <3>1
  <2>8. Fresh(steps[j], hc, F, R, W, j, h) \/ Over(steps[j], hc, F, R, W, j, h)
    BY <1>1, <1>3, <1>5, <2>1, <2>2, <2>4, <2>5, <2>6, <2>7, OneMoreTask
  <2> QED BY <2>8 DEF j
<1>10. Nat \subseteq P
  <2> HIDE DEF P
  <2> QED BY <1>8, <1>9, SetInduction
<1>11. r.handle \in V
  <2>1. n \in 0..n BY <1>1
  <2>2. steps[n] \in Flights(V, n) BY <1>6, <2>1
  <2> QED BY <1>7, <2>2 DEF Flights, Spans
<1>12. Over(steps[n], hc, F, R, W, n, r.handle)
  <2>1. n \in P BY <1>1, <1>10
  <2>2. Fresh(steps[n], hc, F, R, W, n, r.handle) \/ Over(steps[n], hc, F, R, W, n, r.handle)
    BY <1>1, <1>11, <2>1
  <2> QED BY <1>7, <2>2 DEF Fresh
<1>13. Covers(r, R, W, n) /\ \A q \in steps[n].spans : q.handle = r.handle => q = r
  BY <1>7, <1>12 DEF Over
<1> QED BY <1>2, <1>7, <1>11, <1>13 DEF V, hc, R, W, n

=============================================================================
