------------------------------- MODULE Graph -------------------------------
(***************************************************************************)
(* The graph of src/src/graph/Graph.cpp: nodes, edges and tensors, each in *)
(* a vector that only grows.  A removed node or edge leaves a null pointer *)
(* in its place.  Identifiers count from 1 here, so that 0 is free to play *)
(* EmptyEdgeID.  A graph is a value, and every operation of class Graph is *)
(* an operator that returns the changed graph.                             *)
(***************************************************************************)
EXTENDS Integers, Sequences, FiniteSets, SequencesExt

Empty  == 0                              \* EmptyEdgeID, and no handle
NoNode == [type |-> "removed"]
NoEdge == [from |-> Empty]

EmptyGraph == [nodes |-> <<>>, edges |-> <<>>, tensors |-> <<>>, handles |-> <<>>]

(* _nodes[n], _edges[e] that are not null.                                 *)
LiveNodes(g) == {n \in DOMAIN g.nodes : g.nodes[n] # NoNode}
LiveEdges(g) == {e \in DOMAIN g.edges : g.edges[e] # NoEdge}

(* INode::num_inputs, num_outputs.                                         *)
Inputs(g, n)  == DOMAIN g.nodes[n].in
Outputs(g, n) == DOMAIN g.nodes[n].outputs

(* The elements of a sequence that are in S, in their order.               *)
Only(s, S) == FoldLeft(LAMBDA kept, x : IF x \in S THEN Append(kept, x) ELSE kept, <<>>, s)

(* The nodes in the order in which they were added; Graph::nodes(type).    *)
NodeIds(g)      == [n \in DOMAIN g.nodes |-> n]
Tagged(g, type) == Only(NodeIds(g), {n \in DOMAIN g.nodes : g.nodes[n].type = type})

(* INode::input(i), a tensor id, for a slot that has an edge.              *)
InputTensor(g, n, i) == g.edges[g.nodes[n].in[i]].tensor

-----------------------------------------------------------------------------
(* Graph::add_node: a node with unconnected inputs and one new tensor per  *)
(* output, of the widths that forward_descriptors() finds.  What it stands *)
(* for is kept with it: it computes what nodes first to last of the        *)
(* program compute, or one part of it.                                     *)
AddNode(g, type, numInputs, widths) ==
    LET n   == Len(g.nodes) + 1
        new == [type |-> type, in |-> [i \in 1..numInputs |-> Empty], out |-> {},
                outputs |-> [k \in DOMAIN widths |-> Len(g.tensors) + k],
                enabled |-> TRUE, first |-> n, last |-> n, part |-> <<1, 1>>]
        tensors == [k \in DOMAIN widths |->
                      [bound |-> {}, accessor |-> FALSE, width |-> widths[k], handle |-> Empty]]
    IN  [g EXCEPT !.nodes = Append(@, new), !.tensors = @ \o tensors]

(* Graph::add_connection, from output k of s to input i of d.              *)
AddConnection(g, s, k, d, i) ==
    LET old == g.nodes[d].in[i]
        eid == Len(g.edges) + 1
        tid == g.nodes[s].outputs[k]
        new == [from |-> s, fromIdx |-> k, to |-> d, toIdx |-> i, tensor |-> tid]
    IN  IF old # Empty /\ g.edges[old].from = s /\ g.edges[old].fromIdx = k
        THEN g
        ELSE [g EXCEPT !.edges = Append(@, new),
                       !.nodes[s].out = @ \union {eid},
                       !.nodes[d].in[i] = eid,
                       !.tensors[tid].bound = @ \union {eid}]

(* The same sequence, as a tuple: TLC may keep a function unevaluated, and *)
(* its Append then forgets what an EXCEPT changed.                         *)
Evaluated(s) == s \o <<>>

(* Graph::remove_connection of every edge of es: its tensor, its producer  *)
(* and the slot of its consumer forget it.                                 *)
RemoveConnections(g, es) ==
    LET gone  == es \intersect LiveEdges(g)
        freed == {<<g.edges[e].to, g.edges[e].toIdx>> : e \in gone}
        node(n) == [g.nodes[n] EXCEPT
                      !.out = @ \ {e \in gone : g.edges[e].from = n},
                      !.in = [i \in DOMAIN @ |-> IF <<n, i>> \in freed THEN Empty ELSE @[i]]]
        tensor(t) == [g.tensors[t] EXCEPT !.bound = @ \ {e \in gone : g.edges[e].tensor = t}]
    IN  [g EXCEPT !.edges = Evaluated([e \in DOMAIN @ |-> IF e \in gone THEN NoEdge ELSE @[e]]),
                  !.nodes = Evaluated([n \in DOMAIN @ |-> IF @[n] = NoNode THEN NoNode ELSE node(n)]),
                  !.tensors = Evaluated([t \in DOMAIN @ |-> tensor(t)])]

(* Mutant: the connections of the node's outputs stay.                     *)
RemoveNode_KeepsOutputs(g, n) ==
    LET es == {g.nodes[n].in[i] : i \in Inputs(g, n)}
    IN  [RemoveConnections(g, es) EXCEPT !.nodes[n] = NoNode]

(* Graph::remove_node: with all connections of its inputs and outputs.     *)
RemoveNode(g, n) ==
    LET es == {g.nodes[n].in[i] : i \in Inputs(g, n)} \union g.nodes[n].out
    IN  [RemoveConnections(g, es) EXCEPT !.nodes[n] = NoNode]

(* INode::set_output_tensor: all output edges of the node move to it too.  *)
SetOutputTensor(g, n, t, k) ==
    LET es == g.nodes[n].out
        edge(e) == IF e \in es THEN [g.edges[e] EXCEPT !.tensor = t] ELSE g.edges[e]
        tensor(u) == [g.tensors[u] EXCEPT !.bound = IF u = t THEN @ \union es ELSE @ \ es]
    IN  [g EXCEPT !.nodes[n].outputs[k] = t,
                  !.edges = Evaluated([e \in DOMAIN @ |-> edge(e)]),
                  !.tensors = Evaluated([u \in DOMAIN @ |-> tensor(u)])]

-----------------------------------------------------------------------------
(* Properties *)

(* The three places that know of an edge agree: a live edge is an output   *)
(* edge of its producer, fills the slot of its consumer and is bound to    *)
(* the producer's output tensor, and none of the three knows of others.    *)
EdgesAgree(g) ==
    /\ \A e \in LiveEdges(g) : LET c == g.edges[e] IN
          /\ {c.from, c.to} \subseteq LiveNodes(g)
          /\ e \in g.nodes[c.from].out
          /\ g.nodes[c.to].in[c.toIdx] = e
          /\ c.tensor = g.nodes[c.from].outputs[c.fromIdx]
          /\ e \in g.tensors[c.tensor].bound
    /\ \A n \in LiveNodes(g) :
          /\ \A e \in g.nodes[n].out : e \in LiveEdges(g) /\ g.edges[e].from = n
          /\ \A i \in Inputs(g, n) : LET e == g.nodes[n].in[i] IN
                e # Empty => e \in LiveEdges(g) /\ g.edges[e].to = n /\ g.edges[e].toIdx = i
    /\ \A t \in DOMAIN g.tensors : \A e \in g.tensors[t].bound :
          e \in LiveEdges(g) /\ g.edges[e].tensor = t
=============================================================================
