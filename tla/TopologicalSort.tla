-------------------------- MODULE TopologicalSort --------------------------
(***************************************************************************)
(* The two traversals of src/src/graph/algorithms/TopologicalSort.cpp.     *)
(***************************************************************************)
EXTENDS Graph

(* The members of a set of identifiers, in the order of std::set.          *)
Ascending(S)  == Only([x \in 1..Max(S \union {0}) |-> x], S)
Descending(S) == Reverse(Ascending(S))

(* detail::all_inputs_are_visited                                          *)
AllInputsAreVisited(g, n, visited) ==
    \A i \in Inputs(g, n) : LET e == g.nodes[n].in[i] IN e # Empty => g.edges[e].from \in visited

(* The nodes both traversals start from, visited from the beginning.       *)
Sources(g) == Tagged(g, "Input") \o Tagged(g, "Const")

(* Mutant: a consumer is followed as soon as one of its inputs is visited. *)
Ready_AnyInput(g, n, visited) == n \notin visited

(* A consumer that can be put on the stack or into the queue.              *)
Ready(g, n, visited) == n \notin visited /\ AllInputsAreVisited(g, n, visited)

(* The loop of a traversal goes on until no node waits.  Each turn takes   *)
(* one, and a node comes to wait as a source or for an edge to it, so that *)
(* there are no more turns than nodes and edges (GraphManagerProofs).      *)
Traversal(g, Turn(_, _)) ==
    FoldLeft(LAMBDA s, k : IF s.waiting = <<>> THEN s ELSE Turn(g, s),
             [waiting |-> Sources(g), visited |-> ToSet(Sources(g)), order |-> <<>>],
             [k \in 1..Len(g.nodes) + Len(g.edges) |-> k]).order

Consumers(g, edges) == [x \in DOMAIN edges |-> g.edges[edges[x]].to]

(* bfs: a node is visited when it is queued, so that it is queued once.    *)
Queued(g, visited, n) ==
    FoldLeft(LAMBDA new, c : IF Ready(g, c, visited \union ToSet(new)) THEN Append(new, c) ELSE new,
             <<>>, Consumers(g, Ascending(g.nodes[n].out)))

BfsTurn(g, s) ==
    LET n == Head(s.waiting)
        queued == Queued(g, s.visited, n)
    IN  [waiting |-> Tail(s.waiting) \o queued, visited |-> s.visited \union ToSet(queued),
         order |-> Append(s.order, n)]

Bfs(g) == Traversal(g, BfsTurn)

(* dfs: a node is visited when it is popped.  The output edges are pushed  *)
(* from the last to the first, so that the first is followed first; a      *)
(* consumer with two edges from the node is pushed twice.                  *)
DfsTurn(g, s) ==
    LET n == Last(s.waiting)
        visited == s.visited \union {n}
        out == Only(Descending(g.nodes[n].out), {e \in g.nodes[n].out : Ready(g, g.edges[e].to, visited)})
    IN  [waiting |-> Front(s.waiting) \o Consumers(g, out), visited |-> visited,
         order |-> Append(s.order, n)]

Dfs(g) == Traversal(g, DfsTurn)

-----------------------------------------------------------------------------
(* Properties *)

(* The order reaches every node, and the first time it names a node it has *)
(* named all producers of its inputs before, sources aside.                *)
IsTopological(g, order) ==
    /\ ToSet(order) = LiveNodes(g)
    /\ \A x \in DOMAIN order : \A i \in Inputs(g, order[x]) :
          LET e == g.nodes[order[x]].in[i] IN
          e # Empty => \/ g.edges[e].from \in ToSet(Sources(g))
                       \/ \E y \in 1..x-1 : order[y] = g.edges[e].from
=============================================================================
