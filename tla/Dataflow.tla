----------------------------- MODULE Dataflow ------------------------------
(***************************************************************************)
(* What a user of the graph API is promised: every execution of a          *)
(* finalised graph hands each output the value the graph denotes, as it    *)
(* was built.  A value is a sequence of atoms <<node, output, position>>;  *)
(* concatenation and split only move atoms.                                *)
(***************************************************************************)
EXTENDS Graph

VARIABLES program,     \* the graph as it was built
          delivered    \* what each output node's accessor was given last

(* The value of output k of node n.                                        *)
Value(g, n, k) ==
    LET of[p \in Nat \X Nat] ==
            LET node     == g.nodes[p[1]]
                input(i) == LET e == g.edges[node.in[i]] IN of[<<e.from, e.fromIdx>>]
                width    == g.tensors[node.outputs[p[2]]].width
            IN  CASE node.type = "Concat" -> input(1) \o input(2)
                  [] node.type = "Split"  -> SubSeq(input(1), (p[2] - 1) * width + 1, p[2] * width)
                  [] OTHER                -> [j \in 1..width |-> <<p[1], p[2], j>>]
    IN  of[<<n, k>>]

(* The value of what is connected to input i of node n.                    *)
InputValue(g, n, i) == LET e == g.edges[g.nodes[n].in[i]] IN Value(g, e.from, e.fromIdx)

OutputNodes(g) == {n \in LiveNodes(g) : g.nodes[n].type = "Output"}

Init == delivered = <<>>

(* The graph grows until it is executed for the first time.                *)
Build == delivered = <<>> /\ program' # program /\ UNCHANGED delivered

(* An execution: all outputs are delivered.                                *)
Execute == /\ delivered' = [o \in OutputNodes(program) |-> InputValue(program, o, 1)]
           /\ UNCHANGED program

Next == Build \/ Execute

DataflowSpec == Init /\ [][Next]_<<program, delivered>>
=============================================================================
