---------------------------- MODULE GraphBuilder ----------------------------
(***************************************************************************)
(* The calls of src/src/graph/GraphBuilder.cpp.  Weights are an input of   *)
(* fully connected layers, which may share them.  Other weights and all    *)
(* biases are not modelled: they are constants that only their node reads. *)
(***************************************************************************)
EXTENDS Graph

SourceTypes    == {"Input", "Const"}
OperationTypes == {"Conv", "Act", "BatchNorm", "Elt", "Concat", "Split", "GroupedConv", "FullyConnected"}

NumInputs(type) == IF type \in {"Elt", "Concat", "FullyConnected"} THEN 2 ELSE 1

(* The calls that add a node, with what the user gives.                    *)
Calls == [type : SourceTypes, widths : Seq(Nat)] \union [type : OperationTypes, inputs : Seq(Nat \X Nat)]

Width(g, t) == g.tensors[t].width

(* The outputs <<node, output>> a new node may read, and their tensors.    *)
Readable(g)    == UNION {{n} \X Outputs(g, n) : n \in LiveNodes(g)}
TensorOf(g, p) == g.nodes[p[1]].outputs[p[2]]

(* A node, then its connections one by one.                                *)
AddConnected(g, type, inputs, widths) ==
    LET n == Len(g.nodes) + 1
    IN  FoldLeft(LAMBDA h, i : AddConnection(h, inputs[i][1], inputs[i][2], n, i),
                 AddNode(g, type, Len(inputs), widths), [i \in DOMAIN inputs |-> i])

(* add_const_node, and add_input_node, which has one output for each       *)
(* accessor.                                                               *)
WithSource(g, type, widths) ==
    LET h == AddNode(g, type, 0, widths)
        tensor(t) == [h.tensors[t] EXCEPT !.accessor = @ \/ t > Len(g.tensors)]
    IN  [h EXCEPT !.tensors = [t \in DOMAIN @ |-> tensor(t)]]

(* Inputs of these widths fit an operation.  Elementwise operations        *)
(* broadcast an input of width 1.  Splits and grouped convolutions have    *)
(* two parts.                                                              *)
Fits(type, a, b) ==
    CASE type = "Elt"                     -> a = b \/ 1 \in {a, b}
      [] type \in {"Split", "GroupedConv"} -> a % 2 = 0
      [] OTHER                            -> TRUE

(* The widths of what it makes of them.                                    *)
ResultWidths(type, a, b) ==
    CASE type = "Elt"    -> IF a = 1 THEN <<b>> ELSE <<a>>
      [] type = "Concat" -> <<a + b>>
      [] type = "Split"  -> <<a \div 2, a \div 2>>
      [] OTHER           -> <<a>>

(* The width of input x of a new node.                                     *)
InputWidth(g, inputs, x) == Width(g, TensorOf(g, inputs[x]))

(* add_convolution_node, add_activation_node, add_elementwise_node, ...    *)
WithComputing(g, type, inputs) ==
    AddConnected(g, type, inputs,
                 ResultWidths(type, InputWidth(g, inputs, 1), InputWidth(g, inputs, Len(inputs))))

(* add_output_node: the accessor is set on the tensor that is read.        *)
WithOutput(g, t) ==
    LET p == CHOOSE p \in Readable(g) : TensorOf(g, p) = t
    IN  [AddConnected(g, "Output", <<p>>, <<>>) EXCEPT !.tensors[t].accessor = TRUE]

(* check_nodeidx_pair refuses inputs that the graph does not have, the     *)
(* node's validation those that do not fit.                                *)
Possible(g, type, inputs) ==
    /\ Len(inputs) = NumInputs(type)
    /\ \A i \in DOMAIN inputs : inputs[i] \in Readable(g)
    /\ Fits(type, InputWidth(g, inputs, 1), InputWidth(g, inputs, Len(inputs)))

(* The graph after a sequence of calls.                                    *)
Call(g, c) == IF c.type \in SourceTypes THEN WithSource(g, c.type, c.widths)
              ELSE IF Possible(g, c.type, c.inputs) THEN WithComputing(g, c.type, c.inputs) ELSE g

Built(calls) == FoldLeft(Call, EmptyGraph, calls)
=============================================================================
