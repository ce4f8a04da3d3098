--------------------------- MODULE GraphMutators ---------------------------
(***************************************************************************)
(* The backend passes of src/src/graph/mutators that change which memory a *)
(* node reads and writes: fusion of activations and batch normalisations,  *)
(* grouped convolutions, in-place operations, and sub-tensors for depth    *)
(* concatenations and for splits, in the order of                          *)
(* create_default_pass_manager.  All tensors have one type and             *)
(* quantisation, so that the shape (here a width) is all that tells two    *)
(* descriptors apart.                                                      *)
(***************************************************************************)
EXTENDS TopologicalSort, GraphBuilder

(* Handles.  A tensor's handle owns its memory or is a window into that of *)
(* a parent handle.  set_handle destroys the handle the tensor had.        *)

(* configure_tensor: a handle of its own for a tensor that has none.       *)
ConfigureTensor(g, t) ==
    IF g.tensors[t].handle # Empty THEN g
    ELSE [g EXCEPT !.handles = Append(@, [parent |-> Empty, offset |-> 0, width |-> Width(g, t)]),
                   !.tensors[t].handle = Len(g.handles) + 1]

(* configure_all_tensors                                                   *)
ConfigureTensors(g) == FoldLeft(ConfigureTensor, g, [t \in DOMAIN g.tensors |-> t])

-----------------------------------------------------------------------------
(* NodeFusionMutator *)

(* transfer_driving_nodes_and_remove_old_node; a new output tensor gets    *)
(* its handle where it is connected.                                       *)
TransferDrivingNodes(g, new, old) ==
    LET oldOut  == g.nodes[old].outputs[1]
        newOut  == g.nodes[new].outputs[1]
        driving == Ascending(g.nodes[old].out)
        removed == [RemoveNode(g, old) EXCEPT !.tensors[oldOut].accessor = FALSE]
        connect(h, e) == ConfigureTensor(AddConnection(h, new, 1, g.edges[e].to, g.edges[e].toIdx), newOut)
    IN  [FoldLeft(connect, removed, driving) EXCEPT !.tensors[newOut].accessor = g.tensors[oldOut].accessor]

(* fuse_layer: the only consumer of node n, by its only output edge, if it *)
(* has the type and node n has no accessor on its output.                  *)
Follower(g, n, type) ==
    IF Cardinality(g.nodes[n].out) = 1 /\ ~g.tensors[g.nodes[n].outputs[1]].accessor
    THEN {g.edges[e].to : e \in {e \in g.nodes[n].out : g.nodes[g.edges[e].to].type = type}}
    ELSE {}

(* fuse_node_with_activation                                               *)
FuseActivation(g, n) ==
    LET acts == Follower(g, n, "Act")
        act  == CHOOSE a \in acts : TRUE
    IN  IF acts = {} THEN g
        ELSE [TransferDrivingNodes(g, n, act) EXCEPT !.nodes[n].last = g.nodes[act].last]

(* fuse_convolution_with_batch_normalization: a new node, connected to     *)
(* output 0 of the node the convolution read.                              *)
FuseBatchNorm(g, n) ==
    LET bns    == Follower(g, n, "BatchNorm")
        bn     == CHOOSE b \in bns : TRUE
        source == g.edges[g.nodes[n].in[1]].from
        fused  == Len(g.nodes) + 1
        added  == [AddConnected(g, "FusedConv", <<<<source, 1>>>>, <<Width(g, g.nodes[bn].outputs[1])>>)
                     EXCEPT !.nodes[fused].first = g.nodes[n].first, !.nodes[fused].last = g.nodes[bn].last]
    IN  IF bns = {} THEN g ELSE RemoveNode(TransferDrivingNodes(added, fused, bn), n)

(* fuse_layer tries a fusion for each node of the first type, in the order *)
(* of their ids.                                                           *)
FuseActivations(g, types) ==
    FoldLeft(LAMBDA h, n : IF h.nodes[n].type \in types THEN FuseActivation(h, n) ELSE h, g, NodeIds(g))

FuseBatchNorms(g) ==
    FoldLeft(LAMBDA h, n : IF h.nodes[n].type = "Conv" THEN FuseBatchNorm(h, n) ELSE h, g, NodeIds(g))

Fuse(g) ==
    FuseBatchNorms(FuseActivations(FuseActivations(FuseActivations(g, {"BatchNorm"}),
                                                   {"Conv", "GroupedConv"}), {"FullyConnected"}))

-----------------------------------------------------------------------------
(* GroupedConvolutionMutator *)

(* Mutant: both groups read the first part.                                *)
CreateGroupedConvolution_FirstPart(g, n, source) ==
    LET half  == Width(g, g.nodes[n].outputs[1]) \div 2
        split == Len(g.nodes) + 1
        group(h, i) == [AddConnected(h, "Conv", <<<<split, 1>>>>, <<half>>)
                          EXCEPT !.nodes[split + i].first = g.nodes[n].first,
                                 !.nodes[split + i].last = g.nodes[n].last,
                                 !.nodes[split + i].part = <<i, 2>>]
    IN  WithComputing(group(group(WithComputing(g, "Split", <<source>>), 1), 2),
                      "Concat", <<<<split + 1, 1>>, <<split + 2, 1>>>>)

(* create_grouped_convolution: the input is split, a convolution made for  *)
(* each part, and their results concatenated.                              *)
CreateGroupedConvolution(g, n, source) ==
    LET half  == Width(g, g.nodes[n].outputs[1]) \div 2
        split == Len(g.nodes) + 1
        group(h, i) == [AddConnected(h, "Conv", <<<<split, i>>>>, <<half>>)
                          EXCEPT !.nodes[split + i].first = g.nodes[n].first,
                                 !.nodes[split + i].last = g.nodes[n].last,
                                 !.nodes[split + i].part = <<i, 2>>]
    IN  WithComputing(group(group(WithComputing(g, "Split", <<source>>), 1), 2),
                      "Concat", <<<<split + 1, 1>>, <<split + 2, 1>>>>)

(* No backend function takes groups.  Here, too, output 0 of the node that *)
(* was read is what the new nodes read.                                    *)
ReplaceGrouped(g, n) ==
    LET source  == g.edges[g.nodes[n].in[1]].from
        grouped == CreateGroupedConvolution(g, n, <<source, 1>>)
    IN  IF g.nodes[n].type # "GroupedConv" THEN g
        ELSE ConfigureTensors(TransferDrivingNodes(grouped, Len(grouped.nodes), n))

Ungroup(g) == FoldLeft(ReplaceGrouped, g, NodeIds(g))

-----------------------------------------------------------------------------
(* InPlaceOperationMutator *)

(* output_edges_are_separate_tensors                                       *)
OutputEdgesAreSeparateTensors(g, e) ==
    LET siblings == g.nodes[g.edges[e].from].out
    IN  Cardinality(siblings) = 1
        \/ \A f \in siblings \ {e} : g.edges[f].tensor # g.edges[e].tensor

(* The inputs whose tensor may become the output: as wide as the output    *)
(* and without an accessor.  Only an elementwise operation has a second.   *)
CanInPlace(g, n) ==
    {i \in Inputs(g, n) : LET t == InputTensor(g, n, i) IN
        Width(g, t) = Width(g, g.nodes[n].outputs[1]) /\ ~g.tensors[t].accessor}

(* set_new_output_and_inherit_accessor                                     *)
SetNewOutput(g, n, t) ==
    LET old == g.nodes[n].outputs[1]
    IN  SetOutputTensor([g EXCEPT !.tensors[t].accessor = g.tensors[old].accessor,
                                  !.tensors[old].accessor = FALSE], n, t, 1)

(* Mutant: an operation goes in place whoever else reads its input.        *)
InPlaceNode_Shared(g, n) ==
    IF g.nodes[n].type \in {"Act", "BatchNorm", "Elt"} /\ CanInPlace(g, n) # {}
    THEN SetNewOutput(g, n, InputTensor(g, n, CHOOSE i \in CanInPlace(g, n) :
                                                  \A j \in CanInPlace(g, n) : i <= j))
    ELSE g

(* Only the edge of the first input is looked at, also when the tensor of  *)
(* the second becomes the output.                                          *)
InPlaceNode(g, n) ==
    IF /\ g.nodes[n].type \in {"Act", "BatchNorm", "Elt"} /\ CanInPlace(g, n) # {}
       /\ OutputEdgesAreSeparateTensors(g, g.nodes[n].in[1])
    THEN SetNewOutput(g, n, InputTensor(g, n, CHOOSE i \in CanInPlace(g, n) :
                                                  \A j \in CanInPlace(g, n) : i <= j))
    ELSE g

InPlace(g) == FoldLeft(InPlaceNode, g, NodeIds(g))

-----------------------------------------------------------------------------
(* IDeviceBackend::create_subtensor and set_handle.                        *)
SetSubTensor(g, t, parent, offset) ==
    [g EXCEPT !.handles = Append(@, [parent |-> g.tensors[parent].handle,
                                     offset |-> offset, width |-> Width(g, t)]),
              !.tensors[t].handle = Len(g.handles) + 1]

(* The handle that owns the memory, and where the window starts in it.     *)
Window(g, h) ==
    LET w[k \in DOMAIN g.handles] ==
          LET p == g.handles[k].parent
          IN  IF p = Empty THEN [root |-> k, offset |-> 0]
              ELSE [root |-> w[p].root, offset |-> w[p].offset + g.handles[k].offset]
    IN  w[h]

(* ITensorHandle::parent_handle                                            *)
ParentHandle(g, t) == Window(g, g.tensors[t].handle).root

(* The tensor has a handle, and none between it and the memory has been    *)
(* destroyed.                                                              *)
Intact(g, t) ==
    LET live == {g.tensors[u].handle : u \in DOMAIN g.tensors}
        ok[k \in DOMAIN g.handles] ==
          k \in live /\ (g.handles[k].parent = Empty \/ ok[g.handles[k].parent])
    IN  g.tensors[t].handle # Empty /\ ok[g.tensors[t].handle]

(* Mutant: every input starts at the beginning of the output.              *)
ConcatNode_NoDepth(g, n) ==
    IF g.nodes[n].type # "Concat" THEN g
    ELSE [FoldLeft(LAMBDA h, i : SetSubTensor(h, InputTensor(g, n, i), g.nodes[n].outputs[1], 0),
                   g, [i \in Inputs(g, n) |-> i]) EXCEPT !.nodes[n].enabled = FALSE]

(* DepthConcatSubTensorMutator: the inputs become windows of the output,   *)
(* one after the other, and the concatenation itself is switched off.      *)
ConcatNode(g, n) ==
    IF g.nodes[n].type # "Concat" THEN g
    ELSE LET depth(i) == IF i = 1 THEN 0 ELSE Width(g, InputTensor(g, n, 1))
         IN  [FoldLeft(LAMBDA h, i : SetSubTensor(h, InputTensor(g, n, i), g.nodes[n].outputs[1], depth(i)),
                       g, [i \in Inputs(g, n) |-> i]) EXCEPT !.nodes[n].enabled = FALSE]

(* Mutant: in the order of execution.                                      *)
Concat_Forward(g) == FoldLeft(ConcatNode, g, Dfs(g))

Concat(g) == FoldLeft(ConcatNode, g, Reverse(Dfs(g)))

(* SplitLayerSubTensorMutator: the outputs become windows of the input.    *)
SplitNode(g, n) ==
    IF g.nodes[n].type # "Split" THEN g
    ELSE FoldLeft(LAMBDA h, k : SetSubTensor(h, g.nodes[n].outputs[k], InputTensor(g, n, 1),
                                             (k - 1) * Width(g, g.nodes[n].outputs[k])),
                  g, [k \in Outputs(g, n) |-> k])

Split(g) == FoldLeft(SplitNode, g, Reverse(Dfs(g)))
=============================================================================
