--------------------------- MODULE WorkloadSketch ---------------------------
(***************************************************************************)
(* A dynamic fusion workload from the sketch to its run: the user creates  *)
(* operators one after the other (GpuConv2d::create_op and its like),      *)
(* which GpuOperatorGroup accepts or refuses and which become components   *)
(* of GpuKernelComponentGraph; ClWorkloadRuntime::configure fuses these    *)
(* into kernels and run() enqueues the kernels.                            *)
(***************************************************************************)
EXTENDS FusedKernel

CONSTANTS MaxFusedOperators,
          MaxInputs,        \* bound on the tensors the user registers as inputs
          MaxOperators,     \* bound on the operators of a sketch
          InputInfos        \* the [shape, type] of these tensors

ASSUME SketchAssumption ==
    /\ {MaxFusedOperators, MaxFusedComponents, MaxDstTensors} \subseteq Nat \ {0}
    /\ {MaxInputs, MaxOperators} \subseteq Nat
    /\ InputInfos \subseteq [shape : {"full", "row"}, type : {"F32", "F16"}]

(* The limits of the code are 32 operators in a group, 64 components in a  *)
(* kernel and less than 8 destinations of a component.                     *)
ASSUME LimitsAssumption == MaxFusedOperators <= MaxFusedComponents /\ MaxDstTensors > 2

VARIABLES info,        \* shape and type of each tensor info of the context
          virtual,     \* the tensors created by create_virtual_tensor
          group,       \* GpuOperatorGroup::_graph
          operators,   \* GpuOperatorGroup::_operators; the operator id is one less
          graph,       \* GpuKernelComponentGraph::_dependency_graph
          components,  \* GpuKernelComponentGraph::_components, likewise
          stage,       \* "sketch", "raised" by create_op, "configured", or
                       \* "failed" by configure
          kernels,     \* the finalized groups of the component stream
          memory,      \* what each tensor with memory holds
          at,          \* the kernel that run() enqueues next
          meaning      \* history: each tensor as the operators define it

sketchVars == <<info, virtual, group, operators, graph, components, meaning>>
vars == <<sketchVars, stage, kernels, memory, at>>
-----------------------------------------------------------------------------
Op(type, srcs, dsts, isOutput) == [type |-> type, srcs |-> srcs, dsts |-> dsts, isOutput |-> isOutput]
Comp(type, kernel, srcs, dsts) == [type |-> type, kernel |-> kernel, srcs |-> srcs, dsts |-> dsts]

(* Mutant: operators of other shapes may follow.                           *)
TryAddOperator_AnyShape(op, infos) ==
    /\ TryAddOperatorAsLinear(group, op.srcs, op.dsts)
    /\ Len(operators) < MaxFusedOperators
    /\ op.type # "Unfusable" => Len(op.dsts) = 1
    /\ operators # <<>> => operators[1].type # "Unfusable" /\ op.type = "Simple"

(* The root of a linear group is its first operator.                       *)
TryAddOperator(op, infos) ==
    /\ TryAddOperatorAsLinear(group, op.srcs, op.dsts)
    /\ Len(operators) < MaxFusedOperators
    /\ op.type # "Unfusable" => Len(op.dsts) = 1
    /\ operators # <<>> =>
        /\ operators[1].type # "Unfusable" /\ op.type = "Simple"
        /\ \A t \in ToSet(operators[1].dsts) \union ToSet(op.dsts) :
              infos[t].shape = infos[operators[1].dsts[1]].shape

(* GpuKernelComponentGraph::add_new_component, one after the other: the    *)
(* first one that is refused raises.                                       *)
AddComponent(r, c) ==
    IF ~r.added THEN r
    ELSE LET new == AddOperator(r.graph, Len(r.components), c.srcs, c.dsts, FALSE)
         IN  [added |-> new.added, graph |-> new.graph,
              components |-> IF new.added THEN Append(r.components, c) ELSE r.components]

AddComponents(comps) ==
    FoldLeft(AddComponent, [added |-> TRUE, graph |-> graph, components |-> components], comps)

(* The component graph takes the parts, then the operator group the        *)
(* operator, or one of them raises.                                        *)
Answer(op, parts, new) ==
    /\ graph' = parts.graph /\ components' = parts.components
    /\ \/ /\ parts.added /\ new.added
          /\ group' = new.graph /\ operators' = Append(operators, op)
          /\ UNCHANGED stage
       \/ /\ ~(parts.added /\ new.added)
          /\ group' = IF parts.added THEN new.graph ELSE group
          /\ stage' = "raised"
          /\ UNCHANGED operators

(* create_op of an operator whose validate_op passes: the components,      *)
(* then the operator group; infos and means are for all tensors.           *)
CreateOp(op, comps, infos, means) ==
    /\ stage = "sketch" /\ Len(operators) < MaxOperators
    /\ TryAddOperator(op, infos)
    /\ info' = infos /\ meaning' = means
    /\ Answer(op, AddComponents(comps),
              AddOperator(group, Len(operators), op.srcs, op.dsts, op.isOutput))
    /\ UNCHANGED <<kernels, memory, at>>

(* An operator with a virtual tensor for its output.                       *)
CreateFusable(type, kernel, srcs, dstInfo) ==
    LET dst == Len(info) + 1 IN
    /\ CreateOp(Op(type, srcs, <<dst>>, FALSE), <<Comp(type, kernel, srcs, <<dst>>)>>,
                Append(info, dstInfo),
                Append(meaning, <<kernel>> \o [i \in DOMAIN srcs |-> meaning[srcs[i]]]))
    /\ virtual' = virtual \union {dst}

(* The tensors a user can name: those he registered and those that         *)
(* create_op returned.                                                     *)
Known == {t \in DOMAIN info : meaning[t] # <<>>}

(* GpuConv2d; GpuDepthwiseConv2d, GpuResize, GpuReshape                    *)
CreateComplex(kernel, src) ==
    CreateFusable("Complex", kernel, <<src>>, [info[src] EXCEPT !.shape = "full"])

(* GpuClamp, GpuSigmoid, GpuTanh                                           *)
CreateActivation(src) == CreateFusable("Simple", "activation", <<src>>, info[src])

CreateCast(src) ==
    CreateFusable("Simple", "cast", <<src>>,
                  [info[src] EXCEPT !.type = IF @ = "F32" THEN "F16" ELSE "F32"])

(* GpuAdd, GpuSub, GpuMul: one type; a row is broadcast.                   *)
CreateElementwiseBinary(lhs, rhs) ==
    /\ info[lhs].type = info[rhs].type
    /\ CreateFusable("Simple", "elementwise_binary", <<lhs, rhs>>,
                     IF info[lhs].shape = "full" THEN info[lhs] ELSE info[rhs])

(* The tensor that the user gives for a result, empty or one of his own of *)
(* the same shape and type.                                                *)
CreateOutput(src) ==
    \/ /\ CreateOp(Op("Simple", <<src>>, <<Len(info) + 1>>, TRUE),
                   <<Comp("Output", "store", <<src>>, <<Len(info) + 1>>)>>,
                   Append(info, info[src]), Append(meaning, meaning[src]))
       /\ UNCHANGED virtual
    \/ /\ \E dst \in Known \ virtual :
              /\ info[dst] = info[src]
              /\ CreateOp(Op("Simple", <<src>>, <<dst>>, TRUE),
                          <<Comp("Output", "store", <<src>>, <<dst>>)>>,
                          info, [meaning EXCEPT ![dst] = meaning[src]])
       /\ UNCHANGED virtual

(* GpuSoftmax: two components with auxiliary tensors between them.         *)
CreateSoftmax(src) ==
    \E dst \in {Len(info) + 3} \union (Known \ virtual) :
        LET sum    == Len(info) + 1
            logits == Len(info) + 2
            value  == <<"norm", <<"exp", meaning[src]>>, <<"sum", meaning[src]>>>>
            aux    == <<[info[src] EXCEPT !.shape = "row"], info[src]>>
        IN  /\ dst \in DOMAIN info => info[dst] = info[src]
            /\ CreateOp(Op("Unfusable", <<src>>, <<dst>>, FALSE),
                        <<Comp("Unfusable", "exp_sum", <<src>>, <<sum, logits>>),
                          Comp("Unfusable", "norm", <<logits, sum>>, <<dst>>)>>,
                        info \o aux \o IF dst \in DOMAIN info THEN <<>> ELSE <<info[src]>>,
                        IF dst \in DOMAIN info
                        THEN [meaning EXCEPT ![dst] = value] \o <<<<>>, <<>>>>
                        ELSE meaning \o <<<<>>, <<>>, value>>)
            /\ UNCHANGED virtual

-----------------------------------------------------------------------------
(* Mutant: a refused component starts no group of its own.                 *)
Fuse_Drops(groups, c) ==
    IF Accepts(Last(groups), c, info) THEN ReplaceAt(groups, Len(groups), Append(Last(groups), c))
    ELSE groups

(* A component joins the last group, or the first of a new one.            *)
Fuse(groups, c) ==
    IF Accepts(Last(groups), c, info) THEN ReplaceAt(groups, Len(groups), Append(Last(groups), c))
    ELSE Append(groups, <<c>>)

(* GpuKernelComponentGraph::fuse                                           *)
ComponentGroups ==
    LET order == BuildOperatorsSequence(graph)
    IN  FoldLeft(Fuse, <<<<>>>>, [i \in DOMAIN order |-> components[order[i] + 1]])

(* generate_source_code                                                    *)
GenerateSourceCode(next) ==
    /\ stage = "sketch" /\ operators # <<>>
    /\ stage' = next
    /\ kernels' = [i \in DOMAIN ComponentGroups |-> Finalized(ComponentGroups[i], info)]
    /\ UNCHANGED sketchVars

(* ClWorkloadRuntime::configure                                            *)
Configure ==
    /\ GenerateSourceCode("configured")
    /\ \A i \in DOMAIN kernels' : Compiles(kernels'[i])
    /\ memory' = [t \in DOMAIN info |->
                     IF meaning[t] # <<>> /\ meaning[t][1] = "input" THEN meaning[t] ELSE Garbage]
    /\ at' = 1

(* A kernel that does not compile raises.                                  *)
ConfigureFails ==
    /\ GenerateSourceCode("failed")
    /\ \E i \in DOMAIN kernels' : ~Compiles(kernels'[i])
    /\ UNCHANGED <<memory, at>>

(* ClWorkloadRuntime::run, which the user may call again.                  *)
EnqueueOp ==
    /\ stage = "configured" /\ at <= Len(kernels)
    /\ memory' = Execute(kernels[at], memory, info)
    /\ at' = at + 1
    /\ UNCHANGED <<sketchVars, stage, kernels>>

RunAgain ==
    /\ stage = "configured" /\ at > Len(kernels)
    /\ at' = 1
    /\ UNCHANGED <<sketchVars, stage, kernels, memory>>

(* register_user_tensor of the inputs.                                     *)
Init ==
    /\ \E n \in 1..MaxInputs : info \in [1..n -> InputInfos]
    /\ meaning = [t \in DOMAIN info |-> <<"input", t>>]
    /\ virtual = {}
    /\ group = EmptyGraph /\ operators = <<>>
    /\ graph = EmptyGraph /\ components = <<>>
    /\ stage = "sketch" /\ kernels = <<>> /\ memory = <<>> /\ at = 0

Next ==
    \/ \E src \in Known : \/ \E kernel \in {"conv", "depthwise"} : CreateComplex(kernel, src)
                          \/ CreateActivation(src) \/ CreateCast(src)
                          \/ CreateOutput(src) \/ CreateSoftmax(src)
                          \/ \E rhs \in Known : CreateElementwiseBinary(src, rhs)
    \/ Configure \/ ConfigureFails \/ EnqueueOp \/ RunAgain

Spec == Init /\ [][Next]_vars
-----------------------------------------------------------------------------
(* Properties *)

(* configure has got as far as the kernels.                                *)
Fused == stage \in {"configured", "failed"}

(* The rest of the code is not made for an output as the first operator.   *)
StartsWithOutput == operators # <<>> /\ operators[1].isOutput

(* The tensors of the user for which the code declares a tile.             *)
Loaded(i) ==
    IF components[i].kernel = "elementwise_binary" \/ (i = 1 /\ components[i].kernel = "activation")
    THEN SelectSeq(components[i].srcs, LAMBDA t : t \notin virtual)
    ELSE <<>>

(* Every intermediate result is used, and no tensor is loaded twice, as in *)
(* x + x or x * sigmoid(x).                                                *)
CanBeCompiled ==
    /\ IsInjective(FlattenSeq([i \in DOMAIN components |-> Loaded(i)]))
    /\ virtual \subseteq UNION {ToSet(components[i].srcs) : i \in DOMAIN components}

(* What comes in on the way has the indexes of the root: it is a row, or   *)
(* the root is a convolution or itself elementwise.                        *)
InStep ==
    \/ components[1].kernel \in {"conv", "elementwise_binary"}
    \/ \A i \in 2..Len(components) : \A t \in ToSet(Loaded(i)) : info[t].shape = "row"

(* GpuOperatorGroup.h: "Fusion is limited to a linear sequence of          *)
(* operators".  Apart from outputs each operator reads, once, what the one *)
(* before made, and every other input comes from outside.                  *)
OperatorsAreLinear ==
    ~StartsWithOutput => \A i \in 2..Len(operators) :
        LET before == {j \in 1..i-1 : ~operators[j].isOutput}
            made   == {k \in DOMAIN operators[i].srcs :
                          \E j \in DOMAIN operators : operators[i].srcs[k] \in ToSet(operators[j].dsts)}
            last   == CHOOSE j \in before : \A k \in before : k <= j
        IN  /\ Cardinality(made) = 1
            /\ \A k \in made : operators[i].srcs[k] \in ToSet(operators[last].dsts)

(* The stream has every component once, and after the components whose     *)
(* results it reads.                                                       *)
StreamIsOrdered ==
    Fused =>
        LET stream == FlattenSeq([k \in DOMAIN kernels |-> kernels[k].components])
        IN  /\ ToSet(stream) = ToSet(components) /\ Len(stream) = Len(components)
            /\ \A i, j \in DOMAIN stream :
                  ToSet(stream[i].dsts) \intersect ToSet(stream[j].srcs) # {} => i < j

(* GpuKernelComponentGraph.cpp: "Assume first failure was because the root *)
(* component is unfusable": what the operator group accepts fits into one  *)
(* kernel, or else no virtual tensor is needed across kernels.             *)
OnlyUnfusableSplits ==
    Fused => \A k \in 2..Len(kernels) : kernels[k-1].components[1].type = "Unfusable"

(* A sketch that does not start with an output becomes kernels that        *)
(* compile exactly when it loads nothing twice and leaves no result        *)
(* unused.  However its operators were then fused and whichever tiles they *)
(* share, after every run each output holds what the operators, executed   *)
(* one by one with memory of their own, would have computed, if the        *)
(* operands from outside have the indexes of the root.                     *)
OutputsHoldTheirMeaning ==
    /\ Fused /\ ~StartsWithOutput => (stage = "configured" <=> CanBeCompiled)
    /\ stage = "configured" /\ at > Len(kernels) /\ InStep => \A i \in DOMAIN operators :
          operators[i].isOutput \/ operators[i].type = "Unfusable" =>
              memory[operators[i].dsts[1]] = meaning[operators[i].dsts[1]]

(* A graph knows exactly the operators that were added and their tensors.  *)
Knows(g, added) ==
    LET tensors == UNION {ToSet(added[i].srcs) \union ToSet(added[i].dsts) : i \in DOMAIN added}
        Makers(t)  == {op \in AllOps(g) : t \in ToSet(added[op + 1].dsts)}
        Users(t)  == {op \in AllOps(g) : t \in ToSet(added[op + 1].srcs)}
    IN  /\ AllOps(g) = {i - 1 : i \in DOMAIN added}
        /\ AllTensors(g) = tensors /\ DOMAIN g.dstOps = tensors
        /\ \A t \in tensors : ToSet(g.srcOps[t]) = Makers(t) /\ ToSet(g.dstOps[t]) = Users(t)

(* DependencyGraph.h: "Invalid operation will not change the graph".  An   *)
(* operator or component that would read what it writes leaves no trace,   *)
(* neither of itself nor of its tensors, in the graph that refuses it.     *)
RefusedLeavesNoTrace == Knows(group, operators) /\ Knows(graph, components)

(* GpuKernelComponentGroup.cpp: "The target tile is consumed by only this  *)
(* operator, so we can reuse it for the destination tensor data": nobody   *)
(* after that operator reads the tensor that had the tile.                 *)
TilesAreConsumedOnce ==
    ~StartsWithOutput => \A k \in DOMAIN kernels : \A i, j \in DOMAIN kernels[k].components :
        LET kernel == kernels[k]
            c      == kernel.components[i]
        IN  i < j /\ c.type = "Simple" => \A s \in ToSet(c.srcs) :
                kernel.tile[c.dsts[1]] = kernel.tile[s] => s \notin ToSet(kernel.components[j].srcs)
=============================================================================
