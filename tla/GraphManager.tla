---------------------------- MODULE GraphManager ----------------------------
(***************************************************************************)
(* From the graph a user builds to its execution:                          *)
(* src/src/graph/GraphManager.cpp and graph/detail.  The lifetime manager  *)
(* behind the cross-layer memory group is represented by its promise (see  *)
(* LifetimeManager): the memory of a handle is its own from manage() to    *)
(* allocate(), and anybody's before and after.                             *)
(***************************************************************************)
EXTENDS CrossLayerMemory, WeightsManager

CONSTANTS MaxSources,     \* bound on the inputs and constants
          MaxNodes,       \* bound on these and the nodes that compute
          Widths,         \* widths of the inputs and constants
          MaxWidth,       \* bound on the width of a tensor
          Operations,     \* what small graphs are built of
          Examples        \* larger graphs to begin with: sequences of calls

ASSUME GraphAssumption == /\ {MaxSources, MaxNodes, MaxWidth} \subseteq Nat
                          /\ Widths \subseteq 1..MaxWidth
                          /\ Operations \subseteq OperationTypes
                          /\ Examples \subseteq Seq(Calls)

VARIABLES graph,       \* Graph, rewritten by the passes
          program,     \* the graph as it was built
          stage,       \* what GraphManager does next
          tasks,       \* ExecutionWorkload::tasks, as node ids
          manager,     \* the weights manager of the context
          copies,      \* what each fully connected layer keeps of its weights
          allocated,   \* handles with memory of their own
          lifetimes,   \* [handle, from, to] of the handles the group manages
          memory,      \* the contents of the handles that own memory
          delivered    \* what each output accessor was given

vars == <<graph, program, stage, tasks, manager, copies, allocated, lifetimes, memory, delivered>>

Flow == INSTANCE Dataflow

-----------------------------------------------------------------------------
(* The frontend *)

Init == /\ graph \in {EmptyGraph} \union {Built(calls) : calls \in Examples}
        /\ program = graph
        /\ stage = "build"
        /\ tasks = <<>> /\ manager = NoWeights /\ copies = <<>>
        /\ allocated = {} /\ lifetimes = {} /\ memory = <<>>
        /\ delivered = <<>>

SourceNodes(g) == {n \in LiveNodes(g) : g.nodes[n].type \in SourceTypes}

Grow(g) == /\ stage = "build"
           /\ graph' = g /\ program' = g
           /\ UNCHANGED <<stage, tasks, manager, copies, allocated, lifetimes, memory, delivered>>

AddSource(type, w) ==
    /\ LiveNodes(graph) = SourceNodes(graph) /\ Cardinality(SourceNodes(graph)) < MaxSources
    /\ Grow(WithSource(graph, type, <<w>>))

AddComputing(type, inputs) ==
    LET g == WithComputing(graph, type, inputs)
    IN  /\ Len(graph.nodes) < MaxNodes
        /\ Possible(graph, type, inputs) /\ Width(g, Len(g.tensors)) <= MaxWidth
        /\ Grow(g)

(* The last calls: an output for every tensor that nobody reads, but       *)
(* perhaps for one, or for one more.                                       *)
AddOutputs(except) ==
    LET unread == {t \in DOMAIN graph.tensors : graph.tensors[t].bound = {}}
        g == FoldLeft(WithOutput, graph, Ascending((unread \ except) \union (except \ unread)))
    IN  /\ stage = "build" /\ LiveNodes(graph) # SourceNodes(graph)
        /\ graph' = g /\ program' = g
        /\ stage' = "mutate"
        /\ UNCHANGED <<tasks, manager, copies, allocated, lifetimes, memory, delivered>>

Frontend ==
    \/ \E type \in SourceTypes, w \in Widths : AddSource(type, w)
    \/ \E type \in Operations \ {"Elt", "Concat", "FullyConnected"}, p \in Readable(graph) : AddComputing(type, <<p>>)
    \/ \E type \in Operations \intersect {"Elt", "Concat"}, p \in Readable(graph), q \in Readable(graph) :
          AddComputing(type, <<p, q>>)
    \/ \E type \in Operations \intersect {"FullyConnected"}, p \in Readable(graph), q \in Readable(graph) :
          graph.nodes[q[1]].type = "Const" /\ AddComputing(type, <<p, q>>)
    \/ \E except \in {{}} \union {{t} : t \in DOMAIN graph.tensors} : AddOutputs(except)

-----------------------------------------------------------------------------
(* GraphManager::finalize_graph: the passes, the workload, its memory.     *)

RunBackendPasses ==
    /\ stage = "mutate" /\ stage' = "configure"
    /\ graph' = Split(Concat(InPlace(Ungroup(Fuse(ConfigureTensors(graph))))))
    /\ UNCHANGED <<program, tasks, manager, copies, allocated, lifetimes, memory, delivered>>

(* The backend makes no function of a source, an output, a split or of a   *)
(* concatenation that is switched off.                                     *)
HasFunction(g, n) == \/ g.nodes[n].type \in {"Conv", "FusedConv", "Act", "BatchNorm", "Elt", "FullyConnected"}
                     \/ g.nodes[n].type = "Concat" /\ g.nodes[n].enabled

(* Mutant: without the test of configured().                               *)
ConfigureAllNodes_Again(g, order) == Only(order, {n \in LiveNodes(g) : HasFunction(g, n)})

(* The inputs a function copies when it is prepared and does not read      *)
(* again, and the tensors it reads when it runs.                           *)
PreparedInputs(g, n) == IF g.nodes[n].type = "FullyConnected" THEN {2} ELSE {}
RunTensors(g, n) == {InputTensor(g, n, i) : i \in Inputs(g, n) \ PreparedInputs(g, n)}

(* configure_all_nodes: a task for each node of the order that has a       *)
(* function and is not configured yet.                                     *)
ConfigureAllNodes(g, order) ==
    FoldLeft(LAMBDA ts, n : IF HasFunction(g, n) /\ n \notin ToSet(ts) THEN Append(ts, n) ELSE ts,
             <<>>, order)

FullyConnected(g, ts) == Only(ts, {n \in LiveNodes(g) : g.nodes[n].type = "FullyConnected"})

(* The weights of a fully connected layer, as the manager knows them.      *)
Weights(g, n) == g.tensors[InputTensor(g, n, 2)].handle

(* NEFullyConnectedLayer::configure, task by task.                         *)
ManageWeights(g, ts) == FoldLeft(LAMBDA m, n : Manage(m, Weights(g, n)), NoWeights, FullyConnected(g, ts))

Junk(w) == [j \in 1..w |-> <<0, 0, 0>>]      \* no atom of the program

(* The contents of memory m after v is written to the window of tensor t,  *)
(* and what is read from it.                                               *)
Written(m, g, t, v) ==
    LET w == Window(g, g.tensors[t].handle)
    IN  [m EXCEPT ![w.root] = [j \in DOMAIN @ |->
            IF j - w.offset \in DOMAIN v THEN v[j - w.offset] ELSE @[j]]]

Contents(m, g, t) ==
    LET w == Window(g, g.tensors[t].handle)
    IN  SubSeq(m[w.root], w.offset + 1, w.offset + Width(g, t))

(* The tensors of the constants, or of the inputs, that are connected.     *)
Connected(g, type) ==
    {p \in Readable(g) : g.nodes[p[1]].type = type /\ g.tensors[TensorOf(g, p)].bound # {}}

(* The accessors of these tensors are called, with the handles that have   *)
(* memory.  An accessor leaves a tensor without memory alone.              *)
Loaded(m, g, type, backed) ==
    FoldSet(LAMBDA p, mm : Written(mm, g, TensorOf(g, p), Flow!Value(program, p[1], p[2])),
            m, {p \in Connected(g, type) : ParentHandle(g, TensorOf(g, p)) \in backed})

ConfigureWorkload ==
    LET own   == Allocated(graph, BoundaryTensors(graph))
        blank == [h \in DOMAIN graph.handles |-> Junk(graph.handles[h].width)]
    IN  /\ stage = "configure"
        /\ IF \A p \in Readable(graph) : Intact(graph, TensorOf(graph, p))
           THEN /\ stage' = "prepare"
                /\ tasks' = ConfigureAllNodes(graph, Dfs(graph))
                /\ manager' = ManageWeights(graph, tasks')
                /\ allocated' = own
                /\ memory' = Loaded(blank, graph, "Const", own)
           ELSE stage' = "crashed" /\ UNCHANGED <<tasks, manager, allocated, memory>>
        /\ UNCHANGED <<graph, program, copies, lifetimes, delivered>>

(* NEFullyConnectedLayer::prepare copies the weights and marks them        *)
(* unused; the manager keeps that to itself until the last function that   *)
(* shares them has done so.  What is unused after a task is freed.         *)
PrepareTask(s, n) ==
    LET w == Weights(graph, n)
        m == Release(PreMarkAsUnused(s.manager, w), w)
    IN  IF Window(graph, w).root \notin s.allocated THEN [s EXCEPT !.found = FALSE]
        ELSE [s EXCEPT !.manager = m,
                       !.copies = [x \in DOMAIN @ \union {n} |->
                           IF x = n THEN Contents(memory, graph, InputTensor(graph, n, 2)) ELSE @[x]],
                       !.allocated = @ \ (IF MarkedAsUnused(m, w) THEN {w} ELSE {})]

(* prepare_all_tasks: no other task has something to prepare.  Weights     *)
(* without memory end the process.                                         *)
PrepareAllTasks ==
    LET done == FoldLeft(PrepareTask, [manager |-> manager, copies |-> copies, allocated |-> allocated, found |-> TRUE],
                         FullyConnected(graph, tasks))
    IN  /\ stage = "prepare"
        /\ stage' = IF done.found THEN "memory" ELSE "crashed"
        /\ manager' = done.manager /\ copies' = done.copies /\ allocated' = done.allocated
        /\ UNCHANGED <<graph, program, tasks, lifetimes, memory, delivered>>

(* The handles that have been marked unused.                               *)
Unused == {w \in DOMAIN manager : MarkedAsUnused(manager, w)}

(* configure_transition_manager.  A handle still in flight at the end is   *)
(* never allocated.                                                        *)
ConfigureTransitionManager ==
    /\ stage = "memory"
    /\ IF UnreadOutputs(graph, tasks) # {}
       THEN stage' = "out_of_range" /\ UNCHANGED lifetimes
       ELSE stage' = "ready" /\ lifetimes' = HandleLifetimes(graph, tasks).spans
    /\ UNCHANGED <<graph, program, tasks, manager, copies, allocated, memory, delivered>>

(* allocate_all_tensors, when the context has no transition manager: the   *)
(* tensors that are in use.                                                *)
AllocateAllTensors ==
    /\ stage = "memory" /\ stage' = "ready"
    /\ allocated' = allocated \union (Allocated(graph, DOMAIN graph.tensors) \ Unused)
    /\ UNCHANGED <<graph, program, tasks, manager, copies, lifetimes, memory, delivered>>

-----------------------------------------------------------------------------
(* GraphManager::execute_graph                                             *)

Backed == allocated \union {s.handle : s \in lifetimes}

(* Part i of k of a value.                                                 *)
Part(v, part) ==
    LET len == Len(v) \div part[2] IN SubSeq(v, (part[1] - 1) * len + 1, part[1] * len)

(* A task that stands for nodes first to last of the program, or one part  *)
(* of them, and finds the values first has for inputs, computes the value  *)
(* of last.                                                                *)
Result(m, n) ==
    LET node  == graph.nodes[n]
        found(i) == IF i \in PreparedInputs(graph, n) THEN copies[n] ELSE Contents(m, graph, InputTensor(graph, n, i))
    IN  IF \A i \in Inputs(graph, n) : found(i) = Part(Flow!InputValue(program, node.first, i), node.part)
        THEN Part(Flow!Value(program, node.last, 1), node.part)
        ELSE Junk(Width(graph, node.outputs[1]))

(* Memory that is nobody's after task x.                                   *)
Reused(m, x) ==
    [h \in DOMAIN m |->
       IF h \in allocated \/ \E s \in lifetimes : s.handle = h /\ x \in s.from..s.to-1
       THEN m[h] ELSE Junk(graph.handles[h].width)]

RunTask(m, x) == Reused(Written(m, graph, graph.nodes[tasks[x]].outputs[1], Result(m, tasks[x])), x)

Accessible(ts) == \A t \in ts : ParentHandle(graph, t) \in Backed

(* call_all_input_node_accessors: false, and execute_graph returns, if an  *)
(* input tensor has no memory.                                             *)
CallInputAccessors ==
    /\ stage = "ready"
    /\ stage' = IF Accessible({TensorOf(graph, p) : p \in {p \in Readable(graph) : graph.nodes[p[1]].type = "Input"}})
                THEN "loaded" ELSE "returned"
    /\ memory' = Loaded(memory, graph, "Input", Backed)
    /\ UNCHANGED <<graph, program, tasks, manager, copies, allocated, lifetimes, delivered>>

CallAllTasks ==
    /\ stage = "loaded"
    /\ IF \A x \in DOMAIN tasks : Accessible(RunTensors(graph, tasks[x]) \union WriteTensors(graph, tasks[x]))
       THEN /\ stage' = "executed"
            /\ memory' = FoldLeft(RunTask, memory, [x \in DOMAIN tasks |-> x])
       ELSE stage' = "crashed" /\ UNCHANGED memory
    /\ UNCHANGED <<graph, program, tasks, manager, copies, allocated, lifetimes, delivered>>

(* call_all_output_node_accessors, and the loop begins again.              *)
CallOutputAccessors ==
    /\ stage = "executed"
    /\ stage' = IF Accessible({InputTensor(graph, o, 1) : o \in Flow!OutputNodes(graph)})
                THEN "ready" ELSE "returned"
    /\ delivered' = [o \in Flow!OutputNodes(graph) |-> Contents(memory, graph, InputTensor(graph, o, 1))]
    /\ UNCHANGED <<graph, program, tasks, manager, copies, allocated, lifetimes, memory>>

Next == \/ Frontend
        \/ RunBackendPasses \/ ConfigureWorkload \/ PrepareAllTasks
        \/ ConfigureTransitionManager \/ AllocateAllTensors
        \/ CallInputAccessors \/ CallAllTasks \/ CallOutputAccessors

Spec == Init /\ [][Next]_vars

-----------------------------------------------------------------------------
(* The programs the library executes as promised *)

(* What edge e reads is no constant and is read through no other edge,     *)
(* also not as a part of a concatenation or as the whole of a split.       *)
Sole(g, e) ==
    LET sole[x \in DOMAIN g.edges] ==
            LET p == g.nodes[g.edges[x].from]
            IN  /\ p.type # "Const"
                /\ \A f \in p.out \ {x} : g.edges[f].tensor # g.edges[x].tensor
                /\ p.type \in {"Concat", "Split"} => \A i \in DOMAIN p.in : sole[p.in[i]]
    IN  sole[e]

(* The consumer of edge e overwrites what it reads.                        *)
InPlaceEdge(g, e) == g.edges[e].tensor \in WriteTensors(g, g.edges[e].to)

(* The consumer of edge e is a layer whose weights it reads.               *)
ReadsWeights(g, e) == g.edges[e].toIdx \in PreparedInputs(g, g.edges[e].to)

(* How often the passes make tensor t a window.                            *)
Windows(g, t) ==
    Cardinality({e \in g.tensors[t].bound : g.nodes[g.edges[e].to].type = "Concat"})
    + Cardinality({p \in Readable(g) : g.nodes[p[1]].type = "Split" /\ TensorOf(g, p) = t})

SplitOutputs(g) == UNION {WriteTensors(g, n) : n \in {n \in LiveNodes(g) : g.nodes[n].type = "Split"}}

(* The nodes a pass made for a convolution, whose input is connected to    *)
(* the first output of the node the convolution read.                      *)
Rebuilt(g, n) == g.nodes[n].type = "FusedConv" \/ g.nodes[n].part # <<1, 1>>
ReadsFirstOutput(n) == program.edges[program.nodes[n].in[1]].fromIdx = 1

(* The passes check none of this.  A graph that fails it is executed       *)
(* wrongly, or not at all.                                                 *)
Supported(g) ==
    /\ \A e \in LiveEdges(g) : InPlaceEdge(g, e) => Sole(g, e)
    /\ \A t \in DOMAIN g.tensors : Windows(g, t) <= 1
    /\ \A t \in BoundaryTensors(g) : ParentHandle(g, t) \in Allocated(g, BoundaryTensors(g))
    /\ \A e \in LiveEdges(g) : g.nodes[g.edges[e].to].type = "Split" => g.edges[e].tensor \notin SplitOutputs(g)
    /\ \A n \in LiveNodes(g) : g.nodes[n].out = {} => g.nodes[n].type = "Output"
    /\ \A n \in LiveNodes(g) : g.nodes[n].type = "Input" =>
          \A k \in Outputs(g, n) : g.tensors[g.nodes[n].outputs[k]].bound # {}
    /\ \A e, f \in LiveEdges(g) : ReadsWeights(g, e) /\ g.edges[f].tensor = g.edges[e].tensor => ReadsWeights(g, f)
    /\ \A n \in LiveNodes(g) : Rebuilt(g, n) => ReadsFirstOutput(g.nodes[n].first)

-----------------------------------------------------------------------------
(* Properties *)

Finalising == stage \notin {"build", "mutate"}

(* Through construction, fusion and in-place rewriting, the three places   *)
(* that know of a connection (both nodes and the tensor) agree about it.   *)
GraphConsistent == EdgesAgree(graph)

(* dfs and bfs reach every node of the graph, also of the rewritten one,   *)
(* and name no node before what it depends on.                             *)
OrderIsTopological == stage \in {"mutate", "configure"} =>
    IsTopological(graph, Dfs(graph)) /\ IsTopological(graph, Bfs(graph))

(* InPlaceOperationMutator.cpp, output_edges_are_separate_tensors: "the    *)
(* same output is connected to multiple nodes and computations on these    *)
(* nodes cannot be done in-place".                                         *)
SharedNotInPlace == Finalising =>
    \A e \in LiveEdges(graph) : InPlaceEdge(graph, e) =>
        \A f \in graph.nodes[graph.edges[e].from].out \ {e} : graph.edges[f].tensor # graph.edges[e].tensor

(* What of this the code does: a node that overwrites its first input is   *)
(* the only reader of it.                                                  *)
FirstInputNotShared == Finalising =>
    \A e \in LiveEdges(graph) : InPlaceEdge(graph, e) /\ graph.edges[e].toIdx = 1 =>
        \A f \in graph.nodes[graph.edges[e].from].out \ {e} : graph.edges[f].tensor # graph.edges[e].tensor

TouchedTensors(n) == RunTensors(graph, n) \union WriteTensors(graph, n)

(* The lifetime of a handle is opened once, and from the first task that   *)
(* touches the handle, or a window of it, to the last that reads it every  *)
(* task runs within it: configuration in configure_handle_lifetime agrees  *)
(* with the execution later.                                               *)
ReadWhileManaged == \A s \in lifetimes :
    /\ \A r \in lifetimes : r.handle = s.handle => r = s
    /\ \A x, y \in DOMAIN tasks :
          /\ \E t \in TouchedTensors(tasks[x]) : ParentHandle(graph, t) = s.handle
          /\ \E t \in RunTensors(graph, tasks[y]) : ParentHandle(graph, t) = s.handle
          => s.from <= x /\ y <= s.to

(* However many layers share weights, once all have copied them no memory  *)
(* is left to them (NEFullyConnectedLayer::prepare: "marked as unused      *)
(* (memory released) only after the last function which uses b").          *)
WeightsReleased == stage \in {"memory", "ready", "loaded", "executed"} =>
    \A n \in ToSet(FullyConnected(graph, tasks)) : Weights(graph, n) \notin allocated

(* A supported graph is finalised without an exception, and each of its    *)
(* tasks finds memory under all it touches, which is its own at the time.  *)
SupportedGraphRuns ==
    /\ stage \in {"out_of_range", "crashed", "returned"} => ~Supported(graph)
    /\ lifetimes # {} /\ Supported(graph) => \A s \in lifetimes, x \in DOMAIN tasks :
          (\E t \in TouchedTensors(tasks[x]) : ParentHandle(graph, t) = s.handle) => x \in s.from..s.to

(* Every execution of a supported graph, the second as the first, and with *)
(* either way to set up memory, delivers what the graph denoted when it    *)
(* was built: fusion, in-place operations, windows and reused memory do    *)
(* not show.                                                               *)
Promised == INSTANCE Dataflow WITH delivered <- IF delivered # <<>> /\ Supported(graph) THEN delivered ELSE <<>>

ImplementsDataflow == Promised!DataflowSpec
=============================================================================
