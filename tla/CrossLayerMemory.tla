-------------------------- MODULE CrossLayerMemory --------------------------
(***************************************************************************)
(* Which handles get memory and when: allocate_const_tensors of            *)
(* src/src/graph/detail/ExecutionHelpers.cpp, and the lifetimes that       *)
(* CrossLayerMemoryManagerHelpers.cpp computes for the handles between     *)
(* tasks, from their places in the order of execution.                     *)
(***************************************************************************)
EXTENDS GraphMutators

(* The tensors a node reads and writes.                                    *)
ReadTensors(g, n)  == {InputTensor(g, n, i) : i \in Inputs(g, n)}
WriteTensors(g, n) == {g.nodes[n].outputs[k] : k \in Outputs(g, n)}

(* The tensors of inputs, constants and outputs.                           *)
BoundaryTensors(g) ==
    UNION {ReadTensors(g, n) \union WriteTensors(g, n) :
             n \in {n \in LiveNodes(g) : g.nodes[n].type \in SourceTypes \union {"Output"}}}

(* ITensorHandle::allocate gives memory to a handle that owns its memory;  *)
(* a window has nothing to allocate.                                       *)
Allocated(g, ts) ==
    {h \in {g.tensors[t].handle : t \in {t \in ts : g.tensors[t].bound # {}}} :
        g.handles[h].parent = Empty}

(* get_const_handles                                                       *)
ConstHandles(g) == {ParentHandle(g, t) : t \in BoundaryTensors(g)}

-----------------------------------------------------------------------------
(* get_transition_handles: the handles a task reads, one for each input,   *)
(* and writes, constants and the like aside.                               *)
InputHandles(g, n) ==
    Only([i \in Inputs(g, n) |-> ParentHandle(g, InputTensor(g, n, i))],
         DOMAIN g.handles \ ConstHandles(g))
OutputHandles(g, n) == {ParentHandle(g, t) : t \in WriteTensors(g, n)} \ ConstHandles(g)

Reads(hs, h) == Cardinality({x \in DOMAIN hs : hs[x] = h})

(* count_input_handles_per_target, over all tasks.                         *)
HandleCounter(g, ts) ==
    LET reads == FlattenSeq([x \in DOMAIN ts |-> InputHandles(g, ts[x])])
    IN  [h \in ToSet(reads) |-> Reads(reads, h)]

(* Mutant: a task releases its inputs before it acquires its output.       *)
AcquireRelease_ReleaseFirst(s, hc, reads, outputs, x) ==
    LET left == [h \in DOMAIN s.left \union ToSet(reads) |->
                    (IF h \in DOMAIN s.left THEN s.left[h] ELSE hc[h]) - Reads(reads, h)]
        keep == {h \in DOMAIN left : left[h] > 0}
    IN  [left  |-> [h \in keep \union outputs |-> IF h \in keep THEN left[h] ELSE hc[h]],
         from  |-> [h \in keep \union outputs |-> IF h \in DOMAIN s.from THEN s.from[h] ELSE x],
         spans |-> s.spans \union {[handle |-> h, from |-> s.from[h], to |-> x - 1] :
                                     h \in (DOMAIN left \ keep) \intersect DOMAIN s.from}]

(* Task x acquires its inputs and outputs, as far as they are not in       *)
(* flight, and releases its inputs.                                        *)
AcquireRelease(s, hc, reads, outputs, x) ==
    LET new  == (ToSet(reads) \union outputs) \ DOMAIN s.left
        left == [h \in DOMAIN s.left \union new |->
                    (IF h \in new THEN hc[h] ELSE s.left[h]) - Reads(reads, h)]
        from == [h \in DOMAIN left |-> IF h \in new THEN x ELSE s.from[h]]
        keep == {h \in DOMAIN left : left[h] > 0 \/ h \notin ToSet(reads)}
    IN  [left  |-> [h \in keep |-> left[h]],
         from  |-> [h \in keep |-> from[h]],
         spans |-> s.spans \union {[handle |-> h, from |-> from[h], to |-> x] : h \in DOMAIN left \ keep}]

NoneInFlight == [left |-> <<>>, from |-> <<>>, spans |-> {}]

(* configure_handle_lifetime: left is tensors_in_flight, from is the task  *)
(* that put a handle in flight, spans are the lifetimes that have ended.   *)
(* hc.at() raises for an output that no task reads.                        *)
HandleLifetimes(g, ts) ==
    LET hc == HandleCounter(g, ts)
    IN  FoldLeft(LAMBDA s, x : AcquireRelease(s, hc, InputHandles(g, ts[x]), OutputHandles(g, ts[x]), x),
                 NoneInFlight, [x \in DOMAIN ts |-> x])

(* An output that no task reads.                                           *)
UnreadOutputs(g, ts) ==
    {n \in ToSet(ts) : ~(OutputHandles(g, n) \subseteq DOMAIN HandleCounter(g, ts))}

=============================================================================
