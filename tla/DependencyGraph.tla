-------------------------- MODULE DependencyGraph --------------------------
(***************************************************************************)
(* The graph of operators and tensors that a dynamic fusion sketch is      *)
(* checked against, and that its components are ordered by: the class      *)
(* DependencyGraph.  An AdjList is a function from ids to sequences of     *)
(* ids; lastOp is _last_op while it is available.                          *)
(***************************************************************************)
EXTENDS Integers, Sequences, SequencesExt, FiniteSets

NoOperator == -1

NoEdges == [id \in {} |-> <<>>]

EmptyGraph == [srcTensors |-> NoEdges, dstTensors |-> NoEdges,
               srcOps |-> NoEdges, dstOps |-> NoEdges, lastOp |-> NoOperator]

AllOps(g)     == DOMAIN g.srcTensors
AllTensors(g) == DOMAIN g.srcOps

HasSource(g, t) == t \in AllTensors(g) /\ g.srcOps[t] # <<>>

(* Mutant: an input that another operator than the last one makes passes.  *)
TryAddOperatorAsLinear_AnyInput(g, inputs, outputs) ==
    \/ AllOps(g) = {}
    \/ /\ g.lastOp # NoOperator => \E i \in DOMAIN inputs : HasSource(g, inputs[i])
       /\ \A i \in DOMAIN outputs : outputs[i] \notin AllTensors(g)

(* Exactly one input comes from the last operator and the others from      *)
(* outside; nothing has seen the outputs.  While only outputs were added   *)
(* there is no last operator, and the inputs are not looked at.            *)
TryAddOperatorAsLinear(g, inputs, outputs) ==
    LET made == {i \in DOMAIN inputs : HasSource(g, inputs[i])} IN
    \/ AllOps(g) = {}
    \/ /\ g.lastOp # NoOperator => /\ Cardinality(made) = 1
                                   /\ \A i \in made : g.srcOps[inputs[i]][1] = g.lastOp
       /\ \A i \in DOMAIN outputs : outputs[i] \notin AllTensors(g)

-----------------------------------------------------------------------------
WithList(lists, id) == [x \in DOMAIN lists \union {id} |-> IF x = id THEN <<>> ELSE lists[x]]

(* insert_new_tensor, unless the tensor exists *)
WithTensor(g, t) ==
    IF t \in AllTensors(g) THEN g
    ELSE [g EXCEPT !.srcOps = WithList(@, t), !.dstOps = WithList(@, t)]

LinkInput(g, op, t) ==
    [WithTensor(g, t) EXCEPT !.srcTensors[op] = Append(@, t), !.dstOps[t] = Append(@, op)]

LinkOutput(g, op, t) ==
    [WithTensor(g, t) EXCEPT !.dstTensors[op] = Append(@, t), !.srcOps[t] = Append(@, op)]

(* path_exists_from_tensor_to_op: within[n] are the operators that read t  *)
(* or what is computed from it by at most n operators.                     *)
PathExists(g, t, op) ==
    LET Readers(tensors) == UNION {ToSet(g.dstOps[x]) : x \in tensors}
        Written(ops)     == UNION {ToSet(g.dstTensors[o]) : o \in ops}
        within[n \in 0..Cardinality(AllOps(g))] ==
            IF n = 0 THEN Readers({t}) ELSE within[n-1] \union Readers(Written(within[n-1]))
    IN  t \in AllTensors(g) /\ op \in within[Cardinality(AllOps(g))]

Without(ops, op) == FoldLeft(LAMBDA s, o : IF o = op THEN s ELSE Append(s, o), <<>>, ops)

(* Mutant: the tensors that are left without operators stay.               *)
RemoveOperator_KeepsTensors(g, op) ==
    [g EXCEPT !.srcOps = [t \in AllTensors(g) |-> Without(@[t], op)],
              !.dstOps = [t \in AllTensors(g) |-> Without(@[t], op)],
              !.srcTensors = [o \in AllOps(g) \ {op} |-> @[o]],
              !.dstTensors = [o \in AllOps(g) \ {op} |-> @[o]]]

(* remove_operator, and the tensors that are isolated then.                *)
RemoveOperator(g, op) ==
    LET kept == {t \in AllTensors(g) : \/ Without(g.srcOps[t], op) # <<>>
                                      \/ Without(g.dstOps[t], op) # <<>>}
    IN  [g EXCEPT !.srcOps = [t \in kept |-> Without(@[t], op)],
                  !.dstOps = [t \in kept |-> Without(@[t], op)],
                  !.srcTensors = [o \in AllOps(g) \ {op} |-> @[o]],
                  !.dstTensors = [o \in AllOps(g) \ {op} |-> @[o]]]

LinkInputs(g, op, inputs) == FoldLeft(LAMBDA h, t : LinkInput(h, op, t), g, inputs)

(* An output that leads back to the operator takes the operator out again. *)
TryLinkOutput(r, op, t) ==
    IF ~r.added THEN r
    ELSE IF PathExists(r.graph, t, op)
         THEN [added |-> FALSE, graph |-> RemoveOperator(r.graph, op)]
         ELSE [added |-> TRUE, graph |-> LinkOutput(r.graph, op, t)]

TryLinkOutputs(g, op, outputs) ==
    FoldLeft(LAMBDA r, t : TryLinkOutput(r, op, t), [added |-> TRUE, graph |-> g], outputs)

(* add_operator: whether it was added, and the graph it leaves behind.     *)
AddOperator(g, op, inputs, outputs, isOutput) ==
    LET new    == [g EXCEPT !.srcTensors = WithList(@, op), !.dstTensors = WithList(@, op)]
        result == TryLinkOutputs(LinkInputs(new, op, inputs), op, outputs)
    IN  IF op \in AllOps(g) THEN [added |-> FALSE, graph |-> g]
        ELSE IF result.added /\ ~isOutput
             THEN [added |-> TRUE, graph |-> [result.graph EXCEPT !.lastOp = op]]
             ELSE result

-----------------------------------------------------------------------------
(* build_operators_sequence *)

(* The operators that read what op makes.                                  *)
Sinks(g, op) == FlattenSeq([i \in DOMAIN g.dstTensors[op] |-> g.dstOps[g.dstTensors[op][i]]])

(* Mutant: an operator is taken at its first visit, ready or not.          *)
Ready_Always(g, op, visited) == op \notin ToSet(visited.sequence)

Ready(g, op, visited) ==
    /\ op \notin ToSet(visited.sequence)
    /\ ToSet(g.srcTensors[op]) \subseteq visited.tensors

Visits(g) == [sequence : Seq(AllOps(g)), tensors : SUBSET AllTensors(g)]

Visit(g, op, visited) ==
    [sequence |-> Append(visited.sequence, op),
     tensors  |-> visited.tensors \union ToSet(g.dstTensors[op])]

(* calls[<<op, v>>] is what was visited when the call for op, with v       *)
(* visited, returns: one such call after the other.                        *)
CallEach(calls, ops, visited) == FoldLeft(LAMBDA v, op : calls[<<op, v>>], visited, ops)

(* build_operators_sequence_from_op.  Each operator is visited once: calls *)
(* are not nested deeper than that.                                        *)
From(g) ==
    LET from[n \in 0..Cardinality(AllOps(g))] ==
            [call \in AllOps(g) \X Visits(g) |->
                IF n = 0 \/ ~Ready(g, call[1], call[2]) THEN call[2]
                ELSE CallEach(from[n-1], Sinks(g, call[1]), Visit(g, call[1], call[2]))]
    IN  from[Cardinality(AllOps(g))]

(* From each tensor that no operator makes, in the order of the ids.       *)
FromTensor(g, visited, t) ==
    IF t \notin AllTensors(g) \/ HasSource(g, t) THEN visited
    ELSE CallEach(From(g), g.dstOps[t], [visited EXCEPT !.tensors = @ \union {t}])

BuildOperatorsSequence(g) ==
    FoldLeft(LAMBDA visited, t : FromTensor(g, visited, t), [sequence |-> <<>>, tensors |-> {}],
             [t \in 1..Max(AllTensors(g) \union {0}) |-> t]).sequence
=============================================================================
