---------------------------- MODULE FusedKernel ----------------------------
(***************************************************************************)
(* A group of components that become one GPU kernel: the constraints of    *)
(* GpuKernelComponentGroup::add_component, the arguments and tiles that    *)
(* finalize() decides for, whether the kernel that the template writers    *)
(* make of it compiles, and what it computes.  A component is              *)
(* [type, kernel, srcs, dsts] and works on the tensors of info.  A tile is *)
(* named after a tensor; tensors that share one have the same entry in     *)
(* tile.                                                                   *)
(***************************************************************************)
EXTENDS DependencyGraph

CONSTANTS MaxFusedComponents, MaxDstTensors

(* The constraints of add_component; all tensors have one data layout and  *)
(* all components the stage Run.                                           *)
Accepts(group, c, info) ==
    /\ c.type # "Output" => Len(group) < MaxFusedComponents
    /\ c.type # "Unfusable" => Len(c.dsts) = 1
    /\ Len(c.dsts) < MaxDstTensors
    /\ c.type = "Output" => Len(group) < MaxFusedComponents + MaxDstTensors
    /\ group # <<>> =>
        /\ group[1].type = "Unfusable" => c.type = "Output"
        /\ c.type \in {"Simple", "Output"}
        /\ \A t \in ToSet(group[1].dsts) \union ToSet(c.dsts) :
              info[t].shape = info[group[1].dsts[1]].shape

-----------------------------------------------------------------------------
(* finalize(), first pass: k is the group so far, where usage counts who   *)
(* needs the tile of a tensor and possible[d] are the tiles d may use.     *)

NoTensors == [inputs |-> {}, interm |-> {}, outputs |-> {},
              usage |-> [t \in {} |-> 0], possible |-> [t \in {} |-> <<>>]]

(* Mutant: what an earlier component of the group made is an input too.    *)
Source_MadeHere(k, t) ==
    [k EXCEPT !.inputs = @ \union {t}, !.usage = [x \in {t} |-> 0] @@ @,
              !.possible = @ @@ [x \in {t} |-> <<>>]]

(* A tensor that is not made in this kernel starts from no usage, also     *)
(* when an earlier component has used it.                                  *)
Source(k, t) ==
    IF t \in k.outputs
    THEN [k EXCEPT !.outputs = @ \ {t}, !.interm = @ \union {t}]
    ELSE IF t \in k.interm THEN k
    ELSE [k EXCEPT !.inputs = @ \union {t}, !.usage = [x \in {t} |-> 0] @@ @,
                   !.possible = @ @@ [x \in {t} |-> <<>>]]

Destination(k, t) ==
    [k EXCEPT !.outputs = @ \union {t}, !.usage = [x \in {t} |-> 0] @@ @,
              !.possible = @ @@ [x \in {t} |-> <<>>]]

(* An output does not change the tile: it counts only beside others.       *)
Usage(c, usage) == IF c.type = "Simple" \/ usage > 0 THEN usage + 1 ELSE usage

(* The output of c may overwrite an input of the same shape and type.      *)
Overwrite(k, c, info) ==
    LET d == c.dsts[1]
        Try(j, s) == IF info[s] # info[d] THEN j
                     ELSE [j EXCEPT !.usage[s] = Usage(c, @), !.possible[d] = Append(@, s)]
    IN  IF c.type \in {"Simple", "Output"} THEN FoldLeft(Try, k, c.srcs) ELSE k

Tensors(group, info) ==
    FoldLeft(LAMBDA k, c : Overwrite(FoldLeft(Destination, FoldLeft(Source, k, c.srcs), c.dsts), c, info),
             NoTensors, group)

(* A tile is taken over only from a tensor that nobody else needs.         *)
TakesOver(usage) == usage <= 1

(* finalize(), second pass: the tile of each tensor.                       *)
TileMap(group, k) ==
    LET Tile(tile, d) ==
            LET first == SelectInSeq(k.possible[d], LAMBDA s : TakesOver(k.usage[s]))
            IN  [x \in {d} |-> IF first = 0 THEN d ELSE tile[k.possible[d][first]]] @@ tile
        map == FoldLeft(LAMBDA tile, c : FoldLeft(Tile, tile, c.dsts),
                        [t \in k.inputs |-> t], group)
    IN  [t \in k.outputs |-> t] @@ map

(* finalize() *)
Finalized(group, info) ==
    LET k == Tensors(group, info)
    IN  [components |-> group, inputs |-> k.inputs, interm |-> k.interm, outputs |-> k.outputs,
         tile |-> TileMap(group, k)]

Arguments(kernel) == kernel.inputs \union kernel.outputs

-----------------------------------------------------------------------------
(* The text of the kernel: the tiles that write_code declares for what is  *)
(* made on the way, then the code of the components, all in one scope.     *)

HeaderTiles(kernel) == {t \in kernel.interm : kernel.tile[t] = t}

(* Elementwise components declare a tile for each operand that is an input *)
(* of the kernel; an activation does so when it is the root.               *)
Declares(kernel, i) ==
    LET c == kernel.components[i]
    IN  CASE c.kernel = "elementwise_binary"   -> SelectSeq(c.srcs, LAMBDA t : t \in kernel.inputs)
          [] c.kernel = "activation" /\ i = 1  -> c.srcs
          [] OTHER                             -> <<>>

Declared(kernel, n) == FlattenSeq([i \in 1..n |-> Declares(kernel, i)])

(* The tensors whose tiles the code names.  The other roots and the parts  *)
(* of a softmax read and write through pointers.                           *)
Names(kernel, i) ==
    LET c == kernel.components[i]
    IN  CASE c.kernel = "store"                                      -> ToSet(c.srcs)
          [] c.kernel \in {"exp_sum", "norm"}                        -> {}
          [] c.kernel # "elementwise_binary" /\ i = 1                -> ToSet(c.dsts)
          [] OTHER                                                   -> ToSet(c.srcs) \union ToSet(c.dsts)

(* No tile is declared twice, and none is used that nobody has declared; a *)
(* store needs the pointer of an argument.                                 *)
Compiles(kernel) ==
    LET n == Len(kernel.components)
    IN  /\ IsInjective(Declared(kernel, n))
        /\ ToSet(Declared(kernel, n)) \intersect HeaderTiles(kernel) = {}
        /\ \A i \in 1..n :
              /\ {kernel.tile[t] : t \in Names(kernel, i)}
                     \subseteq HeaderTiles(kernel) \union ToSet(Declared(kernel, i))
              /\ kernel.components[i].kernel = "store" =>
                     ToSet(kernel.components[i].dsts) \subseteq Arguments(kernel)

-----------------------------------------------------------------------------
(* What a kernel that compiles does, on e = [tile, memory].                *)

Garbage == <<"garbage">>

InTile(e, kernel, t) ==
    IF kernel.tile[t] \in DOMAIN e.tile THEN e.tile[kernel.tile[t]] ELSE Garbage

SetTile(e, kernel, t, value) == [e EXCEPT !.tile = [x \in {kernel.tile[t]} |-> value] @@ @]

Store(e, t, value) == [e EXCEPT !.memory[t] = value]

(* Elementwise components take the third index of the window for the batch *)
(* of their operand.  It is that only where the root has collapsed height  *)
(* into the second index: otherwise it is the plane, and only a row, which *)
(* has neither, is read where it should be.                                *)
Load(e, kernel, t, info) ==
    IF t \notin kernel.inputs THEN e
    ELSE IF info[t].shape = "row" \/ kernel.components[1].kernel \in {"conv", "elementwise_binary"}
         THEN SetTile(e, kernel, t, e.memory[t])
    ELSE SetTile(e, kernel, t, Garbage)

(* The others load only when they are the root.                            *)
Argument(e, kernel, isRoot, t) == IF isRoot THEN e.memory[t] ELSE InTile(e, kernel, t)

(* get_component_code of the i-th component; "depthwise" stands for every  *)
(* complex component whose window has a plane for its third index.         *)
Component(e, kernel, i, info) ==
    LET c == kernel.components[i]
        loaded == FoldLeft(LAMBDA x, t : Load(x, kernel, t, info), e, c.srcs)
    IN  CASE c.kernel \in {"conv", "depthwise", "activation", "cast"} ->
                SetTile(e, kernel, c.dsts[1], <<c.kernel, Argument(e, kernel, i = 1, c.srcs[1])>>)
          [] c.kernel = "elementwise_binary" ->
                SetTile(loaded, kernel, c.dsts[1],
                        <<c.kernel, InTile(loaded, kernel, c.srcs[1]), InTile(loaded, kernel, c.srcs[2])>>)
          [] c.kernel = "store" ->
                Store(e, c.dsts[1], InTile(e, kernel, c.srcs[1]))
          [] c.kernel = "exp_sum" ->
                Store(Store(e, c.dsts[1], <<"sum", e.memory[c.srcs[1]]>>),
                      c.dsts[2], <<"exp", e.memory[c.srcs[1]]>>)
          [] c.kernel = "norm" ->
                Store(e, c.dsts[1], <<"norm", e.memory[c.srcs[1]], e.memory[c.srcs[2]]>>)

(* The memory after the kernel.                                            *)
Execute(kernel, memory, info) ==
    FoldLeft(LAMBDA e, i : Component(e, kernel, i, info), [tile |-> [t \in {} |-> <<>>], memory |-> memory],
             [i \in DOMAIN kernel.components |-> i]).memory
=============================================================================
