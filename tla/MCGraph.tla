------------------------------ MODULE MCGraph ------------------------------
(* GraphManager on all small graphs, and on larger ones that occur in      *)
(* networks: nested concatenations, a grouped convolution, a residual      *)
(* block, branches of a split with activations in place, layers that share *)
(* their weights, and a concatenation that nobody reads.                   *)
EXTENDS GraphManager

Source(type, widths) == [type |-> type, widths |-> widths]
Op(type, inputs)     == [type |-> type, inputs |-> inputs]

Nested == << Source("Input", <<1>>), Op("Conv", <<<<1, 1>>>>), Op("Conv", <<<<1, 1>>>>),
             Op("Concat", <<<<2, 1>>, <<3, 1>>>>), Op("Conv", <<<<1, 1>>>>),
             Op("Concat", <<<<4, 1>>, <<5, 1>>>>) >>

Grouped == << Source("Input", <<4>>), Op("Act", <<<<1, 1>>>>), Op("GroupedConv", <<<<2, 1>>>>),
              Op("Act", <<<<3, 1>>>>), Op("GroupedConv", <<<<4, 1>>>>), Op("BatchNorm", <<<<5, 1>>>>) >>

Residual == << Source("Input", <<1>>), Source("Const", <<1>>), Op("Elt", <<<<1, 1>>, <<2, 1>>>>),
               Op("Conv", <<<<3, 1>>>>), Op("BatchNorm", <<<<4, 1>>>>), Op("Conv", <<<<5, 1>>>>),
               Op("Elt", <<<<3, 1>>, <<6, 1>>>>), Op("Act", <<<<7, 1>>>>), Op("Conv", <<<<8, 1>>>>) >>

Branches == << Source("Input", <<2>>), Op("Conv", <<<<1, 1>>>>), Op("Split", <<<<2, 1>>>>),
               Op("Act", <<<<3, 1>>>>), Op("Act", <<<<3, 2>>>>), Op("Elt", <<<<4, 1>>, <<5, 1>>>>),
               Op("Conv", <<<<5, 1>>>>) >>

Rejoined == << Source("Input", <<1>>), Op("Conv", <<<<1, 1>>>>), Op("Conv", <<<<2, 1>>>>),
               Op("Concat", <<<<3, 1>>, <<2, 1>>>>), Op("Act", <<<<4, 1>>>>),
               Op("Split", <<<<5, 1>>>>), Op("Elt", <<<<6, 2>>, <<6, 1>>>>) >>

Shuffle == << Source("Input", <<2, 2>>), Op("Conv", <<<<1, 1>>>>), Op("BatchNorm", <<<<2, 1>>>>),
              Op("Act", <<<<3, 1>>>>), Op("Conv", <<<<1, 2>>>>), Op("BatchNorm", <<<<5, 1>>>>) >>

Shared == << Source("Input", <<1>>), Source("Const", <<1>>), Op("FullyConnected", <<<<1, 1>>, <<2, 1>>>>),
             Op("Act", <<<<3, 1>>>>), Op("FullyConnected", <<<<4, 1>>, <<2, 1>>>>),
             Op("Elt", <<<<4, 1>>, <<5, 1>>>>), Op("FullyConnected", <<<<6, 1>>, <<2, 1>>>>) >>

(* Nobody reads the concatenation, but somebody one of its inputs.         *)
Tapped == << Source("Input", <<1>>), Op("Conv", <<<<1, 1>>>>), Op("Conv", <<<<1, 1>>>>),
             Op("Conv", <<<<2, 1>>>>), Op("Concat", <<<<2, 1>>, <<3, 1>>>>) >>

MCExamples == {Nested, Grouped, Residual, Branches, Rejoined, Shuffle, Shared, Tapped}
=============================================================================
