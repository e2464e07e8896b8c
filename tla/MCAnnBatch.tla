----------------------------- MODULE MCAnnBatch -----------------------------
(* Model checking of AnnBatch: two stacks, a batch of two items, blocks of *)
(* three units and annotations that fit, straddle two blocks or exceed one.*)
EXTENDS AnnBatch, TLC

OneCStack       == <<"c">>
TwoPythonStacks == <<"python", "python">>
TwoCStacks      == <<"c", "c">>

\* A number without a text, a short text, one that needs a block of its own
\* and one larger than a block.
SomeStrings == {<<>>, <<2>>, <<1, 3>>, <<4>>}
FewStrings  == {<<2>>, <<1, 3>>}
ShortStrings == {<<2>>}

\* Addresses of blocks are interchangeable.
BlockSymmetry == Permutations(Blocks)
=============================================================================
