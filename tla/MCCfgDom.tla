------------------------------ MODULE MCCfgDom ------------------------------
\* Instances of CfgDom: all small graphs.
EXTENDS CfgDom

CONSTANT Size        \* the number of blocks

\* A block ends in no, one or two edges, as a branch and a fall-through make them.
OutEdges == {<< >>} \cup {<<b>> : b \in 1 .. Size}
              \cup {e \in (1 .. Size) \X (1 .. Size) : e[1] < e[2]}

EdgesOf(out) == FoldLeft(LAMBDA acc, b : acc \o [i \in DOMAIN out[b] |-> <<b, out[b][i]>>],
                         << >>, [b \in DOMAIN out |-> b])

\* All graphs of Size blocks, the edges of a block towards the lower block first.
AllGraphs == {Build(Size, EdgesOf(out)) : out \in [1 .. Size -> OutEdges]}
=============================================================================
