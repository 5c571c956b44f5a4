--------------------------- MODULE MCSemanticIndex ----------------------------
EXTENDS SemanticIndex, TLC

CONSTANT c   \* an embedding model

\* The other models have the same dimensions.
MCDims == [m \in Models |-> IF m = c THEN 2 ELSE 1]

\* Models of the same dimensions may be exchanged for each other.
Symmetry ==
  Permutations(Chunks) \cup Permutations(TokenModels) \cup Permutations(Jobs)
    \cup Permutations(Models \ {c})
=============================================================================
