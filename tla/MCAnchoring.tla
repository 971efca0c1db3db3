---------------------------- MODULE MCAnchoring -----------------------------
\* Anchoring on small instances.  Workers and batch ids are interchangeable;
\* records are not, their order decides which of them is records[0].
EXTENDS Anchoring, TLC

Symmetry == Permutations(Workers) \union Permutations(Batches)
==============================================================================
