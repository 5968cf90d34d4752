----------------------------- MODULE MCStorage ------------------------------
EXTENDS StorageInvariant, TLC

Symmetry == Permutations(Copies)
=============================================================================
