-------------------------- MODULE MCReconciliation --------------------------
EXTENDS Reconciliation, TLC

CONSTANTS application, library, c1, c2

MCDependencies == {<<application, library>>}

Symmetry == Permutations(Callers)
=============================================================================
