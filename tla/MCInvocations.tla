--------------------------- MODULE MCInvocations ----------------------------
EXTENDS Invocations, TLC

CONSTANTS c1, c2

\* A write made at once before a batch over all stores, and one after a batch
\* that writes the configuration twice.
WritingPlans ==
    {<<<<"data">>, <<"config", "data", "cache">>>>, <<<<"config", "config">>, <<"config">>>>}

Symmetry == Permutations(Clients)
=============================================================================
