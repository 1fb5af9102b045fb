---------------------------- MODULE MCJsonlStore ----------------------------
EXTENDS JsonlStore, StoreUniverse

CONSTANTS c1, c2

MCClients == {c1, c2}
Symmetry == Permutations(MCClients)

\* A reversal that follows the filing at once.
reversal == Child("e16", filed, "reversed", reviewer, "d2")
MCEvents == {filed, reversal}

FewDecisions == {original, superseder}
OneEvent == {filed}

ThreeDecisions == {original, mutated, superseder}
MCOversize == {mutated}
=============================================================================
