----------------------------- MODULE MCUseCases -----------------------------
EXTENDS UseCases, TLC

CONSTANTS c1, c2, index, page

MCCalls == {c1, c2}
MCAssets == {index, page}

\* Calls differ in nothing but their names.
Symmetry == Permutations(MCCalls)
=============================================================================
