----------------------------- MODULE MCSessions -----------------------------
EXTENDS Sessions, TLC
\* Keys: with the new one accepted everywhere it is written, then the old
\* one is retired; the last configuration also shortens the idle lifetime.
MCRing == <<{"k1", "k2"}, {"k1", "k2"}, {"k2"}>>
MCPrimary == <<"k1", "k2", "k2">>
MCIdle == <<2, 2, 1>>
MCSymmetry == Permutations(Processes) \cup Permutations(Calls)
=============================================================================
