----------------------------- MODULE MCImageRuns -----------------------------
EXTENDS ImageRuns, TLC
Symmetry == Permutations(Threads) \cup Permutations(IsoNames)
==============================================================================
