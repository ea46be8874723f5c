----------------------------- MODULE MCTiming ------------------------------
\* A board of two paths for TLC: a clock and the data it must arrive with.
EXTENDS Timing, TLC

CONSTANTS p1, p2

MCPath  == {p1, p2}
MCPaths == Permutations(MCPath)
=============================================================================
