---------------------------- MODULE MCLiveSession ----------------------------
EXTENDS LiveSession

CONSTANTS r1, r2, r3

MCRoots == {r1, r2, r3}
Symmetry == Permutations(MCRoots)

MCFrame == [root \in MCRoots |-> 0]

\* A block and two pages in its place, one with another output and other rights.
MCMappings == {Leaf(0, 0, 2, RW), Leaf(1, 0, 1, RW), Leaf(1, 1, 1, RO)}
=============================================================================
