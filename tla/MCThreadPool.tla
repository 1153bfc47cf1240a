---------------------------- MODULE MCThreadPool ----------------------------
EXTENDS ThreadPool, TLC

CONSTANTS l1, l2

\* every item belongs to the one loop
OneLoop == [i \in Items |-> l1]

\* one item belongs to l2, the others to l1
TwoLoops == LET j == CHOOSE i \in Items : TRUE
            IN  [i \in Items |-> IF i = j THEN l2 ELSE l1]

ItemSymmetry == Permutations(Items)
=============================================================================
