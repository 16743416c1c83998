----------------------------- MODULE LinkedListMC -----------------------------
(* Two lists and four nodes: either list can be merged into the other with *)
(* two nodes on each side, and nodes that were released are used again.    *)
EXTENDS LinkedList, TLC

CONSTANTS n1, n2, n3, n4, x, y, d, e

MCNodes == {n1, n2, n3, n4}
MCLists == {x, y}
MCItems == {d, e}
Interchangeable ==
    Permutations(MCNodes) \cup Permutations(MCLists) \cup Permutations(MCItems)
=============================================================================
