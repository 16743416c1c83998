------------------------ MODULE ConcurrentHashtableMC ------------------------
(* Two threads; three hashes share the first bin, so that items are removed *)
(* from the head, the middle and the end of its chain.                      *)
EXTENDS ConcurrentHashtable, TLC

CONSTANTS t1, t2, v1, v2, v3, n1, n2, n3

MCHashes == {0, 1, 2, 4}
MCThreads == {t1, t2}
MCValues  == {v1, v2, v3}
MCNodes   == {n1, n2, n3}
Interchangeable ==
    Permutations(MCValues) \cup Permutations(MCNodes)
=============================================================================
