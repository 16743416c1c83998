----------------------------- MODULE AllocatorsMC -----------------------------
(* Three addresses let one thread move a block while another takes the      *)
(* address it left and a third block stays in use.                          *)
EXTENDS Allocators, TLC

CONSTANTS t1, t2, t3, p1, p2, p3

MCThreads == {t1, t2, t3}
MCAddrs   == {p1, p2, p3}
Interchangeable == Permutations(MCThreads) \cup Permutations(MCAddrs)
=============================================================================
