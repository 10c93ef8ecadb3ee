---------------------------- MODULE MCTokenCache ----------------------------
(* The token cache on a small instance: one client, its right secret s1 and  *)
(* a wrong one, s2.                                                          *)
EXTENDS TokenCache, TLC

CONSTANTS g1, g2, c1, s1, s2

MCRegistered == {<<c1, s1>>}

Symmetry == Permutations(Goroutine)
=============================================================================
