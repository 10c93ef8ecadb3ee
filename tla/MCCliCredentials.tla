--------------------------- MODULE MCCliCredentials --------------------------
(* Values for CliCredentials: two shells and credentials of two lengths.     *)
EXTENDS CliCredentials, TLC

CONSTANTS sh1, sh2

MCShells == {sh1, sh2}
MCSizes == {2, 3}

Symmetry == Permutations(MCShells)
=============================================================================
