---------------------------- MODULE MCPiSettings ----------------------------
(* Two meets, a TV, the owner and one user.                                *)
EXTENDS PiSettings, TLC

Symmetry ==
    Permutations(Heats) \cup Permutations(Files) \cup Permutations(Looks)
=============================================================================
