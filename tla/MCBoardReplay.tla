--------------------------- MODULE MCBoardReplay ---------------------------
(* Two displays, two heats; the screens are interchangeable.               *)
EXTENDS BoardReplay, TLC

Symmetry == Permutations(Screens)
=============================================================================
