--------------------------- MODULE MC_MpsDispatch ---------------------------
(* Model-checking instance of MpsDispatch: two stations, three tasks.      *)
EXTENDS MpsDispatch, TLC

CONSTANTS s1, s2, unknown

MC_Station == {s1, s2}

MC_Symmetry == Permutations(MC_Station)

=============================================================================
