------------------------- MODULE MCSessionOwnership -------------------------
(* Two connections of the user to one container, one to another.            *)
EXTENDS SessionOwnership, TLC

CONSTANTS x1, x2, y, k1, k2

MCHome == [c \in Conns |-> IF c = y THEN k2 ELSE k1]

\* The two connections to the same container are alike.
MCSymmetry == Permutations({x1, x2})

=============================================================================
