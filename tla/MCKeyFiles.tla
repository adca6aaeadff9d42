------------------------------ MODULE MCKeyFiles ------------------------------
(* Instances of KeyFiles: two command lines, or one and the window.            *)
EXTENDS KeyFiles

CONSTANTS p, q, g
Both     == {p, q}
Lone     == {p}
Window1  == {g}
Nobody   == {}
Symmetry == Permutations(Both)
=============================================================================
