---------------------------- MODULE MCCertificates ----------------------------
(* Instances of Certificates: two command lines, or one and the window.        *)
EXTENDS Certificates

CONSTANTS p, q, g
Both     == {p, q}
Lone     == {p}
Window1  == {g}
Nobody   == {}
Symmetry == Permutations(CaKeys)
=============================================================================
