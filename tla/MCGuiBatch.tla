----------------------------- MODULE MCGuiBatch -----------------------------
(* Small instances of GuiBatch: two files of the same name from different    *)
(* directories, which an output directory gives one output.                   *)
EXTENDS GuiBatch

CONSTANTS a, b, pab, k1

TwoFiles == {a, b}
SameName == [f \in TwoFiles |-> pab]
=============================================================================
