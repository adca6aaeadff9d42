---------------------------- MODULE MCFileCommands ----------------------------
(* Instances of FileCommands: two processes, a source long enough to be padded *)
(* and to have three chunks.                                                   *)
EXTENDS FileCommands

CONSTANTS p, q
Both     == {p, q}
Symmetry == Permutations(Both)
Option(names) == [n \in {"force", "pad", "fec", "log"} |-> n \in names]
SomeEncrypts  == {Option({}), Option({"force", "pad"}), Option({"force", "fec", "log"})}
SomeDecrypts  == {Option({}), Option({"force", "fec"})}
=============================================================================
