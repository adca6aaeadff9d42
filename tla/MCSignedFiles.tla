---------------------------- MODULE MCSignedFiles -----------------------------
(* An instance of SignedFiles: a command line and the window.                  *)
EXTENDS SignedFiles

CONSTANTS p, q, g
Lone     == {p}
Window1  == {g}
=============================================================================
