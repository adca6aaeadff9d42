---------------------------- MODULE SavedProgress ----------------------------
(***************************************************************************)
(* What resumable encryption promises about the file it is building: the  *)
(* file grows a chunk at a time, some of its chunks are saved, failures    *)
(* take away unsaved chunks only, and saved progress is given up only once *)
(* the file is complete.                                                   *)
(***************************************************************************)
EXTENDS Integers

VARIABLES
  n,         \* chunks in the file
  saved,     \* chunks that the next attempt is sure to find again
  complete   \* the final chunk has been written

vars == <<n, saved, complete>>

Init == n = 0 /\ saved = 0 /\ complete = FALSE

Extend ==
  /\ ~complete
  /\ n' = n + 1
  /\ complete' \in BOOLEAN
  /\ UNCHANGED saved

Save ==
  /\ saved' \in saved .. n
  /\ UNCHANGED <<n, complete>>

\* Nothing below saved is lost, and a file that lost chunks is not complete.
Lose ==
  /\ n' \in saved .. n
  /\ saved' \in saved .. n'
  /\ complete' \in {FALSE, complete /\ n' = n}

GiveUpSaved ==
  /\ complete
  /\ saved' = 0
  /\ UNCHANGED <<n, complete>>

Restart ==
  /\ saved = 0
  /\ n' = 0 /\ saved' = 0 /\ complete' = FALSE

Next == Extend \/ Save \/ Lose \/ GiveUpSaved \/ Restart

Spec == Init /\ [][Next]_vars
=============================================================================
