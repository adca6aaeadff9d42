------------------------------ MODULE MCRecords -------------------------------
(***************************************************************************)
(* Signed files and archives side by side: a behaviour is one of           *)
(* SignedFiles (a command line and the window) or one of Archive (the      *)
(* same, with two sources and a link that is named like a device); the     *)
(* other's variables stay as they began.                                   *)
(***************************************************************************)
EXTENDS MCSignedFiles

CONSTANTS note, other, aux, x, y, Zero

VARIABLES
  model,
  sources, archive, dir, picked, packing, report, packs, extracted     \* Archive

packed == <<sources, archive, dir, picked, packing, report, packs, extracted>>

Three   == {note, other, aux}
Device  == {aux}
XY      == {x, y}
Symmetry  == Permutations(XY) \cup Permutations(Blocks)
Named(s)  == s
Folded(n) == n
A == INSTANCE Archive WITH Sources <- Three, Links <- Device, NameOf <- Named,
       Lower <- Folded, Unsafe <- Device, Blocks <- XY, MaxLen <- 2, MaxListed <- 2,
       MaxEntries <- 2, MaxArchives <- 1, MaxExtracts <- 2,
       src <- sources, box <- archive, job <- packing, made <- packs

RecordsInit ==
  /\ Init /\ A!Init
  /\ \/ model = "signed" /\ sources = [s \in Three |-> <<x>>] /\ \A n \in Three : dir[n] = None
     \/ model = "archive" /\ src = [i \in 1 .. Size |-> CHOOSE b \in Blocks : TRUE]

RecordsNext ==
  /\ \/ model = "signed" /\ Next /\ UNCHANGED packed
     \/ /\ model = "archive" /\ A!Next
        /\ UNCHANGED <<files, copy, job, signed, broken, made, started, edits>>
  /\ UNCHANGED model

RecordsSpec == RecordsInit /\ [][RecordsNext]_<<model, vars, packed>>
-----------------------------------------------------------------------------
(* Properties: those of SignedFiles, and these. *)

\* Every variable of the signed files and of the archive stays in its type.
RecordsTypeOK == IF model = "signed" THEN TypeOK ELSE A!TypeOK

\* An extraction that reports success has restored every file just as it was packed,
\* and an intact archive is never found to be short.
ExtractedIsArchived == model = "archive" => A!ExtractedIsArchived
=============================================================================
