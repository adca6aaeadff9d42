----------------------------- MODULE MCDurability -----------------------------
(***************************************************************************)
(* What is to survive a crash: the resumed encryption of ResumeEncrypt in  *)
(* two settings, and the log of AuditLog.  A behaviour is one of them; the *)
(* variables of the others stay as they began.                             *)
(*   "stable": nobody rewrites the source, a debug build, a checkpoint     *)
(*             every two chunks.                                           *)
(*   "edited": the source may be rewritten between two runs, a release     *)
(*             build, and an output named without a directory, so that     *)
(*             every checkpoint ends its run.                              *)
(*   "audit":  two commands that may overlap append to one log.            *)
(***************************************************************************)
EXTENDS MCResumeEncrypt

CONSTANTS encrypt, decrypt

VARIABLES
  setting,
  log, logSynced, tip, tipPast, at, prevHash, entry, built, saved, acked, overlapped,
  stops                                                              \* AuditLog

audited == <<log, logSynced, tip, tipPast, at, prevHash, entry, built, saved, acked,
             overlapped, stops>>

Edited == INSTANCE ResumeEncrypt WITH Sources <- EditedSources, Interval <- 2,
            MaxRuns <- 5, MaxEdits <- 1, Release <- TRUE, BareName <- TRUE

BothCommands == {encrypt, decrypt}
L == INSTANCE AuditLog WITH Commands <- BothCommands, MaxEntries <- 4, MaxFaults <- 2,
       synced <- logSynced, pc <- at, faults <- stops

SomeInit ==
  /\ L!Init
  /\ \/ setting = "stable" /\ Init
     \/ setting = "edited" /\ Edited!Init
     \/ setting = "audit" /\ Init /\ source = <<>>

SomeNext ==
  /\ \/ setting = "stable" /\ Next /\ UNCHANGED audited
     \/ setting = "edited" /\ Edited!Next /\ UNCHANGED audited
     \/ setting = "audit" /\ L!Next /\ UNCHANGED vars
  /\ UNCHANGED setting

DurabilitySpec ==
  /\ SomeInit /\ [][SomeNext]_<<setting, vars, audited>>
  /\ WF_vars(setting = "stable" /\ Step)
  /\ WF_vars(setting = "stable" /\ Rerun /\ outcome # "ok")
-----------------------------------------------------------------------------
(* Properties: those of ResumeEncrypt, and these. *)

\* For a source nobody rewrites: a file a decryptor accepts as whole holds all of it.
StableWhole == setting = "stable" => WholeIfAccepted

\* For a source nobody rewrites: no key and counter ever seal two different chunks,
\* however often a stretch is sealed again after a crash.
StableReproduced == setting = "stable" => ReproducedIdentically

\* A user who reruns the command until it succeeds gets a finished file.
StableFinished == <>(setting = "stable" => outcome = "ok")

\* An audit entry whose append returned Ok is where no power loss and no other command
\* can take it from; the sidecar never runs ahead of the log; commands that take turns
\* leave a log that verifies; and in one that verifies no entry that has another behind
\* it can be removed or moved without notice.
LogHolds ==
  setting = "audit" =>
    L!AckedIsKept /\ L!TipHasEntry /\ L!ChainHolds /\ L!DeletionDetected

=============================================================================
