---------------------------- MODULE ResumeEncrypt ----------------------------
(***************************************************************************)
(* `pqfile encrypt --resume`: one output file, its checkpoint sidecar, and *)
(* the successive runs of the command that work on them.  A run reads the  *)
(* source chunk by chunk, feeds a PqfWriter, and every Interval bytes      *)
(* fsyncs the output and atomically replaces the checkpoint.  A run may be *)
(* killed, lose power, or fail with an I/O error at every step; the next   *)
(* run resumes from the checkpoint it finds.                               *)
(*                                                                         *)
(* A session key is named by the run that drew it (its epoch), so a header *)
(* is its epoch and a sealed chunk is the record of what its AEAD tag      *)
(* binds.  The file is a sequence of whole chunks, then possibly bytes     *)
(* that are not a whole chunk (junk).  A BLAKE3 hash is the text it hashes.*)
(***************************************************************************)
EXTENDS Integers, Sequences

CONSTANTS
  Byte,        \* the values a plaintext byte takes
  Scrambled,   \* the content of a buffer that was encrypted in place
  ChunkSize,   \* plaintext bytes per chunk
  Interval,    \* RESUME_CHECKPOINT_INTERVAL_BYTES
  Sources,     \* the contents the source file may have
  MaxRuns,     \* bound: invocations of the command
  MaxFaults,   \* bound: kills, power losses and I/O errors
  MaxEdits,    \* bound: times someone else rewrites the source
  EditPcs,     \* the points of a run at which the source may be rewritten
  Release,     \* built without debug_assertions: Drop seals, never panics
  BareName     \* the output path has no directory part

ASSUME ResumeAssumption ==
  /\ ChunkSize \in Nat \ {0}
  /\ Interval \in Nat \ {0}
  /\ Sources \subseteq Seq(Byte)
  /\ Sources # {}
  /\ MaxRuns \in Nat /\ MaxFaults \in Nat /\ MaxEdits \in Nat
  /\ Release \in BOOLEAN /\ BareName \in BOOLEAN

VARIABLES
  source,    \* what the source file holds
  out,       \* the output file as the running system sees it
  synced,    \* leading items (header, then chunks) that survive a power loss
  ck,        \* the checkpoint sidecar as the running system sees it
  ckDisk,    \* the sidecar's last durable directory entry
  pc,        \* where the run is
  w,         \* the PqfWriter: epoch of its key, chunk counter, buffer
  hashed,    \* the text fed to the run's BLAKE3 hasher
  pos,       \* the source's read position
  since,     \* bytes_since_checkpoint
  outcome,   \* how the last run ended
  sealed,    \* history: every chunk the cipher ever sealed
  runs, faults, edits

disk   == <<out, synced, ck, ckDisk>>
run    == <<w, hashed, pos, since>>
budget == <<runs, faults, edits>>
vars   == <<source, disk, pc, run, outcome, sealed, budget>>

-----------------------------------------------------------------------------
(* Data. *)

NoFile       == [exists |-> FALSE, hdr |-> 0, chunks |-> <<>>, junk |-> FALSE]
NoCheckpoint == [epoch |-> 0, committed |-> 0, prefix |-> <<>>]
MutNoWriter  == [epoch |-> 0, counter |-> 0 - 1, buf |-> <<>>]
NoWriter     == [epoch |-> 0, counter |-> 0, buf |-> <<>>]

Min2(a, b) == IF a <= b THEN a ELSE b

\* The chunk the writer seals from the text pt.
Seal(wr, pt, last) ==
  [epoch |-> wr.epoch, index |-> wr.counter, pt |-> pt, last |-> last]

\* Bytes that land after junk are not at a chunk boundary: no chunk appears.
Write(file, chunk) ==
  IF file.junk THEN file ELSE [file EXCEPT !.chunks = Append(@, chunk)]

\* The header and the chunks a file holds.
Items(file) == IF file.hdr = 0 THEN 0 ELSE 1 + Len(file.chunks)

WriterPcs == {"reopen", "loop", "sync", "ckpt", "dirsync"}
Pcs       == {"idle", "hash", "truncate", "header", "finish", "cleanup"}
               \cup WriterPcs

-----------------------------------------------------------------------------
(* How a run ends. *)

EndRun(how) ==
  /\ pc' = "idle"
  /\ outcome' = how
  /\ w' = NoWriter /\ hashed' = <<>> /\ pos' = 0 /\ since' = 0

MutDropWriter(file, text) ==
  LET final == Seal(w, text, TRUE) IN
  out' = Write(file, final) /\ sealed' = sealed \cup {final}

\* PqfWriter::drop on an unfinished writer: a release build seals the buffer
\* as the final chunk, a debug build panics before it writes anything.
DropWriter(file, text) ==
  LET final == Seal(w, text, TRUE) IN
  IF Release
  THEN out' = Write(file, final) /\ sealed' = sealed \cup {final}
  ELSE out' = file /\ UNCHANGED sealed

-----------------------------------------------------------------------------
(* Starting: a checkpoint on disk means resume, else a fresh encryption. *)

NewRun == pc = "idle" /\ runs < MaxRuns /\ runs' = runs + 1

RefuseOverwrite ==
  /\ pc = "idle" /\ runs < MaxRuns
  /\ ck = NoCheckpoint /\ out.exists
  /\ outcome' = "OutputExists"
  /\ UNCHANGED <<source, disk, pc, run, sealed, budget>>

MutStartFresh(force) ==
  /\ NewRun
  /\ out.exists => force
  /\ out' = [NoFile EXCEPT !.exists = TRUE]
  /\ synced' = 0
  /\ pc' = "header"
  /\ outcome' = "running"
  /\ UNCHANGED <<source, ck, ckDisk, run, sealed, faults, edits>>

StartFresh(force) ==
  /\ NewRun
  /\ ck = NoCheckpoint
  /\ out.exists => force
  /\ out' = [NoFile EXCEPT !.exists = TRUE]
  /\ synced' = 0
  /\ pc' = "header"
  /\ outcome' = "running"
  /\ UNCHANGED <<source, ck, ckDisk, run, sealed, faults, edits>>

WriteHeader ==
  /\ pc = "header"
  /\ out' = [out EXCEPT !.hdr = runs]
  /\ w' = [NoWriter EXCEPT !.epoch = runs]
  /\ pc' = "reopen"
  /\ UNCHANGED <<source, synced, ck, ckDisk, hashed, pos, since, outcome,
                 sealed, budget>>

\* The checkpoint parses (it is only ever replaced whole); the header of the
\* partial output may be missing.
ReadCheckpoint ==
  /\ NewRun
  /\ ck # NoCheckpoint
  /\ IF out.hdr = 0
     THEN pc' = "idle" /\ outcome' = "BadHeader"
     ELSE pc' = "hash" /\ outcome' = "running"
  /\ UNCHANGED <<source, disk, run, sealed, faults, edits>>

MutHashNothing ==
  /\ pc = "hash"
  /\ hashed' = ck.prefix
  /\ pos' = ck.committed * ChunkSize
  /\ pc' = "truncate"
  /\ UNCHANGED <<source, disk, w, since, outcome, sealed, budget>>

MutSeekShort ==
  /\ pc = "hash"
  /\ hashed' = ck.prefix
  /\ pos' = (ck.committed - 1) * ChunkSize
  /\ pc' = "truncate"
  /\ UNCHANGED <<source, disk, w, since, outcome, sealed, budget>>

HashPrefix ==
  /\ pc = "hash"
  /\ LET prefixLen == ck.committed * ChunkSize IN
     IF Len(source) >= prefixLen /\ SubSeq(source, 1, prefixLen) = ck.prefix
     THEN /\ hashed' = ck.prefix
          /\ pos' = prefixLen
          /\ pc' = "truncate"
          /\ UNCHANGED <<w, since, outcome>>
     ELSE EndRun("SourceChanged")
  /\ UNCHANGED <<source, disk, sealed, budget>>

MutAuthenticates(file, c) ==
  LET chunk == file.chunks[c.committed] IN
  /\ chunk.epoch = c.epoch /\ c.epoch = file.hdr
  /\ chunk.index = c.committed
  /\ ~chunk.last

\* The last committed chunk, under the checkpoint's key and the file's header.
Authenticates(file, c) ==
  LET chunk == file.chunks[c.committed] IN
  /\ chunk.epoch = c.epoch /\ c.epoch = file.hdr
  /\ chunk.index = c.committed - 1
  /\ ~chunk.last

VerifyAndTruncate ==
  /\ pc = "truncate"
  /\ IF /\ Len(out.chunks) >= ck.committed
        /\ ck.committed > 0 => Authenticates(out, ck)
     THEN /\ out' = [out EXCEPT !.chunks = SubSeq(@, 1, ck.committed),
                                !.junk = FALSE]
          /\ synced' = Min2(synced, 1 + ck.committed)
          /\ w' = [epoch |-> ck.epoch, counter |-> ck.committed, buf |-> <<>>]
          /\ pc' = "reopen"
          /\ UNCHANGED <<hashed, pos, since, outcome>>
     ELSE EndRun("CheckpointInvalid") /\ UNCHANGED <<out, synced>>
  /\ UNCHANGED <<source, ck, ckDisk, sealed, budget>>

ReopenSource ==
  /\ pc = "reopen"
  /\ pc' = "loop"
  /\ UNCHANGED <<source, disk, run, outcome, sealed, budget>>

-----------------------------------------------------------------------------
(* The main loop. *)

\* fill_or_eof: up to ChunkSize bytes, fewer only at the end of the file.
NextRead == SubSeq(source, pos + 1, Min2(pos + ChunkSize, Len(source)))

\* write_all on the writer: at most one chunk fills, the rest stays buffered.
Filled     == w.buf \o NextRead
FullChunk  == Seal(w, SubSeq(Filled, 1, ChunkSize), FALSE)
Leftover   == SubSeq(Filled, ChunkSize + 1, Len(Filled))
ChunkFills == Len(Filled) >= ChunkSize

EncryptNext ==
  /\ pc = "loop"
  /\ NextRead # <<>>
  /\ IF ChunkFills
     THEN /\ out' = Write(out, FullChunk)
          /\ sealed' = sealed \cup {FullChunk}
          /\ w' = [w EXCEPT !.counter = @ + 1, !.buf = Leftover]
     ELSE /\ w' = [w EXCEPT !.buf = Filled]
          /\ UNCHANGED <<out, sealed>>
  /\ hashed' = hashed \o NextRead
  /\ pos' = pos + Len(NextRead)
  /\ since' = IF Len(NextRead) = ChunkSize THEN since + ChunkSize ELSE since
  /\ pc' = IF Len(NextRead) = ChunkSize /\ since + ChunkSize >= Interval
           THEN "sync" ELSE "loop"
  /\ UNCHANGED <<source, synced, ck, ckDisk, outcome, budget>>

MutNoSync ==
  /\ pc = "sync"
  /\ pc' = "ckpt"
  /\ UNCHANGED <<source, disk, run, outcome, sealed, budget>>

SyncData ==
  /\ pc = "sync"
  /\ synced' = 1 + Len(out.chunks)
  /\ pc' = "ckpt"
  /\ UNCHANGED <<source, out, ck, ckDisk, run, outcome, sealed, budget>>

\* write_private_file up to its rename; the temporary file is fsynced first.
RenameCheckpoint ==
  /\ pc = "ckpt"
  /\ ck' = [epoch |-> w.epoch, committed |-> w.counter, prefix |-> hashed]
  /\ pc' = "dirsync"
  /\ UNCHANGED <<source, out, synced, ckDisk, run, outcome, sealed, budget>>

\* The directory fsync that ends AtomicOutput::commit.  For a bare file name
\* the parent is the empty path, opening it fails, and the run gives up.
FsyncDirectory ==
  /\ pc = "dirsync"
  /\ ~BareName
  /\ ckDisk' = ck
  /\ since' = 0
  /\ pc' = "loop"
  /\ UNCHANGED <<source, out, synced, ck, w, hashed, pos, outcome, sealed,
                 budget>>

OpenBareParent ==
  /\ pc = "dirsync"
  /\ BareName
  /\ DropWriter(out, w.buf)
  /\ EndRun("Io")
  /\ UNCHANGED <<source, synced, ck, ckDisk, budget>>

EndOfSource ==
  /\ pc = "loop"
  /\ NextRead = <<>>
  /\ pc' = "finish"
  /\ UNCHANGED <<source, disk, run, outcome, sealed, budget>>

\* finish: seals what is buffered, possibly nothing; a File's flush is a no-op.
Finish ==
  /\ pc = "finish"
  /\ LET final == Seal(w, w.buf, TRUE) IN
     out' = Write(out, final) /\ sealed' = sealed \cup {final}
  /\ pc' = "cleanup"
  /\ UNCHANGED <<source, synced, ck, ckDisk, run, outcome, budget>>

\* remove_file: its result is ignored, and its effect is not yet durable.
RemoveCheckpoint ==
  /\ pc = "cleanup"
  /\ ck' \in {NoCheckpoint, ck}
  /\ EndRun("ok")
  /\ UNCHANGED <<source, out, synced, ckDisk, sealed, budget>>

-----------------------------------------------------------------------------
(* Failures. *)

Fault == faults < MaxFaults /\ faults' = faults + 1 /\ UNCHANGED <<runs, edits>>

\* An error before a writer exists: nothing is dropped.
EarlyError ==
  /\ Fault
  /\ pc \in {"header", "hash", "truncate"}
  /\ EndRun("Io")
  /\ UNCHANGED <<source, disk, sealed>>

\* A failed read, fsync or checkpoint write: the writer is dropped.
IoError ==
  /\ Fault
  /\ pc \in WriterPcs
  /\ DropWriter(out, w.buf)
  /\ EndRun("Io")
  /\ UNCHANGED <<source, synced, ck, ckDisk>>

\* A failed chunk write: the buffer was encrypted in place before the write
\* and still holds that ciphertext when the writer is dropped.
WriteError ==
  /\ Fault
  /\ \/ pc = "loop" /\ NextRead # <<>> /\ ChunkFills
     \/ pc = "finish"
  /\ LET tried == IF pc = "loop" THEN FullChunk ELSE Seal(w, w.buf, TRUE)
         final == Seal(w, IF tried.pt = <<>> THEN <<>> ELSE <<Scrambled>>, TRUE)
     IN /\ \/ UNCHANGED out
           \/ out' = [out EXCEPT !.junk = TRUE]
           \/ Release /\ out' = Write(out, final)
        /\ sealed' = sealed \cup {tried}
                            \cup (IF Release THEN {final} ELSE {})
  /\ EndRun("Io")
  /\ UNCHANGED <<source, synced, ck, ckDisk>>

\* The process dies without running destructors, perhaps inside a write.
Kill ==
  /\ Fault
  /\ pc # "idle"
  /\ \/ UNCHANGED out
     \/ pc \in {"loop", "finish"} /\ out' = [out EXCEPT !.junk = TRUE]
  /\ EndRun("killed")
  /\ UNCHANGED <<source, synced, ck, ckDisk, sealed>>

\* The machine loses power, during a run or after one: what was not synced
\* survives up to some point, and the sidecar is its new or its old entry.
PowerLoss ==
  /\ Fault
  /\ \E keep \in synced .. Items(out), junk \in BOOLEAN :
       /\ keep = Items(out) => junk = out.junk
       /\ out' = [out EXCEPT !.hdr = IF keep = 0 THEN 0 ELSE @,
                             !.chunks = SubSeq(@, 1, keep - 1),
                             !.junk = junk]
       /\ synced' = keep
  /\ ck' \in {ck, ckDisk}
  /\ ckDisk' = ck'
  /\ IF pc = "idle" THEN UNCHANGED <<pc, run, outcome>> ELSE EndRun("killed")
  /\ UNCHANGED <<source, sealed>>

EditSource ==
  /\ edits < MaxEdits
  /\ pc \in EditPcs
  /\ source' \in Sources \ {source}
  /\ edits' = edits + 1
  /\ UNCHANGED <<disk, pc, run, outcome, sealed, runs, faults>>

-----------------------------------------------------------------------------
Init ==
  /\ source \in Sources
  /\ out = NoFile /\ synced = 0
  /\ ck = NoCheckpoint /\ ckDisk = NoCheckpoint
  /\ pc = "idle" /\ outcome = "none"
  /\ w = NoWriter /\ hashed = <<>> /\ pos = 0 /\ since = 0
  /\ sealed = {}
  /\ runs = 0 /\ faults = 0 /\ edits = 0

Rerun == StartFresh(TRUE) \/ ReadCheckpoint

Step ==
  \/ WriteHeader \/ HashPrefix \/ VerifyAndTruncate \/ ReopenSource
  \/ EncryptNext \/ SyncData \/ RenameCheckpoint \/ FsyncDirectory
  \/ OpenBareParent \/ EndOfSource \/ Finish \/ RemoveCheckpoint

Next ==
  \/ RefuseOverwrite \/ StartFresh(FALSE) \/ Rerun \/ Step
  \/ EarlyError \/ IoError \/ WriteError \/ Kill \/ PowerLoss
  \/ EditSource

Spec == Init /\ [][Next]_vars

\* The process is scheduled while it runs, and the user reruns the command
\* until it has succeeded once.
FairSpec ==
  Spec /\ WF_vars(Step) /\ WF_vars(Rerun /\ outcome # "ok")
-----------------------------------------------------------------------------
(* Properties. *)

Text == Seq(Byte \cup {Scrambled})

Chunk == [epoch : Nat, index : Nat, pt : Text, last : BOOLEAN]

Checkpoint == [epoch : Nat, committed : Nat, prefix : Seq(Byte)]

\* Every variable of the resume machinery stays in its type.
TypeOK ==
  /\ source \in Seq(Byte)
  /\ out \in [exists : BOOLEAN, hdr : Nat, chunks : Seq(Chunk), junk : BOOLEAN]
  /\ synced \in Nat
  /\ ck \in Checkpoint /\ ckDisk \in Checkpoint
  /\ pc \in Pcs
  /\ w \in [epoch : Nat, counter : Nat, buf : Seq(Byte)]
  /\ hashed \in Seq(Byte) /\ pos \in Nat /\ since \in Nat
  /\ sealed \in SUBSET Chunk
  /\ runs \in Nat /\ faults \in Nat /\ edits \in Nat

\* What sync_data's contract asks for (writer.rs): a checkpoint of the
\* session in the file never counts a chunk that a power loss could take,
\* whichever of the sidecar's two directory entries survives.
Covered(c) ==
  c.epoch # 0 /\ c.epoch = out.hdr => c.committed < synced

CheckpointDurable == Covered(ck) /\ Covered(ckDisk)

(* Why it holds: an inductive invariant that implies it. *)

\* Only what exists is synced, and no epoch comes from a run yet to come.
SyncedExists == synced <= Items(out)
EpochsDrawn  == out.hdr <= runs /\ ck.epoch <= runs /\ ckDisk.epoch <= runs

\* A fresh run works on an empty file, under an epoch no checkpoint names.
FreshFile ==
  pc = "header" =>
    /\ out.hdr = 0 /\ out.chunks = <<>> /\ ~out.junk
    /\ ck.epoch < runs /\ ckDisk.epoch < runs

\* A checkpoint counts at least one chunk, and a resumed run has one.
ChunksCounted ==
  /\ ck = NoCheckpoint \/ ck.committed > 0
  /\ ckDisk = NoCheckpoint \/ ckDisk.committed > 0
  /\ pc \in {"hash", "truncate"} => ck.committed > 0 /\ out.hdr # 0
  /\ pc \in {"sync", "ckpt", "dirsync"} => w.counter > 0

\* The writer's counter is the number of chunks in its file.
WriterInStep ==
  pc \in WriterPcs \cup {"finish"} =>
    /\ w.epoch = out.hdr /\ out.hdr # 0
    /\ ~out.junk /\ Len(out.chunks) = w.counter

\* The checkpoint about to be written counts exactly what was just synced,
\* and never less than the durable checkpoint of the same session.
SyncedFirst == pc = "ckpt" => synced = 1 + w.counter
Monotonic   ==
  ck.epoch # 0 /\ ck.epoch = ckDisk.epoch => ckDisk.committed <= ck.committed

DurableInv ==
  /\ TypeOK /\ SyncedExists /\ EpochsDrawn /\ FreshFile /\ ChunksCounted
  /\ WriterInStep /\ SyncedFirst /\ Monotonic /\ CheckpointDurable

\* What one uninterrupted PqfWriter pass over text seals under epoch e.
OnePass(e, text) ==
  LET full == Len(text) \div ChunkSize IN
  [i \in 1 .. full + 1 |->
     [epoch |-> e, index |-> i - 1,
      pt |-> SubSeq(text, (i - 1) * ChunkSize + 1,
                    Min2(i * ChunkSize, Len(text))),
      last |-> i = full + 1]]

\* The final chunk is there, so a decryptor accepts the file as whole.
Complete(file) ==
  /\ file.chunks # <<>> /\ ~file.junk
  /\ file.chunks[Len(file.chunks)].last

\* A run that gets to the end has produced, however many runs it took, the
\* file one uninterrupted pass over the text it hashed would have produced.
FinishedIsOnePass ==
  pc = "cleanup" => /\ ~out.junk
                    /\ out.chunks = OnePass(out.hdr, hashed)

\* If the source is only rewritten between runs, a finished file encrypts
\* the source as it now is: two versions are never spliced together.
FinishedIsSource ==
  pc = "cleanup" => out.chunks = OnePass(out.hdr, source)

\* A file a decryptor accepts as whole holds the whole source (for a source
\* nobody rewrites): a stopped run leaves a file that is visibly truncated.
WholeIfAccepted ==
  Complete(out) => out.chunks = OnePass(out.hdr, source)

\* Resuming seals again what an interrupted run had sealed past its last
\* checkpoint, and seals it identically.
ReproducedIdentically ==
  \A x, y \in sealed :
    x.epoch = y.epoch /\ x.index = y.index => x = y

\* A checkpoint is refused only when it belongs to another session than the
\* file's; the pair a crash of this code leaves behind is always accepted.
OwnCheckpointAccepted ==
  outcome = "CheckpointInvalid" => ck.epoch # out.hdr

\* What resuming owes to the user: a run that gets to the end leaves the
\* source as it now is, and no pair this code left behind is refused.
ResumedWell == FinishedIsSource /\ OwnCheckpointAccepted

\* A user who reruns the command until it succeeds gets a finished file: no
\* crash leaves a checkpoint and an output that every later run refuses.
EventuallyFinished == <>(outcome = "ok")

\* Progress seen from outside: a session's durable checkpoint is a floor
\* under what any later failure can take away.
Saved(c) == IF c.epoch # 0 /\ c.epoch = out.hdr THEN c.committed ELSE 0

Progress == INSTANCE SavedProgress
  WITH n <- Len(out.chunks),
       saved <- Min2(Saved(ck), Saved(ckDisk)),
       complete <- Complete(out)

ProgressIsKept == Progress!Spec
=============================================================================
