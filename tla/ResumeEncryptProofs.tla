------------------------- MODULE ResumeEncryptProofs -------------------------
(***************************************************************************)
(* Machine-checked facts about ResumeEncrypt, for every chunk size,        *)
(* checkpoint interval, set of sources and number of runs and faults.      *)
(***************************************************************************)
EXTENDS ResumeEncrypt, SequenceTheorems, TLAPS

(* A cut of a sequence stays within its type, and a prefix has its length. *)
LEMMA CutOfSequence ==
  ASSUME NEW S, NEW s \in Seq(S), NEW m \in Nat \ {0}, NEW n \in Int,
         n <= Len(s)
  PROVE  SubSeq(s, m, n) \in Seq(S)
<1>1. \A i \in m .. n : s[i] \in S
  BY ElementOfSeq, LenProperties
<1> QED BY <1>1, SubSeqProperties

(* A prefix, perhaps empty, is of the same type, and as long as it was cut. *)
LEMMA PrefixOfSequence ==
  ASSUME NEW S, NEW s \in Seq(S), NEW n \in Int, -1 <= n, n <= Len(s)
  PROVE  /\ SubSeq(s, 1, n) \in Seq(S)
         /\ Len(SubSeq(s, 1, n)) = IF n < 0 THEN 0 ELSE n
<1>1. \A i \in 1 .. n : s[i] \in S
  BY ElementOfSeq, LenProperties
<1>2. /\ SubSeq(s, 1, n) \in Seq(S)
      /\ Len(SubSeq(s, 1, n)) = IF 1 <= n THEN n - 1 + 1 ELSE 0
  BY <1>1, SubSeqProperties
<1> QED BY <1>2

(* Every step of the loop reads, buffers and seals well-typed text. *)
LEMMA LoopTypes ==
  ASSUME TypeOK
  PROVE  /\ NextRead \in Seq(Byte)
         /\ Filled \in Seq(Byte)
         /\ Leftover \in Seq(Byte)
         /\ ChunkFills => FullChunk \in Chunk
<1>1. Len(source) \in Nat /\ pos \in Nat /\ ChunkSize \in Nat \ {0}
  BY LenProperties, ResumeAssumption DEF TypeOK
<1>2. NextRead \in Seq(Byte)
  <2>1. Min2(pos + ChunkSize, Len(source)) \in Int
        /\ Min2(pos + ChunkSize, Len(source)) <= Len(source)
    BY <1>1 DEF Min2
  <2> QED BY <1>1, <2>1, CutOfSequence DEF TypeOK, NextRead
<1>3. Filled \in Seq(Byte)
  BY <1>2, ConcatProperties DEF TypeOK, Filled
<1>4. Len(Filled) \in Nat
  BY <1>3, LenProperties
<1>5. Leftover \in Seq(Byte)
  BY <1>1, <1>3, <1>4, CutOfSequence DEF Leftover
<1>6. ASSUME ChunkFills PROVE FullChunk \in Chunk
  <2>1. SubSeq(Filled, 1, ChunkSize) \in Seq(Byte)
    BY <1>1, <1>3, <1>4, <1>6, CutOfSequence DEF ChunkFills
  <2>2. SubSeq(Filled, 1, ChunkSize) \in Text
    BY <2>1, SeqMonotonic DEF Text
  <2> QED BY <2>2 DEF FullChunk, Seal, Chunk, TypeOK
<1> QED BY <1>2, <1>3, <1>5, <1>6

(* Sealing a well-typed text gives a chunk, and writing one a file. *)
LEMMA SealTypes ==
  ASSUME TypeOK, NEW text \in Text, NEW last \in BOOLEAN
  PROVE  Seal(w, text, last) \in Chunk
BY DEF TypeOK, Seal, Chunk

File == [exists : BOOLEAN, hdr : Nat, chunks : Seq(Chunk), junk : BOOLEAN]

(* Appending a chunk to a well-typed file, or losing it behind junk. *)
LEMMA WriteTypes ==
  ASSUME NEW file \in File, NEW chunk \in Chunk
  PROVE  /\ Write(file, chunk) \in File
         /\ Write(file, chunk).hdr = file.hdr
         /\ Write(file, chunk).junk = file.junk
         /\ Len(file.chunks) \in Nat
         /\ Len(Write(file, chunk).chunks)
              = IF file.junk THEN Len(file.chunks) ELSE Len(file.chunks) + 1
<1>1. Append(file.chunks, chunk) \in Seq(Chunk)
      /\ Len(Append(file.chunks, chunk)) = Len(file.chunks) + 1
  BY AppendProperties DEF File
<1>2. Len(file.chunks) \in Nat
  BY LenProperties DEF File
<1> QED BY <1>1, <1>2 DEF File, Write

(* PqfWriter::drop leaves a well-typed file, and its header and its chunks. *)
LEMMA DropTypes ==
  ASSUME TypeOK, NEW text \in Text, DropWriter(out, text)
  PROVE  /\ out' \in File
         /\ sealed' \in SUBSET Chunk
         /\ out'.hdr = out.hdr
         /\ Len(out.chunks) \in Nat /\ Len(out'.chunks) \in Nat
         /\ Len(out'.chunks) >= Len(out.chunks)
<1> DEFINE final == Seal(w, text, TRUE)
<1>1. final \in Chunk
  BY SealTypes
<1>2. out \in File /\ sealed \in SUBSET Chunk
  BY DEF TypeOK, File
<1> HIDE DEF final
<1>3. /\ Write(out, final) \in File
      /\ Write(out, final).hdr = out.hdr
      /\ Len(out.chunks) \in Nat
      /\ Len(Write(out, final).chunks) >= Len(out.chunks)
  <2>1. /\ Write(out, final) \in File
        /\ Write(out, final).hdr = out.hdr
        /\ Len(out.chunks) \in Nat
        /\ Len(Write(out, final).chunks)
             = IF out.junk THEN Len(out.chunks) ELSE Len(out.chunks) + 1
    BY <1>1, <1>2, WriteTypes
  <2> QED BY <2>1
<1>4. Len(Write(out, final).chunks) \in Nat
  BY <1>3, LenProperties DEF File
<1>5. CASE Release
  <2>1. out' = Write(out, final) /\ sealed' = sealed \cup {final}
    BY <1>5 DEF DropWriter, final
  <2> QED BY <1>1, <1>2, <1>3, <1>4, <2>1
<1>6. CASE ~Release
  <2>1. out' = out /\ sealed' = sealed
    BY <1>6 DEF DropWriter
  <2> QED BY <1>2, <1>3, <2>1
<1> QED BY <1>5, <1>6

(* The same for a failed chunk write, which may also leave junk behind. *)
LEMMA WriteErrorTypes ==
  ASSUME TypeOK, WriteError
  PROVE  /\ out' \in File
         /\ sealed' \in SUBSET Chunk
         /\ out'.hdr = out.hdr
         /\ Len(out.chunks) \in Nat /\ Len(out'.chunks) \in Nat
         /\ Len(out'.chunks) >= Len(out.chunks)
<1> DEFINE tried == IF pc = "loop" THEN FullChunk ELSE Seal(w, w.buf, TRUE)
           text  == IF tried.pt = <<>> THEN <<>> ELSE <<Scrambled>>
           final == Seal(w, text, TRUE)
<1>1. tried \in Chunk
  <2>1. CASE pc = "loop"
    BY <2>1, LoopTypes DEF WriteError
  <2>2. CASE pc # "loop"
    <3>1. w.buf \in Text
      BY SeqMonotonic DEF TypeOK, Text
    <3> QED BY <2>2, <3>1, SealTypes
  <2> QED BY <2>1, <2>2
<1>2. text \in Text
  <2>1. Scrambled \in Byte \cup {Scrambled}
    OBVIOUS
  <2>2. <<Scrambled>> \in Text /\ <<>> \in Text
    BY <2>1, EmptySeq DEF Text
  <2> HIDE DEF tried
  <2> QED BY <2>2
<1>3. final \in Chunk
  <2> HIDE DEF text
  <2> QED BY <1>2, SealTypes
<1>4. out \in File /\ sealed \in SUBSET Chunk
  BY DEF TypeOK, File
<1>5. /\ \/ out' = out
         \/ out' = [out EXCEPT !.junk = TRUE]
         \/ out' = Write(out, final)
      /\ sealed' = sealed \cup {tried} \cup (IF Release THEN {final} ELSE {})
  BY DEF WriteError
<1> HIDE DEF tried, final
<1>6. sealed' \in SUBSET Chunk
  BY <1>1, <1>3, <1>4, <1>5
<1>7. /\ Write(out, final) \in File
      /\ Write(out, final).hdr = out.hdr
      /\ Len(out.chunks) \in Nat
      /\ Len(Write(out, final).chunks) >= Len(out.chunks)
  <2>1. /\ Write(out, final) \in File
        /\ Write(out, final).hdr = out.hdr
        /\ Len(out.chunks) \in Nat
        /\ Len(Write(out, final).chunks)
             = IF out.junk THEN Len(out.chunks) ELSE Len(out.chunks) + 1
    BY <1>3, <1>4, WriteTypes
  <2> QED BY <2>1
<1>8. Len(Write(out, final).chunks) \in Nat
  BY <1>7, LenProperties DEF File
<1>9. CASE out' = out
  BY <1>4, <1>6, <1>7, <1>9
<1>10. CASE out' = [out EXCEPT !.junk = TRUE]
  <2>1. out' \in File /\ out'.chunks = out.chunks /\ out'.hdr = out.hdr
    BY <1>4, <1>10 DEF File
  <2> QED BY <1>6, <1>7, <2>1
<1>11. CASE out' = Write(out, final)
  BY <1>6, <1>7, <1>8, <1>11
<1> QED BY <1>5, <1>9, <1>10, <1>11

-----------------------------------------------------------------------------
(* Type correctness. *)

(* The first state is well typed. *)
LEMMA InitType == Init => TypeOK
<1> SUFFICES ASSUME Init PROVE TypeOK
  OBVIOUS
<1>1. source \in Seq(Byte)
  BY ResumeAssumption DEF Init
<1>2. <<>> \in Seq(Byte) /\ <<>> \in Seq(Chunk)
  BY EmptySeq
<1> QED BY <1>1, <1>2
        DEF Init, TypeOK, NoFile, NoCheckpoint, NoWriter, Checkpoint, Pcs

(* Ending a run resets its variables to values of their types. *)
LEMMA EndRunType ==
  ASSUME NEW how, EndRun(how)
  PROVE  /\ pc' \in Pcs
         /\ w' \in [epoch : Nat, counter : Nat, buf : Seq(Byte)]
         /\ hashed' \in Seq(Byte) /\ pos' \in Nat /\ since' \in Nat
<1>1. <<>> \in Seq(Byte)
  BY EmptySeq
<1> QED BY <1>1 DEF EndRun, NoWriter, Pcs

(* Every action of the command and every failure keeps the types. *)
LEMMA StepType == TypeOK /\ [Next]_vars => TypeOK'
<1> SUFFICES ASSUME TypeOK, [Next]_vars PROVE TypeOK'
  OBVIOUS
<1> USE ResumeAssumption
<1>0. CASE UNCHANGED vars
  BY <1>0 DEF TypeOK, vars, disk, run, budget
<1>1. CASE RefuseOverwrite
  BY <1>1 DEF TypeOK, RefuseOverwrite, disk, run, budget
<1>2. ASSUME NEW force, StartFresh(force) PROVE TypeOK'
  <2>1. <<>> \in Seq(Chunk)
    BY EmptySeq
  <2>2. out' \in File
    BY <1>2, <2>1 DEF StartFresh, NoFile, File
  <2>3. UNCHANGED <<w, hashed, pos, since>> /\ pc' \in Pcs
    BY <1>2 DEF StartFresh, run, Pcs
  <2>4. synced' = 0 /\ runs' = runs + 1 /\ runs \in Nat
    <3>1. synced' = 0 /\ runs' = runs + 1
      BY <1>2 DEF StartFresh, NewRun
    <3> QED BY <3>1 DEF TypeOK
  <2>5. UNCHANGED <<source, ck, ckDisk, sealed, faults, edits>>
    BY <1>2 DEF StartFresh
  <2> QED BY <2>2, <2>3, <2>4, <2>5 DEF TypeOK, File
<1>3. CASE ReadCheckpoint
  BY <1>3 DEF TypeOK, ReadCheckpoint, NewRun, Pcs, disk, run
<1>4. CASE WriteHeader
  <2>1. <<>> \in Seq(Byte)
    BY EmptySeq
  <2> QED BY <1>4, <2>1
          DEF TypeOK, WriteHeader, NoWriter, Pcs, WriterPcs, budget
<1>5. CASE HashPrefix
  <2>1. CASE Len(source) >= ck.committed * ChunkSize
             /\ SubSeq(source, 1, ck.committed * ChunkSize) = ck.prefix
    <3>1. /\ hashed' = ck.prefix
          /\ pos' = ck.committed * ChunkSize
          /\ pc' = "truncate"
          /\ UNCHANGED <<w, since>>
      BY <1>5, <2>1 DEF HashPrefix
    <3>2. ck.committed * ChunkSize \in Nat
      BY DEF TypeOK, Checkpoint
    <3> QED BY <1>5, <3>1, <3>2
            DEF TypeOK, HashPrefix, Checkpoint, Pcs, disk, budget
  <2>2. CASE EndRun("SourceChanged")
    BY <1>5, <2>2, EndRunType DEF TypeOK, HashPrefix, disk, budget
  <2> QED BY <1>5, <2>1, <2>2 DEF HashPrefix
<1>6. CASE VerifyAndTruncate
  <2>1. CASE EndRun("CheckpointInvalid") /\ UNCHANGED <<out, synced>>
    BY <1>6, <2>1, EndRunType DEF TypeOK, VerifyAndTruncate, budget
  <2>2. CASE ~(EndRun("CheckpointInvalid") /\ UNCHANGED <<out, synced>>)
    <3>1. /\ Len(out.chunks) >= ck.committed
          /\ out' = [out EXCEPT !.chunks = SubSeq(@, 1, ck.committed),
                                !.junk = FALSE]
          /\ synced' = Min2(synced, 1 + ck.committed)
          /\ w' = [epoch |-> ck.epoch, counter |-> ck.committed, buf |-> <<>>]
          /\ pc' = "reopen"
          /\ UNCHANGED <<source, ck, ckDisk, hashed, pos, since, sealed, budget>>
      BY <1>6, <2>2 DEF VerifyAndTruncate
    <3>2. out.chunks \in Seq(Chunk) /\ ck.committed \in Nat /\ ck.epoch \in Nat
      BY DEF TypeOK, Checkpoint
    <3>3. SubSeq(out.chunks, 1, ck.committed) \in Seq(Chunk)
      BY <3>1, <3>2, PrefixOfSequence, LenProperties
    <3>4. out' \in File /\ synced' \in Nat
      <4>1. out' \in File
        BY <3>1, <3>3 DEF TypeOK, File
      <4>2. synced \in Nat
        BY DEF TypeOK
      <4>3. synced' = synced \/ synced' = 1 + ck.committed
        BY <3>1 DEF Min2
      <4> QED BY <3>2, <4>1, <4>2, <4>3
    <3>5. w' \in [epoch : Nat, counter : Nat, buf : Seq(Byte)]
      BY <3>1, <3>2, EmptySeq
    <3>6. pc' \in Pcs /\ UNCHANGED <<runs, faults, edits>>
      BY <3>1 DEF Pcs, WriterPcs, budget
    <3> QED BY <3>1, <3>4, <3>5, <3>6 DEF TypeOK, File
  <2> QED BY <2>1, <2>2
<1>7. CASE ReopenSource
  BY <1>7 DEF TypeOK, ReopenSource, Pcs, WriterPcs, disk, run, budget
<1>8. CASE EncryptNext
  <2>1. /\ hashed' = hashed \o NextRead
        /\ pos' = pos + Len(NextRead)
        /\ since' \in {since, since + ChunkSize}
        /\ pc' \in {"sync", "loop"}
        /\ UNCHANGED <<source, synced, ck, ckDisk, outcome, runs, faults, edits>>
    BY <1>8 DEF EncryptNext, budget
  <2>2. NextRead \in Seq(Byte) /\ Filled \in Seq(Byte) /\ Leftover \in Seq(Byte)
    BY LoopTypes
  <2>3. hashed' \in Seq(Byte) /\ pos' \in Nat
    BY <2>1, <2>2, ConcatProperties, LenProperties DEF TypeOK
  <2>4. since' \in Nat /\ pc' \in Pcs
    BY <2>1 DEF TypeOK, Pcs, WriterPcs
  <2>5. CASE ChunkFills
    <3>1. /\ out' = Write(out, FullChunk)
          /\ sealed' = sealed \cup {FullChunk}
          /\ w' = [w EXCEPT !.counter = @ + 1, !.buf = Leftover]
      BY <1>8, <2>5 DEF EncryptNext
    <3>2. FullChunk \in Chunk
      BY <2>5, LoopTypes
    <3>3. out' \in File
      BY <3>1, <3>2, WriteTypes DEF TypeOK, File
    <3>4. w' \in [epoch : Nat, counter : Nat, buf : Seq(Byte)]
      <4>1. w \in [epoch : Nat, counter : Nat, buf : Seq(Byte)]
        BY DEF TypeOK
      <4>2. w.counter + 1 \in Nat
        BY <4>1
      <4> QED BY <2>2, <3>1, <4>1, <4>2
    <3>5. sealed' \in SUBSET Chunk
      BY <3>1, <3>2 DEF TypeOK
    <3> QED BY <2>1, <2>3, <2>4, <3>3, <3>4, <3>5 DEF TypeOK, File
  <2>6. CASE ~ChunkFills
    <3>1. w' = [w EXCEPT !.buf = Filled] /\ UNCHANGED <<out, sealed>>
      BY <1>8, <2>6 DEF EncryptNext
    <3>2. w' \in [epoch : Nat, counter : Nat, buf : Seq(Byte)]
      BY <2>2, <3>1 DEF TypeOK
    <3> QED BY <2>1, <2>3, <2>4, <3>1, <3>2 DEF TypeOK
  <2> QED BY <2>5, <2>6
<1>9. CASE SyncData
  <2>1. Len(out.chunks) \in Nat
    BY LenProperties DEF TypeOK
  <2> QED BY <1>9, <2>1 DEF TypeOK, SyncData, Pcs, WriterPcs, run, budget
<1>10. CASE RenameCheckpoint
  BY <1>10
  DEF TypeOK, RenameCheckpoint, Checkpoint, Pcs, WriterPcs, run, budget
<1>11. CASE FsyncDirectory
  BY <1>11 DEF TypeOK, FsyncDirectory, Pcs, WriterPcs, budget
<1>12. CASE OpenBareParent
  <2>1. w.buf \in Text
    BY SeqMonotonic DEF TypeOK, Text
  <2>2. out' \in File /\ sealed' \in SUBSET Chunk
    BY <1>12, <2>1, DropTypes DEF OpenBareParent
  <2> QED BY <1>12, <2>2, EndRunType DEF TypeOK, OpenBareParent, File, budget
<1>13. CASE EndOfSource
  BY <1>13 DEF TypeOK, EndOfSource, Pcs, disk, run, budget
<1>14. CASE Finish
  <2> DEFINE final == Seal(w, w.buf, TRUE)
  <2>1. w.buf \in Text
    BY SeqMonotonic DEF TypeOK, Text
  <2>2. final \in Chunk
    BY <2>1, SealTypes
  <2>3. out' = Write(out, final) /\ sealed' = sealed \cup {final}
    BY <1>14 DEF Finish
  <2>4. out' \in File
    BY <2>2, <2>3, WriteTypes DEF TypeOK, File
  <2>5. sealed' \in SUBSET Chunk
    BY <2>2, <2>3 DEF TypeOK
  <2> QED BY <1>14, <2>4, <2>5 DEF TypeOK, Finish, File, Pcs, run, budget
<1>15. CASE RemoveCheckpoint
  <2>1. NoCheckpoint \in Checkpoint
    BY EmptySeq DEF NoCheckpoint, Checkpoint
  <2>2. ck' \in Checkpoint /\ UNCHANGED <<runs, faults, edits>>
    BY <1>15, <2>1 DEF TypeOK, RemoveCheckpoint, budget
  <2>3. EndRun("ok")
    BY <1>15 DEF RemoveCheckpoint
  <2> QED BY <1>15, <2>2, <2>3, EndRunType DEF TypeOK, RemoveCheckpoint
<1>16. CASE EarlyError
  BY <1>16, EndRunType DEF TypeOK, EarlyError, Fault, disk
<1>17. CASE IoError
  <2>1. w.buf \in Text
    BY SeqMonotonic DEF TypeOK, Text
  <2>2. out' \in File /\ sealed' \in SUBSET Chunk
    BY <1>17, <2>1, DropTypes DEF IoError
  <2> QED BY <1>17, <2>2, EndRunType DEF TypeOK, IoError, Fault, File
<1>18. CASE WriteError
  <2>1. out' \in File /\ sealed' \in SUBSET Chunk
    BY <1>18, WriteErrorTypes
  <2>2. EndRun("Io") /\ Fault /\ UNCHANGED <<source, synced, ck, ckDisk>>
    BY <1>18 DEF WriteError
  <2> QED BY <2>1, <2>2, EndRunType DEF TypeOK, Fault, File
<1>19. CASE Kill
  <2>1. /\ EndRun("killed") /\ Fault
        /\ UNCHANGED <<source, synced, ck, ckDisk, sealed>>
    BY <1>19 DEF Kill
  <2>2. out' \in File
    BY <1>19 DEF TypeOK, Kill, File
  <2> QED BY <2>1, <2>2, EndRunType DEF TypeOK, Fault, File
<1>20. CASE PowerLoss
  <2>1. PICK keep \in synced .. Items(out), junk \in BOOLEAN :
          /\ out' = [out EXCEPT !.hdr = IF keep = 0 THEN 0 ELSE @,
                                !.chunks = SubSeq(@, 1, keep - 1),
                                !.junk = junk]
          /\ synced' = keep
    BY <1>20 DEF PowerLoss
  <2>2. Len(out.chunks) \in Nat
    BY LenProperties DEF TypeOK
  <2>3. keep \in Nat /\ keep - 1 <= Len(out.chunks)
    BY <2>2 DEF TypeOK, Items
  <2>4. SubSeq(out.chunks, 1, keep - 1) \in Seq(Chunk)
    BY <2>3, PrefixOfSequence DEF TypeOK
  <2>5. out' \in File /\ synced' \in Nat
    BY <2>1, <2>3, <2>4 DEF TypeOK, File
  <2>6. /\ pc' \in Pcs
        /\ w' \in [epoch : Nat, counter : Nat, buf : Seq(Byte)]
        /\ hashed' \in Seq(Byte) /\ pos' \in Nat /\ since' \in Nat
    <3>1. CASE UNCHANGED <<pc, run>>
      BY <3>1 DEF TypeOK, run
    <3>2. CASE EndRun("killed")
      BY <3>2, EndRunType
    <3> QED BY <1>20, <3>1, <3>2 DEF PowerLoss
  <2>7. Fault /\ ck' \in {ck, ckDisk} /\ ckDisk' = ck'
        /\ UNCHANGED <<source, sealed>>
    BY <1>20 DEF PowerLoss
  <2>8. ck' \in Checkpoint /\ ckDisk' \in Checkpoint
    BY <2>7 DEF TypeOK
  <2>9. runs' \in Nat /\ faults' \in Nat /\ edits' \in Nat
    BY <2>7 DEF TypeOK, Fault
  <2> QED BY <2>5, <2>6, <2>7, <2>8, <2>9 DEF TypeOK, File
<1>21. CASE EditSource
  BY <1>21 DEF TypeOK, EditSource, disk, run
<1> QED
  BY <1>0, <1>1, <1>2, <1>3, <1>4, <1>5, <1>6, <1>7, <1>8, <1>9, <1>10,
     <1>11, <1>12, <1>13, <1>14, <1>15, <1>16, <1>17, <1>18, <1>19, <1>20,
     <1>21
  DEF Next, Rerun, Step

(* Every variable keeps its type, whatever the sources, the sizes and the   *)
(* bounds on runs, faults and edits.                                        *)
THEOREM TypeCorrect == Spec => []TypeOK
BY InitType, StepType, PTL DEF Spec

-----------------------------------------------------------------------------
(* Checkpoints are durable. *)

(* Before the first run there is no file and no checkpoint to cover. *)
LEMMA InitDurable == Init => DurableInv
<1> SUFFICES ASSUME Init PROVE DurableInv
  OBVIOUS
<1>1. TypeOK
  BY InitType
<1>2. /\ out.hdr = 0 /\ synced = 0 /\ pc = "idle" /\ runs = 0
      /\ ck = NoCheckpoint /\ ckDisk = NoCheckpoint
      /\ ck.epoch = 0 /\ ckDisk.epoch = 0
  BY DEF Init, NoFile, NoCheckpoint
<1>3. SyncedExists /\ EpochsDrawn /\ Monotonic
  BY <1>2 DEF SyncedExists, Items, EpochsDrawn, Monotonic
<1>4. FreshFile /\ ChunksCounted /\ WriterInStep /\ SyncedFirst
  BY <1>2 DEF FreshFile, ChunksCounted, WriterInStep, SyncedFirst, WriterPcs
<1>5. CheckpointDurable
  BY <1>2 DEF CheckpointDurable, Covered
<1> QED BY <1>1, <1>3, <1>4, <1>5 DEF DurableInv

(* The parts of the type invariant the arithmetic below needs. *)
LEMMA DurableNumbers ==
  ASSUME TypeOK
  PROVE  /\ out.hdr \in Nat /\ Len(out.chunks) \in Nat /\ synced \in Nat
         /\ ck.epoch \in Nat /\ ck.committed \in Nat
         /\ ckDisk.epoch \in Nat /\ ckDisk.committed \in Nat
         /\ w.epoch \in Nat /\ w.counter \in Nat /\ runs \in Nat
         /\ out.chunks \in Seq(Chunk)
<1>1. out.chunks \in Seq(Chunk)
  BY DEF TypeOK
<1>2. Len(out.chunks) \in Nat
  BY <1>1, LenProperties
<1> QED BY <1>1, <1>2 DEF TypeOK, Checkpoint

(* A run that stops without shortening its file keeps every guarantee. *)
LEMMA StopKeepsDurable ==
  ASSUME DurableInv, TypeOK', NEW how, EndRun(how),
         UNCHANGED <<synced, ck, ckDisk, runs>>,
         out'.hdr = out.hdr,
         Len(out'.chunks) \in Nat, Len(out'.chunks) >= Len(out.chunks)
  PROVE  DurableInv'
<1>1. pc' = "idle"
  BY DEF EndRun
<1>2. TypeOK
  BY DEF DurableInv
<1>3. SyncedExists'
  BY <1>2, DurableNumbers DEF DurableInv, SyncedExists, Items
<1>4. EpochsDrawn' /\ Monotonic' /\ CheckpointDurable'
  BY DEF DurableInv, EpochsDrawn, Monotonic, CheckpointDurable, Covered
<1>5. FreshFile' /\ WriterInStep' /\ SyncedFirst'
  BY <1>1 DEF FreshFile, WriterInStep, SyncedFirst, WriterPcs
<1>6. ChunksCounted'
  BY <1>1 DEF DurableInv, ChunksCounted, NoCheckpoint
<1> QED BY <1>3, <1>4, <1>5, <1>6 DEF DurableInv

(* A step that only moves the program counter, among points of a run that *)
(* ask for nothing more, or changes state the guarantees do not mention.  *)
LEMMA QuietKeepsDurable ==
  ASSUME DurableInv, TypeOK', UNCHANGED <<disk, w, runs>>,
         \/ UNCHANGED pc
         \/ pc' \in {"idle", "cleanup"}
         \/ /\ pc \in WriterPcs
            /\ pc' \in {"loop", "finish"}
  PROVE  DurableInv'
<1>1. UNCHANGED <<out, synced, ck, ckDisk, w, runs>>
  BY DEF disk
<1>2. SyncedExists' /\ EpochsDrawn' /\ Monotonic' /\ CheckpointDurable'
  BY <1>1
  DEF DurableInv, SyncedExists, Items, EpochsDrawn, Monotonic,
      CheckpointDurable, Covered
<1>3. FreshFile' /\ ChunksCounted' /\ WriterInStep' /\ SyncedFirst'
  BY <1>1
  DEF DurableInv, FreshFile, ChunksCounted, WriterInStep, SyncedFirst,
      WriterPcs, NoCheckpoint
<1> QED BY <1>2, <1>3 DEF DurableInv

(* Starting: the file is empty, or the checkpoint's and longer than it. *)
LEMMA StartKeepsDurable ==
  ASSUME DurableInv, TypeOK',
         ReadCheckpoint \/ WriteHeader \/ \E force : StartFresh(force)
  PROVE  DurableInv'
<1> USE DEF DurableInv
<1>0. TypeOK
  OBVIOUS
<1>1. CASE \E force : StartFresh(force)
  <2>1. /\ out'.hdr = 0 /\ out'.chunks = <<>> /\ out'.junk = FALSE
        /\ synced' = 0 /\ pc' = "header" /\ runs' = runs + 1
        /\ ck' = ck /\ ckDisk' = ckDisk
    BY <1>1 DEF StartFresh, NewRun, NoFile
  <2>2. SyncedExists'
    BY <2>1 DEF SyncedExists, Items
  <2>3. EpochsDrawn' /\ FreshFile' /\ Monotonic'
    BY <1>0, <2>1, DurableNumbers DEF EpochsDrawn, FreshFile, Monotonic
  <2>4. ChunksCounted' /\ WriterInStep' /\ SyncedFirst'
    BY <2>1 DEF ChunksCounted, WriterInStep, SyncedFirst, WriterPcs, NoCheckpoint
  <2>5. CheckpointDurable'
    BY <2>1 DEF CheckpointDurable, Covered
  <2> QED BY <2>2, <2>3, <2>4, <2>5
<1>2. CASE ReadCheckpoint
  <2>1. /\ out' = out /\ synced' = synced /\ runs' = runs + 1
        /\ ck' = ck /\ ckDisk' = ckDisk /\ ck # NoCheckpoint
        /\ pc' = "idle" \/ (pc' = "hash" /\ out.hdr # 0)
    BY <1>2 DEF ReadCheckpoint, NewRun, disk
  <2>2. SyncedExists' /\ Monotonic' /\ CheckpointDurable'
    BY <2>1 DEF SyncedExists, Items, Monotonic, CheckpointDurable, Covered
  <2>3. EpochsDrawn'
    BY <1>0, <2>1, DurableNumbers DEF EpochsDrawn
  <2>4. FreshFile' /\ WriterInStep' /\ SyncedFirst'
    BY <2>1 DEF FreshFile, WriterInStep, SyncedFirst, WriterPcs
  <2>5. ChunksCounted'
    BY <2>1 DEF ChunksCounted, NoCheckpoint
  <2> QED BY <2>2, <2>3, <2>4, <2>5
<1>3. CASE WriteHeader
  <2>1. /\ pc = "header" /\ pc' = "reopen"
        /\ out' = [out EXCEPT !.hdr = runs]
        /\ w' = [NoWriter EXCEPT !.epoch = runs]
        /\ UNCHANGED <<synced, ck, ckDisk, runs>>
    BY <1>3 DEF WriteHeader, budget
  <2>2. /\ out'.hdr = runs /\ out'.chunks = <<>> /\ out'.junk = out.junk
        /\ ~out.junk /\ out.hdr = 0
        /\ w'.epoch = runs /\ w'.counter = 0
        /\ ck.epoch < runs /\ ckDisk.epoch < runs
    BY <1>0, <2>1 DEF TypeOK, FreshFile, NoWriter
  <2>3. Len(out'.chunks) = 0
    BY <2>2
  <2>4. SyncedExists'
    BY <1>0, <2>1, <2>2, <2>3, DurableNumbers DEF SyncedExists, Items
  <2>5. EpochsDrawn' /\ CheckpointDurable'
    BY <1>0, <2>1, <2>2, DurableNumbers DEF EpochsDrawn, CheckpointDurable, Covered
  <2>6. WriterInStep'
    BY <1>0, <2>1, <2>2, <2>3, DurableNumbers DEF WriterInStep
  <2>7. FreshFile' /\ SyncedFirst' /\ ChunksCounted' /\ Monotonic'
    BY <2>1 DEF FreshFile, SyncedFirst, ChunksCounted, Monotonic, NoCheckpoint
  <2> QED BY <2>4, <2>5, <2>6, <2>7
<1> QED BY <1>1, <1>2, <1>3

(* Resuming cuts the file back to the checkpoint, but never below a durable *)
(* checkpoint of the same session.                                          *)
LEMMA TruncateKeepsDurable ==
  ASSUME DurableInv, TypeOK', VerifyAndTruncate
  PROVE  DurableInv'
<1> USE DEF DurableInv
<1>0. TypeOK
  OBVIOUS
<1>1. UNCHANGED <<ck, ckDisk, runs>>
  BY DEF VerifyAndTruncate, budget
<1>2. CASE EndRun("CheckpointInvalid") /\ UNCHANGED <<out, synced>>
  BY <1>0, <1>1, <1>2, DurableNumbers, StopKeepsDurable
<1>3. CASE ~(EndRun("CheckpointInvalid") /\ UNCHANGED <<out, synced>>)
  <2>1. /\ Len(out.chunks) >= ck.committed
        /\ ck.committed > 0 => Authenticates(out, ck)
        /\ out' = [out EXCEPT !.chunks = SubSeq(@, 1, ck.committed),
                              !.junk = FALSE]
        /\ synced' = Min2(synced, 1 + ck.committed)
        /\ w' = [epoch |-> ck.epoch, counter |-> ck.committed, buf |-> <<>>]
        /\ pc = "truncate" /\ pc' = "reopen"
    BY <1>3 DEF VerifyAndTruncate
  <2>2. ck.committed > 0 /\ ck.epoch = out.hdr /\ out.hdr # 0
    BY <2>1 DEF ChunksCounted, Authenticates
  <2>3. /\ out'.hdr = out.hdr /\ ~out'.junk
        /\ out'.chunks = SubSeq(out.chunks, 1, ck.committed)
    BY <1>0, <2>1 DEF TypeOK
  <2>4. Len(out'.chunks) = ck.committed
    <3>1. /\ out.chunks \in Seq(Chunk) /\ ck.committed \in Nat
          /\ ck.committed <= Len(out.chunks)
      BY <1>0, <2>1, DurableNumbers
    <3>2. Len(SubSeq(out.chunks, 1, ck.committed)) = ck.committed
      BY <3>1, PrefixOfSequence
    <3> QED BY <2>3, <3>2
  <2>5. synced > ck.committed /\ synced' = 1 + ck.committed
    BY <1>0, <2>1, <2>2, DurableNumbers DEF CheckpointDurable, Covered, Min2
  <2>6. SyncedExists'
    BY <1>0, <2>2, <2>3, <2>4, <2>5, DurableNumbers DEF SyncedExists, Items
  <2>7. CheckpointDurable'
    <3>1. Covered(ck)'
      BY <1>0, <1>1, <2>5, DurableNumbers DEF Covered
    <3>2. Covered(ckDisk)'
      BY <1>0, <1>1, <2>2, <2>3, <2>5, DurableNumbers DEF Covered, Monotonic
    <3> QED BY <3>1, <3>2 DEF CheckpointDurable
  <2>8. WriterInStep'
    BY <2>1, <2>2, <2>3, <2>4 DEF WriterInStep
  <2>9. EpochsDrawn' /\ Monotonic'
    BY <1>1, <2>3 DEF EpochsDrawn, Monotonic
  <2>10. FreshFile' /\ SyncedFirst' /\ ChunksCounted'
    BY <1>1, <2>1 DEF FreshFile, SyncedFirst, ChunksCounted, NoCheckpoint
  <2> QED BY <2>6, <2>7, <2>8, <2>9, <2>10
<1> QED BY <1>2, <1>3

(* A chunk goes into the file and onto the counter together, and a *)
(* checkpoint is due only after a whole one.                       *)
LEMMA EncryptKeepsDurable ==
  ASSUME DurableInv, TypeOK', EncryptNext
  PROVE  DurableInv'
<1> USE DEF DurableInv
<1>0. TypeOK
  OBVIOUS
<1>1. /\ UNCHANGED <<synced, ck, ckDisk, runs>>
      /\ pc = "loop" /\ pc' \in {"loop", "sync"}
      /\ pc' = "sync" => Len(NextRead) = ChunkSize
  BY DEF EncryptNext, budget
<1>2. pc' = "sync" => ChunkFills
  <2>1. NextRead \in Seq(Byte) /\ w.buf \in Seq(Byte)
    BY <1>0, LoopTypes DEF TypeOK
  <2>2. Len(Filled) = Len(w.buf) + Len(NextRead)
        /\ Len(w.buf) \in Nat /\ Len(NextRead) \in Nat
    BY <2>1, ConcatProperties, LenProperties DEF Filled
  <2> QED BY <1>1, <2>2 DEF ChunkFills
<1>3. /\ w.epoch = out.hdr /\ out.hdr # 0
      /\ ~out.junk /\ Len(out.chunks) = w.counter
  BY <1>1 DEF WriterInStep, WriterPcs
<1>4. /\ out'.hdr = out.hdr /\ ~out'.junk /\ w'.epoch = w.epoch
      /\ Len(out'.chunks) = w'.counter
      /\ w'.counter >= w.counter /\ w'.counter \in Nat
      /\ pc' = "sync" => w'.counter > 0
  <2>1. CASE ChunkFills
    <3>1. /\ out' = Write(out, FullChunk)
          /\ w' = [w EXCEPT !.counter = @ + 1, !.buf = Leftover]
      BY <2>1 DEF EncryptNext
    <3>2. out \in File /\ FullChunk \in Chunk
      BY <1>0, <2>1, LoopTypes DEF TypeOK, File
    <3>3. /\ out'.hdr = out.hdr /\ out'.junk = out.junk
          /\ Len(out'.chunks) = Len(out.chunks) + 1
      BY <1>3, <3>1, <3>2, WriteTypes
    <3>4. w'.counter = w.counter + 1 /\ w'.epoch = w.epoch
      BY <1>0, <3>1 DEF TypeOK
    <3> QED BY <1>0, <1>3, <3>3, <3>4, DurableNumbers
  <2>2. CASE ~ChunkFills
    <3>1. out' = out /\ w' = [w EXCEPT !.buf = Filled]
      BY <2>2 DEF EncryptNext
    <3>2. w'.counter = w.counter /\ w'.epoch = w.epoch
      BY <1>0, <3>1 DEF TypeOK
    <3> QED BY <1>0, <1>2, <1>3, <2>2, <3>1, <3>2, DurableNumbers
  <2> QED BY <2>1, <2>2
<1>5. SyncedExists'
  BY <1>0, <1>1, <1>3, <1>4, DurableNumbers DEF SyncedExists, Items
<1>6. WriterInStep'
  BY <1>3, <1>4 DEF WriterInStep
<1>7. ChunksCounted'
  BY <1>1, <1>4 DEF ChunksCounted, NoCheckpoint
<1>8. EpochsDrawn' /\ Monotonic' /\ CheckpointDurable'
  BY <1>1, <1>4 DEF EpochsDrawn, Monotonic, CheckpointDurable, Covered
<1>9. FreshFile' /\ SyncedFirst'
  BY <1>1 DEF FreshFile, SyncedFirst
<1> QED BY <1>5, <1>6, <1>7, <1>8, <1>9

(* The checkpoint protocol: fsync the output, replace the sidecar, fsync *)
(* the directory, in this order.                                         *)
LEMMA CheckpointKeepsDurable ==
  ASSUME DurableInv, TypeOK', SyncData \/ RenameCheckpoint \/ FsyncDirectory
  PROVE  DurableInv'
<1> USE DEF DurableInv
<1>0. TypeOK
  OBVIOUS
<1>1. CASE SyncData
  <2>1. /\ synced' = 1 + Len(out.chunks) /\ pc = "sync" /\ pc' = "ckpt"
        /\ UNCHANGED <<out, ck, ckDisk, w, runs>>
    BY <1>1 DEF SyncData, run, budget
  <2>2. out.hdr # 0 /\ Len(out.chunks) = w.counter
    BY <2>1 DEF WriterInStep, WriterPcs
  <2>3. synced <= synced' /\ synced' = Items(out')
    BY <1>0, <2>1, <2>2, DurableNumbers DEF SyncedExists, Items
  <2>4. SyncedExists'
    BY <1>0, <2>1, <2>3, DurableNumbers DEF SyncedExists
  <2>5. CheckpointDurable'
    BY <1>0, <2>1, <2>3, DurableNumbers DEF CheckpointDurable, Covered
  <2>6. SyncedFirst'
    BY <2>1, <2>2 DEF SyncedFirst
  <2>7. EpochsDrawn' /\ FreshFile' /\ Monotonic'
    BY <2>1 DEF EpochsDrawn, FreshFile, Monotonic
  <2>8. ChunksCounted' /\ WriterInStep'
    BY <2>1 DEF ChunksCounted, WriterInStep, WriterPcs, NoCheckpoint
  <2> QED BY <2>4, <2>5, <2>6, <2>7, <2>8
<1>2. CASE RenameCheckpoint
  <2>1. /\ ck' = [epoch |-> w.epoch, committed |-> w.counter,
                  prefix |-> hashed]
        /\ pc = "ckpt" /\ pc' = "dirsync"
        /\ UNCHANGED <<out, synced, ckDisk, w, runs>>
    BY <1>2 DEF RenameCheckpoint, run, budget
  <2>2. /\ ck'.epoch = w.epoch /\ ck'.committed = w.counter
        /\ w.epoch = out.hdr /\ synced = 1 + w.counter /\ w.counter > 0
    BY <2>1 DEF WriterInStep, WriterPcs, SyncedFirst, ChunksCounted
  <2>3. CheckpointDurable' /\ EpochsDrawn'
    BY <1>0, <2>1, <2>2, DurableNumbers
    DEF CheckpointDurable, Covered, EpochsDrawn
  <2>4. Monotonic'
    BY <1>0, <2>1, <2>2, DurableNumbers DEF Monotonic, CheckpointDurable, Covered
  <2>5. SyncedExists' /\ FreshFile' /\ SyncedFirst'
    BY <2>1 DEF SyncedExists, Items, FreshFile, SyncedFirst
  <2>6. ChunksCounted' /\ WriterInStep'
    BY <2>1, <2>2 DEF ChunksCounted, WriterInStep, WriterPcs, NoCheckpoint
  <2> QED BY <2>3, <2>4, <2>5, <2>6
<1>3. CASE FsyncDirectory
  <2>1. /\ ckDisk' = ck /\ pc = "dirsync" /\ pc' = "loop"
        /\ UNCHANGED <<out, synced, ck, w, runs>>
    BY <1>3 DEF FsyncDirectory, budget
  <2>2. CheckpointDurable' /\ EpochsDrawn'
    BY <2>1 DEF CheckpointDurable, Covered, EpochsDrawn
  <2>3. Monotonic'
    BY <1>0, <2>1, DurableNumbers DEF Monotonic
  <2>4. SyncedExists' /\ FreshFile' /\ SyncedFirst'
    BY <2>1 DEF SyncedExists, Items, FreshFile, SyncedFirst
  <2>5. ChunksCounted' /\ WriterInStep'
    BY <2>1 DEF ChunksCounted, WriterInStep, WriterPcs, NoCheckpoint
  <2> QED BY <2>2, <2>3, <2>4, <2>5
<1> QED BY <1>1, <1>2, <1>3

(* Ending well: the final chunk, then the checkpoint is removed. *)
LEMMA EndKeepsDurable ==
  ASSUME DurableInv, TypeOK', Finish \/ RemoveCheckpoint
  PROVE  DurableInv'
<1> USE DEF DurableInv
<1>0. TypeOK
  OBVIOUS
<1>1. CASE Finish
  <2> DEFINE final == Seal(w, w.buf, TRUE)
  <2>1. /\ out' = Write(out, final) /\ pc' = "cleanup"
        /\ UNCHANGED <<synced, ck, ckDisk, w, runs>>
    BY <1>1 DEF Finish, run, budget
  <2>2. w.buf \in Text
    BY <1>0, SeqMonotonic DEF TypeOK, Text
  <2>3. final \in Chunk /\ out \in File
    BY <1>0, <2>2, SealTypes DEF TypeOK, File
  <2> HIDE DEF final
  <2>4. /\ out'.hdr = out.hdr
        /\ Len(out'.chunks) = IF out.junk THEN Len(out.chunks)
                                          ELSE Len(out.chunks) + 1
    BY <2>1, <2>3, WriteTypes
  <2>5. SyncedExists'
    BY <1>0, <2>1, <2>4, DurableNumbers DEF SyncedExists, Items
  <2>6. EpochsDrawn' /\ Monotonic' /\ CheckpointDurable'
    BY <2>1, <2>4 DEF EpochsDrawn, Monotonic, CheckpointDurable, Covered
  <2>7. FreshFile' /\ ChunksCounted' /\ WriterInStep' /\ SyncedFirst'
    BY <2>1
    DEF FreshFile, ChunksCounted, WriterInStep, SyncedFirst, WriterPcs,
        NoCheckpoint
  <2> QED BY <2>5, <2>6, <2>7
<1>2. CASE RemoveCheckpoint
  <2>1. /\ UNCHANGED <<out, synced, ckDisk, runs>>
        /\ ck' = NoCheckpoint \/ ck' = ck
        /\ pc' = "idle"
    BY <1>2 DEF RemoveCheckpoint, EndRun, budget
  <2>2. ck' = ck \/ ck'.epoch = 0
    BY <2>1 DEF NoCheckpoint
  <2>3. SyncedExists'
    BY <2>1 DEF SyncedExists, Items
  <2>4. EpochsDrawn' /\ Monotonic' /\ CheckpointDurable'
    BY <1>0, <2>1, <2>2, DurableNumbers
    DEF EpochsDrawn, Monotonic, CheckpointDurable, Covered
  <2>5. FreshFile' /\ ChunksCounted' /\ WriterInStep' /\ SyncedFirst'
    BY <2>1
    DEF FreshFile, ChunksCounted, WriterInStep, SyncedFirst, WriterPcs,
        NoCheckpoint
  <2> QED BY <2>3, <2>4, <2>5
<1> QED BY <1>1, <1>2

(* A power loss takes unsynced data only, and the sidecar it leaves is one *)
(* of two that were both covered.                                          *)
LEMMA PowerLossKeepsDurable ==
  ASSUME DurableInv, TypeOK', PowerLoss
  PROVE  DurableInv'
<1> USE DEF DurableInv
<1>0. TypeOK
  OBVIOUS
<1>1. PICK keep \in synced .. Items(out), junk \in BOOLEAN :
        /\ out' = [out EXCEPT !.hdr = IF keep = 0 THEN 0 ELSE @,
                              !.chunks = SubSeq(@, 1, keep - 1),
                              !.junk = junk]
        /\ synced' = keep
  BY DEF PowerLoss
<1>2. /\ ck' = ck \/ ck' = ckDisk
      /\ ckDisk' = ck' /\ runs' = runs
      /\ pc' = "idle"
  BY DEF PowerLoss, Fault, EndRun
<1>3. /\ keep \in Nat /\ keep >= synced /\ keep <= Items(out)
      /\ out'.hdr = IF keep = 0 THEN 0 ELSE out.hdr
      /\ out'.chunks = SubSeq(out.chunks, 1, keep - 1)
  <2>1. Items(out) \in Nat
    BY <1>0, DurableNumbers DEF Items
  <2>2. keep \in Nat /\ keep >= synced /\ keep <= Items(out)
    BY <1>0, <1>1, <2>1, DurableNumbers
  <2>3. out'.hdr = IF keep = 0 THEN 0 ELSE out.hdr
    BY <1>0, <1>1 DEF TypeOK
  <2>4. out'.chunks = SubSeq(out.chunks, 1, keep - 1)
    BY <1>0, <1>1 DEF TypeOK
  <2> QED BY <2>2, <2>3, <2>4
<1>4. SyncedExists'
  <2>1. CASE keep = 0
    BY <1>0, <1>1, <1>3, <2>1 DEF SyncedExists, Items
  <2>2. CASE keep # 0
    <3>1. out.hdr # 0 /\ keep - 1 <= Len(out.chunks)
      BY <1>0, <1>3, <2>2, DurableNumbers DEF Items
    <3>2. keep - 1 \in Nat /\ out.chunks \in Seq(Chunk)
      BY <1>0, <1>3, <2>2, DurableNumbers
    <3>3. Len(SubSeq(out.chunks, 1, keep - 1)) = keep - 1
      BY <3>1, <3>2, PrefixOfSequence
    <3> QED BY <1>1, <1>3, <2>2, <3>1, <3>3 DEF SyncedExists, Items
  <2> QED BY <2>1, <2>2
<1>5. CheckpointDurable'
  <2>1. ASSUME NEW c \in {ck, ckDisk}, c.epoch # 0, c.epoch = out'.hdr
        PROVE  c.committed < keep
    BY <1>0, <1>3, <2>1, DurableNumbers DEF CheckpointDurable, Covered
  <2> QED BY <1>1, <1>2, <2>1 DEF CheckpointDurable, Covered
<1>6. EpochsDrawn'
  BY <1>0, <1>2, <1>3, DurableNumbers DEF EpochsDrawn
<1>7. Monotonic'
  BY <1>0, <1>2, DurableNumbers DEF Monotonic
<1>8. FreshFile' /\ ChunksCounted' /\ WriterInStep' /\ SyncedFirst'
  BY <1>2
  DEF FreshFile, ChunksCounted, WriterInStep, SyncedFirst, WriterPcs,
      NoCheckpoint
<1> QED BY <1>4, <1>5, <1>6, <1>7, <1>8

(* Every action keeps the inductive invariant: one step for each, by the *)
(* lemma on its kind.                                                     *)
LEMMA StepDurable == DurableInv /\ [Next]_vars => DurableInv'
<1> SUFFICES ASSUME DurableInv, [Next]_vars PROVE DurableInv'
  OBVIOUS
<1>0. TypeOK /\ TypeOK'
  BY StepType DEF DurableInv
<1>1. CASE \/ UNCHANGED vars \/ RefuseOverwrite \/ EditSource
           \/ ReopenSource \/ EndOfSource
  <2>1. CASE ReopenSource
    BY <1>0, <2>1, QuietKeepsDurable DEF ReopenSource, run, budget, WriterPcs
  <2>2. CASE EndOfSource
    BY <1>0, <2>2, QuietKeepsDurable DEF EndOfSource, run, budget, WriterPcs
  <2>3. CASE UNCHANGED vars \/ RefuseOverwrite \/ EditSource
    BY <1>0, <2>3, QuietKeepsDurable
    DEF RefuseOverwrite, EditSource, vars, run, budget
  <2> QED BY <1>1, <2>1, <2>2, <2>3
<1>2. CASE StartFresh(FALSE) \/ Rerun \/ WriteHeader
  BY <1>0, <1>2, StartKeepsDurable DEF Rerun
<1>3. CASE HashPrefix
  <2>1. UNCHANGED <<disk, runs>>
    BY <1>3 DEF HashPrefix, budget
  <2>2. CASE EndRun("SourceChanged")
    BY <1>0, <2>1, <2>2, StopKeepsDurable, DurableNumbers DEF disk
  <2>3. CASE UNCHANGED w /\ pc' = "truncate" /\ pc = "hash"
    <3>1. UNCHANGED <<out, synced, ck, ckDisk, w, runs>>
      BY <2>1, <2>3 DEF disk
    <3>2. SyncedExists' /\ EpochsDrawn' /\ Monotonic' /\ CheckpointDurable'
      BY <3>1
      DEF DurableInv, SyncedExists, Items, EpochsDrawn, Monotonic,
          CheckpointDurable, Covered
    <3>3. FreshFile' /\ ChunksCounted' /\ WriterInStep' /\ SyncedFirst'
      BY <2>3, <3>1
      DEF DurableInv, FreshFile, ChunksCounted, WriterInStep, SyncedFirst,
          WriterPcs, NoCheckpoint
    <3> QED BY <1>0, <3>2, <3>3 DEF DurableInv
  <2> QED BY <1>3, <2>2, <2>3 DEF HashPrefix
<1>4. CASE VerifyAndTruncate
  BY <1>0, <1>4, TruncateKeepsDurable
<1>5. CASE EncryptNext
  BY <1>0, <1>5, EncryptKeepsDurable
<1>6. CASE SyncData \/ RenameCheckpoint \/ FsyncDirectory
  BY <1>0, <1>6, CheckpointKeepsDurable
<1>7. CASE Finish \/ RemoveCheckpoint
  BY <1>0, <1>7, EndKeepsDurable
<1>8. CASE OpenBareParent \/ IoError
  <2>1. w.buf \in Text
    BY <1>0, SeqMonotonic DEF TypeOK, Text
  <2>2. /\ DropWriter(out, w.buf) /\ EndRun("Io")
        /\ UNCHANGED <<synced, ck, ckDisk, runs>>
    BY <1>8 DEF OpenBareParent, IoError, Fault, budget
  <2>3. /\ out'.hdr = out.hdr /\ Len(out'.chunks) \in Nat
        /\ Len(out'.chunks) >= Len(out.chunks)
    BY <1>0, <2>1, <2>2, DropTypes
  <2> QED BY <1>0, <2>2, <2>3, StopKeepsDurable
<1>9. CASE WriteError
  <2>1. EndRun("Io") /\ UNCHANGED <<synced, ck, ckDisk, runs>>
    BY <1>9 DEF WriteError, Fault
  <2>2. /\ out'.hdr = out.hdr /\ Len(out'.chunks) \in Nat
        /\ Len(out'.chunks) >= Len(out.chunks)
    BY <1>0, <1>9, WriteErrorTypes
  <2> QED BY <1>0, <2>1, <2>2, StopKeepsDurable
<1>10. CASE EarlyError
  <2>1. EndRun("Io") /\ UNCHANGED <<out, synced, ck, ckDisk, runs>>
    BY <1>10 DEF EarlyError, Fault, disk
  <2> QED BY <1>0, <2>1, DurableNumbers, StopKeepsDurable
<1>11. CASE Kill
  <2>1. EndRun("killed") /\ UNCHANGED <<synced, ck, ckDisk, runs>>
    BY <1>11 DEF Kill, Fault
  <2>2. out' = out \/ out' = [out EXCEPT !.junk = TRUE]
    BY <1>11 DEF Kill
  <2>3. out'.hdr = out.hdr /\ out'.chunks = out.chunks
    BY <1>0, <2>2 DEF TypeOK
  <2> QED BY <1>0, <2>1, <2>3, DurableNumbers, StopKeepsDurable
<1>12. CASE PowerLoss
  BY <1>0, <1>12, PowerLossKeepsDurable
<1> QED
  BY <1>1, <1>2, <1>3, <1>4, <1>5, <1>6, <1>7, <1>8, <1>9, <1>10, <1>11, <1>12
  DEF Next, Rerun, Step

(* For every interval, source, schedule and number of crashes: a checkpoint *)
(* of the session in the file never counts a chunk a power loss could take. *)
THEOREM CheckpointsAreDurable == Spec => []CheckpointDurable
<1>1. DurableInv => CheckpointDurable
  BY DEF DurableInv
<1> QED BY <1>1, InitDurable, StepDurable, PTL DEF Spec

-----------------------------------------------------------------------------
(* What was saved is kept: ResumeEncrypt implements SavedProgress. *)

(* Only the last chunk of a file may be a final one; a file still written  *)
(* to has none, a finished one has; a file without a header holds nothing. *)
FinalLast == \A i \in 1 .. Len(out.chunks) - 1 : ~out.chunks[i].last
Growing   == pc \in WriterPcs \cup {"finish"} => ~Complete(out)
Done      == pc = "cleanup" => Complete(out)
Headless  == out.hdr = 0 => out.chunks = <<>>

ProgressInv == DurableInv /\ FinalLast /\ Growing /\ Done /\ Headless

(* The chunks both directory entries of the checkpoint vouch for. *)
Floor == Min2(Saved(ck), Saved(ckDisk))

(* What a checkpoint saves is in the file. *)
LEMMA SavedIsThere ==
  ASSUME DurableInv
  PROVE  /\ Saved(ck) \in Nat /\ Saved(ckDisk) \in Nat /\ Floor \in Nat
         /\ Floor <= Saved(ck) /\ Floor <= Saved(ckDisk)
         /\ Floor = Saved(ck) \/ Floor = Saved(ckDisk)
         /\ Saved(ck) <= Len(out.chunks) /\ Saved(ckDisk) <= Len(out.chunks)
<1>0. TypeOK
  BY DEF DurableInv
<1>1. Saved(ck) \in Nat /\ Saved(ckDisk) \in Nat
  BY <1>0, DurableNumbers DEF Saved
<1>2. /\ Floor \in Nat /\ Floor <= Saved(ck) /\ Floor <= Saved(ckDisk)
      /\ Floor = Saved(ck) \/ Floor = Saved(ckDisk)
  BY <1>1 DEF Floor, Min2
<1>3. ASSUME NEW c \in {ck, ckDisk} PROVE Saved(c) <= Len(out.chunks)
  <2>1. CASE c.epoch # 0 /\ c.epoch = out.hdr
    <3>1. c.committed < synced
      BY <2>1 DEF DurableInv, CheckpointDurable, Covered
    <3>2. synced <= 1 + Len(out.chunks)
      BY <2>1 DEF DurableInv, SyncedExists, Items
    <3> QED BY <1>0, <2>1, <3>1, <3>2, DurableNumbers DEF Saved
  <2>2. CASE ~(c.epoch # 0 /\ c.epoch = out.hdr)
    BY <1>0, <2>2, DurableNumbers DEF Saved
  <2> QED BY <2>1, <2>2
<1> QED BY <1>1, <1>2, <1>3

(* A chunk appended to a file that has no final one. *)
LEMMA AppendedChunk ==
  ASSUME TypeOK, FinalLast, ~Complete(out), ~out.junk, NEW chunk \in Chunk,
         out' = Write(out, chunk)
  PROVE  /\ Len(out.chunks) \in Nat
         /\ Len(out'.chunks) = Len(out.chunks) + 1
         /\ out'.hdr = out.hdr /\ ~out'.junk
         /\ \A i \in 1 .. Len(out.chunks) : out'.chunks[i] = out.chunks[i]
         /\ out'.chunks[Len(out'.chunks)] = chunk
         /\ FinalLast' /\ Complete(out)' = chunk.last
<1>1. out \in File /\ out.chunks \in Seq(Chunk)
  BY DEF TypeOK, File
<1>2. /\ out'.chunks = Append(out.chunks, chunk)
      /\ out'.hdr = out.hdr /\ ~out'.junk
  BY <1>1 DEF Write, File
<1>3. /\ Append(out.chunks, chunk) # <<>>
      /\ Len(Append(out.chunks, chunk)) = Len(out.chunks) + 1
      /\ \A i \in 1 .. Len(out.chunks) :
           Append(out.chunks, chunk)[i] = out.chunks[i]
      /\ Append(out.chunks, chunk)[Len(out.chunks) + 1] = chunk
  BY <1>1, AppendProperties
<1>4. Len(out.chunks) \in Nat
  BY <1>1, LenProperties
<1>5. \A i \in 1 .. Len(out.chunks) : ~out.chunks[i].last
  <2>1. TAKE i \in 1 .. Len(out.chunks)
  <2>2. CASE i = Len(out.chunks)
    <3>1. out.chunks # <<>>
      BY <1>1, <1>4, <2>2, EmptySeq
    <3> QED BY <2>2, <3>1 DEF Complete
  <2>3. CASE i # Len(out.chunks)
    BY <1>4, <2>3 DEF FinalLast
  <2> QED BY <2>2, <2>3
<1>6. FinalLast'
  BY <1>2, <1>3, <1>4, <1>5 DEF FinalLast
<1>7. Complete(out)' = chunk.last
  <2>1. chunk.last \in BOOLEAN
    BY DEF Chunk
  <2>2. Complete(out)' <=> chunk.last
    BY <1>2, <1>3 DEF Complete
  <2>3. Complete(out)' \in BOOLEAN
    BY DEF Complete
  <2> QED BY <2>1, <2>2, <2>3
<1> QED BY <1>2, <1>3, <1>4, <1>6, <1>7

(* A file cut back: what is left has no final chunk if anything was cut. *)
LEMMA CutFile ==
  ASSUME TypeOK, FinalLast, NEW k \in Nat, k <= Len(out.chunks),
         out'.chunks = SubSeq(out.chunks, 1, k)
  PROVE  /\ Len(out.chunks) \in Nat /\ Len(out'.chunks) = k
         /\ \A i \in 1 .. k : out'.chunks[i] = out.chunks[i]
         /\ FinalLast'
         /\ k < Len(out.chunks) => ~Complete(out)'
         /\ k = Len(out.chunks) => out'.chunks = out.chunks
<1>1. out.chunks \in Seq(Chunk) /\ Len(out.chunks) \in Nat
  BY LenProperties DEF TypeOK
<1>2. Len(out'.chunks) = k
  BY <1>1, PrefixOfSequence
<1>3. \A i \in 1 .. k : out'.chunks[i] = out.chunks[i]
  <2>1. \A i \in 1 .. k : out.chunks[i] \in Chunk
    BY <1>1, ElementOfSeq
  <2>2. \A i \in 1 .. k - 1 + 1 :
          SubSeq(out.chunks, 1, k)[i] = out.chunks[1 + i - 1]
    BY <2>1, SubSeqProperties
  <2> QED BY <2>2
<1>4. FinalLast'
  <2>1. \A i \in 1 .. k - 1 : ~out.chunks[i].last
    BY <1>1 DEF FinalLast
  <2>2. \A i \in 1 .. k - 1 : out'.chunks[i] = out.chunks[i]
    BY <1>3
  <2> QED BY <1>2, <2>1, <2>2 DEF FinalLast
<1>5. ASSUME k < Len(out.chunks) PROVE ~Complete(out)'
  <2>1. CASE k = 0
    <3>1. out'.chunks = <<>>
      BY <2>1, SubSeqEmpty
    <3> QED BY <3>1 DEF Complete
  <2>2. CASE k > 0
    <3>1. ~out.chunks[k].last
      BY <1>1, <1>5, <2>2 DEF FinalLast
    <3>2. out'.chunks[k] = out.chunks[k]
      BY <1>3, <2>2
    <3> QED BY <1>2, <3>1, <3>2 DEF Complete
  <2> QED BY <2>1, <2>2
<1>6. k = Len(out.chunks) => out'.chunks = out.chunks
  BY <1>1, SubSeqFull
<1> QED BY <1>1, <1>2, <1>3, <1>4, <1>5, <1>6

(* Steps that leave the file and the checkpoint alone. *)
LEMMA NothingWritten ==
  ASSUME ProgressInv, DurableInv', UNCHANGED <<out, ck, ckDisk>>,
         pc' \in WriterPcs \cup {"finish"} => pc \in WriterPcs \cup {"finish"},
         pc' = "cleanup" => pc = "cleanup"
  PROVE  ProgressInv' /\ UNCHANGED Progress!vars
<1>1. FinalLast' /\ Growing' /\ Done' /\ Headless'
  BY DEF ProgressInv, FinalLast, Growing, Done, Headless, Complete
<1>2. UNCHANGED Progress!vars
  BY DEF Progress!vars, Complete, Saved
<1> QED BY <1>1, <1>2 DEF ProgressInv

(* A chunk written: the abstract file grows, nothing saved is touched. *)
LEMMA ChunkWritten ==
  ASSUME ProgressInv, DurableInv', pc \in WriterPcs \cup {"finish"},
         NEW chunk \in Chunk, out' = Write(out, chunk),
         UNCHANGED <<ck, ckDisk>>,
         pc' \in WriterPcs \cup {"finish"} => ~chunk.last,
         pc' = "cleanup" => chunk.last
  PROVE  ProgressInv' /\ Progress!Next
<1>1. /\ DurableInv /\ TypeOK /\ FinalLast /\ ~Complete(out)
      /\ ~out.junk /\ out.hdr # 0
  BY DEF ProgressInv, DurableInv, Growing, WriterInStep
<1>2. /\ Len(out'.chunks) = Len(out.chunks) + 1 /\ out'.hdr = out.hdr
      /\ FinalLast' /\ Complete(out)' = chunk.last
  BY <1>1, AppendedChunk
<1>3. Growing' /\ Done' /\ Headless'
  BY <1>1, <1>2 DEF Growing, Done, Headless
<1>4. Saved(ck)' = Saved(ck) /\ Saved(ckDisk)' = Saved(ckDisk)
  BY <1>2 DEF Saved
<1>5. chunk.last \in BOOLEAN
  BY DEF Chunk
<1>6. Progress!Extend
  BY <1>1, <1>2, <1>4, <1>5 DEF Progress!Extend
<1> QED BY <1>2, <1>3, <1>6 DEF ProgressInv, Progress!Next

(* Bytes that are no whole chunk land in the file of a run that ends: *)
(* whatever it was, the file is not complete now.                     *)
LEMMA JunkWritten ==
  ASSUME ProgressInv, DurableInv', pc' = "idle",
         out' = [out EXCEPT !.junk = TRUE], UNCHANGED <<ck, ckDisk>>
  PROVE  ProgressInv' /\ Progress!Next
<1>1. DurableInv /\ TypeOK
  BY DEF ProgressInv, DurableInv
<1>2. out'.chunks = out.chunks /\ out'.hdr = out.hdr /\ out'.junk
  BY <1>1 DEF TypeOK
<1>3. FinalLast' /\ Growing' /\ Done' /\ Headless'
  BY <1>2 DEF ProgressInv, FinalLast, Growing, Done, Headless, WriterPcs
<1>4. Saved(ck)' = Saved(ck) /\ Saved(ckDisk)' = Saved(ckDisk)
  BY <1>2 DEF Saved
<1>5. Complete(out)' = FALSE
  BY <1>2 DEF Complete
<1>6. Floor \in Nat /\ Floor <= Len(out.chunks) /\ Len(out.chunks) \in Nat
  BY <1>1, SavedIsThere, DurableNumbers
<1>7. Progress!Lose
  <2>1. Floor \in Floor .. Len(out.chunks)
        /\ Len(out.chunks) \in Floor .. Len(out.chunks)
    BY <1>6
  <2>2. Floor' = Floor
    BY <1>4 DEF Floor
  <2> QED BY <1>2, <1>5, <2>1, <2>2 DEF Progress!Lose, Floor
<1> QED BY <1>3, <1>7 DEF ProgressInv, Progress!Next

(* A fresh run empties the file, with no checkpoint that vouches for it. *)
LEMMA FreshProgress ==
  ASSUME ProgressInv, DurableInv', NEW force, StartFresh(force)
  PROVE  ProgressInv' /\ Progress!Next
<1>1. DurableInv
  BY DEF ProgressInv
<1>2. /\ out'.hdr = 0 /\ out'.chunks = <<>> /\ pc' = "header"
      /\ ck = NoCheckpoint /\ ck' = ck /\ ckDisk' = ckDisk
  BY DEF StartFresh, NewRun, NoFile
<1>3. FinalLast' /\ Growing' /\ Done' /\ Headless'
  BY <1>2 DEF FinalLast, Growing, Done, Headless, WriterPcs
<1>4. Saved(ck) = 0 /\ Saved(ck)' = 0 /\ Saved(ckDisk)' = 0
  BY <1>2 DEF Saved, NoCheckpoint
<1>5. Min2(Saved(ck), Saved(ckDisk)) = 0
  BY <1>1, <1>4, SavedIsThere DEF Min2
<1>6. Progress!Restart
  <2>1. Len(out'.chunks) = 0
    BY <1>2
  <2>2. Complete(out)' = FALSE
    BY <1>2 DEF Complete
  <2>3. Min2(Saved(ck)', Saved(ckDisk)') = 0
    BY <1>4 DEF Min2
  <2> QED BY <1>5, <2>1, <2>2, <2>3 DEF Progress!Restart
<1> QED BY <1>3, <1>6 DEF ProgressInv, Progress!Next

(* A header says whose file it is, and no checkpoint is of that session yet. *)
LEMMA HeaderProgress ==
  ASSUME ProgressInv, DurableInv', WriteHeader
  PROVE  ProgressInv' /\ UNCHANGED Progress!vars
<1>1. DurableInv /\ TypeOK
  BY DEF ProgressInv, DurableInv
<1>2. /\ pc = "header" /\ pc' = "reopen" /\ out'.hdr = runs
      /\ out'.chunks = out.chunks /\ out'.junk = out.junk
      /\ ck' = ck /\ ckDisk' = ckDisk
  BY <1>1 DEF WriteHeader, TypeOK
<1>3. /\ out.hdr = 0 /\ out.chunks = <<>>
      /\ ck.epoch < runs /\ ckDisk.epoch < runs
  BY <1>1, <1>2 DEF DurableInv, FreshFile
<1>4. ~Complete(out) /\ Complete(out)' = Complete(out)
  BY <1>2, <1>3 DEF Complete
<1>5. runs # 0 /\ ck.epoch # runs /\ ckDisk.epoch # runs
  BY <1>1, <1>3, DurableNumbers
<1>6. FinalLast' /\ Growing' /\ Done' /\ Headless'
  BY <1>2, <1>3, <1>4, <1>5 DEF FinalLast, Growing, Done, Headless
<1>7. /\ Saved(ck) = 0 /\ Saved(ckDisk) = 0
      /\ Saved(ck)' = 0 /\ Saved(ckDisk)' = 0
  BY <1>2, <1>3, <1>5 DEF Saved
<1>8. UNCHANGED Progress!vars
  BY <1>2, <1>4, <1>7 DEF Progress!vars
<1> QED BY <1>6, <1>8 DEF ProgressInv

(* Resuming gives up the chunks past the checkpoint, and no saved one. *)
LEMMA TruncateProgress ==
  ASSUME ProgressInv, DurableInv', VerifyAndTruncate,
         ~(EndRun("CheckpointInvalid") /\ UNCHANGED <<out, synced>>)
  PROVE  ProgressInv' /\ Progress!Next
<1>0. DurableInv /\ TypeOK
  BY DEF ProgressInv, DurableInv
<1>1. /\ Len(out.chunks) >= ck.committed
      /\ ck.committed > 0 => Authenticates(out, ck)
      /\ out' = [out EXCEPT !.chunks = SubSeq(@, 1, ck.committed),
                            !.junk = FALSE]
      /\ pc = "truncate" /\ pc' = "reopen"
      /\ ck' = ck /\ ckDisk' = ckDisk
  BY DEF VerifyAndTruncate
<1>2. ck.committed > 0 /\ ck.epoch = out.hdr /\ out.hdr # 0
  BY <1>0, <1>1 DEF DurableInv, ChunksCounted, Authenticates
<1>3. /\ out'.chunks = SubSeq(out.chunks, 1, ck.committed)
      /\ out'.hdr = out.hdr
  BY <1>0, <1>1 DEF TypeOK
<1>4. ck.committed \in Nat /\ ck.committed <= Len(out.chunks)
  BY <1>0, <1>1, DurableNumbers
<1>5. /\ FinalLast /\ Len(out'.chunks) = ck.committed /\ FinalLast'
      /\ \A i \in 1 .. ck.committed : out'.chunks[i] = out.chunks[i]
  BY <1>0, <1>3, <1>4, CutFile DEF ProgressInv
<1>6. ~out'.chunks[ck.committed].last
  BY <1>1, <1>2, <1>4, <1>5 DEF Authenticates
<1>7. Complete(out)' = FALSE
  BY <1>5, <1>6 DEF Complete
<1>8. Growing' /\ Done' /\ Headless'
  BY <1>1, <1>2, <1>3, <1>7 DEF Growing, Done, Headless
<1>9. /\ Saved(ck)' = Saved(ck) /\ Saved(ckDisk)' = Saved(ckDisk)
      /\ Saved(ck) = ck.committed
  BY <1>1, <1>2, <1>3 DEF Saved
<1>10. Progress!Lose
  <2>1. Floor \in Nat /\ Floor <= ck.committed
    BY <1>0, <1>9, SavedIsThere
  <2>2. Floor \in Floor .. ck.committed
        /\ ck.committed \in Floor .. Len(out.chunks)
    BY <1>0, <1>4, <2>1, DurableNumbers
  <2> QED BY <1>5, <1>7, <1>9, <2>2 DEF Progress!Lose, Floor
<1> QED BY <1>5, <1>8, <1>10 DEF ProgressInv, Progress!Next

(* A new checkpoint, and its directory entry, never vouch for less. *)
LEMMA CheckpointProgress ==
  ASSUME ProgressInv, DurableInv', RenameCheckpoint \/ FsyncDirectory
  PROVE  ProgressInv' /\ Progress!Next
<1>0. DurableInv /\ TypeOK
  BY DEF ProgressInv, DurableInv
<1>1. /\ out' = out /\ pc \in WriterPcs /\ pc' \in {"dirsync", "loop"}
  BY DEF RenameCheckpoint, FsyncDirectory, WriterPcs
<1>2. FinalLast' /\ Growing' /\ Done' /\ Headless'
  BY <1>1 DEF ProgressInv, FinalLast, Growing, Done, Headless, Complete
<1>3. /\ Floor \in Nat /\ Floor' \in Nat /\ Len(out.chunks) \in Nat
      /\ Floor <= Floor' /\ Floor' <= Len(out.chunks)
  <2>1. /\ Floor \in Nat /\ Saved(ck) \in Nat /\ Saved(ckDisk) \in Nat
        /\ Floor <= Saved(ck) /\ Floor <= Saved(ckDisk)
        /\ Saved(ck) <= Len(out.chunks) /\ Saved(ckDisk) <= Len(out.chunks)
        /\ Len(out.chunks) \in Nat
    BY <1>0, SavedIsThere, DurableNumbers
  <2>2. CASE RenameCheckpoint
    <3>1. ck'.epoch = w.epoch /\ ck'.committed = w.counter /\ ckDisk' = ckDisk
      BY <2>2 DEF RenameCheckpoint
    <3>2. w.epoch = out.hdr /\ out.hdr # 0 /\ Len(out.chunks) = w.counter
      BY <1>0, <1>1 DEF DurableInv, WriterInStep
    <3>3. Saved(ck)' = Len(out.chunks) /\ Saved(ckDisk)' = Saved(ckDisk)
      BY <1>1, <3>1, <3>2 DEF Saved
    <3> QED BY <2>1, <3>3 DEF Floor, Min2
  <2>3. CASE FsyncDirectory
    <3>1. ck' = ck /\ ckDisk' = ck
      BY <2>3 DEF FsyncDirectory
    <3>2. Saved(ck)' = Saved(ck) /\ Saved(ckDisk)' = Saved(ck)
      BY <1>1, <3>1 DEF Saved
    <3> QED BY <2>1, <3>2 DEF Floor, Min2
  <2> QED BY <2>2, <2>3
<1>4. Progress!Save
  BY <1>1, <1>3 DEF Progress!Save, Floor, Complete
<1> QED BY <1>2, <1>4 DEF ProgressInv, Progress!Next

(* The finished file gives up its checkpoint. *)
LEMMA RemoveProgress ==
  ASSUME ProgressInv, DurableInv', RemoveCheckpoint
  PROVE  ProgressInv' /\ [Progress!Next]_(Progress!vars)
<1>1. /\ out' = out /\ pc = "cleanup" /\ pc' = "idle" /\ ckDisk' = ckDisk
      /\ ck' = ck \/ ck' = NoCheckpoint
  BY DEF RemoveCheckpoint, EndRun
<1>2. FinalLast' /\ Growing' /\ Done' /\ Headless'
  BY <1>1 DEF ProgressInv, FinalLast, Growing, Done, Headless, WriterPcs
<1>3. CASE ck' = ck
  BY <1>1, <1>2, <1>3, NothingWritten DEF WriterPcs
<1>4. CASE ck' = NoCheckpoint
  <2>1. Saved(ck)' = 0 /\ Saved(ckDisk)' = Saved(ckDisk) /\ Saved(ckDisk) \in Nat
    BY <1>1, <1>4, SavedIsThere DEF Saved, NoCheckpoint, ProgressInv
  <2>2. Min2(Saved(ck)', Saved(ckDisk)') = 0
    BY <2>1 DEF Min2
  <2>3. Complete(out)
    BY <1>1 DEF ProgressInv, Done
  <2>4. Progress!GiveUpSaved
    BY <1>1, <2>2, <2>3 DEF Progress!GiveUpSaved, Complete
  <2> QED BY <1>2, <2>4 DEF ProgressInv, Progress!Next
<1> QED BY <1>1, <1>3, <1>4

(* A power loss takes chunks past the last fsync, and leaves of the two *)
(* directory entries of the checkpoint one that it did not outlive.     *)
LEMMA PowerLossProgress ==
  ASSUME ProgressInv, DurableInv', PowerLoss
  PROVE  ProgressInv' /\ Progress!Next
<1>0. DurableInv /\ TypeOK /\ FinalLast
  BY DEF ProgressInv, DurableInv
<1>1. PICK keep \in synced .. Items(out), junk \in BOOLEAN :
        /\ keep = Items(out) => junk = out.junk
        /\ out' = [out EXCEPT !.hdr = IF keep = 0 THEN 0 ELSE @,
                              !.chunks = SubSeq(@, 1, keep - 1),
                              !.junk = junk]
        /\ synced' = keep
  BY DEF PowerLoss
<1>2. /\ ck' = ck \/ ck' = ckDisk
      /\ ckDisk' = ck' /\ pc' = "idle"
  BY DEF PowerLoss, EndRun
<1> DEFINE k == IF keep = 0 THEN 0 ELSE keep - 1
<1>3. /\ keep \in Nat /\ k \in Nat /\ k <= Len(out.chunks)
      /\ keep = 0 => k = 0
      /\ keep # 0 => k = keep - 1 /\ out.hdr # 0
  <2>1. Items(out) \in Nat /\ synced \in Nat /\ Len(out.chunks) \in Nat
    BY <1>0, DurableNumbers DEF Items
  <2>2. keep \in Nat /\ keep <= Items(out)
    BY <2>1
  <2> QED BY <2>1, <2>2 DEF Items
<1>4. /\ out'.hdr = IF keep = 0 THEN 0 ELSE out.hdr
      /\ out'.chunks = SubSeq(out.chunks, 1, k)
      /\ out'.junk = junk
  <2>1. /\ out'.hdr = IF keep = 0 THEN 0 ELSE out.hdr
        /\ out'.chunks = SubSeq(out.chunks, 1, keep - 1)
        /\ out'.junk = junk
    BY <1>0, <1>1 DEF TypeOK
  <2>2. keep = 0 => SubSeq(out.chunks, 1, keep - 1) = SubSeq(out.chunks, 1, k)
    <3>1. keep = 0 => SubSeq(out.chunks, 1, keep - 1) = <<>>
                      /\ SubSeq(out.chunks, 1, k) = <<>>
      BY <1>3, SubSeqEmpty
    <3> QED BY <3>1
  <2> QED BY <1>3, <2>1, <2>2
<1> HIDE DEF k
<1>5. /\ Len(out.chunks) \in Nat /\ Len(out'.chunks) = k /\ FinalLast'
      /\ k < Len(out.chunks) => ~Complete(out)'
      /\ k = Len(out.chunks) => out'.chunks = out.chunks
  BY <1>0, <1>3, <1>4, CutFile
<1>6. Growing' /\ Done' /\ Headless'
  <2>1. keep = 0 => out'.chunks = <<>>
    BY <1>3, <1>4, SubSeqEmpty
  <2> QED BY <1>2, <1>4, <1>3, <2>1 DEF Growing, Done, Headless, WriterPcs
<1>7. Complete(out)' \in {FALSE, Complete(out) /\ k = Len(out.chunks)}
  <2>1. CASE k < Len(out.chunks)
    BY <1>3, <1>5, <2>1 DEF Complete
  <2>2. CASE k = Len(out.chunks)
    <3>1. out.hdr = 0 => out.chunks = <<>>
      BY DEF ProgressInv, Headless
    <3>2. CASE out.chunks = <<>>
      BY <1>5, <2>2, <3>2 DEF Complete
    <3>3. CASE out.chunks # <<>>
      <4>1. out.hdr # 0
        BY <3>1, <3>3
      <4>2. Len(out.chunks) # 0
        BY <1>0, <3>3, EmptySeq, DurableNumbers
      <4>3. keep = Items(out)
        BY <1>3, <1>5, <2>2, <4>1, <4>2 DEF Items
      <4>4. out'.junk = out.junk
        BY <1>1, <1>4, <4>3
      <4> QED BY <1>5, <2>2, <4>4 DEF Complete
    <3> QED BY <3>2, <3>3
  <2>3. k < Len(out.chunks) \/ k = Len(out.chunks)
    BY <1>3, <1>5
  <2> QED BY <2>1, <2>2, <2>3
<1>8. ASSUME NEW c \in {ck, ckDisk}, ck' = c
      PROVE  /\ Floor \in Nat /\ Floor' \in Nat
             /\ Floor <= k /\ Floor <= Floor' /\ Floor' <= k
  <2>1. /\ Floor \in Nat /\ Floor <= Saved(c) /\ Saved(c) \in Nat
        /\ Floor = Saved(ck) \/ Floor = Saved(ckDisk)
    BY <1>0, SavedIsThere
  <2>2. Floor <= k /\ Saved(c) <= k
    <3>1. ASSUME NEW d \in {ck, ckDisk} PROVE Saved(d) <= k
      <4>1. CASE d.epoch # 0 /\ d.epoch = out.hdr
        <5>1. d.committed < synced /\ synced <= keep
          BY <1>0, <1>1, <4>1, DurableNumbers
          DEF DurableInv, CheckpointDurable, Covered, Items
        <5> QED BY <1>0, <1>3, <4>1, <5>1, DurableNumbers DEF Saved
      <4>2. CASE ~(d.epoch # 0 /\ d.epoch = out.hdr)
        BY <1>3, <4>2 DEF Saved
      <4> QED BY <4>1, <4>2
    <3> QED BY <2>1, <3>1
  <2>3. Saved(ck)' = Saved(ckDisk)' /\ Floor' = Saved(ck)'
    BY <1>2 DEF Floor, Saved, Min2
  <2>4. CASE keep = 0
    <3>1. Saved(ck)' = 0
      BY <1>4, <2>4 DEF Saved
    <3> QED BY <1>3, <2>1, <2>2, <2>3, <2>4, <3>1
  <2>5. CASE keep # 0
    <3>1. Saved(ck)' = Saved(c)
      BY <1>4, <1>8, <2>5 DEF Saved
    <3> QED BY <2>1, <2>2, <2>3, <3>1
  <2> QED BY <2>4, <2>5
<1>9. /\ Floor \in Nat /\ Floor' \in Nat
      /\ Floor <= k /\ Floor <= Floor' /\ Floor' <= k
  BY <1>2, <1>8
<1>10. Progress!Lose
  <2>1. k \in Floor .. Len(out.chunks) /\ Floor' \in Floor .. k
    BY <1>3, <1>5, <1>9
  <2> QED BY <1>5, <1>7, <2>1 DEF Progress!Lose, Floor
<1> QED BY <1>5, <1>6, <1>10 DEF ProgressInv, Progress!Next

(* Before the first run there is nothing, in the model and in the promise. *)
LEMMA InitProgress == Init => ProgressInv /\ Progress!Init
<1> SUFFICES ASSUME Init PROVE ProgressInv /\ Progress!Init
  OBVIOUS
<1>1. /\ out.hdr = 0 /\ out.chunks = <<>> /\ pc = "idle"
      /\ ck.epoch = 0 /\ ckDisk.epoch = 0
  BY DEF Init, NoFile, NoCheckpoint
<1>2. FinalLast /\ Growing /\ Done /\ Headless
  BY <1>1 DEF FinalLast, Growing, Done, Headless, WriterPcs
<1>3. Saved(ck) = 0 /\ Saved(ckDisk) = 0 /\ Complete(out) = FALSE
  BY <1>1 DEF Saved, Complete
<1>4. Progress!Init
  BY <1>1, <1>3 DEF Progress!Init, Min2
<1> QED BY <1>2, <1>4, InitDurable DEF ProgressInv

(* Sealing an unfinished buffer on the way out extends the file or nothing. *)
LEMMA DropProgress ==
  ASSUME ProgressInv, DurableInv', pc \in WriterPcs, pc' = "idle",
         DropWriter(out, w.buf), UNCHANGED <<ck, ckDisk>>
  PROVE  ProgressInv' /\ [Progress!Next]_(Progress!vars)
<1>0. TypeOK
  BY DEF ProgressInv, DurableInv
<1> DEFINE final == Seal(w, w.buf, TRUE)
<1>1. w.buf \in Text
  BY <1>0, SeqMonotonic DEF TypeOK, Text
<1>2. final \in Chunk
  BY <1>0, <1>1, SealTypes
<1>3. out' = Write(out, final) \/ out' = out
  BY DEF DropWriter
<1> HIDE DEF final
<1>4. CASE out' = Write(out, final)
  BY <1>2, <1>4, ChunkWritten DEF WriterPcs
<1>5. CASE out' = out
  BY <1>5, NothingWritten DEF WriterPcs
<1> QED BY <1>3, <1>4, <1>5

(* The same for a chunk that could not be written whole. *)
LEMMA WriteErrorProgress ==
  ASSUME ProgressInv, DurableInv', WriteError
  PROVE  ProgressInv' /\ [Progress!Next]_(Progress!vars)
<1>0. TypeOK
  BY DEF ProgressInv, DurableInv
<1>1. /\ pc \in {"loop", "finish"} /\ pc' = "idle"
      /\ UNCHANGED <<ck, ckDisk>>
  BY DEF WriteError, EndRun
<1>2. PICK text \in {<<>>, <<Scrambled>>} :
        \/ out' = out
        \/ out' = [out EXCEPT !.junk = TRUE]
        \/ out' = Write(out, Seal(w, text, TRUE))
  BY DEF WriteError
<1> DEFINE final == Seal(w, text, TRUE)
<1>3. text \in Text
  <2>1. Scrambled \in Byte \cup {Scrambled}
    OBVIOUS
  <2>2. <<Scrambled>> \in Text /\ <<>> \in Text
    BY <2>1, EmptySeq DEF Text
  <2> QED BY <2>2
<1>4. final \in Chunk
  BY <1>0, <1>3, SealTypes
<1> HIDE DEF final
<1>5. CASE out' = out
  BY <1>1, <1>5, NothingWritten DEF WriterPcs
<1>6. CASE out' = [out EXCEPT !.junk = TRUE]
  BY <1>1, <1>6, JunkWritten
<1>7. CASE out' = Write(out, final)
  BY <1>1, <1>4, <1>7, ChunkWritten DEF WriterPcs
<1> QED BY <1>2, <1>5, <1>6, <1>7 DEF final

(* Every step keeps the invariant, and is one of the promise or a stutter. *)
LEMMA StepProgress ==
  ProgressInv /\ [Next]_vars
    => ProgressInv' /\ [Progress!Next]_(Progress!vars)
<1> SUFFICES ASSUME ProgressInv, [Next]_vars
             PROVE  ProgressInv' /\ [Progress!Next]_(Progress!vars)
  OBVIOUS
<1>0. DurableInv /\ DurableInv' /\ TypeOK
  BY StepDurable DEF ProgressInv, DurableInv
<1>1. CASE \/ UNCHANGED vars \/ RefuseOverwrite \/ EditSource \/ ReadCheckpoint
           \/ HashPrefix \/ ReopenSource \/ SyncData \/ EndOfSource
           \/ EarlyError
  <2>1. CASE UNCHANGED vars \/ RefuseOverwrite \/ EditSource
    <3>1. UNCHANGED <<out, ck, ckDisk, pc>>
      BY <2>1 DEF vars, RefuseOverwrite, EditSource, disk
    <3> QED BY <1>0, <3>1, NothingWritten
  <2>2. CASE ReadCheckpoint \/ HashPrefix \/ EarlyError
    <3>1. UNCHANGED <<out, ck, ckDisk>> /\ pc' \in {"idle", "hash", "truncate"}
      BY <2>2 DEF ReadCheckpoint, HashPrefix, EarlyError, EndRun, disk
    <3> QED BY <1>0, <3>1, NothingWritten DEF WriterPcs
  <2>3. CASE ReopenSource \/ SyncData \/ EndOfSource
    <3>1. UNCHANGED <<out, ck, ckDisk>>
          /\ pc \in WriterPcs /\ pc' \in {"loop", "ckpt", "finish"}
      BY <2>3 DEF ReopenSource, SyncData, EndOfSource, disk, WriterPcs
    <3> QED BY <1>0, <3>1, NothingWritten DEF WriterPcs
  <2> QED BY <1>1, <2>1, <2>2, <2>3
<1>2. ASSUME NEW force, StartFresh(force)
      PROVE  ProgressInv' /\ [Progress!Next]_(Progress!vars)
  BY <1>0, <1>2, FreshProgress
<1>3. CASE WriteHeader
  BY <1>0, <1>3, HeaderProgress
<1>4. CASE VerifyAndTruncate
  <2>1. CASE EndRun("CheckpointInvalid") /\ UNCHANGED <<out, synced>>
    <3>1. UNCHANGED <<out, ck, ckDisk>> /\ pc' = "idle"
      BY <1>4, <2>1 DEF VerifyAndTruncate, EndRun
    <3> QED BY <1>0, <3>1, NothingWritten DEF WriterPcs
  <2> QED BY <1>0, <1>4, <2>1, TruncateProgress
<1>5. CASE EncryptNext
  <2>1. pc = "loop" /\ pc' \in {"sync", "loop"} /\ UNCHANGED <<ck, ckDisk>>
    BY <1>5 DEF EncryptNext
  <2>2. CASE ChunkFills
    <3>1. out' = Write(out, FullChunk)
      BY <1>5, <2>2 DEF EncryptNext
    <3>2. FullChunk \in Chunk /\ ~FullChunk.last
      BY <1>0, <2>2, LoopTypes DEF FullChunk, Seal
    <3> QED BY <1>0, <2>1, <3>1, <3>2, ChunkWritten DEF WriterPcs
  <2>3. CASE ~ChunkFills
    <3>1. UNCHANGED out
      BY <1>5, <2>3 DEF EncryptNext
    <3> QED BY <1>0, <2>1, <3>1, NothingWritten DEF WriterPcs
  <2> QED BY <2>2, <2>3
<1>6. CASE RenameCheckpoint \/ FsyncDirectory
  BY <1>0, <1>6, CheckpointProgress
<1>7. CASE Finish
  <2> DEFINE final == Seal(w, w.buf, TRUE)
  <2>1. w.buf \in Text
    BY <1>0, SeqMonotonic DEF TypeOK, Text
  <2>2. final \in Chunk /\ final.last
    BY <1>0, <2>1, SealTypes DEF Seal
  <2>3. /\ out' = Write(out, final) /\ pc = "finish" /\ pc' = "cleanup"
        /\ UNCHANGED <<ck, ckDisk>>
    BY <1>7 DEF Finish
  <2> HIDE DEF final
  <2> QED BY <1>0, <2>2, <2>3, ChunkWritten DEF WriterPcs
<1>8. CASE RemoveCheckpoint
  BY <1>0, <1>8, RemoveProgress
<1>9. CASE OpenBareParent \/ IoError
  <2>1. /\ DropWriter(out, w.buf) /\ pc \in WriterPcs /\ pc' = "idle"
        /\ UNCHANGED <<ck, ckDisk>>
    BY <1>9 DEF OpenBareParent, IoError, EndRun, WriterPcs
  <2> QED BY <1>0, <2>1, DropProgress
<1>10. CASE WriteError
  BY <1>0, <1>10, WriteErrorProgress
<1>11. CASE Kill
  <2>1. pc' = "idle" /\ UNCHANGED <<ck, ckDisk>>
        /\ (out' = out \/ out' = [out EXCEPT !.junk = TRUE])
    BY <1>11 DEF Kill, EndRun
  <2>2. CASE out' = out
    BY <1>0, <2>1, <2>2, NothingWritten DEF WriterPcs
  <2> QED BY <1>0, <2>1, <2>2, JunkWritten
<1>12. CASE PowerLoss
  BY <1>0, <1>12, PowerLossProgress
<1> QED
  BY <1>1, <1>2, <1>3, <1>4, <1>5, <1>6, <1>7, <1>8, <1>9, <1>10, <1>11, <1>12
  DEF Next, Rerun, Step

(* Seen from outside, resumable encryption is SavedProgress: for every source, *)
(* interval and build, whatever is killed, loses power, fails or is edited,    *)
(* the file loses no chunk that both entries of its checkpoint vouch for, and  *)
(* gives its checkpoint up only when it is complete.                           *)
THEOREM ProgressKept == Spec => ProgressIsKept
<1>1. ProgressInv /\ [Next]_vars => [Progress!Next]_(Progress!vars)
  BY StepProgress
<1>2. ProgressInv /\ [Next]_vars => ProgressInv'
  BY StepProgress
<1>3. Init => ProgressInv /\ Progress!Init
  BY InitProgress
<1> QED BY <1>1, <1>2, <1>3, PTL DEF Spec, ProgressIsKept, Progress!Spec
-----------------------------------------------------------------------------
(* What is resumed is one pass: with a source that may change at any time, *)
(* a finished file is one encryption of the text that was hashed.            *)

(* A cut of text that more text was appended to. *)
LEMMA CutOfConcat ==
  ASSUME NEW S, NEW s \in Seq(S), NEW t \in Seq(S), NEW m \in Nat \ {0},
         NEW n \in Int, n <= Len(s)
  PROVE  SubSeq(s \o t, m, n) = SubSeq(s, m, n)
<1>1. Len(s) \in Nat
  BY LenProperties
<1>2. CASE n < m
  BY <1>2, SubSeqEmpty
<1>3. CASE m <= n
  <2>1. m \in 1 .. Len(s) /\ n \in 1 .. Len(s)
    BY <1>1, <1>3
  <2> QED BY <2>1, SubSeqOfConcat1
<1> QED BY <1>2, <1>3

(* The end of a text, and what is appended, is the end of the whole. *)
LEMMA EndOfConcat ==
  ASSUME NEW S, NEW s \in Seq(S), NEW t \in Seq(S), NEW m \in Nat \ {0},
         m <= Len(s) + 1
  PROVE  SubSeq(s, m, Len(s)) \o t = SubSeq(s \o t, m, Len(s \o t))
<1> DEFINE u == s \o t
<1>1. /\ Len(s) \in Nat /\ Len(t) \in Nat /\ u \in Seq(S)
      /\ Len(u) = Len(s) + Len(t)
  BY ConcatProperties, LenProperties
<1>2. SubSeq(u, m, Len(s)) = SubSeq(s, m, Len(s))
  BY <1>1, CutOfConcat
<1>3. SubSeq(u, Len(s) + 1, Len(u)) = t
  <2>1. CASE t = <<>>
    <3>1. Len(t) = 0
      BY <2>1
    <3> QED BY <1>1, <2>1, <3>1, SubSeqEmpty
  <2>2. CASE t # <<>>
    <3>1. Len(t) # 0
      BY <1>1, <2>2, EmptySeq
    <3>2. /\ Len(s) + 1 \in Len(s) + 1 .. Len(s) + Len(t)
          /\ Len(u) \in Len(s) + 1 .. Len(s) + Len(t)
      BY <1>1, <3>1
    <3>3. SubSeq(u, Len(s) + 1, Len(u)) = SubSeq(t, 1, Len(t))
      <4>1. SubSeq(u, Len(s) + 1, Len(u))
              = SubSeq(t, Len(s) + 1 - Len(s), Len(u) - Len(s))
        BY <3>2, SubSeqOfConcat2
      <4> QED BY <1>1, <4>1
    <3> QED BY <3>3, SubSeqFull
  <2> QED BY <2>1, <2>2
<1>4. SubSeq(u, m, Len(s)) \o SubSeq(u, Len(s) + 1, Len(u))
        = SubSeq(u, m, Len(u))
  <2>1. /\ m \in 1 .. Len(u) + 1 /\ Len(s) \in m - 1 .. Len(u)
        /\ Len(u) \in Len(s) .. Len(u)
    BY <1>1
  <2> HIDE DEF u
  <2> QED BY <1>1, <2>1, ConcatAdjacentSubSeq
<1> QED BY <1>2, <1>3, <1>4

(* A cut of the end of a text is a cut of the text. *)
LEMMA CutOfEnd ==
  ASSUME NEW S, NEW s \in Seq(S), NEW m \in Nat \ {0}, NEW i \in Nat \ {0},
         NEW n \in Int, m <= Len(s) + 1, n <= Len(s) - m + 1
  PROVE  SubSeq(SubSeq(s, m, Len(s)), i, n) = SubSeq(s, m + i - 1, m + n - 1)
<1>1. Len(s) \in Nat
  BY LenProperties
<1>2. CASE n < i
  BY <1>2, SubSeqEmpty
<1>3. CASE i <= n
  <2>1. /\ m \in 1 .. Len(s) /\ Len(s) \in 1 .. Len(s)
        /\ i \in 1 .. Len(s) - m + 1 /\ n \in 1 .. Len(s) - m + 1
    BY <1>1, <1>3
  <2> QED BY <2>1, SubSeqOfSubSeq
<1> QED BY <1>2, <1>3

(* How long a cut is. *)
LEMMA CutLength ==
  ASSUME NEW S, NEW s \in Seq(S), NEW m \in Nat \ {0}, NEW n \in Int,
         n <= Len(s)
  PROVE  Len(SubSeq(s, m, n)) = IF m <= n THEN n - m + 1 ELSE 0
<1>1. \A i \in m .. n : s[i] \in S
  BY ElementOfSeq, LenProperties
<1> QED BY <1>1, SubSeqProperties

(* Whole chunks: how many fit, and where the next one begins. *)
LEMMA ChunkArithmetic ==
  ASSUME NEW n \in Nat, NEW k \in Nat, NEW size \in Nat \ {0}
  PROVE  /\ k * size \in Nat
         /\ (k + 1) * size = k * size + size
         /\ k * size <= n /\ n < k * size + size => n \div size = k
         /\ \A i \in 1 .. k : i * size <= k * size /\ i * size \in Nat
                              /\ (i - 1) * size \in Nat
<1>1. k * size \in Nat /\ (k + 1) * size = k * size + size
  OBVIOUS
<1>2. ASSUME k * size <= n, n < k * size + size PROVE n \div size = k
  <2> DEFINE q == n \div size
  <2>1. q \in Nat /\ q * size <= n /\ n < q * size + size
    OBVIOUS
  <2> HIDE DEF q
  <2>2. ~(q < k)
    <3>1. SUFFICES ASSUME q < k PROVE FALSE
      OBVIOUS
    <3>2. (q + 1) * size <= k * size
      BY <2>1, <3>1
    <3> QED BY <1>2, <2>1, <3>2
  <2>3. ~(k < q)
    <3>1. SUFFICES ASSUME k < q PROVE FALSE
      OBVIOUS
    <3>2. (k + 1) * size <= q * size
      BY <2>1, <3>1
    <3> QED BY <1>2, <2>1, <3>2
  <2> QED BY <2>1, <2>2, <2>3 DEF q
<1>3. ASSUME NEW i \in 1 .. k
      PROVE  i * size <= k * size /\ i * size \in Nat /\ (i - 1) * size \in Nat
  OBVIOUS
<1> QED BY <1>1, <1>2, <1>3

(* The i-th chunk of a pass over text under epoch e, if it is not the last. *)
Whole(e, text, i) ==
  [epoch |-> e, index |-> i - 1,
   pt |-> SubSeq(text, (i - 1) * ChunkSize + 1, i * ChunkSize),
   last |-> FALSE]

(* A file whose first k chunks are those of a pass over text. *)
Holds(file, text, k) ==
  \A i \in 1 .. k : file.chunks[i] = Whole(file.hdr, text, i)

(* The text a checkpoint of the file's session hashed is what the chunks it *)
(* counts hold.                                                             *)
Tells(file, c) ==
  c.epoch # 0 /\ c.epoch = file.hdr =>
    /\ c.committed * ChunkSize <= Len(c.prefix)
    /\ Holds(file, c.prefix, c.committed)

(* Until a run has looked at the source it has hashed nothing, and when it  *)
(* has verified the prefix it has hashed what the counted chunks hold.      *)
NothingRead == pc \in {"idle", "hash", "header"} => hashed = <<>> /\ pos = 0

PrefixHashed ==
  pc = "truncate" =>
    /\ hashed = ck.prefix
    /\ Len(hashed) = ck.committed * ChunkSize

(* What was hashed and is in no chunk waits in the writer's buffer. *)
Buffered ==
  pc \in WriterPcs \cup {"finish"} =>
    /\ Len(hashed) = w.counter * ChunkSize + Len(w.buf)
    /\ Len(w.buf) < ChunkSize
    /\ w.buf = SubSeq(hashed, w.counter * ChunkSize + 1, Len(hashed))
    /\ Holds(out, hashed, w.counter)

SpliceInv ==
  /\ DurableInv /\ Tells(out, ck) /\ Tells(out, ckDisk)
  /\ NothingRead /\ PrefixHashed /\ Buffered /\ FinishedIsOnePass

(* A chunk of the text read so far is the same chunk of the text read later. *)
LEMMA SameWhole ==
  ASSUME NEW e, NEW s \in Seq(Byte), NEW t \in Seq(Byte), NEW k \in Nat,
         k * ChunkSize <= Len(s), NEW i \in 1 .. k
  PROVE  Whole(e, s \o t, i) = Whole(e, s, i)
<1>1. /\ i * ChunkSize <= k * ChunkSize /\ i * ChunkSize \in Nat
      /\ (i - 1) * ChunkSize \in Nat
  BY ChunkArithmetic, ResumeAssumption
<1>2. k * ChunkSize \in Nat /\ Len(s) \in Nat
  BY ResumeAssumption, LenProperties
<1>3. i * ChunkSize <= Len(s) /\ (i - 1) * ChunkSize + 1 \in Nat \ {0}
  BY <1>1, <1>2
<1>4. PICK lo, hi : lo = (i - 1) * ChunkSize + 1 /\ hi = i * ChunkSize
  OBVIOUS
<1>5. lo \in Nat \ {0} /\ hi \in Int /\ hi <= Len(s)
  BY <1>1, <1>3, <1>4
<1>6. SubSeq(s \o t, lo, hi) = SubSeq(s, lo, hi)
  BY <1>5, CutOfConcat
<1> QED BY <1>4, <1>6 DEF Whole

(* A file that keeps its header and the chunks counted keeps what a *)
(* checkpoint tells of it.                                          *)
LEMMA TellsKept ==
  ASSUME NEW file, NEW later, NEW c, Tells(file, c), later.hdr = file.hdr,
         NEW n \in Nat, c.committed \in Nat,
         c.epoch # 0 /\ c.epoch = file.hdr => c.committed <= n,
         \A i \in 1 .. n : later.chunks[i] = file.chunks[i]
  PROVE  Tells(later, c)
<1> SUFFICES ASSUME c.epoch # 0, c.epoch = file.hdr
             PROVE  /\ c.committed * ChunkSize <= Len(c.prefix)
                    /\ Holds(later, c.prefix, c.committed)
  BY DEF Tells
<1>1. /\ c.committed * ChunkSize <= Len(c.prefix)
      /\ \A i \in 1 .. c.committed :
           file.chunks[i] = Whole(file.hdr, c.prefix, i)
  BY DEF Tells, Holds
<1>2. \A i \in 1 .. c.committed : i \in 1 .. n
  OBVIOUS
<1> QED BY <1>1, <1>2 DEF Holds

(* Writing a chunk keeps those before it. *)
LEMMA WriteKeeps ==
  ASSUME NEW file \in File, NEW chunk
  PROVE  /\ Len(file.chunks) \in Nat
         /\ Write(file, chunk).hdr = file.hdr
         /\ \A i \in 1 .. Len(file.chunks) :
              Write(file, chunk).chunks[i] = file.chunks[i]
         /\ ~file.junk =>
              /\ Write(file, chunk).chunks = Append(file.chunks, chunk)
              /\ Write(file, chunk).chunks[Len(file.chunks) + 1] = chunk
              /\ ~Write(file, chunk).junk
<1>1. file.chunks \in Seq(Chunk) /\ Len(file.chunks) \in Nat
  BY LenProperties DEF File
<1>2. file.chunks \in Seq(Chunk \cup {chunk})
  BY <1>1, SeqMonotonic
<1>3. /\ \A i \in 1 .. Len(file.chunks) :
           Append(file.chunks, chunk)[i] = file.chunks[i]
      /\ Append(file.chunks, chunk)[Len(file.chunks) + 1] = chunk
  BY <1>2, AppendProperties
<1>4. CASE file.junk
  BY <1>1, <1>4 DEF Write
<1>5. CASE ~file.junk
  BY <1>1, <1>3, <1>5 DEF Write, File
<1> QED BY <1>4, <1>5

(* The parts of the invariant that talk of numbers and texts. *)
LEMMA SpliceNumbers ==
  ASSUME SpliceInv
  PROVE  /\ DurableInv /\ TypeOK /\ out \in File
         /\ hashed \in Seq(Byte) /\ Len(hashed) \in Nat
         /\ w.buf \in Seq(Byte) /\ Len(w.buf) \in Nat /\ w.counter \in Nat
         /\ w.counter * ChunkSize \in Nat
         /\ ChunkSize \in Nat \ {0}
         /\ Len(out.chunks) \in Nat
         /\ ck.committed \in Nat /\ ckDisk.committed \in Nat
         /\ ck.committed * ChunkSize \in Nat
         /\ \A c \in {ck, ckDisk} :
              c.epoch # 0 /\ c.epoch = out.hdr => c.committed <= Len(out.chunks)
<1>1. DurableInv /\ TypeOK /\ out \in File
  BY DEF SpliceInv, DurableInv, TypeOK, File
<1>2. /\ hashed \in Seq(Byte) /\ Len(hashed) \in Nat
      /\ w.buf \in Seq(Byte) /\ Len(w.buf) \in Nat
  BY <1>1, LenProperties DEF TypeOK
<1>3. /\ w.counter \in Nat /\ ck.committed \in Nat /\ ckDisk.committed \in Nat
      /\ Len(out.chunks) \in Nat
  BY <1>1, DurableNumbers
<1>4. ChunkSize \in Nat \ {0}
  BY ResumeAssumption
<1>5. w.counter * ChunkSize \in Nat /\ ck.committed * ChunkSize \in Nat
  BY <1>3, <1>4
<1>6. \A c \in {ck, ckDisk} :
        c.epoch # 0 /\ c.epoch = out.hdr => c.committed <= Len(out.chunks)
  BY <1>1, SavedIsThere DEF Saved
<1> QED BY <1>1, <1>2, <1>3, <1>4, <1>5, <1>6

(* What the writer buffers, and what it seals when a chunk fills, is the *)
(* next piece of the text hashed.                                        *)
LEMMA FilledIsNext ==
  ASSUME SpliceInv, pc = "loop", NEW text, text = hashed \o NextRead
  PROVE  /\ text \in Seq(Byte) /\ Len(text) \in Nat
         /\ Len(text) = w.counter * ChunkSize + Len(Filled)
         /\ Len(Filled) \in Nat /\ Len(Filled) < ChunkSize + ChunkSize
         /\ Filled = SubSeq(text, w.counter * ChunkSize + 1, Len(text))
         /\ Holds(out, text, w.counter)
         /\ ChunkFills =>
              /\ FullChunk = Whole(out.hdr, text, w.counter + 1)
              /\ Len(Leftover) = Len(Filled) - ChunkSize
              /\ Leftover = SubSeq(text, (w.counter + 1) * ChunkSize + 1,
                                   Len(text))
<1>1. PICK at : at = w.counter * ChunkSize
  OBVIOUS
<1>2. /\ Len(hashed) = at + Len(w.buf)
      /\ Len(w.buf) < ChunkSize
  BY <1>1 DEF SpliceInv, Buffered, WriterPcs
<1>3. /\ w.buf = SubSeq(hashed, at + 1, Len(hashed))
      /\ Holds(out, hashed, w.counter)
      /\ w.epoch = out.hdr
  BY <1>1 DEF SpliceInv, DurableInv, Buffered, WriterInStep, WriterPcs
<1>4. /\ at \in Nat /\ Len(hashed) \in Nat /\ Len(w.buf) \in Nat
      /\ ChunkSize \in Nat \ {0}
  BY <1>1, SpliceNumbers
<1>5. /\ TypeOK /\ w.counter \in Nat
      /\ hashed \in Seq(Byte) /\ w.buf \in Seq(Byte)
  BY SpliceNumbers
<1>6. NextRead \in Seq(Byte) /\ Filled \in Seq(Byte)
  BY <1>5, LoopTypes
<1>7. Len(NextRead) \in Nat /\ Len(NextRead) <= ChunkSize
  <2>1. /\ source \in Seq(Byte) /\ Len(source) \in Nat /\ pos \in Nat
    BY <1>5, LenProperties DEF TypeOK
  <2>2. PICK upto : upto = Min2(pos + ChunkSize, Len(source))
    OBVIOUS
  <2>3. /\ upto \in Int /\ upto <= Len(source) /\ upto <= pos + ChunkSize
        /\ pos + 1 \in Nat \ {0}
    BY <1>4, <2>1, <2>2 DEF Min2
  <2>4. Len(NextRead) = IF pos + 1 <= upto THEN upto - (pos + 1) + 1 ELSE 0
    BY <2>1, <2>2, <2>3, CutLength DEF NextRead
  <2> QED BY <1>4, <2>1, <2>3, <2>4
<1>8. text \in Seq(Byte)
  BY <1>5, <1>6, ConcatProperties
<1>9. /\ Len(text) = Len(hashed) + Len(NextRead)
      /\ Len(Filled) = Len(w.buf) + Len(NextRead)
  BY <1>5, <1>6, ConcatProperties DEF Filled
<1>10. Len(text) \in Nat /\ Len(Filled) \in Nat
  BY <1>4, <1>7, <1>9
<1>11. Len(text) = at + Len(Filled) /\ Len(Filled) < ChunkSize + ChunkSize
  BY <1>2, <1>4, <1>7, <1>9
<1>12. Filled = SubSeq(text, at + 1, Len(text))
  <2>1. at + 1 \in Nat \ {0} /\ at + 1 <= Len(hashed) + 1
    BY <1>2, <1>4
  <2>2. SubSeq(hashed, at + 1, Len(hashed)) \o NextRead
          = SubSeq(hashed \o NextRead, at + 1, Len(hashed \o NextRead))
    BY <1>5, <1>6, <2>1, EndOfConcat
  <2> QED BY <1>3, <2>2 DEF Filled
<1>13. Holds(out, text, w.counter)
  <2>1. w.counter * ChunkSize <= Len(hashed)
    BY <1>1, <1>2, <1>4
  <2>2. \A i \in 1 .. w.counter :
          Whole(out.hdr, text, i) = Whole(out.hdr, hashed, i)
    BY <1>5, <1>6, <2>1, SameWhole
  <2> QED BY <1>3, <2>2 DEF Holds
<1>14. ASSUME ChunkFills
      PROVE  /\ FullChunk = Whole(out.hdr, text, w.counter + 1)
             /\ Len(Leftover) = Len(Filled) - ChunkSize
             /\ Leftover = SubSeq(text, (w.counter + 1) * ChunkSize + 1,
                                  Len(text))
  <2>1. (w.counter + 1) * ChunkSize = at + ChunkSize
    <3>1. (w.counter + 1) * ChunkSize = w.counter * ChunkSize + ChunkSize
      BY <1>4, <1>5, ChunkArithmetic
    <3> QED BY <1>1, <3>1
  <2>2. /\ Len(Filled) >= ChunkSize /\ Len(text) = at + Len(Filled)
        /\ Len(Filled) \in Nat /\ Len(text) \in Nat
    BY <1>14, <1>10, <1>11 DEF ChunkFills
  <2>3. SubSeq(Filled, 1, ChunkSize) = SubSeq(text, at + 1, at + ChunkSize)
    <3>1. /\ at + 1 \in Nat \ {0} /\ at + 1 <= Len(text) + 1
          /\ ChunkSize <= Len(text) - (at + 1) + 1
      BY <1>4, <2>2
    <3>2. SubSeq(SubSeq(text, at + 1, Len(text)), 1, ChunkSize)
            = SubSeq(text, at + 1 + 1 - 1, at + 1 + ChunkSize - 1)
      BY <1>4, <1>8, <3>1, CutOfEnd
    <3>3. at + 1 + 1 - 1 = at + 1 /\ at + 1 + ChunkSize - 1 = at + ChunkSize
      BY <1>4
    <3> QED BY <1>12, <3>2, <3>3
  <2>4. Leftover = SubSeq(text, at + ChunkSize + 1, Len(text))
    <3>1. /\ at + 1 \in Nat \ {0} /\ at + 1 <= Len(text) + 1
          /\ Len(Filled) <= Len(text) - (at + 1) + 1
          /\ ChunkSize + 1 \in Nat \ {0}
      BY <1>4, <2>2
    <3>2. SubSeq(SubSeq(text, at + 1, Len(text)), ChunkSize + 1, Len(Filled))
            = SubSeq(text, at + 1 + (ChunkSize + 1) - 1,
                     at + 1 + Len(Filled) - 1)
      <4>1. PICK m, i, n : m = at + 1 /\ i = ChunkSize + 1 /\ n = Len(Filled)
        OBVIOUS
      <4>2. /\ m \in Nat \ {0} /\ i \in Nat \ {0} /\ n \in Int
            /\ m <= Len(text) + 1 /\ n <= Len(text) - m + 1
        BY <1>4, <2>2, <3>1, <4>1
      <4>3. SubSeq(SubSeq(text, m, Len(text)), i, n)
              = SubSeq(text, m + i - 1, m + n - 1)
        BY <1>8, <4>2, CutOfEnd
      <4> QED BY <4>1, <4>3
    <3>3. /\ at + 1 + (ChunkSize + 1) - 1 = at + ChunkSize + 1
          /\ at + 1 + Len(Filled) - 1 = Len(text)
      BY <1>4, <2>2
    <3> QED BY <1>12, <3>2, <3>3 DEF Leftover
  <2>5. Len(Leftover) = Len(Filled) - ChunkSize
    <3>1. ChunkSize + 1 \in Nat \ {0} /\ Len(Filled) <= Len(Filled)
      BY <1>4, <2>2
    <3>2. Len(Leftover) = IF ChunkSize + 1 <= Len(Filled)
                          THEN Len(Filled) - (ChunkSize + 1) + 1 ELSE 0
      BY <1>6, <2>2, <3>1, CutLength DEF Leftover
    <3> QED BY <1>4, <2>2, <3>2
  <2>6. w.counter + 1 - 1 = w.counter
    BY <1>5
  <2>7. FullChunk = Whole(out.hdr, text, w.counter + 1)
    <3>1. PICK i : i = w.counter + 1
      OBVIOUS
    <3>2. w.counter = i - 1 /\ w.epoch = out.hdr
      BY <1>3, <1>5, <3>1
    <3>3. PICK pt : pt = SubSeq(Filled, 1, ChunkSize)
      OBVIOUS
    <3>4. pt = SubSeq(text, (i - 1) * ChunkSize + 1, i * ChunkSize)
      BY <1>1, <2>1, <2>3, <3>1, <3>2, <3>3
    <3>5. Seal(w, pt, FALSE) = Whole(out.hdr, text, i)
      BY <3>2, <3>4 DEF Seal, Whole
    <3> QED BY <3>1, <3>3, <3>5 DEF FullChunk
  <2> QED BY <2>1, <2>4, <2>5, <2>7
<1> QED BY <1>1, <1>8, <1>12, <1>13, <1>14, <1>10, <1>11

(* A run that ends, however it ends, leaves what the checkpoints tell. *)
LEMMA StoppedSplice ==
  ASSUME SpliceInv, DurableInv', pc' = "idle", hashed' = <<>>, pos' = 0,
         Tells(out', ck'), Tells(out', ckDisk')
  PROVE  SpliceInv'
<1>1. NothingRead' /\ PrefixHashed' /\ Buffered' /\ FinishedIsOnePass'
  BY DEF NothingRead, PrefixHashed, Buffered, FinishedIsOnePass, WriterPcs
<1> QED BY <1>1 DEF SpliceInv

(* The same when the file has grown, or got junk, and the checkpoints stay. *)
LEMMA GrownSplice ==
  ASSUME SpliceInv, DurableInv', pc' = "idle", hashed' = <<>>, pos' = 0,
         ck' = ck, ckDisk' = ckDisk, out'.hdr = out.hdr,
         \A i \in 1 .. Len(out.chunks) : out'.chunks[i] = out.chunks[i]
  PROVE  SpliceInv'
<1>1. /\ Tells(out, ck) /\ Tells(out, ckDisk) /\ Len(out.chunks) \in Nat
      /\ ck.committed \in Nat /\ ckDisk.committed \in Nat
      /\ ck.epoch # 0 /\ ck.epoch = out.hdr => ck.committed <= Len(out.chunks)
      /\ ckDisk.epoch # 0 /\ ckDisk.epoch = out.hdr
           => ckDisk.committed <= Len(out.chunks)
  BY SpliceNumbers DEF SpliceInv
<1>2. Tells(out', ck) /\ Tells(out', ckDisk)
  BY <1>1, TellsKept
<1> QED BY <1>2, StoppedSplice

(* The drop of an unfinished writer, and a chunk write that fails. *)
LEMMA DroppedSplice ==
  ASSUME SpliceInv, DurableInv', EndRun("Io"), ck' = ck, ckDisk' = ckDisk,
         DropWriter(out, w.buf) \/ WriteError
  PROVE  SpliceInv'
<1>1. pc' = "idle" /\ hashed' = <<>> /\ pos' = 0
  BY DEF EndRun
<1>2. out \in File
  BY SpliceNumbers
<1>3. \/ out' = out
      \/ out' = [out EXCEPT !.junk = TRUE]
      \/ \E chunk : out' = Write(out, chunk)
  BY DEF DropWriter, WriteError
<1>4. CASE out' = out
  BY <1>1, <1>4, GrownSplice
<1>5. CASE out' = [out EXCEPT !.junk = TRUE]
  <2>1. out'.hdr = out.hdr /\ out'.chunks = out.chunks
    BY <1>2, <1>5 DEF File
  <2> QED BY <1>1, <2>1, GrownSplice
<1>6. ASSUME NEW chunk, out' = Write(out, chunk) PROVE SpliceInv'
  <2>1. /\ out'.hdr = out.hdr
        /\ \A i \in 1 .. Len(out.chunks) : out'.chunks[i] = out.chunks[i]
    BY <1>2, <1>6, WriteKeeps
  <2> QED BY <1>1, <2>1, GrownSplice
<1> QED BY <1>3, <1>4, <1>5, <1>6

(* Starting: nothing is told of an empty file, nothing hashed yet. *)
LEMMA StartSplice ==
  ASSUME SpliceInv, DurableInv',
         ReadCheckpoint \/ WriteHeader \/ \E force : StartFresh(force)
  PROVE  SpliceInv'
<1>0. DurableInv /\ TypeOK
  BY SpliceNumbers
<1>1. CASE \E force : StartFresh(force)
  <2>1. /\ out'.hdr = 0 /\ pc = "idle" /\ pc' = "header"
        /\ hashed' = hashed /\ pos' = pos
    BY <1>1 DEF StartFresh, NewRun, NoFile, run
  <2>2. NothingRead' /\ PrefixHashed' /\ Buffered' /\ FinishedIsOnePass'
    BY <2>1 DEF SpliceInv, NothingRead, PrefixHashed, Buffered,
                FinishedIsOnePass, WriterPcs
  <2>3. Tells(out', ck') /\ Tells(out', ckDisk')
    BY <2>1 DEF Tells
  <2> QED BY <2>2, <2>3 DEF SpliceInv
<1>2. CASE ReadCheckpoint
  <2>1. /\ out' = out /\ ck' = ck /\ ckDisk' = ckDisk
        /\ pc = "idle" /\ pc' \in {"idle", "hash"}
        /\ hashed' = hashed /\ pos' = pos
    BY <1>2 DEF ReadCheckpoint, NewRun, disk, run
  <2>2. NothingRead' /\ PrefixHashed' /\ Buffered' /\ FinishedIsOnePass'
    BY <2>1 DEF SpliceInv, NothingRead, PrefixHashed, Buffered,
                FinishedIsOnePass, WriterPcs
  <2> QED BY <2>1, <2>2 DEF SpliceInv
<1>3. CASE WriteHeader
  <2>1. /\ out'.hdr = runs /\ pc = "header" /\ pc' = "reopen"
        /\ ck' = ck /\ ckDisk' = ckDisk /\ hashed' = hashed /\ pos' = pos
        /\ w' = [NoWriter EXCEPT !.epoch = runs]
    BY <1>0, <1>3 DEF WriteHeader, TypeOK
  <2>2. ck.epoch # runs /\ ckDisk.epoch # runs
    BY <1>0, <2>1, DurableNumbers DEF DurableInv, FreshFile
  <2>3. Tells(out', ck') /\ Tells(out', ckDisk')
    BY <2>1, <2>2 DEF Tells
  <2>4. /\ hashed' = <<>> /\ w'.counter = 0 /\ w'.buf = <<>>
    BY <2>1 DEF SpliceInv, NothingRead, NoWriter
  <2>5. Buffered'
    <3>1. Len(hashed') = 0 /\ Len(w'.buf) = 0 /\ w'.counter * ChunkSize = 0
      BY <2>4, ResumeAssumption
    <3>2. SubSeq(hashed', w'.counter * ChunkSize + 1, Len(hashed')) = <<>>
      BY <3>1, SubSeqEmpty
    <3>3. Holds(out', hashed', w'.counter)
      BY <2>4 DEF Holds
    <3> QED BY <2>4, <3>1, <3>2, <3>3, ResumeAssumption DEF Buffered
  <2>6. NothingRead' /\ PrefixHashed' /\ FinishedIsOnePass'
    BY <2>1 DEF NothingRead, PrefixHashed, FinishedIsOnePass
  <2> QED BY <2>3, <2>5, <2>6 DEF SpliceInv
<1> QED BY <1>1, <1>2, <1>3

(* The source still begins with the text the checkpoint hashed, and ends *)
(* where its last counted chunk does, or the run stops.                  *)
LEMMA HashSplice ==
  ASSUME SpliceInv, DurableInv', HashPrefix
  PROVE  SpliceInv'
<1>0. TypeOK /\ ck.committed * ChunkSize \in Nat
  BY SpliceNumbers
<1>1. /\ out' = out /\ ck' = ck /\ ckDisk' = ckDisk /\ pc = "hash"
      /\ Tells(out', ck') /\ Tells(out', ckDisk')
  BY DEF HashPrefix, disk, SpliceInv
<1>2. CASE EndRun("SourceChanged")
  BY <1>1, <1>2, StoppedSplice DEF EndRun
<1>3. CASE ~EndRun("SourceChanged")
  <2>1. PICK len : len = ck.committed * ChunkSize
    OBVIOUS
  <2>2. /\ Len(source) >= len /\ SubSeq(source, 1, len) = ck.prefix
        /\ hashed' = ck.prefix /\ pc' = "truncate"
    BY <1>3, <2>1 DEF HashPrefix
  <2>3. Len(ck.prefix) = len
    <3>1. source \in Seq(Byte) /\ len \in Nat /\ Len(source) \in Nat
      BY <1>0, <2>1, LenProperties DEF TypeOK
    <3> QED BY <2>2, <3>1, PrefixOfSequence
  <2>4. PrefixHashed'
    BY <1>1, <2>1, <2>2, <2>3 DEF PrefixHashed
  <2>5. NothingRead' /\ Buffered' /\ FinishedIsOnePass'
    BY <2>2 DEF NothingRead, Buffered, FinishedIsOnePass, WriterPcs
  <2> QED BY <1>1, <2>4, <2>5 DEF SpliceInv
<1> QED BY <1>2, <1>3

(* What is left after the cut is what the checkpoint tells. *)
LEMMA TruncateSplice ==
  ASSUME SpliceInv, DurableInv', VerifyAndTruncate
  PROVE  SpliceInv'
<1>0. /\ DurableInv /\ TypeOK /\ ck.committed \in Nat
      /\ ck.committed * ChunkSize \in Nat /\ ChunkSize \in Nat \ {0}
      /\ ckDisk.committed \in Nat /\ Len(out.chunks) \in Nat
  BY SpliceNumbers
<1>1. ck' = ck /\ ckDisk' = ckDisk
  BY DEF VerifyAndTruncate
<1>2. CASE EndRun("CheckpointInvalid") /\ UNCHANGED <<out, synced>>
  BY <1>1, <1>2, StoppedSplice DEF EndRun, SpliceInv
<1>3. CASE ~(EndRun("CheckpointInvalid") /\ UNCHANGED <<out, synced>>)
  <2>1. /\ Len(out.chunks) >= ck.committed
        /\ ck.committed > 0 => Authenticates(out, ck)
        /\ out' = [out EXCEPT !.chunks = SubSeq(@, 1, ck.committed),
                              !.junk = FALSE]
        /\ w' = [epoch |-> ck.epoch, counter |-> ck.committed, buf |-> <<>>]
        /\ pc = "truncate" /\ pc' = "reopen" /\ hashed' = hashed
    BY <1>3 DEF VerifyAndTruncate
  <2>2. ck.committed > 0 /\ ck.epoch = out.hdr /\ out.hdr # 0
    BY <1>0, <2>1 DEF DurableInv, ChunksCounted, Authenticates
  <2>3. /\ out'.chunks = SubSeq(out.chunks, 1, ck.committed)
        /\ out'.hdr = out.hdr
    BY <1>0, <2>1 DEF TypeOK
  <2>4. \A i \in 1 .. ck.committed : out'.chunks[i] = out.chunks[i]
    <3>1. \A i \in 1 .. ck.committed : out.chunks[i] \in Chunk
      BY <1>0, <2>1, ElementOfSeq, DurableNumbers
    <3>2. \A i \in 1 .. ck.committed - 1 + 1 :
            SubSeq(out.chunks, 1, ck.committed)[i] = out.chunks[1 + i - 1]
      BY <1>0, <3>1, SubSeqProperties
    <3> QED BY <1>0, <2>3, <3>2
  <2>5. /\ Tells(out, ck) /\ Tells(out, ckDisk)
        /\ ckDisk.epoch # 0 /\ ckDisk.epoch = out.hdr
             => ckDisk.committed <= ck.committed
    BY <2>2 DEF SpliceInv, DurableInv, Monotonic
  <2>6. Tells(out', ck) /\ Tells(out', ckDisk)
    <3>1. ck.committed <= ck.committed
      BY <1>0
    <3> QED BY <1>0, <2>3, <2>4, <2>5, <3>1, TellsKept
  <2>7. Buffered'
    <3>1. /\ hashed = ck.prefix
          /\ Len(hashed) = ck.committed * ChunkSize
      BY <2>1 DEF SpliceInv, PrefixHashed
    <3>2. Holds(out', hashed', ck.committed)
      BY <2>1, <2>2, <2>3, <2>6, <3>1 DEF Tells
    <3>3. w'.counter = ck.committed /\ w'.buf = <<>> /\ Len(w'.buf) = 0
      BY <2>1
    <3>4. SubSeq(hashed', w'.counter * ChunkSize + 1, Len(hashed')) = <<>>
      <4>1. PICK len : len = ck.committed * ChunkSize
        OBVIOUS
      <4>2. SubSeq(hashed, len + 1, len) = <<>>
        BY <1>0, <4>1, SubSeqEmpty
      <4> QED BY <2>1, <3>1, <3>3, <4>1, <4>2
    <3>5. Len(hashed') = w'.counter * ChunkSize + Len(w'.buf)
          /\ Len(w'.buf) < ChunkSize
      BY <1>0, <2>1, <3>1, <3>3
    <3> QED BY <3>2, <3>3, <3>4, <3>5 DEF Buffered
  <2>8. NothingRead' /\ PrefixHashed' /\ FinishedIsOnePass'
    BY <2>1 DEF NothingRead, PrefixHashed, FinishedIsOnePass
  <2> QED BY <1>1, <2>6, <2>7, <2>8 DEF SpliceInv
<1> QED BY <1>2, <1>3

(* The last chunk of a pass over text: what n whole chunks leave of it. *)
Rest(e, text, n) ==
  [epoch |-> e, index |-> n,
   pt |-> SubSeq(text, n * ChunkSize + 1, Len(text)), last |-> TRUE]

(* One pass over a text: its whole chunks, then what is left of it. *)
LEMMA OnePassChunks ==
  ASSUME NEW e, NEW text \in Seq(Byte), NEW n \in Nat,
         n * ChunkSize <= Len(text), Len(text) < n * ChunkSize + ChunkSize
  PROVE  /\ DOMAIN OnePass(e, text) = 1 .. n + 1
         /\ OnePass(e, text) = [i \in 1 .. n + 1 |-> OnePass(e, text)[i]]
         /\ \A i \in 1 .. n : OnePass(e, text)[i] = Whole(e, text, i)
         /\ OnePass(e, text)[n + 1] = Rest(e, text, n)
<1> DEFINE at(i) == [epoch |-> e, index |-> i - 1,
                     pt |-> SubSeq(text, (i - 1) * ChunkSize + 1,
                                   Min2(i * ChunkSize, Len(text))),
                     last |-> i = n + 1]
<1>0. Len(text) \in Nat /\ ChunkSize \in Nat \ {0} /\ n * ChunkSize \in Nat
      /\ n + 1 - 1 = n
  BY LenProperties, ResumeAssumption
<1>1. Len(text) \div ChunkSize = n
  BY <1>0, ChunkArithmetic
<1>2. OnePass(e, text) = [i \in 1 .. n + 1 |-> at(i)]
  BY <1>1 DEF OnePass
<1>3. ASSUME NEW i \in 1 .. n PROVE OnePass(e, text)[i] = Whole(e, text, i)
  <2>1. i * ChunkSize <= n * ChunkSize /\ i * ChunkSize \in Nat
    BY <1>0, ChunkArithmetic
  <2>2. Min2(i * ChunkSize, Len(text)) = i * ChunkSize
    BY <1>0, <2>1 DEF Min2
  <2>3. i \in 1 .. n + 1 /\ (i = n + 1) = FALSE
    OBVIOUS
  <2>4. OnePass(e, text)[i] = at(i)
    BY <1>2, <2>3
  <2> QED BY <2>2, <2>3, <2>4 DEF Whole
<1>4. OnePass(e, text)[n + 1] = Rest(e, text, n)
  <2>1. PICK m : m = n + 1
    OBVIOUS
  <2>2. m \in 1 .. n + 1 /\ m - 1 = n /\ (m = n + 1) = TRUE
    BY <1>0, <2>1
  <2>3. m * ChunkSize = n * ChunkSize + ChunkSize
    BY <1>0, <2>1, ChunkArithmetic
  <2>4. Min2(m * ChunkSize, Len(text)) = Len(text)
    BY <1>0, <2>3 DEF Min2
  <2>5. OnePass(e, text)[m] = at(m)
    BY <1>2, <2>2
  <2>6. at(m) = Rest(e, text, n)
    BY <2>2, <2>4 DEF Rest
  <2> QED BY <2>1, <2>5, <2>6
<1>5. DOMAIN OnePass(e, text) = 1 .. n + 1
  BY <1>2
<1>6. OnePass(e, text) = [i \in 1 .. n + 1 |-> OnePass(e, text)[i]]
  BY <1>2
<1> QED BY <1>3, <1>4, <1>5, <1>6

(* A chunk that fills is the next of the pass; a checkpoint of the file *)
(* tells what it told.                                                  *)
LEMMA EncryptSplice ==
  ASSUME SpliceInv, DurableInv', EncryptNext
  PROVE  SpliceInv'
<1>0. /\ DurableInv /\ TypeOK /\ out \in File /\ w.counter \in Nat
      /\ ChunkSize \in Nat \ {0} /\ Len(out.chunks) \in Nat
      /\ w.counter * ChunkSize \in Nat
  BY SpliceNumbers
<1>1. /\ ck' = ck /\ ckDisk' = ckDisk /\ pc = "loop" /\ pc' \in {"sync", "loop"}
      /\ hashed' = hashed \o NextRead
  BY DEF EncryptNext
<1>2. ~out.junk /\ Len(out.chunks) = w.counter
  BY <1>1 DEF SpliceInv, DurableInv, WriterInStep, WriterPcs
<1>3. PICK text : text = hashed \o NextRead
  OBVIOUS
<1>4. /\ text \in Seq(Byte) /\ Len(text) \in Nat
      /\ Len(text) = w.counter * ChunkSize + Len(Filled)
      /\ Len(Filled) \in Nat /\ Len(Filled) < ChunkSize + ChunkSize
      /\ Filled = SubSeq(text, w.counter * ChunkSize + 1, Len(text))
      /\ Holds(out, text, w.counter)
      /\ ChunkFills =>
           /\ FullChunk = Whole(out.hdr, text, w.counter + 1)
           /\ Len(Leftover) = Len(Filled) - ChunkSize
           /\ Leftover = SubSeq(text, (w.counter + 1) * ChunkSize + 1, Len(text))
  BY <1>1, <1>3, FilledIsNext
<1>5. NothingRead' /\ PrefixHashed' /\ FinishedIsOnePass'
  BY <1>1 DEF NothingRead, PrefixHashed, FinishedIsOnePass
<1>6. CASE ChunkFills
  <2>1. /\ out' = Write(out, FullChunk)
        /\ w' = [w EXCEPT !.counter = @ + 1, !.buf = Leftover]
    BY <1>6 DEF EncryptNext
  <2>2. /\ out'.hdr = out.hdr
        /\ \A i \in 1 .. Len(out.chunks) : out'.chunks[i] = out.chunks[i]
        /\ out'.chunks[Len(out.chunks) + 1] = FullChunk
    BY <1>0, <1>2, <2>1, WriteKeeps
  <2>3. /\ Tells(out, ck) /\ Tells(out, ckDisk)
        /\ ck.committed \in Nat /\ ckDisk.committed \in Nat
        /\ ck.epoch # 0 /\ ck.epoch = out.hdr => ck.committed <= Len(out.chunks)
        /\ ckDisk.epoch # 0 /\ ckDisk.epoch = out.hdr
             => ckDisk.committed <= Len(out.chunks)
    BY SpliceNumbers DEF SpliceInv
  <2>4. Tells(out', ck) /\ Tells(out', ckDisk)
    BY <1>0, <2>2, <2>3, TellsKept
  <2>5. w'.counter = w.counter + 1 /\ w'.buf = Leftover
    BY <1>0, <2>1 DEF TypeOK
  <2>6. Holds(out', text, w.counter + 1)
    <3>1. ASSUME NEW i \in 1 .. w.counter + 1
          PROVE  out'.chunks[i] = Whole(out'.hdr, text, i)
      <4>1. CASE i = w.counter + 1
        BY <1>2, <1>4, <1>6, <2>2, <4>1
      <4>2. CASE i # w.counter + 1
        <5>1. i \in 1 .. w.counter
          BY <1>0, <4>2
        <5> QED BY <1>2, <1>4, <2>2, <5>1 DEF Holds
      <4> QED BY <4>1, <4>2
    <3> QED BY <3>1 DEF Holds
  <2>7. /\ Len(text) = (w.counter + 1) * ChunkSize + Len(Leftover)
        /\ Len(Leftover) < ChunkSize
    <3>1. PICK k : k = w.counter * ChunkSize
      OBVIOUS
    <3>2. (w.counter + 1) * ChunkSize = k + ChunkSize
      BY <1>0, <3>1, ChunkArithmetic
    <3>3. /\ k \in Nat /\ Len(text) = k + Len(Filled)
          /\ Len(Leftover) = Len(Filled) - ChunkSize
      BY <1>0, <1>4, <1>6, <3>1
    <3>4. Len(text) \in Nat /\ Len(Filled) \in Nat
          /\ Len(Filled) < ChunkSize + ChunkSize
      BY <1>4
    <3> QED BY <1>0, <3>2, <3>3, <3>4
  <2>8. Buffered'
    BY <1>1, <1>3, <1>4, <1>6, <2>5, <2>6, <2>7 DEF Buffered
  <2> QED BY <1>1, <1>5, <2>4, <2>8 DEF SpliceInv
<1>7. CASE ~ChunkFills
  <2>1. out' = out /\ w' = [w EXCEPT !.buf = Filled]
    BY <1>7 DEF EncryptNext
  <2>2. w'.counter = w.counter /\ w'.buf = Filled
    BY <1>0, <2>1 DEF TypeOK
  <2>3. Len(Filled) < ChunkSize
    <3>1. Len(Filled) \in Nat
      BY <1>4
    <3> QED BY <1>7, <3>1, ResumeAssumption DEF ChunkFills
  <2>4. Buffered'
    BY <1>1, <1>3, <1>4, <2>1, <2>2, <2>3 DEF Buffered
  <2>5. Tells(out', ck') /\ Tells(out', ckDisk')
    BY <1>1, <2>1 DEF SpliceInv
  <2> QED BY <1>5, <2>4, <2>5 DEF SpliceInv
<1> QED BY <1>6, <1>7

(* A new checkpoint tells of what the run itself has hashed and sealed. *)
LEMMA CheckpointSplice ==
  ASSUME SpliceInv, DurableInv', RenameCheckpoint \/ FsyncDirectory
  PROVE  SpliceInv'
<1>0. /\ DurableInv /\ w.counter * ChunkSize \in Nat /\ Len(w.buf) \in Nat
      /\ Len(hashed) \in Nat
  BY SpliceNumbers
<1>1. /\ out' = out /\ hashed' = hashed /\ w' = w /\ pos' = pos
      /\ pc \in WriterPcs /\ pc' \in {"dirsync", "loop"}
  BY DEF RenameCheckpoint, FsyncDirectory, WriterPcs, run
<1>2. NothingRead' /\ PrefixHashed' /\ Buffered' /\ FinishedIsOnePass'
  BY <1>1 DEF SpliceInv, NothingRead, PrefixHashed, Buffered,
              FinishedIsOnePass, WriterPcs
<1>3. CASE RenameCheckpoint
  <2>1. /\ ck'.epoch = w.epoch /\ ck'.committed = w.counter
        /\ ck'.prefix = hashed /\ ckDisk' = ckDisk
    BY <1>3 DEF RenameCheckpoint
  <2>2. /\ Holds(out, hashed, w.counter)
        /\ Len(hashed) = w.counter * ChunkSize + Len(w.buf)
    BY <1>1 DEF SpliceInv, Buffered
  <2>3. w.counter * ChunkSize <= Len(hashed)
    BY <1>0, <2>2
  <2>4. Tells(out', ck')
    BY <1>1, <2>1, <2>2, <2>3 DEF Tells
  <2> QED BY <1>1, <1>2, <2>1, <2>4 DEF SpliceInv
<1>4. CASE FsyncDirectory
  <2>1. ck' = ck /\ ckDisk' = ck
    BY <1>4 DEF FsyncDirectory
  <2> QED BY <1>1, <1>2, <2>1 DEF SpliceInv
<1> QED BY <1>3, <1>4

(* The final chunk holds the rest of the text: one pass, whole. *)
LEMMA FinishSplice ==
  ASSUME SpliceInv, DurableInv', Finish
  PROVE  SpliceInv'
<1>1. /\ DurableInv /\ TypeOK /\ out \in File /\ w.counter \in Nat
      /\ ChunkSize \in Nat \ {0} /\ Len(out.chunks) \in Nat
      /\ w.counter * ChunkSize \in Nat /\ w.buf \in Seq(Byte)
      /\ hashed \in Seq(Byte) /\ Len(hashed) \in Nat /\ Len(w.buf) \in Nat
  BY SpliceNumbers
<1>2. /\ ck' = ck /\ ckDisk' = ckDisk /\ pc = "finish" /\ pc' = "cleanup"
      /\ hashed' = hashed
  BY DEF Finish, run
<1>3. /\ ~out.junk /\ Len(out.chunks) = w.counter /\ w.epoch = out.hdr
      /\ Len(hashed) = w.counter * ChunkSize + Len(w.buf)
      /\ Len(w.buf) < ChunkSize
      /\ w.buf = SubSeq(hashed, w.counter * ChunkSize + 1, Len(hashed))
      /\ Holds(out, hashed, w.counter)
  BY <1>2 DEF SpliceInv, DurableInv, WriterInStep, Buffered
<1>4. PICK final : final = Seal(w, w.buf, TRUE)
  OBVIOUS
<1>5. out' = Write(out, final)
  BY <1>4 DEF Finish
<1>6. out \in File /\ ~out.junk
  BY <1>1, <1>3
<1>7. /\ out'.hdr = out.hdr
      /\ \A i \in 1 .. Len(out.chunks) : out'.chunks[i] = out.chunks[i]
  BY <1>5, <1>6, WriteKeeps
<1>8. /\ ~out'.junk
      /\ out'.chunks = Append(out.chunks, final)
      /\ out'.chunks[Len(out.chunks) + 1] = final
  BY <1>5, <1>6, WriteKeeps
<1>9. /\ Tells(out, ck) /\ Tells(out, ckDisk)
      /\ ck.committed \in Nat /\ ckDisk.committed \in Nat
      /\ ck.epoch # 0 /\ ck.epoch = out.hdr => ck.committed <= Len(out.chunks)
      /\ ckDisk.epoch # 0 /\ ckDisk.epoch = out.hdr
           => ckDisk.committed <= Len(out.chunks)
  BY SpliceNumbers DEF SpliceInv
<1>10. Tells(out', ck) /\ Tells(out', ckDisk)
  <2>1. Len(out.chunks) \in Nat
    BY <1>1
  <2> QED BY <1>7, <1>9, <2>1, TellsKept
<1>11. /\ w.counter * ChunkSize <= Len(hashed)
       /\ Len(hashed) < w.counter * ChunkSize + ChunkSize
  <2>1. PICK k : k = w.counter * ChunkSize
    OBVIOUS
  <2>2. k \in Nat /\ Len(hashed) = k + Len(w.buf) /\ Len(w.buf) < ChunkSize
    BY <1>1, <1>3, <2>1
  <2>3. k <= Len(hashed) /\ Len(hashed) < k + ChunkSize
    BY <1>1, <2>2
  <2> QED BY <2>1, <2>3
<1>12. PICK pass : pass = OnePass(out.hdr, hashed)
  OBVIOUS
<1>13. /\ pass = [i \in 1 .. w.counter + 1 |-> pass[i]]
       /\ \A i \in 1 .. w.counter : pass[i] = Whole(out.hdr, hashed, i)
       /\ pass[w.counter + 1] = Rest(out.hdr, hashed, w.counter)
  <2>1. PICK n, e : n = w.counter /\ e = out.hdr
    OBVIOUS
  <2>2. /\ n \in Nat /\ hashed \in Seq(Byte) /\ n * ChunkSize <= Len(hashed)
        /\ Len(hashed) < n * ChunkSize + ChunkSize
    BY <1>1, <1>11, <2>1
  <2>3. /\ OnePass(e, hashed) = [i \in 1 .. n + 1 |-> OnePass(e, hashed)[i]]
        /\ \A i \in 1 .. n : OnePass(e, hashed)[i] = Whole(e, hashed, i)
        /\ OnePass(e, hashed)[n + 1] = Rest(e, hashed, n)
    BY <2>2, OnePassChunks
  <2> QED BY <1>12, <2>1, <2>3
<1>14. final = pass[w.counter + 1]
  <2>1. final = Rest(out.hdr, hashed, w.counter)
    BY <1>3, <1>4 DEF Seal, Rest
  <2>2. pass[w.counter + 1] = Rest(out.hdr, hashed, w.counter)
    BY <1>13
  <2> QED BY <2>1, <2>2
<1>15. out'.chunks = pass
  <2>1. /\ Append(out.chunks, final) \in Seq(Chunk)
        /\ Len(Append(out.chunks, final)) = w.counter + 1
    <3>1. w.buf \in Text
      BY <1>1, SeqMonotonic DEF Text
    <3>2. final \in Chunk /\ out.chunks \in Seq(Chunk)
      BY <1>1, <1>4, <3>1, SealTypes DEF File
    <3> QED BY <1>3, <3>2, AppendProperties
  <2>2. out'.chunks = [i \in 1 .. w.counter + 1 |-> out'.chunks[i]]
    BY <1>8, <2>1, LenProperties
  <2>3. \A i \in 1 .. w.counter + 1 : out'.chunks[i] = pass[i]
    <3>1. TAKE i \in 1 .. w.counter + 1
    <3>2. CASE i = w.counter + 1
      BY <1>3, <1>8, <1>14, <3>2
    <3>3. CASE i # w.counter + 1
      <4>1. i \in 1 .. w.counter
        BY <1>1, <3>3
      <4> QED BY <1>3, <1>7, <1>13, <4>1 DEF Holds
    <3> QED BY <3>2, <3>3
  <2> QED BY <1>13, <2>2, <2>3
<1>16. FinishedIsOnePass'
  BY <1>2, <1>7, <1>8, <1>12, <1>15 DEF FinishedIsOnePass
<1>17. NothingRead' /\ PrefixHashed' /\ Buffered'
  BY <1>2 DEF NothingRead, PrefixHashed, Buffered, WriterPcs
<1> QED BY <1>2, <1>10, <1>16, <1>17 DEF SpliceInv

(* A power loss takes no chunk that a checkpoint of the file counts. *)
LEMMA PowerLossSplice ==
  ASSUME SpliceInv, DurableInv', PowerLoss
  PROVE  SpliceInv'
<1>0. DurableInv /\ TypeOK /\ Len(out.chunks) \in Nat
  BY SpliceNumbers
<1>1. PICK keep \in synced .. Items(out), junk \in BOOLEAN :
        /\ out' = [out EXCEPT !.hdr = IF keep = 0 THEN 0 ELSE @,
                              !.chunks = SubSeq(@, 1, keep - 1),
                              !.junk = junk]
        /\ synced' = keep
  BY DEF PowerLoss
<1>2. /\ ck' = ck \/ ck' = ckDisk
      /\ ckDisk' = ck' /\ pc' = "idle"
      /\ hashed' = <<>> /\ pos' = 0
  BY DEF PowerLoss, EndRun, run, SpliceInv, NothingRead
<1>3. /\ keep \in Nat /\ synced <= keep
      /\ keep # 0 => keep - 1 \in Nat /\ keep - 1 <= Len(out.chunks)
  <2>1. Items(out) \in Nat /\ synced \in Nat
    BY <1>0, DurableNumbers DEF Items
  <2> QED BY <1>0, <2>1 DEF Items
<1>4. /\ out'.hdr = IF keep = 0 THEN 0 ELSE out.hdr
      /\ out'.chunks = SubSeq(out.chunks, 1, keep - 1)
  BY <1>0, <1>1 DEF TypeOK
<1>5. CASE keep = 0
  <2>1. out'.hdr = 0
    BY <1>4, <1>5
  <2>2. Tells(out', ck') /\ Tells(out', ckDisk')
    BY <2>1 DEF Tells
  <2> QED BY <1>2, <2>2, StoppedSplice
<1>6. CASE keep # 0
  <2>1. PICK k : k = keep - 1
    OBVIOUS
  <2>2. k \in Nat /\ k <= Len(out.chunks) /\ out'.hdr = out.hdr
        /\ out'.chunks = SubSeq(out.chunks, 1, k)
    BY <1>3, <1>4, <1>6, <2>1
  <2>3. \A i \in 1 .. k : out'.chunks[i] = out.chunks[i]
    <3>1. \A i \in 1 .. k : out.chunks[i] \in Chunk
      BY <1>0, <2>2, ElementOfSeq, DurableNumbers
    <3>2. \A i \in 1 .. k - 1 + 1 :
            SubSeq(out.chunks, 1, k)[i] = out.chunks[1 + i - 1]
      BY <2>2, <3>1, SubSeqProperties
    <3> QED BY <2>2, <3>2
  <2>4. ASSUME NEW c \in {ck, ckDisk}, c.epoch # 0, c.epoch = out.hdr
        PROVE  c.committed <= k
    <3>1. c.committed < synced /\ c.committed \in Nat /\ synced \in Nat
      BY <1>0, <2>4, DurableNumbers DEF DurableInv, CheckpointDurable, Covered
    <3> QED BY <1>3, <2>1, <3>1
  <2>5. ASSUME NEW c \in {ck, ckDisk} PROVE Tells(out', c)
    <3>1. Tells(out, c) /\ c.committed \in Nat
      BY <1>0, DurableNumbers DEF SpliceInv
    <3>2. c.epoch # 0 /\ c.epoch = out.hdr => c.committed <= k
      BY <2>4
    <3> QED BY <2>2, <2>3, <3>1, <3>2, TellsKept
  <2> QED BY <1>2, <2>5, StoppedSplice
<1> QED BY <1>5, <1>6

(* Steps that change neither file, checkpoint, text nor writer, and stay *)
(* among the points of a run that ask the same of them.                  *)
LEMMA QuietSplice ==
  ASSUME SpliceInv, DurableInv',
         UNCHANGED <<out, ck, ckDisk, w, hashed, pos>>,
         \/ UNCHANGED pc
         \/ pc \in WriterPcs /\ pc' \in WriterPcs \cup {"finish"}
  PROVE  SpliceInv'
<1>1. NothingRead' /\ PrefixHashed' /\ Buffered' /\ FinishedIsOnePass'
  BY DEF SpliceInv, NothingRead, PrefixHashed, Buffered, FinishedIsOnePass,
         WriterPcs
<1> QED BY <1>1 DEF SpliceInv

(* Before the first run nothing is told and nothing is read. *)
LEMMA InitSplice == Init => SpliceInv
<1> SUFFICES ASSUME Init PROVE SpliceInv
  OBVIOUS
<1>1. /\ out.hdr = 0 /\ pc = "idle" /\ hashed = <<>> /\ pos = 0
  BY DEF Init, NoFile
<1>2. Tells(out, ck) /\ Tells(out, ckDisk)
  BY <1>1 DEF Tells
<1>3. NothingRead /\ PrefixHashed /\ Buffered /\ FinishedIsOnePass
  BY <1>1 DEF NothingRead, PrefixHashed, Buffered, FinishedIsOnePass, WriterPcs
<1> QED BY <1>2, <1>3, InitDurable DEF SpliceInv

(* Every step keeps it, each action by the lemma on its kind. *)
LEMMA StepSplice == SpliceInv /\ [Next]_vars => SpliceInv'
<1> SUFFICES ASSUME SpliceInv, [Next]_vars PROVE SpliceInv'
  OBVIOUS
<1>0. DurableInv' /\ TypeOK
  BY StepDurable, SpliceNumbers
<1>1. CASE UNCHANGED vars \/ RefuseOverwrite \/ EditSource
  <2>1. UNCHANGED <<out, ck, ckDisk, w, hashed, pos, pc>>
    BY <1>1 DEF vars, RefuseOverwrite, EditSource, disk, run
  <2> QED BY <1>0, <2>1, QuietSplice
<1>2. CASE ReopenSource \/ SyncData \/ EndOfSource
  <2>1. /\ UNCHANGED <<out, ck, ckDisk, w, hashed, pos>>
        /\ pc \in WriterPcs /\ pc' \in WriterPcs \cup {"finish"}
    BY <1>2 DEF ReopenSource, SyncData, EndOfSource, disk, run, WriterPcs
  <2> QED BY <1>0, <2>1, QuietSplice
<1>3. CASE StartFresh(FALSE) \/ Rerun \/ WriteHeader
  BY <1>0, <1>3, StartSplice DEF Rerun
<1>4. CASE HashPrefix
  BY <1>0, <1>4, HashSplice
<1>5. CASE VerifyAndTruncate
  BY <1>0, <1>5, TruncateSplice
<1>6. CASE EncryptNext
  BY <1>0, <1>6, EncryptSplice
<1>7. CASE RenameCheckpoint \/ FsyncDirectory
  BY <1>0, <1>7, CheckpointSplice
<1>8. CASE Finish
  BY <1>0, <1>8, FinishSplice
<1>9. CASE RemoveCheckpoint
  <2>1. /\ out' = out /\ ckDisk' = ckDisk /\ ck' \in {NoCheckpoint, ck}
        /\ pc' = "idle" /\ hashed' = <<>> /\ pos' = 0
    BY <1>9 DEF RemoveCheckpoint, EndRun
  <2>2. Tells(out, ck) /\ Tells(out, ckDisk) /\ Tells(out, NoCheckpoint)
    BY DEF SpliceInv, Tells, NoCheckpoint
  <2> QED BY <1>0, <2>1, <2>2, StoppedSplice
<1>10. CASE OpenBareParent \/ IoError
  <2>1. /\ DropWriter(out, w.buf) /\ EndRun("Io")
        /\ ck' = ck /\ ckDisk' = ckDisk
    BY <1>10 DEF OpenBareParent, IoError
  <2> QED BY <1>0, <2>1, DroppedSplice
<1>11. CASE WriteError
  <2>1. EndRun("Io") /\ ck' = ck /\ ckDisk' = ckDisk
    BY <1>11 DEF WriteError
  <2> QED BY <1>0, <1>11, <2>1, DroppedSplice
<1>12. CASE EarlyError
  <2>1. /\ out' = out /\ ck' = ck /\ ckDisk' = ckDisk
        /\ pc' = "idle" /\ hashed' = <<>> /\ pos' = 0
    BY <1>12 DEF EarlyError, EndRun, disk
  <2> QED BY <1>0, <2>1, GrownSplice
<1>13. CASE Kill
  <2>1. /\ ck' = ck /\ ckDisk' = ckDisk
        /\ pc' = "idle" /\ hashed' = <<>> /\ pos' = 0
        /\ (out' = out \/ out' = [out EXCEPT !.junk = TRUE])
    BY <1>13 DEF Kill, EndRun
  <2>2. out'.hdr = out.hdr /\ out'.chunks = out.chunks
    BY <1>0, <2>1 DEF TypeOK
  <2> QED BY <1>0, <2>1, <2>2, GrownSplice
<1>14. CASE PowerLoss
  BY <1>0, <1>14, PowerLossSplice
<1> QED
  BY <1>1, <1>2, <1>3, <1>4, <1>5, <1>6, <1>7, <1>8, <1>9, <1>10, <1>11,
     <1>12, <1>13, <1>14
  DEF Next, Rerun, Step

(* However many runs it took, however they stopped, whatever was done to the *)
(* source meanwhile, and in either build: a run that gets to the end has     *)
(* produced the file that one uninterrupted pass over the text it hashed     *)
(* would have produced.                                                      *)
THEOREM FinishedInOnePass == Spec => []FinishedIsOnePass
<1>1. SpliceInv => FinishedIsOnePass
  BY DEF SpliceInv
<1> QED BY <1>1, InitSplice, StepSplice, PTL DEF Spec

-----------------------------------------------------------------------------
(* What resuming owes to the user: a finished file is of the source, and no *)
(* checkpoint this code wrote is refused.                                    *)

(* If the source is only rewritten between two runs, a run has hashed what *)
(* it has read of it, and all of it at the end.                            *)
Reading ==
  pc \in WriterPcs \cup {"truncate"} =>
    pos <= Len(source) /\ hashed = SubSeq(source, 1, pos)

ReadAll == pc \in {"finish", "cleanup"} => hashed = source

SourceInv == SpliceInv /\ Reading /\ ReadAll

(* What one step of the loop reads. *)
LEMMA ReadNext ==
  ASSUME TypeOK, pos <= Len(source), hashed = SubSeq(source, 1, pos)
  PROVE  /\ pos + Len(NextRead) <= Len(source)
         /\ hashed \o NextRead = SubSeq(source, 1, pos + Len(NextRead))
         /\ NextRead = <<>> => hashed = source
<1>1. /\ source \in Seq(Byte) /\ Len(source) \in Nat /\ pos \in Nat
      /\ ChunkSize \in Nat \ {0}
  BY LenProperties, ResumeAssumption DEF TypeOK
<1>2. PICK upto : upto = Min2(pos + ChunkSize, Len(source))
  OBVIOUS
<1>3. /\ upto \in Nat /\ pos <= upto /\ upto <= Len(source)
      /\ upto = pos => pos = Len(source)
  BY <1>1, <1>2 DEF Min2
<1>4. NextRead = SubSeq(source, pos + 1, upto)
  BY <1>2 DEF NextRead
<1>5. Len(NextRead) = upto - pos
  <2>1. pos + 1 \in Nat \ {0}
    BY <1>1
  <2>2. Len(NextRead) = IF pos + 1 <= upto THEN upto - (pos + 1) + 1 ELSE 0
    BY <1>1, <1>3, <1>4, <2>1, CutLength
  <2> QED BY <1>1, <1>3, <2>2
<1>6. SubSeq(source, 1, pos) \o SubSeq(source, pos + 1, upto)
        = SubSeq(source, 1, upto)
  <2>1. /\ 1 \in 1 .. Len(source) + 1 /\ pos \in 1 - 1 .. Len(source)
        /\ upto \in pos .. Len(source)
    BY <1>1, <1>3
  <2> QED BY <1>1, <2>1, ConcatAdjacentSubSeq
<1>7. pos + Len(NextRead) = upto
  BY <1>1, <1>3, <1>5
<1>8. ASSUME NextRead = <<>> PROVE hashed = source
  <2>1. Len(NextRead) = 0
    BY <1>8
  <2>2. pos = Len(source)
    BY <1>1, <1>3, <1>5, <2>1
  <2> QED BY <1>1, <2>2, SubSeqFull
<1> QED BY <1>3, <1>4, <1>6, <1>7, <1>8

(* Every step keeps it. *)
LEMMA StepSource ==
  ASSUME EditPcs \subseteq {"idle"} \/ MaxEdits = 0, SourceInv, [Next]_vars
  PROVE  SourceInv'
<1>0. SpliceInv /\ SpliceInv' /\ TypeOK
  BY StepSplice, SpliceNumbers DEF SourceInv
<1>1. ASSUME pc' \in {"idle", "hash", "header"} PROVE SourceInv'
  BY <1>0, <1>1 DEF SourceInv, Reading, ReadAll, WriterPcs
<1>2. ASSUME UNCHANGED <<source, hashed, pos, pc>> PROVE SourceInv'
  BY <1>0, <1>2 DEF SourceInv, Reading, ReadAll
<1>3. CASE UNCHANGED vars \/ RefuseOverwrite \/ EditSource
  <2>1. edits \in Nat
    BY <1>0 DEF TypeOK
  <2>2. UNCHANGED <<source, hashed, pos, pc>> \/ pc' = "idle"
    BY <1>3, <2>1 DEF vars, RefuseOverwrite, EditSource, run
  <2> QED BY <1>1, <1>2, <2>2
<1>4. CASE \/ StartFresh(FALSE) \/ Rerun \/ OpenBareParent \/ RemoveCheckpoint
           \/ EarlyError \/ IoError \/ WriteError \/ Kill \/ PowerLoss
  <2>1. pc' \in {"idle", "hash", "header"}
    BY <1>4
    DEF StartFresh, Rerun, ReadCheckpoint, OpenBareParent, RemoveCheckpoint,
        EarlyError, IoError, WriteError, Kill, PowerLoss, EndRun
  <2> QED BY <1>1, <2>1
<1>5. CASE WriteHeader
  <2>1. /\ pc' = "reopen" /\ hashed' = <<>> /\ pos' = 0 /\ source' = source
    BY <1>0, <1>5 DEF WriteHeader, SpliceInv, NothingRead
  <2>2. SubSeq(source, 1, 0) = <<>> /\ Len(source) \in Nat
    BY <1>0, SubSeqEmpty, LenProperties DEF TypeOK
  <2> QED BY <1>0, <2>1, <2>2 DEF SourceInv, Reading, ReadAll
<1>6. CASE HashPrefix
  <2>1. CASE EndRun("SourceChanged")
    BY <1>1, <2>1 DEF EndRun
  <2>2. CASE ~EndRun("SourceChanged")
    <3>1. /\ Len(source) >= ck.committed * ChunkSize
          /\ SubSeq(source, 1, ck.committed * ChunkSize) = ck.prefix
          /\ hashed' = ck.prefix /\ pos' = ck.committed * ChunkSize
          /\ pc' = "truncate" /\ source' = source
      BY <1>6, <2>2 DEF HashPrefix
    <3>2. pos' <= Len(source')
      <4>1. PICK len : len = ck.committed * ChunkSize
        OBVIOUS
      <4>2. len \in Nat /\ Len(source) \in Nat
        BY <1>0, <4>1, SpliceNumbers, LenProperties DEF TypeOK
      <4> QED BY <3>1, <4>1, <4>2
    <3>3. hashed' = SubSeq(source', 1, pos')
      BY <3>1
    <3> QED BY <1>0, <3>1, <3>2, <3>3 DEF SourceInv, Reading, ReadAll
  <2> QED BY <2>1, <2>2
<1>7. CASE VerifyAndTruncate
  <2>1. CASE EndRun("CheckpointInvalid")
    BY <1>1, <2>1 DEF EndRun
  <2>2. CASE ~EndRun("CheckpointInvalid")
    <3>1. /\ pc = "truncate" /\ pc' = "reopen"
          /\ UNCHANGED <<source, hashed, pos>>
      BY <1>7, <2>2 DEF VerifyAndTruncate
    <3> QED BY <1>0, <3>1 DEF SourceInv, Reading, ReadAll
  <2> QED BY <2>1, <2>2
<1>8. CASE ReopenSource \/ SyncData \/ RenameCheckpoint \/ FsyncDirectory
  <2>1. /\ UNCHANGED <<source, hashed, pos>>
        /\ pc \in WriterPcs /\ pc' \in WriterPcs
    BY <1>8
    DEF ReopenSource, SyncData, RenameCheckpoint, FsyncDirectory, run, WriterPcs
  <2> QED BY <1>0, <2>1 DEF SourceInv, Reading, ReadAll, WriterPcs
<1>9. CASE EncryptNext \/ EndOfSource
  <2>1. pos <= Len(source) /\ hashed = SubSeq(source, 1, pos)
    BY <1>9 DEF SourceInv, Reading, EncryptNext, EndOfSource, WriterPcs
  <2>2. /\ pos + Len(NextRead) <= Len(source)
        /\ hashed \o NextRead = SubSeq(source, 1, pos + Len(NextRead))
        /\ NextRead = <<>> => hashed = source
    BY <1>0, <2>1, ReadNext
  <2>3. CASE EncryptNext
    <3>1. /\ hashed' = hashed \o NextRead /\ pos' = pos + Len(NextRead)
          /\ source' = source /\ pc' \in WriterPcs
      BY <2>3 DEF EncryptNext, WriterPcs
    <3> QED BY <1>0, <2>2, <3>1 DEF SourceInv, Reading, ReadAll, WriterPcs
  <2>4. CASE EndOfSource
    <3>1. NextRead = <<>> /\ hashed' = hashed /\ source' = source /\ pc' = "finish"
      BY <2>4 DEF EndOfSource, run
    <3> QED BY <1>0, <2>2, <3>1 DEF SourceInv, Reading, ReadAll, WriterPcs
  <2> QED BY <1>9, <2>3, <2>4
<1>10. CASE Finish
  <2>1. pc = "finish" /\ pc' = "cleanup" /\ UNCHANGED <<source, hashed>>
    BY <1>10 DEF Finish, run
  <2> QED BY <1>0, <2>1 DEF SourceInv, Reading, ReadAll, WriterPcs
<1> QED
  BY <1>3, <1>4, <1>5, <1>6, <1>7, <1>8, <1>9, <1>10 DEF Next, Rerun, Step

(* A checkpoint names the session it is of. *)
CheckpointNamed ==
  /\ ck = NoCheckpoint \/ ck.epoch # 0
  /\ ckDisk = NoCheckpoint \/ ckDisk.epoch # 0

(* A checkpoint that is not of the file's session has come back from the *)
(* disk: no other entry hides behind it.                                 *)
OrphanIsDurable ==
  out.hdr # 0 /\ ck # NoCheckpoint /\ ck.epoch # out.hdr => ckDisk = ck

(* No checkpoint stands where a fresh file is started, and the one that was *)
(* refused stays, of another session, whatever becomes of the file.         *)
FreshUnnamed == pc = "header" => ck = NoCheckpoint

RefusedIsOrphan ==
  outcome = "CheckpointInvalid" =>
    /\ pc = "idle" /\ ck # NoCheckpoint
    /\ ck.epoch # out.hdr /\ ckDisk = ck

OrphanInv ==
  /\ SpliceInv /\ CheckpointNamed /\ OrphanIsDurable /\ FreshUnnamed
  /\ RefusedIsOrphan

(* The checkpoint of the file's own session is never refused. *)
LEMMA OwnAuthenticates ==
  ASSUME SpliceInv, ck.epoch = out.hdr, pc = "truncate"
  PROVE  Len(out.chunks) >= ck.committed /\ Authenticates(out, ck)
<1>0. DurableInv /\ TypeOK /\ ck.committed \in Nat /\ Len(out.chunks) \in Nat
      /\ Tells(out, ck)
  BY SpliceNumbers DEF SpliceInv
<1>1. ck.committed > 0 /\ out.hdr # 0
  BY <1>0 DEF DurableInv, ChunksCounted
<1>2. ck.committed <= Len(out.chunks)
  BY <1>1, SpliceNumbers
<1>3. out.chunks[ck.committed] = Whole(out.hdr, ck.prefix, ck.committed)
  BY <1>0, <1>1 DEF Tells, Holds
<1>4. Authenticates(out, ck)
  BY <1>3 DEF Authenticates, Whole
<1> QED BY <1>0, <1>2, <1>4

(* Every step keeps it. *)
LEMMA StepOrphan == OrphanInv /\ [Next]_vars => OrphanInv'
<1> SUFFICES ASSUME OrphanInv, [Next]_vars PROVE OrphanInv'
  OBVIOUS
<1>0. SpliceInv /\ SpliceInv' /\ TypeOK /\ DurableInv
  BY StepSplice, SpliceNumbers DEF OrphanInv
<1>1. ASSUME out'.hdr = out.hdr, ck' = ck, ckDisk' = ckDisk, pc' # "header",
             outcome' # "CheckpointInvalid"
      PROVE  OrphanInv'
  BY <1>0, <1>1
  DEF OrphanInv, CheckpointNamed, OrphanIsDurable, FreshUnnamed, RefusedIsOrphan
<1>2. CASE UNCHANGED vars \/ EditSource
  <2>1. UNCHANGED <<out, ck, ckDisk, pc, outcome>>
    BY <1>2 DEF vars, EditSource, disk
  <2> QED BY <1>0, <2>1
          DEF OrphanInv, CheckpointNamed, OrphanIsDurable, FreshUnnamed,
              RefusedIsOrphan
<1>3. CASE RefuseOverwrite
  <2>1. UNCHANGED <<out, ck, ckDisk, pc>> /\ pc = "idle" /\ outcome' = "OutputExists"
    BY <1>3 DEF RefuseOverwrite, disk
  <2> QED BY <1>1, <2>1
<1>4. ASSUME NEW force, StartFresh(force) PROVE OrphanInv'
  <2>1. /\ out'.hdr = 0 /\ ck = NoCheckpoint /\ ck' = ck /\ ckDisk' = ckDisk
        /\ outcome' = "running"
    BY <1>4 DEF StartFresh, NoFile
  <2> QED BY <1>0, <2>1
          DEF OrphanInv, CheckpointNamed, OrphanIsDurable, FreshUnnamed,
              RefusedIsOrphan
<1>5. CASE WriteHeader
  <2>1. /\ pc = "header" /\ pc' = "reopen" /\ ck' = ck /\ ckDisk' = ckDisk
        /\ outcome' = outcome
    BY <1>5 DEF WriteHeader
  <2>2. ck = NoCheckpoint /\ outcome # "CheckpointInvalid"
    BY <2>1 DEF OrphanInv, FreshUnnamed, RefusedIsOrphan
  <2> QED BY <1>0, <2>1, <2>2
          DEF OrphanInv, CheckpointNamed, OrphanIsDurable, FreshUnnamed,
              RefusedIsOrphan
<1>6. CASE ReadCheckpoint \/ HashPrefix \/ ReopenSource \/ SyncData \/ EndOfSource
           \/ EarlyError
  <2>1. UNCHANGED <<out, ck, ckDisk>> /\ pc' # "header"
    BY <1>6
    DEF ReadCheckpoint, HashPrefix, ReopenSource, SyncData, EndOfSource,
        EarlyError, EndRun, disk
  <2>2. outcome' # "CheckpointInvalid"
    BY <1>6
    DEF ReadCheckpoint, HashPrefix, ReopenSource, SyncData, EndOfSource,
        EarlyError, EndRun, OrphanInv, RefusedIsOrphan
  <2> QED BY <1>1, <2>1, <2>2
<1>7. CASE VerifyAndTruncate
  <2>1. ck' = ck /\ ckDisk' = ckDisk /\ pc = "truncate"
    BY <1>7 DEF VerifyAndTruncate
  <2>2. CASE EndRun("CheckpointInvalid") /\ UNCHANGED <<out, synced>>
    <3>1. /\ out.hdr # 0 /\ ck.committed > 0
      BY <1>0, <2>1 DEF DurableInv, ChunksCounted
    <3>2. ck.epoch # out.hdr
      <4>1. SUFFICES ASSUME ck.epoch = out.hdr PROVE FALSE
        OBVIOUS
      <4>2. Len(out.chunks) >= ck.committed /\ Authenticates(out, ck)
        BY <1>0, <2>1, <4>1, OwnAuthenticates
      <4>3. pc' = "reopen"
        BY <1>7, <4>2 DEF VerifyAndTruncate
      <4> QED BY <2>2, <4>3 DEF EndRun
    <3>3. ck # NoCheckpoint
      BY <3>1 DEF NoCheckpoint
    <3>4. ckDisk = ck
      BY <3>1, <3>2, <3>3 DEF OrphanInv, OrphanIsDurable
    <3>5. out' = out /\ pc' = "idle"
      BY <2>2 DEF EndRun
    <3> QED BY <1>0, <2>1, <3>2, <3>3, <3>4, <3>5
            DEF OrphanInv, CheckpointNamed, OrphanIsDurable, FreshUnnamed,
                RefusedIsOrphan
  <2>3. CASE ~(EndRun("CheckpointInvalid") /\ UNCHANGED <<out, synced>>)
    <3>1. /\ out' = [out EXCEPT !.chunks = SubSeq(@, 1, ck.committed),
                                !.junk = FALSE]
          /\ pc' = "reopen" /\ outcome' = outcome
      BY <1>7, <2>3 DEF VerifyAndTruncate
    <3>2. out'.hdr = out.hdr
      BY <1>0, <3>1 DEF TypeOK
    <3>3. outcome' # "CheckpointInvalid"
      BY <2>1, <3>1 DEF OrphanInv, RefusedIsOrphan
    <3> QED BY <1>1, <2>1, <3>1, <3>2, <3>3
  <2> QED BY <2>2, <2>3
<1>8. CASE EncryptNext \/ Finish
  <2>1. /\ ck' = ck /\ ckDisk' = ckDisk /\ pc \in {"loop", "finish"}
        /\ pc' # "header" /\ outcome' = outcome
        /\ (out' = out \/ \E chunk : out' = Write(out, chunk))
    BY <1>8 DEF EncryptNext, Finish
  <2>2. out \in File
    BY <1>0, SpliceNumbers
  <2>3. out'.hdr = out.hdr
    BY <2>1, <2>2, WriteKeeps
  <2>4. outcome' # "CheckpointInvalid"
    BY <2>1 DEF OrphanInv, RefusedIsOrphan
  <2> QED BY <1>1, <2>1, <2>3, <2>4
<1>9. CASE RenameCheckpoint
  <2>1. /\ ck'.epoch = w.epoch /\ ckDisk' = ckDisk /\ out' = out
        /\ pc = "ckpt" /\ pc' = "dirsync" /\ outcome' = outcome
    BY <1>9 DEF RenameCheckpoint
  <2>2. w.epoch = out.hdr /\ out.hdr # 0
    BY <1>0, <2>1 DEF DurableInv, WriterInStep, WriterPcs
  <2> QED BY <1>0, <2>1, <2>2
          DEF OrphanInv, CheckpointNamed, OrphanIsDurable, FreshUnnamed,
              RefusedIsOrphan
<1>10. CASE FsyncDirectory
  <2>1. /\ ck' = ck /\ ckDisk' = ck /\ out' = out
        /\ pc = "dirsync" /\ pc' = "loop" /\ outcome' = outcome
    BY <1>10 DEF FsyncDirectory
  <2> QED BY <1>0, <2>1
          DEF OrphanInv, CheckpointNamed, OrphanIsDurable, FreshUnnamed,
              RefusedIsOrphan
<1>11. CASE RemoveCheckpoint
  <2>1. /\ ck' \in {NoCheckpoint, ck} /\ ckDisk' = ckDisk /\ out' = out
        /\ pc' = "idle" /\ outcome' = "ok"
    BY <1>11 DEF RemoveCheckpoint, EndRun
  <2> QED BY <1>0, <2>1
          DEF OrphanInv, CheckpointNamed, OrphanIsDurable, FreshUnnamed,
              RefusedIsOrphan
<1>12. CASE OpenBareParent \/ IoError \/ WriteError \/ Kill
  <2>1. /\ ck' = ck /\ ckDisk' = ckDisk /\ pc' = "idle"
        /\ outcome' # "CheckpointInvalid"
        /\ \/ out' = out
           \/ out' = [out EXCEPT !.junk = TRUE]
           \/ \E chunk : out' = Write(out, chunk)
    BY <1>12 DEF OpenBareParent, IoError, WriteError, Kill, EndRun, DropWriter
  <2>2. out \in File
    BY <1>0, SpliceNumbers
  <2>3. out'.hdr = out.hdr
    BY <2>1, <2>2, WriteKeeps DEF File
  <2> QED BY <1>1, <2>1, <2>3
<1>13. CASE PowerLoss
  <2>1. /\ ck' \in {ck, ckDisk} /\ ckDisk' = ck' /\ pc' = "idle"
        /\ outcome' \in {outcome, "killed"}
    BY <1>13 DEF PowerLoss, EndRun
  <2>2. out'.hdr = 0 \/ out'.hdr = out.hdr
    BY <1>0, <1>13 DEF PowerLoss, TypeOK
  <2>3. ck' = NoCheckpoint \/ ck'.epoch # 0
    BY <2>1 DEF OrphanInv, CheckpointNamed
  <2>4. RefusedIsOrphan'
    BY <2>1, <2>2, <2>3 DEF OrphanInv, RefusedIsOrphan
  <2>5. CheckpointNamed' /\ OrphanIsDurable' /\ FreshUnnamed'
    BY <2>1, <2>3 DEF CheckpointNamed, OrphanIsDurable, FreshUnnamed
  <2> QED BY <1>0, <2>4, <2>5 DEF OrphanInv
<1> QED
  BY <1>2, <1>3, <1>4, <1>5, <1>6, <1>7, <1>8, <1>9, <1>10, <1>11, <1>12, <1>13
  DEF Next, Rerun, Step

(* Before the first run there is no checkpoint to refuse. *)
LEMMA InitOrphan == Init => OrphanInv
<1> SUFFICES ASSUME Init PROVE OrphanInv
  OBVIOUS
<1>1. ck = NoCheckpoint /\ ckDisk = NoCheckpoint /\ outcome = "none"
  BY DEF Init
<1> QED BY <1>1, InitSplice
        DEF OrphanInv, CheckpointNamed, OrphanIsDurable, FreshUnnamed,
            RefusedIsOrphan

(* The pair of file and checkpoint that this code leaves behind, in whatever *)
(* way it stopped, is always accepted by the next run.                       *)
THEOREM OwnIsAccepted == Spec => []OwnCheckpointAccepted
<1>1. OrphanInv => OwnCheckpointAccepted
  BY DEF OrphanInv, RefusedIsOrphan, OwnCheckpointAccepted
<1> QED BY <1>1, InitOrphan, StepOrphan, PTL DEF Spec

(* If the source is rewritten between runs at most, a finished file encrypts *)
(* the source as it now is: two versions are never spliced together; and a   *)
(* checkpoint is refused only if it is of another session than the file.     *)
THEOREM ResumesWell ==
  ASSUME EditPcs \subseteq {"idle"} PROVE Spec => []ResumedWell
<1>1. Init => SourceInv
  BY InitSplice DEF SourceInv, Reading, ReadAll, Init, WriterPcs
<1>2. SourceInv /\ [Next]_vars => SourceInv'
  BY StepSource
<1>3. SourceInv => FinishedIsSource
  BY DEF SourceInv, SpliceInv, ReadAll, FinishedIsOnePass, FinishedIsSource
<1>4. OrphanInv => OwnCheckpointAccepted
  BY DEF OrphanInv, RefusedIsOrphan, OwnCheckpointAccepted
<1>5. FinishedIsSource /\ OwnCheckpointAccepted => ResumedWell
  BY DEF ResumedWell
<1> QED BY <1>1, <1>2, <1>3, <1>4, <1>5, InitOrphan, StepOrphan, PTL DEF Spec

-----------------------------------------------------------------------------
(* For a source that stays as it is: whatever a decryptor accepts is whole, *)
(* and what is sealed twice is the same.                                     *)

(* One pass over the source as it is: its chunks, and how many they are. *)
LEMMA PassOfSource ==
  ASSUME TypeOK, NEW e, NEW n, n = Len(source) \div ChunkSize
  PROVE  /\ n \in Nat
         /\ DOMAIN OnePass(e, source) = 1 .. n + 1
         /\ OnePass(e, source) = [i \in 1 .. n + 1 |-> OnePass(e, source)[i]]
         /\ \A i \in 1 .. n : OnePass(e, source)[i] = Whole(e, source, i)
         /\ OnePass(e, source)[n + 1] = Rest(e, source, n)
         /\ \A k \in Nat : k * ChunkSize <= Len(source) => k <= n
<1>1. source \in Seq(Byte) /\ Len(source) \in Nat /\ ChunkSize \in Nat \ {0}
  BY LenProperties, ResumeAssumption DEF TypeOK
<1>2. /\ n \in Nat /\ n * ChunkSize <= Len(source)
      /\ Len(source) < n * ChunkSize + ChunkSize
  BY <1>1
<1>3. ASSUME NEW k \in Nat, k * ChunkSize <= Len(source) PROVE k <= n
  <2>1. SUFFICES ASSUME n < k PROVE FALSE
    BY <1>2
  <2>2. n + 1 \in 1 .. k
    BY <1>2, <2>1
  <2>3. (n + 1) * ChunkSize <= k * ChunkSize
    BY <1>1, <2>2, ChunkArithmetic
  <2>4. (n + 1) * ChunkSize = n * ChunkSize + ChunkSize
    BY <1>1, <1>2, ChunkArithmetic
  <2>5. k * ChunkSize \in Nat /\ n * ChunkSize \in Nat
    BY <1>1, <1>2
  <2> QED BY <1>1, <1>2, <1>3, <2>3, <2>4, <2>5
<1>4. /\ DOMAIN OnePass(e, source) = 1 .. n + 1
      /\ OnePass(e, source) = [i \in 1 .. n + 1 |-> OnePass(e, source)[i]]
      /\ \A i \in 1 .. n : OnePass(e, source)[i] = Whole(e, source, i)
      /\ OnePass(e, source)[n + 1] = Rest(e, source, n)
  BY <1>1, <1>2, OnePassChunks
<1> QED BY <1>2, <1>3, <1>4

(* In a build that seals nothing on the way out, for a source nobody        *)
(* rewrites: every chunk ever sealed is that of one pass over the source    *)
(* under its key and counter, and the file is a beginning of such a pass.   *)
SealedInPass ==
  \A x \in sealed :
    /\ x.index + 1 \in DOMAIN OnePass(x.epoch, source)
    /\ x = OnePass(x.epoch, source)[x.index + 1]

FileInPass ==
  /\ out.hdr = 0 => out.chunks = <<>>
  /\ \A i \in 1 .. Len(out.chunks) :
       /\ i \in DOMAIN OnePass(out.hdr, source)
       /\ out.chunks[i] = OnePass(out.hdr, source)[i]

StableInv == SourceInv /\ SealedInPass /\ FileInPass

(* A chunk that fills is the source's. *)
LEMMA FullInPass ==
  ASSUME SourceInv, pc = "loop", ChunkFills
  PROVE  /\ w.counter + 1 \in DOMAIN OnePass(out.hdr, source)
         /\ FullChunk = OnePass(out.hdr, source)[w.counter + 1]
<1>0. /\ SpliceInv /\ TypeOK /\ w.counter \in Nat /\ ChunkSize \in Nat \ {0}
  BY SpliceNumbers DEF SourceInv
<1>1. pos <= Len(source) /\ hashed = SubSeq(source, 1, pos)
  BY DEF SourceInv, Reading, WriterPcs
<1>2. PICK upto : upto = pos + Len(NextRead)
  OBVIOUS
<1>3. PICK text : text = hashed \o NextRead
  OBVIOUS
<1>4. /\ upto <= Len(source) /\ text = SubSeq(source, 1, upto)
  BY <1>0, <1>1, <1>2, <1>3, ReadNext
<1>5. /\ text \in Seq(Byte) /\ Len(text) \in Nat
      /\ Len(text) = w.counter * ChunkSize + Len(Filled)
      /\ Len(Filled) \in Nat
      /\ FullChunk = Whole(out.hdr, text, w.counter + 1)
  BY <1>0, <1>3, FilledIsNext
<1>6. PICK k : k = w.counter + 1
  OBVIOUS
<1>7. /\ k \in Nat /\ k \in 1 .. k /\ k * ChunkSize <= Len(text)
      /\ k * ChunkSize \in Nat /\ (k - 1) * ChunkSize \in Nat
  <2>1. k * ChunkSize = w.counter * ChunkSize + ChunkSize
    BY <1>0, <1>6, ChunkArithmetic
  <2>2. PICK at : at = w.counter * ChunkSize
    OBVIOUS
  <2>3. at \in Nat /\ k \in Nat /\ k \in 1 .. k
    BY <1>0, <1>6, <2>2
  <2>4. at + ChunkSize <= Len(text)
    <3>1. Len(Filled) >= ChunkSize
      BY DEF ChunkFills
    <3> QED BY <1>0, <1>5, <2>2, <2>3, <3>1
  <2>5. k * ChunkSize \in Nat /\ (k - 1) * ChunkSize \in Nat
    BY <1>0, <2>3, ChunkArithmetic
  <2> QED BY <2>1, <2>2, <2>3, <2>4, <2>5
<1>8. source \in Seq(Byte) /\ Len(source) \in Nat /\ upto \in Nat
      /\ Len(text) = upto
  <2>1. source \in Seq(Byte) /\ Len(source) \in Nat /\ pos \in Nat
    BY <1>0, LenProperties DEF TypeOK
  <2>2. NextRead \in Seq(Byte)
    BY <1>0, LoopTypes
  <2>3. upto \in Nat
    BY <1>2, <2>1, <2>2, LenProperties
  <2> QED BY <1>4, <2>1, <2>3, PrefixOfSequence
<1>9. Whole(out.hdr, text, k) = Whole(out.hdr, source, k)
  <2>1. PICK lo : lo = (k - 1) * ChunkSize + 1
    OBVIOUS
  <2>2. PICK hi : hi = k * ChunkSize
    OBVIOUS
  <2>3. lo \in Nat \ {0} /\ hi \in Nat /\ hi <= upto /\ 1 <= upto
    <3>1. hi >= ChunkSize
      <4>1. (k - 1 + 1) * ChunkSize = (k - 1) * ChunkSize + ChunkSize
        BY <1>0, <1>6, <1>7, ChunkArithmetic
      <4>2. k - 1 + 1 = k
        BY <1>7
      <4> QED BY <1>0, <1>7, <2>2, <4>1, <4>2
    <3> QED BY <1>0, <1>7, <1>8, <2>1, <2>2, <3>1
  <2>4. SubSeq(SubSeq(source, 1, upto), lo, hi) = SubSeq(source, lo, hi)
    <3>1. CASE hi < lo
      BY <2>3, <3>1, SubSeqEmpty
    <3>2. CASE lo <= hi
      <4>1. /\ 1 \in 1 .. Len(source) /\ upto \in 1 .. Len(source)
            /\ lo \in 1 .. upto - 1 + 1 /\ hi \in 1 .. upto - 1 + 1
        BY <1>4, <1>8, <2>3, <3>2
      <4>2. SubSeq(SubSeq(source, 1, upto), lo, hi)
              = SubSeq(source, 1 + lo - 1, 1 + hi - 1)
        BY <1>8, <4>1, SubSeqOfSubSeq
      <4>3. 1 + lo - 1 = lo /\ 1 + hi - 1 = hi
        BY <2>3
      <4> QED BY <4>2, <4>3
    <3>3. hi < lo \/ lo <= hi
      BY <2>3
    <3> QED BY <3>1, <3>2, <3>3
  <2> QED BY <1>4, <2>1, <2>2, <2>4 DEF Whole
<1>10. PICK n : n = Len(source) \div ChunkSize
  OBVIOUS
<1>11. /\ n \in Nat /\ DOMAIN OnePass(out.hdr, source) = 1 .. n + 1
       /\ \A i \in 1 .. n :
            OnePass(out.hdr, source)[i] = Whole(out.hdr, source, i)
       /\ k * ChunkSize <= Len(source) => k <= n
  BY <1>0, <1>7, <1>10, PassOfSource
<1>12. k <= n
  BY <1>4, <1>7, <1>8, <1>11
<1>13. k \in 1 .. n /\ k \in 1 .. n + 1
  BY <1>7, <1>11, <1>12
<1> QED BY <1>5, <1>6, <1>9, <1>11, <1>13

(* And so is the final one. *)
LEMMA FinalInPass ==
  ASSUME SourceInv, pc = "finish", NEW final, final = Seal(w, w.buf, TRUE)
  PROVE  /\ w.counter + 1 \in DOMAIN OnePass(out.hdr, source)
         /\ final = OnePass(out.hdr, source)[w.counter + 1]
<1>0. /\ SpliceInv /\ TypeOK /\ w.counter \in Nat /\ ChunkSize \in Nat \ {0}
      /\ Len(w.buf) \in Nat /\ w.counter * ChunkSize \in Nat
  BY SpliceNumbers DEF SourceInv
<1>1. /\ hashed = source /\ w.epoch = out.hdr
      /\ Len(hashed) = w.counter * ChunkSize + Len(w.buf)
      /\ Len(w.buf) < ChunkSize
      /\ w.buf = SubSeq(hashed, w.counter * ChunkSize + 1, Len(hashed))
  BY <1>0 DEF SourceInv, ReadAll, SpliceInv, DurableInv, Buffered, WriterInStep
<1>2. PICK n : n = Len(source) \div ChunkSize
  OBVIOUS
<1>3. n = w.counter
  <2>1. PICK at : at = w.counter * ChunkSize
    OBVIOUS
  <2>2. Len(source) \in Nat /\ at <= Len(source) /\ Len(source) < at + ChunkSize
    <3>1. at \in Nat /\ Len(w.buf) \in Nat /\ ChunkSize \in Nat
      BY <1>0, <2>1
    <3>2. Len(source) = at + Len(w.buf) /\ Len(w.buf) < ChunkSize
      BY <1>1, <2>1
    <3> QED BY <3>1, <3>2
  <2> QED BY <1>0, <1>2, <2>1, <2>2, ChunkArithmetic
<1>4. /\ n \in Nat /\ DOMAIN OnePass(out.hdr, source) = 1 .. n + 1
      /\ OnePass(out.hdr, source)[n + 1] = Rest(out.hdr, source, n)
  BY <1>0, <1>2, PassOfSource
<1>5. final = Rest(out.hdr, source, w.counter)
  BY <1>1 DEF Seal, Rest
<1>6. w.counter + 1 \in 1 .. w.counter + 1
  BY <1>0
<1> QED BY <1>3, <1>4, <1>5, <1>6

(* The file after a chunk of the pass was written to it. *)
LEMMA WrittenInPass ==
  ASSUME StableInv, ~out.junk, Len(out.chunks) = w.counter, out.hdr # 0,
         source' = source, NEW chunk, out' = Write(out, chunk),
         w.counter + 1 \in DOMAIN OnePass(out.hdr, source),
         chunk = OnePass(out.hdr, source)[w.counter + 1], chunk \in Chunk
  PROVE  FileInPass'
<1>0. out \in File /\ w.counter \in Nat
  BY SpliceNumbers DEF StableInv, SourceInv
<1>1. /\ out'.hdr = out.hdr
      /\ \A i \in 1 .. Len(out.chunks) : out'.chunks[i] = out.chunks[i]
      /\ out'.chunks = Append(out.chunks, chunk)
      /\ out'.chunks[Len(out.chunks) + 1] = chunk
  BY <1>0, WriteKeeps
<1>2. Len(out'.chunks) = w.counter + 1
  <2>1. out.chunks \in Seq(Chunk)
    BY <1>0 DEF File
  <2> QED BY <1>1, <2>1, AppendProperties
<1>3. PICK pass : pass = OnePass(out.hdr, source)
  OBVIOUS
<1>4. ASSUME NEW i \in 1 .. w.counter + 1
      PROVE  i \in DOMAIN pass /\ out'.chunks[i] = pass[i]
  <2>1. CASE i = w.counter + 1
    BY <1>1, <1>3, <2>1
  <2>2. CASE i # w.counter + 1
    <3>1. i \in 1 .. w.counter
      BY <1>0, <2>2
    <3> QED BY <1>1, <1>3, <3>1 DEF StableInv, FileInPass
  <2> QED BY <2>1, <2>2
<1>5. OnePass(out'.hdr, source') = pass
  BY <1>1, <1>3
<1> QED BY <1>1, <1>2, <1>4, <1>5 DEF FileInPass

(* The file after it was cut, or lost everything. *)
LEMMA CutInPass ==
  ASSUME StableInv, source' = source, NEW k \in Nat, k <= Len(out.chunks),
         out'.chunks = SubSeq(out.chunks, 1, k),
         out'.hdr = out.hdr \/ k = 0
  PROVE  FileInPass'
<1>0. TypeOK
  BY SpliceNumbers DEF StableInv, SourceInv
<1>1. /\ out.chunks \in Seq(Chunk) /\ Len(out.chunks) \in Nat
  BY <1>0, DurableNumbers
<1>2. Len(out'.chunks) = k
  BY <1>1, PrefixOfSequence
<1>3. \A i \in 1 .. k : out'.chunks[i] = out.chunks[i]
  <2>1. \A i \in 1 .. k : out.chunks[i] \in Chunk
    BY <1>1, ElementOfSeq
  <2>2. \A i \in 1 .. k - 1 + 1 :
          SubSeq(out.chunks, 1, k)[i] = out.chunks[1 + i - 1]
    BY <2>1, SubSeqProperties
  <2> QED BY <2>2
<1>4. CASE k = 0
  <2>1. out'.chunks = <<>>
    BY <1>4, SubSeqEmpty
  <2> QED BY <1>2, <1>4, <2>1 DEF FileInPass
<1>5. CASE k # 0 /\ out'.hdr = out.hdr
  <2>1. out.hdr # 0
    <3>1. out.chunks # <<>>
      <4>1. Len(out.chunks) # 0
        BY <1>1, <1>5
      <4> QED BY <4>1
    <3> QED BY <3>1 DEF StableInv, FileInPass
  <2>2. OnePass(out'.hdr, source') = OnePass(out.hdr, source)
    BY <1>5
  <2>3. \A i \in 1 .. k : i \in 1 .. Len(out.chunks)
    BY <1>1
  <2> QED BY <1>2, <1>3, <1>5, <2>1, <2>2, <2>3 DEF StableInv, FileInPass
<1> QED BY <1>4, <1>5

(* Every step keeps it. *)
LEMMA StepStable ==
  ASSUME ~Release, MaxEdits = 0, StableInv, [Next]_vars
  PROVE  StableInv'
<1>0. /\ SourceInv /\ SourceInv' /\ SpliceInv /\ DurableInv /\ TypeOK
      /\ out \in File /\ Len(out.chunks) \in Nat /\ out.chunks \in Seq(Chunk)
      /\ w.counter \in Nat
  BY StepSource, SpliceNumbers, DurableNumbers DEF StableInv, SourceInv
<1>1. source' = source
  <2>1. ~EditSource
    <3>1. edits \in Nat
      BY <1>0 DEF TypeOK
    <3> QED BY <3>1 DEF EditSource
  <2> QED BY <2>1
          DEF Next, vars, RefuseOverwrite, StartFresh, Rerun, ReadCheckpoint,
              Step, WriteHeader, HashPrefix, VerifyAndTruncate, ReopenSource,
              EncryptNext, SyncData, RenameCheckpoint, FsyncDirectory,
              OpenBareParent, EndOfSource, Finish, RemoveCheckpoint, EarlyError,
              IoError, WriteError, Kill, PowerLoss
<1>2. ASSUME sealed' = sealed PROVE SealedInPass'
  BY <1>1, <1>2 DEF StableInv, SealedInPass
<1>3. ASSUME out'.hdr = out.hdr, out'.chunks = out.chunks PROVE FileInPass'
  BY <1>1, <1>3 DEF StableInv, FileInPass
<1>4. ASSUME NEW chunk, sealed' = sealed \cup {chunk},
             chunk.epoch = out.hdr, chunk.index = w.counter,
             w.counter + 1 \in DOMAIN OnePass(out.hdr, source),
             chunk = OnePass(out.hdr, source)[w.counter + 1]
      PROVE  SealedInPass'
  <2>1. ASSUME NEW x \in sealed'
        PROVE  /\ x.index + 1 \in DOMAIN OnePass(x.epoch, source)
               /\ x = OnePass(x.epoch, source)[x.index + 1]
    <3>1. CASE x \in sealed
      BY <3>1 DEF StableInv, SealedInPass
    <3>2. CASE x = chunk
      <4>1. x.epoch = out.hdr /\ x.index = w.counter
        BY <1>4, <3>2
      <4> QED BY <1>4, <3>2, <4>1
    <3> QED BY <1>4, <2>1, <3>1, <3>2
  <2> QED BY <1>1, <2>1 DEF SealedInPass
<1>5. CASE \/ UNCHANGED vars \/ RefuseOverwrite \/ EditSource \/ ReadCheckpoint
           \/ HashPrefix \/ ReopenSource \/ SyncData \/ RenameCheckpoint
           \/ FsyncDirectory \/ EndOfSource \/ RemoveCheckpoint \/ EarlyError
           \/ Kill \/ OpenBareParent \/ IoError
  <2>1. sealed' = sealed
    BY <1>5
    DEF vars, RefuseOverwrite, EditSource, ReadCheckpoint, HashPrefix,
        ReopenSource, SyncData, RenameCheckpoint, FsyncDirectory, EndOfSource,
        RemoveCheckpoint, EarlyError, Kill, OpenBareParent, IoError, DropWriter
  <2>2. out' = out \/ out' = [out EXCEPT !.junk = TRUE]
    BY <1>5
    DEF vars, RefuseOverwrite, EditSource, ReadCheckpoint, HashPrefix,
        ReopenSource, SyncData, RenameCheckpoint, FsyncDirectory, EndOfSource,
        RemoveCheckpoint, EarlyError, Kill, OpenBareParent, IoError, DropWriter,
        disk
  <2>3. out'.hdr = out.hdr /\ out'.chunks = out.chunks
    BY <1>0, <2>2 DEF File
  <2> QED BY <1>0, <1>2, <1>3, <2>1, <2>3 DEF StableInv
<1>6. ASSUME NEW force, StartFresh(force) PROVE StableInv'
  <2>1. out'.chunks = <<>> /\ sealed' = sealed
    BY <1>6 DEF StartFresh, NoFile
  <2>2. FileInPass'
    <3>1. Len(out'.chunks) = 0
      BY <2>1
    <3> QED BY <2>1, <3>1 DEF FileInPass
  <2> QED BY <1>0, <1>2, <2>1, <2>2 DEF StableInv
<1>7. CASE WriteHeader
  <2>1. out'.chunks = <<>> /\ sealed' = sealed
    BY <1>0, <1>7 DEF WriteHeader, DurableInv, FreshFile, File
  <2>2. FileInPass'
    <3>1. Len(out'.chunks) = 0
      BY <2>1
    <3> QED BY <2>1, <3>1 DEF FileInPass
  <2> QED BY <1>0, <1>2, <2>1, <2>2 DEF StableInv
<1>8. CASE VerifyAndTruncate
  <2>1. sealed' = sealed
    BY <1>8 DEF VerifyAndTruncate
  <2>2. CASE out' = out
    BY <1>0, <1>2, <1>3, <2>1, <2>2 DEF StableInv
  <2>3. CASE out' # out
    <3>1. /\ Len(out.chunks) >= ck.committed /\ ck.committed \in Nat
          /\ out' = [out EXCEPT !.chunks = SubSeq(@, 1, ck.committed),
                                !.junk = FALSE]
      BY <1>0, <1>8, <2>3, DurableNumbers DEF VerifyAndTruncate
    <3>2. /\ out'.chunks = SubSeq(out.chunks, 1, ck.committed)
          /\ out'.hdr = out.hdr /\ ck.committed <= Len(out.chunks)
      BY <1>0, <3>1 DEF File
    <3>3. FileInPass'
      BY <1>1, <3>1, <3>2, CutInPass
    <3> QED BY <1>0, <1>2, <2>1, <3>3 DEF StableInv
  <2> QED BY <2>2, <2>3
<1>9. CASE EncryptNext
  <2>1. /\ pc = "loop" /\ ~out.junk /\ Len(out.chunks) = w.counter
        /\ out.hdr # 0 /\ w.epoch = out.hdr
    BY <1>0, <1>9 DEF EncryptNext, DurableInv, WriterInStep, WriterPcs
  <2>2. CASE ChunkFills
    <3>1. out' = Write(out, FullChunk) /\ sealed' = sealed \cup {FullChunk}
      BY <1>9, <2>2 DEF EncryptNext
    <3>2. /\ w.counter + 1 \in DOMAIN OnePass(out.hdr, source)
          /\ FullChunk = OnePass(out.hdr, source)[w.counter + 1]
      BY <1>0, <2>1, <2>2, FullInPass
    <3>3. FullChunk.epoch = out.hdr /\ FullChunk.index = w.counter
      BY <2>1 DEF FullChunk, Seal
    <3>4. FullChunk \in Chunk
      BY <1>0, <2>2, LoopTypes
    <3>5. FileInPass'
      BY <1>1, <2>1, <3>1, <3>2, <3>4, WrittenInPass
    <3>6. SealedInPass'
      BY <1>4, <3>1, <3>2, <3>3
    <3> QED BY <1>0, <3>5, <3>6 DEF StableInv
  <2>3. CASE ~ChunkFills
    <3>1. out' = out /\ sealed' = sealed
      BY <1>9, <2>3 DEF EncryptNext
    <3> QED BY <1>0, <1>2, <1>3, <3>1 DEF StableInv
  <2> QED BY <2>2, <2>3
<1>10. CASE Finish
  <2>1. /\ pc = "finish" /\ ~out.junk /\ Len(out.chunks) = w.counter
        /\ out.hdr # 0 /\ w.epoch = out.hdr
    BY <1>0, <1>10 DEF Finish, DurableInv, WriterInStep
  <2>2. PICK final : final = Seal(w, w.buf, TRUE)
    OBVIOUS
  <2>3. out' = Write(out, final) /\ sealed' = sealed \cup {final}
    BY <1>10, <2>2 DEF Finish
  <2>4. /\ w.counter + 1 \in DOMAIN OnePass(out.hdr, source)
        /\ final = OnePass(out.hdr, source)[w.counter + 1]
    BY <1>0, <2>1, <2>2, FinalInPass
  <2>5. final.epoch = out.hdr /\ final.index = w.counter
    BY <2>1, <2>2 DEF Seal
  <2>6. final \in Chunk
    <3>1. w.buf \in Text
      BY <1>0, SeqMonotonic DEF TypeOK, Text
    <3> QED BY <1>0, <2>2, <3>1, SealTypes
  <2>7. FileInPass'
    BY <1>1, <2>1, <2>3, <2>4, <2>6, WrittenInPass
  <2>8. SealedInPass'
    BY <1>4, <2>3, <2>4, <2>5
  <2> QED BY <1>0, <2>7, <2>8 DEF StableInv
<1>11. CASE WriteError
  <2>1. /\ (pc = "loop" /\ ChunkFills) \/ pc = "finish"
        /\ out.hdr # 0 /\ w.epoch = out.hdr
    BY <1>0, <1>11 DEF WriteError, DurableInv, WriterInStep, WriterPcs
  <2>2. PICK tried : tried = IF pc = "loop" THEN FullChunk ELSE Seal(w, w.buf, TRUE)
    OBVIOUS
  <2>3. /\ sealed' = sealed \cup {tried}
        /\ out' = out \/ out' = [out EXCEPT !.junk = TRUE]
    BY <1>11, <2>2 DEF WriteError
  <2>4. /\ w.counter + 1 \in DOMAIN OnePass(out.hdr, source)
        /\ tried = OnePass(out.hdr, source)[w.counter + 1]
        /\ tried.epoch = out.hdr /\ tried.index = w.counter
    <3>1. CASE pc = "loop"
      BY <1>0, <2>1, <2>2, <3>1, FullInPass DEF FullChunk, Seal
    <3>2. CASE pc = "finish"
      <4>1. tried = Seal(w, w.buf, TRUE)
        BY <2>2, <3>2
      <4>2. /\ w.counter + 1 \in DOMAIN OnePass(out.hdr, source)
            /\ tried = OnePass(out.hdr, source)[w.counter + 1]
        BY <1>0, <3>2, <4>1, FinalInPass
      <4>3. tried.epoch = out.hdr /\ tried.index = w.counter
        BY <2>1, <4>1 DEF Seal
      <4> QED BY <4>2, <4>3
    <3> QED BY <2>1, <3>1, <3>2
  <2>5. SealedInPass'
    BY <1>4, <2>3, <2>4
  <2>6. out'.hdr = out.hdr /\ out'.chunks = out.chunks
    BY <1>0, <2>3 DEF File
  <2> QED BY <1>0, <1>3, <2>5, <2>6 DEF StableInv
<1>12. CASE PowerLoss
  <2>1. PICK keep \in synced .. Items(out), junk \in BOOLEAN :
          out' = [out EXCEPT !.hdr = IF keep = 0 THEN 0 ELSE @,
                             !.chunks = SubSeq(@, 1, keep - 1),
                             !.junk = junk]
    BY <1>12 DEF PowerLoss
  <2>2. keep \in Nat /\ keep <= Items(out)
    BY <1>0, DurableNumbers DEF Items
  <2>3. /\ out'.hdr = IF keep = 0 THEN 0 ELSE out.hdr
        /\ out'.chunks = SubSeq(out.chunks, 1, keep - 1)
    BY <1>0, <2>1 DEF File
  <2>4. FileInPass'
    <3>1. CASE keep = 0
      <4>1. out'.hdr = 0
        BY <2>3, <3>1
      <4>2. out'.chunks = <<>>
        BY <2>3, <3>1, SubSeqEmpty
      <4> QED BY <4>1, <4>2 DEF FileInPass
    <3>2. CASE keep # 0
      <4>1. PICK k : k = keep - 1
        OBVIOUS
      <4>2. k \in Nat /\ k <= Len(out.chunks)
        BY <1>0, <2>2, <3>2, <4>1 DEF Items
      <4> QED BY <1>1, <2>3, <3>2, <4>1, <4>2, CutInPass
    <3> QED BY <3>1, <3>2
  <2>5. sealed' = sealed
    BY <1>12 DEF PowerLoss
  <2> QED BY <1>0, <1>2, <2>4, <2>5 DEF StableInv
<1> QED
  BY <1>5, <1>6, <1>7, <1>8, <1>9, <1>10, <1>11, <1>12 DEF Next, Rerun, Step

(* For a source nobody rewrites, and a build with debug assertions (whose    *)
(* writers seal nothing when they are dropped): a file a decryptor accepts   *)
(* as whole holds the whole source, so that a run that stopped left a file   *)
(* that is visibly cut; and what is sealed again after a crash, under a key  *)
(* and a counter already used, is the same chunk.                            *)
THEOREM AcceptedIsWhole ==
  ASSUME ~Release, MaxEdits = 0
  PROVE  Spec => [](WholeIfAccepted /\ ReproducedIdentically)
<1>1. Init => StableInv
  <2> SUFFICES ASSUME Init PROVE StableInv
    OBVIOUS
  <2>1. SourceInv
    BY InitSplice DEF SourceInv, Reading, ReadAll, Init, WriterPcs
  <2>2. out.chunks = <<>> /\ Len(out.chunks) = 0 /\ sealed = {}
    BY DEF Init, NoFile
  <2> QED BY <2>1, <2>2 DEF StableInv, SealedInPass, FileInPass
<1>2. StableInv /\ [Next]_vars => StableInv'
  BY StepStable
<1>3. StableInv => WholeIfAccepted
  <2> SUFFICES ASSUME StableInv, Complete(out)
               PROVE  out.chunks = OnePass(out.hdr, source)
    BY DEF WholeIfAccepted
  <2>1. TypeOK /\ out.chunks \in Seq(Chunk) /\ Len(out.chunks) \in Nat
    BY SpliceNumbers, DurableNumbers DEF StableInv, SourceInv
  <2>2. PICK n : n = Len(source) \div ChunkSize
    OBVIOUS
  <2>3. PICK pass : pass = OnePass(out.hdr, source)
    OBVIOUS
  <2>4. /\ n \in Nat /\ DOMAIN pass = 1 .. n + 1
        /\ pass = [i \in 1 .. n + 1 |-> pass[i]]
        /\ \A i \in 1 .. n : pass[i] = Whole(out.hdr, source, i)
    BY <2>1, <2>2, <2>3, PassOfSource
  <2>5. \A i \in 1 .. Len(out.chunks) :
          i \in 1 .. n + 1 /\ out.chunks[i] = pass[i]
    BY <2>3, <2>4 DEF StableInv, FileInPass
  <2>6. Len(out.chunks) \in 1 .. Len(out.chunks)
    <3>1. out.chunks # <<>>
      BY DEF Complete
    <3>2. Len(out.chunks) # 0
      BY <2>1, <3>1, EmptySeq
    <3> QED BY <2>1, <3>2
  <2>7. Len(out.chunks) = n + 1
    <3>1. Len(out.chunks) \in 1 .. n + 1
      BY <2>5, <2>6
    <3>2. Len(out.chunks) \notin 1 .. n
      <4>1. SUFFICES ASSUME Len(out.chunks) \in 1 .. n PROVE FALSE
        OBVIOUS
      <4>2. out.chunks[Len(out.chunks)] = Whole(out.hdr, source, Len(out.chunks))
        BY <2>4, <2>5, <2>6, <4>1
      <4>3. ~out.chunks[Len(out.chunks)].last
        BY <4>2 DEF Whole
      <4> QED BY <4>3 DEF Complete
    <3> QED BY <2>4, <3>1, <3>2
  <2>8. out.chunks = [i \in 1 .. n + 1 |-> out.chunks[i]]
    BY <2>1, <2>7, LenProperties
  <2> QED BY <2>3, <2>4, <2>5, <2>7, <2>8
<1>4. StableInv => ReproducedIdentically
  BY DEF StableInv, SealedInPass, ReproducedIdentically
<1> QED BY <1>1, <1>2, <1>3, <1>4, PTL DEF Spec
=============================================================================
