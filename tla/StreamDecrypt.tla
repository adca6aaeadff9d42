---------------------------- MODULE StreamDecrypt ----------------------------
(***************************************************************************)
(* The three chunked decryptors: decrypt_v3_chunks, which reads one block  *)
(* ahead of the one it opens, decrypt_stream_parallel, which opens batches *)
(* on the rayon pool, and PqfReader, whose caller pulls pieces one read at *)
(* a time and may read again after an error.                               *)
(*                                                                         *)
(* A block is what fill_chunk cuts from the file: the number k of the      *)
(* piece of the text whose chunk it is, Bad for bytes that are no chunk of *)
(* the stream, Stub for fewer bytes than a tag, NoBlock at the end.        *)
(***************************************************************************)
EXTENDS Integers, Sequences

CONSTANTS
  Lengths,      \* the numbers of pieces the encrypted text may have
  Files,        \* what may be left of an encrypted text, as blocks
  BatchSizes,   \* the values of batch_size
  MaxCounter,   \* u32::MAX
  MaxRetries,   \* bound: reads after an error
  Faults        \* the input and the output may return I/O errors

NoBlock == 0
Bad     == 0 - 1
Stub    == 0 - 2

VARIABLES
  n,        \* pieces of the text
  file,     \* the blocks of the file
  api,      \* which decryptor
  size,     \* its batch_size
  read,     \* blocks read
  shifted,  \* the input lost bytes: what follows is not at a block's start
  pc,
  cur,      \* the block to open; parallel: unused
  nxt,      \* the block read ahead
  batch,    \* parallel: the blocks of this batch
  taken,    \* parallel: how many of their results were written
  counter,  \* the counter of cur, or of the batch's first block
  plain,    \* reader: the opened piece the caller has not got yet
  out,      \* pieces handed out
  result,   \* what the last call returned
  faulted,  \* history: an I/O error occurred
  retries

params  == <<n, file, api, size>>
input   == <<read, shifted>>
current == <<cur, nxt, counter, plain>>
group   == <<batch, taken>>
answer  == <<out, result, faulted, retries>>
vars    == <<params, input, pc, current, group, answer>>
-----------------------------------------------------------------------------
\* fill_chunk: the next block.  Once a failed read has lost bytes, the input
\* is cut in the wrong places and what is left may end in a stub, or earlier.
NextBlock ==
  IF read = Len(file) THEN {NoBlock}
  ELSE IF ~shifted THEN {file[read + 1]}
  ELSE IF read + 1 < Len(file) THEN {Bad} ELSE {Bad, Stub, NoBlock}

ReadOne ==
  /\ read' = IF read < Len(file) THEN read + 1 ELSE read
  /\ UNCHANGED shifted

MutAuthenticates(block, index, last) == block = index + 1

\* The tag binds the chunk's position and whether it ends the text.
Authenticates(block, index, last) ==
  block = index + 1 /\ (last <=> block = n)

MutFailure(block, index, last) ==
  IF last THEN "Truncated" ELSE "DecryptionFailure"

\* A failure on the last block read, after some other, is called truncation.
Failure(block, index, last) ==
  IF block # Stub /\ last /\ index > 0 THEN "Truncated" ELSE "DecryptionFailure"

Return(r) == pc' = "returned" /\ result' = r

-----------------------------------------------------------------------------
(* decrypt_v3_chunks *)

ReadFirst ==
  /\ api = "serial" /\ pc = "first"
  /\ \E b \in NextBlock :
       IF b = NoBlock
       THEN Return("DecryptionFailure") /\ UNCHANGED cur
       ELSE cur' = b /\ pc' = "ahead" /\ UNCHANGED result
  /\ ReadOne
  /\ UNCHANGED <<params, nxt, counter, plain, group, out, faulted, retries>>

ReadAhead ==
  /\ api = "serial" /\ pc = "ahead"
  /\ nxt' \in NextBlock /\ ReadOne
  /\ pc' = "open"
  /\ UNCHANGED <<params, cur, counter, plain, group, answer>>

OpenCurrent ==
  /\ api = "serial" /\ pc = "open"
  /\ LET last == nxt = NoBlock IN
     IF ~Authenticates(cur, counter, last)
     THEN /\ Return(Failure(cur, counter, last))
          /\ UNCHANGED <<cur, counter, out>>
     ELSE /\ out' = Append(out, cur)
          /\ \/ last /\ Return("ok") /\ UNCHANGED <<cur, counter>>
             \/ ~last /\ counter = MaxCounter
                /\ Return("DecryptionFailure") /\ UNCHANGED <<cur, counter>>
             \/ ~last /\ counter < MaxCounter
                /\ counter' = counter + 1 /\ cur' = nxt
                /\ pc' = "ahead" /\ UNCHANGED result
  /\ UNCHANGED <<params, input, nxt, plain, group, faulted, retries>>

-----------------------------------------------------------------------------
(* decrypt_stream_parallel *)

Prime ==
  /\ api = "parallel" /\ pc = "first"
  /\ \E b \in NextBlock :
       IF b = NoBlock
       THEN Return("DecryptionFailure") /\ UNCHANGED batch
       ELSE batch' = <<b>> /\ pc' = "gather" /\ UNCHANGED result
  /\ ReadOne
  /\ UNCHANGED <<params, current, taken, out, faulted, retries>>

MutGather ==
  /\ pc = "gather"
  /\ \E b \in NextBlock :
       IF b # NoBlock
       THEN batch' = Append(batch, b) /\ ReadOne /\ UNCHANGED pc
       ELSE pc' = "peek" /\ UNCHANGED <<batch, input>>
  /\ UNCHANGED <<params, current, taken, answer>>

Gather ==
  /\ pc = "gather"
  /\ IF Len(batch) = size
     THEN pc' = "peek" /\ UNCHANGED <<batch, input>>
     ELSE /\ \E b \in NextBlock :
               IF b = NoBlock
               THEN pc' = "peek" /\ UNCHANGED batch
               ELSE batch' = Append(batch, b) /\ UNCHANGED pc
          /\ ReadOne
  /\ UNCHANGED <<params, current, taken, answer>>

Peek ==
  /\ pc = "peek"
  /\ nxt' \in NextBlock /\ ReadOne
  /\ pc' = "write"
  /\ UNCHANGED <<params, cur, counter, plain, group, answer>>

\* The pool opens the batch's blocks, which share nothing; the results are
\* looked at and written in the order of the blocks.
WriteNext ==
  /\ pc = "write" /\ taken < Len(batch)
  /\ LET index == counter + taken
         block == batch[taken + 1]
         last  == nxt = NoBlock /\ taken + 1 = Len(batch)
     IN \/ /\ index > MaxCounter
           /\ Return("DecryptionFailure") /\ UNCHANGED <<out, taken>>
        \/ /\ index <= MaxCounter /\ ~Authenticates(block, index, last)
           /\ Return(Failure(block, index, last)) /\ UNCHANGED <<out, taken>>
        \/ /\ index <= MaxCounter /\ Authenticates(block, index, last)
           /\ out' = Append(out, block) /\ taken' = taken + 1
           /\ UNCHANGED <<pc, result>>
  /\ UNCHANGED <<params, input, current, batch, faulted, retries>>

\* The counter moves past the batch before the code asks whether it was final.
NextBatch ==
  /\ pc = "write" /\ taken = Len(batch)
  /\ LET next == counter + Len(batch) IN
     \/ next > MaxCounter
        /\ Return("DecryptionFailure") /\ UNCHANGED <<batch, counter>>
     \/ next <= MaxCounter /\ nxt = NoBlock
        /\ Return("ok") /\ counter' = next /\ UNCHANGED batch
     \/ next <= MaxCounter /\ nxt # NoBlock
        /\ counter' = next /\ batch' = <<nxt>>
        /\ pc' = "gather" /\ UNCHANGED result
  /\ taken' = 0
  /\ UNCHANGED <<params, input, cur, nxt, plain, out, faulted, retries>>

-----------------------------------------------------------------------------
(* PqfReader *)

\* PqfReader::new reads two blocks before it returns a reader.
NewFirst ==
  /\ api = "reader" /\ pc = "first"
  /\ \E b \in NextBlock :
       IF b = NoBlock
       THEN Return("DecryptionFailure") /\ UNCHANGED cur
       ELSE cur' = b /\ pc' = "newAhead" /\ UNCHANGED result
  /\ ReadOne
  /\ UNCHANGED <<params, nxt, counter, plain, group, out, faulted, retries>>

NewAhead ==
  /\ pc = "newAhead"
  /\ nxt' \in NextBlock /\ ReadOne
  /\ pc' = "reader"
  /\ UNCHANGED <<params, cur, counter, plain, group, answer>>

\* Buffered plaintext is handed out before anything else is looked at.
Drain ==
  /\ pc \in {"reader", "done"} /\ plain # NoBlock
  /\ out' = Append(out, plain) /\ plain' = NoBlock
  /\ result' = "none"
  /\ UNCHANGED <<params, input, pc, cur, nxt, counter, group, faulted, retries>>

EndOfText ==
  /\ pc = "done" /\ plain = NoBlock
  /\ Return("ok")
  /\ UNCHANGED <<params, input, current, group, out, faulted, retries>>

\* A caller reads again after an error at most MaxRetries times.
Fails(r) ==
  /\ retries < MaxRetries
  /\ result' = r /\ retries' = retries + 1 /\ UNCHANGED pc

GivesUp(r) == Return(r) /\ UNCHANGED retries

ReadRefused ==
  /\ pc = "reader" /\ plain = NoBlock
  /\ ~Authenticates(cur, counter, nxt = NoBlock)
  /\ LET r == Failure(cur, counter, nxt = NoBlock) IN Fails(r) \/ GivesUp(r)
  /\ UNCHANGED <<params, input, current, group, out, faulted>>

\* A read opens the current block and reads one more.  The caller gets the
\* piece at once or, if its buffer is smaller, with its next reads.
ReadPiece ==
  /\ pc = "reader" /\ plain = NoBlock
  /\ Authenticates(cur, counter, nxt = NoBlock)
  /\ nxt = NoBlock \/ counter < MaxCounter
  /\ \/ plain' = cur /\ UNCHANGED out
     \/ out' = Append(out, cur) /\ UNCHANGED plain
  /\ IF nxt = NoBlock
     THEN pc' = "done" /\ UNCHANGED <<input, cur, nxt, counter>>
     ELSE /\ counter' = counter + 1 /\ cur' = nxt
          /\ nxt' \in NextBlock /\ ReadOne
          /\ UNCHANGED pc
  /\ result' = "none"
  /\ UNCHANGED <<params, group, faulted, retries>>

\* The counter has ended: the piece stays buffered, its block is wiped.
CounterEnds ==
  /\ pc = "reader" /\ plain = NoBlock
  /\ Authenticates(cur, counter, FALSE)
  /\ nxt # NoBlock /\ counter = MaxCounter
  /\ plain' = cur /\ cur' = Bad
  /\ Fails("overflow") \/ GivesUp("overflow")
  /\ UNCHANGED <<params, input, nxt, counter, group, out, faulted>>

\* The block after the next cannot be read.  The piece stays buffered, the
\* next block is current, and behind it is the wiped block under the length
\* of the block that moved up.
FillFails ==
  /\ Faults
  /\ pc = "reader" /\ plain = NoBlock
  /\ Authenticates(cur, counter, nxt = NoBlock)
  /\ nxt # NoBlock /\ counter < MaxCounter
  /\ plain' = cur /\ counter' = counter + 1
  /\ cur' = nxt /\ nxt' = IF nxt = Stub THEN Stub ELSE Bad
  /\ shifted' \in BOOLEAN /\ (shifted => shifted')
  /\ Fails("Io") \/ GivesUp("Io")
  /\ faulted' = TRUE
  /\ UNCHANGED <<params, read, group, out>>

-----------------------------------------------------------------------------
(* I/O errors end the other calls. *)

ReadFailure ==
  /\ Faults
  /\ pc \in {"first", "ahead", "peek", "newAhead"}
       \/ (pc = "gather" /\ Len(batch) < size)
  /\ faulted' = TRUE
  /\ Return("Io")
  /\ UNCHANGED <<params, input, current, group, out, retries>>

WriteFailure ==
  /\ Faults
  /\ \/ /\ pc = "open" /\ api = "serial"
        /\ Authenticates(cur, counter, nxt = NoBlock)
     \/ /\ pc = "write" /\ taken < Len(batch)
        /\ counter + taken <= MaxCounter
        /\ Authenticates(batch[taken + 1], counter + taken,
                         nxt = NoBlock /\ taken + 1 = Len(batch))
  /\ faulted' = TRUE
  /\ Return("Io")
  /\ UNCHANGED <<params, input, current, group, out, retries>>

-----------------------------------------------------------------------------
Init ==
  /\ n \in Lengths
  /\ file \in {f \in Files : \A i \in 1 .. Len(f) : f[i] <= n}
  /\ \/ api \in {"serial", "reader"} /\ size = 1
     \/ api = "parallel" /\ size \in BatchSizes
  /\ read = 0 /\ shifted = FALSE
  /\ pc = "first"
  /\ cur = NoBlock /\ nxt = NoBlock /\ counter = 0 /\ plain = NoBlock
  /\ batch = <<>> /\ taken = 0
  /\ out = <<>> /\ result = "none" /\ faulted = FALSE /\ retries = 0

Next ==
  \/ ReadFirst \/ ReadAhead \/ OpenCurrent
  \/ Prime \/ Gather \/ Peek \/ WriteNext \/ NextBatch
  \/ NewFirst \/ NewAhead \/ Drain \/ EndOfText
  \/ ReadRefused \/ ReadPiece \/ CounterEnds \/ FillFails
  \/ ReadFailure \/ WriteFailure

\* The call is scheduled, and a reader's caller reads on.
Spec == Init /\ [][Next]_vars /\ WF_vars(Next)
-----------------------------------------------------------------------------
(* Properties. *)

Block == {Stub, Bad, NoBlock} \cup 1 .. n

\* Every variable of a decryption call stays in its type.
TypeOK ==
  /\ n \in Lengths /\ file \in Files
  /\ api \in {"serial", "parallel", "reader"}
  /\ size \in BatchSizes \cup {1}
  /\ read \in 0 .. Len(file) /\ shifted \in BOOLEAN
  /\ pc \in {"first", "ahead", "open", "gather", "peek", "write", "newAhead",
             "reader", "done", "returned"}
  /\ cur \in Block /\ nxt \in Block /\ plain \in 0 .. n
  /\ batch \in Seq(Block) /\ Len(batch) <= size /\ taken \in 0 .. size
  /\ counter \in 0 .. MaxCounter
  /\ out \in Seq(1 .. n)
  /\ result \in {"none", "ok", "Truncated", "DecryptionFailure", "overflow", "Io"}
  /\ faulted \in BOOLEAN /\ retries \in 0 .. MaxRetries

\* What the three should say of a file, as a function of the file alone.
GoodBlocks ==
  LET good(k) == \A i \in 1 .. k : Authenticates(file[i], i - 1, i = Len(file))
  IN CHOOSE k \in 0 .. Len(file) :
       good(k) /\ \A j \in k + 1 .. Len(file) : ~good(j)

Verdict ==
  IF GoodBlocks = n /\ Len(file) = n THEN "ok"
  ELSE IF Len(file) > 1 /\ GoodBlocks = Len(file) - 1 /\ file[Len(file)] # Stub
  THEN "Truncated"
  ELSE "DecryptionFailure"

\* The pieces opened; a reader's caller who gives up leaves one behind.
OpenedPieces == IF plain = NoBlock THEN out ELSE Append(out, plain)

\* Every counter is used: the serial decryptor and the reader say so only if
\* another block follows, the parallel one even if none does.
CounterEnded ==
  /\ Len(OpenedPieces) = MaxCounter + 1
  /\ api = "parallel" \/ Len(file) > MaxCounter + 1
  /\ result # "ok"

\* Without an I/O error all three open the same pieces and end with the
\* same verdict: a whole file opens, and a file that lost its end at a chunk
\* boundary is told apart from one that was damaged.
SameVerdict ==
  pc = "returned" /\ ~faulted /\ retries = 0 =>
    /\ OpenedPieces = [i \in 1 .. GoodBlocks |-> i]
    /\ result = Verdict \/ CounterEnded

\* Held at once: the current block and the next, or a batch and the next, and
\* in a reader the piece its caller has not taken.
BuffersBounded ==
  read - Len(out) <= IF api = "reader" THEN 3 ELSE size + 1

=============================================================================
