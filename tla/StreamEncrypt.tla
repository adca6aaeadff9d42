---------------------------- MODULE StreamEncrypt ----------------------------
(***************************************************************************)
(* The two other chunked encryptors: encrypt_chunks, which reads one chunk *)
(* ahead of the one it seals, and encrypt_stream_parallel, which gathers a *)
(* batch, peeks one chunk further, seals the batch on the rayon pool and   *)
(* writes it in order.  A batch of 1 falls back to the serial one.         *)
(*                                                                         *)
(* A chunk's text is the number of the piece of the source it came from; 0 *)
(* is what a read at the end of the source returns.                        *)
(***************************************************************************)
EXTENDS Integers, Sequences, FiniteSets

CONSTANTS
  Lengths,      \* the numbers of pieces a source may have
  BatchSizes,   \* the values of batch_size
  MaxCounter,   \* u32::MAX
  ReadFails,    \* the source may return an I/O error
  WriteFails    \* the sink may return an I/O error

VARIABLES
  n,        \* pieces in the source
  size,     \* batch_size
  read,     \* pieces read
  pc,       \* where the call is
  cur,      \* serial: the piece to seal; parallel: the carried piece
  batch,    \* parallel: the pieces of this batch
  done,     \* parallel: its indices in the order their tasks completed
  out,      \* parallel: chunks of this batch already written
  ahead,    \* the piece read past the current piece or batch; 0: none
  counter,  \* the counter of the current piece, or of the batch's first
  sealed,   \* chunks written
  faulted,  \* history: an I/O error occurred
  result    \* the call's result

params == <<n, size>>
vars   == <<params, read, pc, cur, batch, done, out, ahead, counter, sealed,
            faulted, result>>

Serial == size = 1
-----------------------------------------------------------------------------
\* fill_chunk: the next piece, or 0 at the end of the source.
NextPiece == IF read < n THEN read + 1 ELSE 0
ReadOne   == read' = IF read < n THEN read + 1 ELSE read

Return(r) == pc' = "returned" /\ result' = r

SealedAs(piece, index, last) ==
  sealed' = Append(sealed, [piece |-> piece, index |-> index, last |-> last])

-----------------------------------------------------------------------------
(* encrypt_chunks *)

ReadFirst ==
  /\ Serial /\ pc = "first"
  /\ cur' = NextPiece /\ ReadOne
  /\ pc' = "lookahead"
  /\ UNCHANGED <<params, batch, done, out, ahead, counter, sealed, faulted, result>>

ReadAhead ==
  /\ Serial /\ pc = "lookahead"
  /\ ahead' = NextPiece /\ ReadOne
  /\ pc' = "seal"
  /\ UNCHANGED <<params, cur, batch, done, out, counter, sealed, faulted, result>>

SealCurrent ==
  /\ Serial /\ pc = "seal"
  /\ SealedAs(cur, counter, ahead = 0)
  /\ \/ ahead = 0 /\ Return("ok") /\ UNCHANGED <<cur, counter>>
     \/ ahead # 0 /\ counter = MaxCounter
        /\ Return("error") /\ UNCHANGED <<cur, counter>>
     \/ /\ ahead # 0 /\ counter < MaxCounter
        /\ cur' = ahead /\ counter' = counter + 1
        /\ pc' = "lookahead" /\ UNCHANGED result
  /\ UNCHANGED <<params, read, batch, done, out, ahead, faulted>>

-----------------------------------------------------------------------------
(* encrypt_stream_parallel *)

\* The first piece; an empty source is sealed at once as one empty chunk.
Prime ==
  /\ ~Serial /\ pc = "first"
  /\ IF NextPiece = 0
     THEN SealedAs(0, 0, TRUE) /\ Return("ok") /\ UNCHANGED <<read, batch>>
     ELSE batch' = <<NextPiece>> /\ ReadOne /\ pc' = "gather"
          /\ UNCHANGED <<sealed, result>>
  /\ UNCHANGED <<params, cur, done, out, ahead, counter, faulted>>

Gather ==
  /\ pc = "gather"
  /\ IF Len(batch) < size /\ NextPiece # 0
     THEN batch' = Append(batch, NextPiece) /\ ReadOne /\ UNCHANGED pc
     ELSE pc' = "peek" /\ UNCHANGED <<read, batch>>
  /\ UNCHANGED <<params, cur, done, out, ahead, counter, sealed, faulted, result>>

Peek ==
  /\ pc = "peek"
  /\ ahead' = NextPiece /\ ReadOne
  /\ pc' = "tasks"
  /\ UNCHANGED <<params, cur, batch, done, out, counter, sealed, faulted, result>>

\* The pool's tasks complete in any order; each knows its index in the batch.
Task(i) ==
  /\ pc = "tasks"
  /\ \A k \in 1 .. Len(done) : done[k] # i
  /\ done' = Append(done, i)
  /\ pc' = IF Len(done') = Len(batch) THEN "write" ELSE "tasks"
  /\ UNCHANGED <<params, read, cur, batch, out, ahead, counter, sealed, faulted, result>>

\* Results are collected by index; a task past the counter's end has failed.
WriteNext ==
  /\ pc = "write" /\ out < Len(batch)
  /\ LET i == out + 1 IN
     IF counter + i - 1 > MaxCounter
     THEN Return("error") /\ UNCHANGED <<sealed, out>>
     ELSE /\ SealedAs(batch[i], counter + i - 1, ahead = 0 /\ i = Len(batch))
          /\ out' = i /\ UNCHANGED <<pc, result>>
  /\ UNCHANGED <<params, read, cur, batch, done, ahead, counter, faulted>>

MutNoFinalBatch ==
  /\ pc = "write" /\ out = Len(batch)
  /\ LET next == counter + Len(batch) IN
     \/ next > MaxCounter /\ Return("error") /\ UNCHANGED <<batch, counter>>
     \/ /\ next <= MaxCounter
        /\ counter' = next
        /\ batch' = IF ahead = 0 THEN <<>> ELSE <<ahead>>
        /\ pc' = "gather" /\ UNCHANGED result
  /\ done' = <<>> /\ out' = 0
  /\ UNCHANGED <<params, read, cur, ahead, sealed, faulted>>

\* The counter moves past the batch before the code asks whether it was final.
NextBatch ==
  /\ pc = "write" /\ out = Len(batch)
  /\ LET next == counter + Len(batch) IN
     \/ next > MaxCounter /\ Return("error") /\ UNCHANGED <<batch, counter>>
     \/ next <= MaxCounter /\ ahead = 0 /\ Return("ok")
        /\ counter' = next /\ UNCHANGED batch
     \/ next <= MaxCounter /\ ahead # 0
        /\ counter' = next /\ batch' = <<ahead>> /\ pc' = "gather"
        /\ UNCHANGED result
  /\ done' = <<>> /\ out' = 0
  /\ UNCHANGED <<params, read, cur, ahead, sealed, faulted>>

-----------------------------------------------------------------------------
(* I/O errors end the call. *)

ReadFailure ==
  /\ ReadFails
  /\ pc \in {"first", "lookahead", "peek"}
       \/ (pc = "gather" /\ Len(batch) < size)
  /\ faulted' = TRUE
  /\ Return("error")
  /\ UNCHANGED <<params, read, cur, batch, done, out, ahead, counter, sealed>>

WriteFailure ==
  /\ WriteFails
  /\ \/ pc = "seal"
     \/ pc = "write" /\ out < Len(batch)
     \/ pc = "first" /\ ~Serial /\ NextPiece = 0
  /\ faulted' = TRUE
  /\ Return("error")
  /\ UNCHANGED <<params, read, cur, batch, done, out, ahead, counter, sealed>>

Init ==
  /\ n \in Lengths /\ size \in BatchSizes
  /\ read = 0
  /\ pc = "first" /\ cur = 0
  /\ batch = <<>> /\ done = <<>> /\ out = 0
  /\ ahead = 0 /\ counter = 0
  /\ sealed = <<>> /\ faulted = FALSE /\ result = "none"

Next ==
  \/ ReadFirst \/ ReadAhead \/ SealCurrent
  \/ Prime \/ Gather \/ Peek \/ WriteNext \/ NextBatch
  \/ \E i \in 1 .. Len(batch) : Task(i)
  \/ ReadFailure \/ WriteFailure

\* One thread and a pool that both get to run.
Spec == Init /\ [][Next]_vars /\ WF_vars(Next)
-----------------------------------------------------------------------------
(* Properties. *)

\* Every variable of an encryption call stays in its type.
TypeOK ==
  /\ n \in Lengths /\ size \in BatchSizes
  /\ read \in 0 .. n
  /\ pc \in {"first", "lookahead", "seal", "gather", "peek", "tasks", "write",
             "returned"}
  /\ cur \in 0 .. n /\ ahead \in 0 .. n
  /\ batch \in Seq(1 .. n) /\ Len(batch) <= size
  /\ done \in Seq(1 .. size) /\ out \in 0 .. size
  /\ counter \in 0 .. MaxCounter
  /\ sealed \in Seq([piece : 0 .. n, index : 0 .. MaxCounter, last : BOOLEAN])
  /\ faulted \in BOOLEAN
  /\ result \in {"none", "ok", "error"}

\* Without an I/O error the call fails only for want of a counter: the serial
\* encryptor for more than 2^32 pieces, the parallel one already for exactly
\* 2^32, whose last counter it moves past before it sees that it is done.
NoSpuriousError ==
  result = "error" =>
    \/ faulted
    \/ n > MaxCounter + 1
    \/ n = MaxCounter + 1 /\ ~Serial

\* At most a batch and the piece past it are held: memory does not depend on
\* the size of the source.
BuffersBounded == read - Len(sealed) <= size + 1

=============================================================================
