-------------------------- MODULE PipelinedEncrypt --------------------------
(***************************************************************************)
(* encrypt_chunks_pipelined: a reader thread fills chunks into a bounded   *)
(* channel while the calling thread receives, encrypts and writes them,    *)
(* one message of lookahead telling it which chunk is the last.            *)
(*                                                                         *)
(* A message is the number of the piece it carries, or ReadError.  The     *)
(* receiving end lives in the caller's frame until the reader is joined,   *)
(* so a send never finds it dropped and that branch has no action.         *)
(***************************************************************************)
EXTENDS Integers, Sequences

CONSTANTS
  MaxPieces,     \* bound: pieces a source may have
  Capacity,      \* of the channel: sync_channel(2)
  MaxCounter,    \* u32::MAX
  ReadFails,     \* the source may return an I/O error
  WriteFails,    \* the sink may return an I/O error
  ReaderPanics   \* the source's read may panic instead of ending

VARIABLES
  n,        \* pieces the source yields before it ends, fails or panics
  panics,   \* it ends in a panic
  rpc,      \* the reader thread; "gone" once it ended and dropped its sender
  read,     \* pieces it has read
  failed,   \* history: a read failed
  chan,     \* messages in the channel
  mpc,      \* the calling thread
  cur,      \* the piece it is about to seal
  nxt,      \* what it received after that piece
  counter,  \* chunk counter
  sealed,   \* chunks written
  result    \* its result

readerVars == <<rpc, read, failed>>
callerVars == <<mpc, cur, nxt, counter, sealed, result>>
source     == <<n, panics>>
vars       == <<source, readerVars, chan, callerVars>>

ReadError == 0
Closed    == 0 - 1
-----------------------------------------------------------------------------
(* The reader thread. *)

Fill ==
  /\ rpc = "fill"
  /\ read < n
  /\ read' = read + 1
  /\ rpc' = "send"
  /\ UNCHANGED <<source, failed, chan, callerVars>>

EndOfInput ==
  /\ rpc = "fill"
  /\ read = n /\ ~panics
  /\ rpc' = "gone"
  /\ UNCHANGED <<source, read, failed, chan, callerVars>>

ReadFailure ==
  /\ ReadFails
  /\ rpc = "fill"
  /\ failed' = TRUE
  /\ rpc' = "sendError"
  /\ UNCHANGED <<source, read, chan, callerVars>>

\* Unwinding drops the sender, as returning does.
Panic ==
  /\ rpc = "fill"
  /\ read = n /\ panics
  /\ rpc' = "gone"
  /\ UNCHANGED <<source, read, failed, chan, callerVars>>

Send ==
  /\ rpc = "send"
  /\ Len(chan) < Capacity
  /\ chan' = Append(chan, read)
  /\ rpc' = "fill"
  /\ UNCHANGED <<source, read, failed, callerVars>>

SendError ==
  /\ rpc = "sendError"
  /\ Len(chan) < Capacity
  /\ chan' = Append(chan, ReadError)
  /\ rpc' = "gone"
  /\ UNCHANGED <<source, read, failed, callerVars>>

-----------------------------------------------------------------------------
(* The calling thread. *)

\* recv fails: the sender is gone and the channel is drained.
Disconnected == chan = <<>> /\ rpc = "gone"

Return(r) == mpc' = "join" /\ result' = r

RecvFirst ==
  /\ mpc = "first"
  /\ chan # <<>>
  /\ chan' = Tail(chan)
  /\ IF Head(chan) = ReadError
     THEN Return("error") /\ UNCHANGED cur
     ELSE mpc' = "next" /\ cur' = Head(chan) /\ UNCHANGED result
  /\ UNCHANGED <<source, readerVars, nxt, counter, sealed>>

\* Nothing was ever sent: the source is empty.
SealEmpty ==
  /\ mpc = "first"
  /\ Disconnected
  /\ sealed' = <<[piece |-> 0, index |-> 0, last |-> TRUE]>>
  /\ Return("ok")
  /\ UNCHANGED <<source, readerVars, chan, cur, nxt, counter>>

MutRecvNext ==
  /\ mpc = "next"
  /\ IF chan # <<>>
     THEN nxt' = Head(chan) /\ chan' = Tail(chan)
     ELSE nxt' = Closed /\ UNCHANGED chan
  /\ mpc' = "seal"
  /\ UNCHANGED <<source, readerVars, cur, counter, sealed, result>>

RecvNext ==
  /\ mpc = "next"
  /\ \/ chan # <<>> /\ nxt' = Head(chan) /\ chan' = Tail(chan)
     \/ Disconnected /\ nxt' = Closed /\ UNCHANGED chan
  /\ mpc' = "seal"
  /\ UNCHANGED <<source, readerVars, cur, counter, sealed, result>>

\* Encrypt and write the current chunk, then look at what follows it.
SealCurrent ==
  /\ mpc = "seal"
  /\ sealed' = Append(sealed, [piece |-> cur, index |-> counter,
                               last |-> nxt = Closed])
  /\ \/ nxt = Closed /\ Return("ok") /\ UNCHANGED <<cur, counter>>
     \/ nxt = ReadError /\ Return("error") /\ UNCHANGED <<cur, counter>>
     \/ /\ nxt > ReadError /\ counter = MaxCounter
        /\ Return("error") /\ cur' = nxt /\ UNCHANGED counter
     \/ /\ nxt > ReadError /\ counter < MaxCounter
        /\ mpc' = "next" /\ cur' = nxt /\ counter' = counter + 1
        /\ UNCHANGED result
  /\ UNCHANGED <<source, readerVars, chan, nxt>>

\* write_all fails; part of the chunk may have reached the sink.
WriteFailure ==
  /\ WriteFails
  /\ mpc = "seal" \/ (mpc = "first" /\ Disconnected)
  /\ Return("error")
  /\ UNCHANGED <<source, readerVars, chan, cur, nxt, counter, sealed>>

\* reader_thread.join(), whose own result is ignored.
Join ==
  /\ mpc = "join"
  /\ rpc = "gone"
  /\ mpc' = "returned"
  /\ UNCHANGED <<source, readerVars, chan, cur, nxt, counter, sealed, result>>

-----------------------------------------------------------------------------
Init ==
  /\ n \in 0 .. MaxPieces
  /\ panics \in IF ReaderPanics THEN BOOLEAN ELSE {FALSE}
  /\ rpc = "fill" /\ read = 0 /\ failed = FALSE
  /\ chan = <<>>
  /\ mpc = "first" /\ cur = 0 /\ nxt = Closed /\ counter = 0
  /\ sealed = <<>> /\ result = "none"

Reader == Fill \/ EndOfInput \/ ReadFailure \/ Panic \/ Send \/ SendError
Caller == RecvFirst \/ SealEmpty \/ RecvNext \/ SealCurrent
            \/ WriteFailure \/ Join

Next == Reader \/ Caller

Spec == Init /\ [][Next]_vars

\* Both threads are scheduled, and their reads and writes return.
FairSpec == Spec /\ WF_vars(Reader) /\ WF_vars(Caller)
-----------------------------------------------------------------------------
(* Properties. *)

\* Every variable of the two threads stays in its type.
TypeOK ==
  /\ n \in 0 .. MaxPieces /\ panics \in BOOLEAN
  /\ rpc \in {"fill", "send", "sendError", "gone"}
  /\ read \in 0 .. n /\ failed \in BOOLEAN
  /\ chan \in Seq(0 .. MaxPieces) /\ Len(chan) <= Capacity
  /\ mpc \in {"first", "next", "seal", "join", "returned"}
  /\ cur \in 0 .. MaxPieces /\ nxt \in Closed .. MaxPieces
  /\ counter \in 0 .. MaxCounter
  /\ sealed \in Seq([piece : 0 .. MaxPieces, index : 0 .. MaxCounter,
                     last : BOOLEAN])
  /\ result \in {"none", "ok", "error"}

\* A stream is closed by a last chunk exactly when the call returns ok: an
\* error never leaves a file behind that decrypts as a whole.
ClosedIffOk ==
  mpc \in {"join", "returned"} =>
    (result = "ok" <=> sealed # <<>> /\ sealed[Len(sealed)].last)

\* A read error is never swallowed by the hand-over between the threads.
ReadErrorSurfaces == failed /\ mpc = "returned" => result = "error"

\* Two chunks wait in the channel, one in the sender's hand, and the caller
\* holds two: a slow sink does not make the pipeline read the file into memory.
BuffersBounded == read - Len(sealed) <= Capacity + 3

\* The call returns: it always joins the reader, even on error.
Returns == <>(mpc = "returned")

\* The reader waits for room in a channel nobody will receive from again.
Blocked == mpc = "join" /\ rpc \in {"send", "sendError"} /\ Len(chan) = Capacity

=============================================================================
