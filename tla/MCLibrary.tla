------------------------------ MODULE MCLibrary ------------------------------
(***************************************************************************)
(* One instance of the library's parts side by side: a behaviour is one of *)
(* a pipelined, a serial or a parallel encryption, a decryption, an async  *)
(* adapter, or recipients' files.  The variables of the parts that are not *)
(* the behaviour's own stay as Init puts them.                             *)
(***************************************************************************)
EXTENDS MCRecipients

VARIABLES
  model,                                        \* which part this behaviour is of
  n, size, api, whole,                          \* what a call is given
  panics, rpc, failed, chan, mpc,               \* PipelinedEncrypt
  read, pc, cur, nxt, ahead, batch, done, taken, counter,
  file, shifted, plain,                         \* StreamDecrypt
  held, ct, pos,                                \* AsyncIO
  sealed, out, result, faulted, retries

files      == <<entry, durable, proc, ran, faults, alone, due, barred>>
pipelining == <<panics, rpc, failed, chan, mpc>>
opening    == <<file, shifted, plain, taken>>
gathering  == <<whole, held, ct, pos>>
everything == <<model, n, size, api, files, pipelining, opening, gathering, read, pc, cur,
                nxt, ahead, batch, done, counter, sealed, out, result, faulted, retries>>

\* A text of one to four pieces and a counter for three; every file of up to four
\* blocks that storage may make of its chunks: cut short, with a block damaged (-1),
\* lost, repeated or misplaced, or ending in a stub (-2).
WholeOnes  == UNION {[1 .. k -> {0 - 1, 1, 2, 3}] : k \in 0 .. 4}
SmallFiles == WholeOnes \cup {Append(f, 0 - 2) : f \in {g \in WholeOnes : Len(g) < 4}}

\* The real channel's capacity, and sources that fill it and both threads' hands twice.
P == INSTANCE PipelinedEncrypt WITH MaxPieces <- 8, Capacity <- 2, MaxCounter <- 6,
       ReadFails <- TRUE, WriteFails <- TRUE, ReaderPanics <- TRUE
\* Sources of up to two batches and a bit, past the end of the counter.
S == INSTANCE StreamEncrypt WITH Lengths <- 0 .. 8, BatchSizes <- {1, 3}, MaxCounter <- 5,
       ReadFails <- TRUE, WriteFails <- TRUE
D == INSTANCE StreamDecrypt WITH Lengths <- 1 .. 4, Files <- SmallFiles, BatchSizes <- {2},
       MaxCounter <- 2, MaxRetries <- 2, Faults <- TRUE
A == INSTANCE AsyncIO WITH Lengths <- 0 .. 3, MaxRetries <- 2, AfterRefusal <- FALSE
-----------------------------------------------------------------------------
NoFiles ==
  /\ entry = [f \in Files |-> Absent] /\ durable = [f \in Files |-> {Absent}]
  /\ proc = [p \in Processes |-> Idle] /\ ran = 0 /\ faults = 0
  /\ alone = TRUE /\ due = None /\ barred = None

LibraryInit ==
  \/ /\ model = "pipelined" /\ P!Init /\ NoFiles
     /\ size = 0 /\ api = "encrypt" /\ whole = 0 /\ pc = 0 /\ ahead = 0 /\ batch = 0
     /\ done = 0 /\ taken = 0 /\ file = 0 /\ shifted = 0 /\ plain = 0 /\ held = 0
     /\ ct = 0 /\ pos = 0 /\ out = 0 /\ faulted = 0 /\ retries = 0
  \/ /\ model = "chunked" /\ S!Init /\ NoFiles
     /\ api = "encrypt" /\ whole = 0 /\ panics = 0 /\ rpc = 0 /\ failed = 0 /\ chan = 0
     /\ mpc = 0 /\ nxt = 0 /\ taken = 0 /\ file = 0 /\ shifted = 0 /\ plain = 0
     /\ held = 0 /\ ct = 0 /\ pos = 0 /\ retries = 0
  \/ /\ model = "decrypt" /\ D!Init /\ NoFiles
     /\ whole = 0 /\ panics = 0 /\ rpc = 0 /\ failed = 0 /\ chan = 0 /\ mpc = 0
     /\ ahead = 0 /\ done = 0 /\ held = 0 /\ ct = 0 /\ pos = 0 /\ sealed = <<>>
  \/ /\ model = "async" /\ A!Init /\ NoFiles
     /\ size = 0 /\ panics = 0 /\ rpc = 0 /\ failed = 0 /\ chan = 0 /\ mpc = 0
     /\ read = 0 /\ cur = 0 /\ nxt = 0 /\ ahead = 0 /\ batch = 0 /\ done = 0 /\ taken = 0
     /\ counter = 0 /\ file = 0 /\ shifted = 0 /\ plain = 0 /\ faulted = 0
  \/ /\ model = "recipients" /\ Init
     /\ n = 0 /\ size = 0 /\ api = "none" /\ whole = 0 /\ panics = 0 /\ rpc = 0 /\ failed = 0
     /\ chan = 0 /\ mpc = 0 /\ read = 0 /\ pc = 0 /\ cur = 0 /\ nxt = 0 /\ ahead = 0
     /\ batch = 0 /\ done = 0 /\ taken = 0 /\ counter = 0 /\ file = 0 /\ shifted = 0
     /\ plain = 0 /\ held = 0 /\ ct = 0 /\ pos = 0 /\ sealed = <<>> /\ out = <<>>
     /\ result = "none" /\ faulted = 0 /\ retries = 0

Own ==
  \/ /\ model = "pipelined" /\ P!Next
     /\ UNCHANGED <<files, size, api, opening, gathering, pc, ahead, batch, done, out,
                    faulted, retries>>
  \/ /\ model = "chunked" /\ S!Next
     /\ UNCHANGED <<files, api, pipelining, opening, gathering, nxt, retries>>
  \/ /\ model = "decrypt" /\ D!Next
     /\ UNCHANGED <<files, pipelining, gathering, ahead, done, sealed>>
  \/ /\ model = "async" /\ A!Next
     /\ UNCHANGED <<files, size, pipelining, opening, read, cur, nxt, ahead, batch, done,
                    counter, faulted>>
  \/ /\ model = "recipients" /\ Next
     /\ UNCHANGED <<n, size, api, pipelining, opening, gathering, read, pc, cur, nxt, ahead,
                    batch, done, counter, sealed, out, result, faulted, retries>>

LibrarySpec ==
  /\ LibraryInit /\ [][Own /\ UNCHANGED model]_everything
  /\ WF_(P!vars)(model = "pipelined" /\ P!Reader)
  /\ WF_(P!vars)(model = "pipelined" /\ P!Caller)
  /\ WF_(S!vars)(model = "chunked" /\ S!Next)
  /\ WF_(D!vars)(model = "decrypt" /\ D!Next)
  /\ WF_(A!vars)(model = "async" /\ A!Next)
  /\ \A p \in Processes : WF_vars(model = "recipients" /\ Work(p))
  /\ \A p \in Rotators : WF_vars(model = "recipients" /\ Rotate(p))
-----------------------------------------------------------------------------
(* Properties. *)

\* Every variable of the behaviour's part stays in its type.
LibraryTypeOK ==
  CASE model = "pipelined"  -> P!TypeOK
    [] model = "chunked"    -> S!TypeOK
    [] model = "decrypt"    -> D!TypeOK
    [] model = "async"      -> A!TypeOK
    [] model = "recipients" -> TypeOK

Encrypts == model \in {"pipelined", "chunked"} \/ (model = "async" /\ api # "decrypt")
Decrypts == model \in {"decrypt", "async"} /\ ~Encrypts

Stream == INSTANCE SealedStream WITH
  n <- IF Encrypts THEN n ELSE 0,
  sealed <- IF Encrypts THEN sealed ELSE <<>>,
  result <- IF ~Encrypts THEN "none" ELSE IF model = "async" THEN A!LastWord ELSE result

\* Serial, parallel with its tasks completing in any order, pipelined in every
\* interleaving of its two threads, or buffered behind an async sink: what is written
\* is the one stream of the source, its last chunk marked only when the source has
\* ended there, and ok means all of it.  (A source that panics is taken for one that
\* ended: the join's error is dropped.)
OneStream == Stream!Spec

Text == INSTANCE OpenedText WITH
  n <- IF Decrypts THEN n ELSE 0,
  out <- IF Decrypts THEN out ELSE <<>>,
  result <- IF Decrypts THEN result ELSE "none"

\* Whatever is left of the file, whichever decryptor and however it is called after an
\* error: what comes out is a beginning of the text, and ok is said only after all of it.
OneText == Text!Spec

\* A pipeline closes its stream exactly when it returns ok and never swallows a read
\* error; without an I/O error an encryptor fails only for want of a counter, and the
\* three decryptors open the same pieces and give the same verdict on every file; and
\* none holds more than its channel, or its batch, and the chunks at hand.
CallsHold ==
  CASE model = "pipelined" -> P!ClosedIffOk /\ P!ReadErrorSurfaces /\ P!BuffersBounded
    [] model = "chunked"   -> S!NoSpuriousError /\ S!BuffersBounded
    [] model = "decrypt"   -> D!SameVerdict /\ D!BuffersBounded
    [] OTHER               -> TRUE

\* The call returns.  Only one state can keep one from returning: a pipeline's reader
\* blocked on the full channel that its caller, who waits for it, no longer drains.
EventuallyReturns ==
  <>(CASE model = "pipelined" -> mpc = "returned" \/ P!Blocked
       [] model \in {"chunked", "decrypt"} -> pc = "returned"
       [] model = "async" -> A!Ended
       [] OTHER -> TRUE)
=============================================================================
