------------------------------- MODULE AsyncIO -------------------------------
(***************************************************************************)
(* The async adapters, which all hold the whole text: encrypt_stream_async *)
(* and decrypt_stream_async read to the end, work, and write;              *)
(* AsyncPqfWriter gathers what it is given and seals it in finish or in    *)
(* poll_shutdown, which is polled until the sink has taken everything, may *)
(* be called again after an error, and may be abandoned at any await.      *)
(*                                                                         *)
(* Texts are counted in pieces of one chunk.                               *)
(***************************************************************************)
EXTENDS Integers, Sequences

CONSTANTS
  Lengths,        \* the numbers of pieces a text may have
  MaxRetries,     \* bound: calls of shutdown after one that failed
  AfterRefusal    \* a caller may shut down again after sealing has failed

VARIABLES
  n,        \* pieces of the text
  api,      \* the adapter; of the writer, the call that seals
  whole,    \* decrypt: the ciphertext is complete and undamaged
  pc,       \* the writer's state, or where a future is
  held,     \* pieces gathered, or blocks read
  ct,       \* what is to be written to the sink
  pos,      \* how much of it has been
  sealed,   \* chunks in the sink
  out,      \* plaintext pieces in the sink
  result,   \* what the last call returned
  retries

vars == <<n, api, whole, pc, held, ct, pos, sealed, out, result, retries>>

Writer == {"finish", "shutdown"}
Chunk(i) == IF n = 0 THEN [piece |-> 0, index |-> 0, last |-> TRUE]
            ELSE [piece |-> i, index |-> i - 1, last |-> i = n]
-----------------------------------------------------------------------------
Init ==
  /\ n \in Lengths /\ api \in Writer \cup {"encrypt", "decrypt"}
  /\ whole \in BOOLEAN /\ (api # "decrypt" => whole)
  /\ pc = "Buffering" /\ held = 0 /\ ct = <<>> /\ pos = 0
  /\ sealed = <<>> /\ out = <<>> /\ result = "none" /\ retries = 0

\* poll_write, or a piece from the source of the two functions.
PollWrite ==
  /\ pc = "Buffering" /\ held < n
  /\ held' = held + 1
  /\ UNCHANGED <<n, api, whole, pc, ct, pos, sealed, out, result, retries>>

\* A function refuses its parameters or its text's size, or its source fails.
Refuse ==
  /\ pc = "Buffering" /\ api \notin Writer
  /\ pc' = "returned" /\ result' = "error"
  /\ UNCHANGED <<n, api, whole, held, ct, pos, sealed, out, retries>>

\* The text is sealed, all of it at once.  A writer whose sealing fails, for its
\* key, is Done: it has lost its text and its sink.
SealAll ==
  /\ pc = "Buffering" /\ held = n /\ api # "decrypt"
  /\ \/ /\ pc' = "Flushing"
        /\ ct' = [i \in 1 .. (IF n = 0 THEN 1 ELSE n) |-> Chunk(i)] /\ UNCHANGED result
     \/ /\ pc' = (IF api = "shutdown" THEN "Done" ELSE "returned")
        /\ result' = "error" /\ UNCHANGED ct
  /\ UNCHANGED <<n, api, whole, held, pos, sealed, out, retries>>

\* The text is opened, all of it or none.
OpenAll ==
  /\ pc = "Buffering" /\ held = n /\ api = "decrypt"
  /\ IF whole THEN pc' = "Flushing" /\ ct' = [i \in 1 .. n |-> i] /\ UNCHANGED result
     ELSE pc' = "returned" /\ result' = "error" /\ UNCHANGED ct
  /\ UNCHANGED <<n, api, whole, held, pos, sealed, out, retries>>

\* The sink takes some more; while it is pending nothing is lost.
WriteOne ==
  /\ pc = "Flushing" /\ pos < Len(ct) /\ result = "none"
  /\ pos' = pos + 1
  /\ IF api = "decrypt" THEN out' = Append(out, ct[pos + 1]) /\ UNCHANGED sealed
     ELSE sealed' = Append(sealed, ct[pos + 1]) /\ UNCHANGED out
  /\ UNCHANGED <<n, api, whole, pc, held, ct, result, retries>>

\* The sink's flush, or its own shutdown.
CloseSink ==
  /\ pc = "Flushing" /\ pos = Len(ct) /\ result = "none"
  /\ pc' = (IF api = "shutdown" THEN "Done" ELSE "returned")
  /\ result' \in {"ok", "error"}
  /\ UNCHANGED <<n, api, whole, held, ct, pos, sealed, out, retries>>

\* The sink refuses a write: poll_shutdown stays where it was, so that it can be
\* called again; the futures are over.
WriteFails ==
  /\ pc = "Flushing" /\ pos < Len(ct) /\ result = "none"
  /\ result' = "error"
  /\ pc' = (IF api = "shutdown" THEN pc ELSE "returned")
  /\ UNCHANGED <<n, api, whole, held, ct, pos, sealed, out, retries>>

\* A second shutdown goes on where the first stopped; if the writer is Done it
\* says ok, whatever the first one said.
PollShutdown ==
  /\ api = "shutdown" /\ pc # "returned" /\ result = "error" /\ retries < MaxRetries
  /\ pc = "Done" /\ ct = <<>> => AfterRefusal
  /\ retries' = retries + 1
  /\ result' = IF pc = "Done" THEN "ok" ELSE "none"
  /\ UNCHANGED <<n, api, whole, pc, held, ct, pos, sealed, out>>

\* finish on a writer whose shutdown was left half way, or failed, goes on there;
\* on one that is Done it is refused.
FinishShutdown ==
  /\ api = "shutdown" /\ retries < MaxRetries
  /\ \/ pc = "Flushing" /\ result' = "none" /\ UNCHANGED pc
     \/ pc = "Done" /\ result = "error" /\ pc' = "returned" /\ UNCHANGED result
  /\ api' = "finish" /\ retries' = retries + 1
  /\ UNCHANGED <<n, whole, held, ct, pos, sealed, out>>

\* The future or the writer is dropped: what the sink has taken stays there.
Drop ==
  /\ pc \in {"Buffering", "Flushing"}
  /\ pc' = "returned"
  /\ UNCHANGED <<n, api, whole, held, ct, pos, sealed, out, result, retries>>

Next ==
  \/ PollWrite \/ Refuse \/ SealAll \/ OpenAll \/ WriteOne \/ CloseSink
  \/ WriteFails \/ PollShutdown \/ FinishShutdown \/ Drop

Spec == Init /\ [][Next]_vars /\ WF_vars(Next)
-----------------------------------------------------------------------------
(* Properties. *)

\* Every variable of an adapter stays in its type.
TypeOK ==
  /\ n \in Lengths /\ api \in Writer \cup {"encrypt", "decrypt"} /\ whole \in BOOLEAN
  /\ pc \in {"Buffering", "Flushing", "Done", "returned"}
  /\ held \in 0 .. n /\ pos \in 0 .. Len(ct)
  /\ Len(sealed) + Len(out) = pos
  /\ result \in {"none", "ok", "error"} /\ retries \in 0 .. MaxRetries

\* An error of poll_shutdown that may still be followed by another call is not
\* yet the writer's last word.
LastWord ==
  IF api = "shutdown" /\ result = "error" /\ retries < MaxRetries THEN "none" ELSE result

\* The call ends: with ok, with an error, or dropped.
Ended == pc = "returned" \/ (pc = "Done") \/ (pc = "Flushing" /\ result = "error")
=============================================================================
