---------------------------- MODULE SealedStream ----------------------------
(***************************************************************************)
(* What every chunked encryptor of pqfile promises of the stream it        *)
(* writes, whatever threads or batches it uses: chunks come out one by one *)
(* in source order, only the chunk that ends the source is marked last,    *)
(* and success is reported only when that chunk is out.                    *)
(***************************************************************************)
EXTENDS Integers, Sequences

VARIABLES
  n,        \* pieces of one chunk's length (the last may be shorter) to read
  sealed,   \* the chunks written so far
  result    \* what the call returns: none yet, ok, or an error

\* The stream of a whole source; an empty source is one empty chunk.
Whole(k) ==
  IF k = 0
  THEN <<[piece |-> 0, index |-> 0, last |-> TRUE]>>
  ELSE [i \in 1 .. k |-> [piece |-> i, index |-> i - 1, last |-> i = k]]

Init == n \in Nat /\ sealed = <<>> /\ result = "none"

\* Only the chunk that ends the source is marked last; it may go out unmarked
\* when it turns out that the source did not end there but failed.
SealOne ==
  /\ result = "none"
  /\ Len(sealed) < Len(Whole(n))
  /\ \E last \in BOOLEAN :
       /\ sealed' = Append(sealed, [Whole(n)[Len(sealed) + 1] EXCEPT !.last = last])
       /\ last => sealed' = Whole(n)
       /\ ~last /\ Len(sealed') = Len(Whole(n)) => result' = "error"
  /\ result' \in {"none", "ok", "error"}
  /\ result' = "ok" => sealed' = Whole(n)
  /\ UNCHANGED n

Fail ==
  /\ result = "none"
  /\ result' = "error"
  /\ UNCHANGED <<n, sealed>>

Succeed ==
  /\ result = "none"
  /\ sealed = Whole(n)
  /\ result' = "ok"
  /\ UNCHANGED <<n, sealed>>

Spec == Init /\ [][SealOne \/ Fail \/ Succeed]_<<n, sealed, result>>
=============================================================================
