----------------------------- MODULE OpenedText -----------------------------
(***************************************************************************)
(* What every chunked decryptor of pqfile promises of the text it hands    *)
(* out: pieces come out in order and are never wrong, skipped or repeated, *)
(* not even for a caller who calls again after an error; and "ok" is said  *)
(* only when all of the text is out.                                       *)
(***************************************************************************)
EXTENDS Integers, Sequences

VARIABLES
  n,        \* pieces of the text that was encrypted
  out,      \* pieces handed out
  result    \* what the last call said: "none", "ok", or an error

Init == n \in Nat /\ out = <<>> /\ result = "none"

Deliver ==
  /\ result # "ok"
  /\ Len(out) < n
  /\ out' = Append(out, Len(out) + 1)
  /\ result' = "ok" => Len(out') = n
  /\ UNCHANGED n

Say ==
  /\ result # "ok"
  /\ result' = "ok" => Len(out) = n
  /\ UNCHANGED <<n, out>>

Spec == Init /\ [][Deliver \/ Say]_<<n, out, result>>
=============================================================================
