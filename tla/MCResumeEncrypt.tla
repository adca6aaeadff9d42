--------------------------- MODULE MCResumeEncrypt ---------------------------
(* Small instances of ResumeEncrypt: two-byte chunks, a checkpoint every    *)
(* one or two chunks, sources of 0 to 9 bytes over two byte values.         *)
EXTENDS ResumeEncrypt

CONSTANTS a, b

TwoBytes == {a, b}

\* Empty, shorter than a chunk, chunk-aligned, and two checkpoints long.
StableSources ==
  {<<>>, <<a>>, <<a, b, a, a>>, <<a, b, a, a, b, b, a, b, a>>}

\* A rewrite may change the prefix, only the tail, or the length.
EditedSources ==
  {<<a, a, a, a, a>>, <<a, a, a, b, a>>, <<b, b, b, b, b>>, <<a, a, a>>}

OnlyIdle    == {"idle"}
=============================================================================
