------------------------- MODULE MCPipelinedEncrypt -------------------------
(* Small instances of PipelinedEncrypt: the real channel capacity of 2, and *)
(* sources long enough to fill the channel and both threads' hands twice.   *)
EXTENDS PipelinedEncrypt
=============================================================================
