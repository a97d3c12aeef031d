--------------------------- MODULE MCEncodeWorker ---------------------------
(* EncodeWorker on small queues, pools and blocks: a preamble of one bit   *)
(* and a code of two.                                                      *)
EXTENDS EncodeWorker

MCPhaseBits == <<1, 2>>
=============================================================================
