-------------------------- MODULE MCDecodePipeline --------------------------
(* DecodePipeline on small instances. *)
EXTENDS DecodePipeline
=============================================================================
