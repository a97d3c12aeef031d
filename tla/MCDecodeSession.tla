-------------------------- MODULE MCDecodeSession --------------------------
(* DecodeSession on a small instance: one decoder, three output buffers,   *)
(* queues of one, and a session started at most twice.                     *)
EXTENDS DecodeSession
=============================================================================
