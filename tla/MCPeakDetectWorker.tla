------------------------- MODULE MCPeakDetectWorker -------------------------
(* PeakDetectWorker at the code's pool size and queue limit. *)
EXTENDS PeakDetectWorker
=============================================================================
