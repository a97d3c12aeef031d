---------------------------- MODULE PeakRequests ----------------------------
(***************************************************************************)
(* What CDecodeManager hands over to CPeakDetectWorker, and what must not  *)
(* be lost of it.  The steps of both threads are in PeakDetectWorker.      *)
(***************************************************************************)
EXTENDS Integers

VARIABLES
  queued,         \* m_queue.size()
  workAvailable,  \* m_workAvailable, a counting semaphore
  calcNeeded,     \* m_calcNeeded
  request,        \* m_numCalcPeaks (and the excluded bins), and which request they are of
  wPc,            \* where CPeakDetectWorker::Execute is
  grabbed,        \* its local numCalcPeaks
  answered        \* history: the newest request Execute has dealt with

(* A request made while Execute checks, resets and grabs without the lock  *)
(* is not lost: until it is dealt with it is flagged, or Execute is about  *)
(* to read it, or has read it.                                             *)
RequestPending ==
  answered < request.id =>
    \/ calcNeeded
    \/ wPc \in {"reset", "grab"}
    \/ wPc = "calc" /\ grabbed.id = request.id

(* A worker that waits, or will without looking again, has no reason not   *)
(* to: neither an FFT nor a request is left behind without a post.         *)
WorkNoticed ==
  /\ queued > 0 => workAvailable > 0 \/ wPc \in {"collect", "process", "drop"}
  /\ calcNeeded => workAvailable > 0 \/ wPc \in {"collect", "process", "drop", "check", "reset"}
=============================================================================
