-------------------------- MODULE PeakDetectWorker --------------------------
(***************************************************************************)
(* The hand-over between the manager's worker thread and the thread of     *)
(* CPeakDetectWorker: FFT results go one way in buffers of a small pool,   *)
(* requests for a peak calculation go the same way in a flag and a number, *)
(* and a flag comes back when the calculation is done.                     *)
(*                                                                         *)
(* The contents of the FFTs play no part, so the queue and the pool are    *)
(* counted.  A request is a number (which request it is) and the count of  *)
(* peaks it asks for.  Every critical section of m_lock is a step; what    *)
(* Execute does without the lock is a step of its own.                     *)
(***************************************************************************)
EXTENDS PeakRequests

CONSTANTS
  FftPool,        \* buffers of m_memPoolFft (4 in the code)
  MaxInputQueue,  \* CPeakDetectWorker::MAX_INPUT_QUEUE (2)
  MaxCalc,        \* the largest count of peaks asked for (m_peakDetectMaxCalc)
  MaxRequests,    \* bound: how many calculations are requested
  MaxEvents       \* bound: posts the semaphore may hold

ASSUME CountsAssumption ==
  /\ FftPool \in Nat /\ MaxInputQueue \in Nat /\ MaxCalc \in Nat
  /\ MaxRequests \in Nat /\ MaxEvents \in Nat

VARIABLES
  fftFree,       \* m_memPoolFft.m_stack.size()
  calcComplete,  \* m_calcComplete, which no constructor initialises
  mgrPc          \* where CDecodeManager::Execute is

mgrVars == <<mgrPc>>
wVars == <<wPc, grabbed, answered>>
vars == <<fftFree, queued, workAvailable, calcNeeded, request, calcComplete, mgrVars, wVars>>

Request == [id : 0..MaxRequests, count : 0..MaxCalc]
NoRequest == [id |-> 0, count |-> 0]

Init ==
  /\ fftFree = FftPool /\ queued = 0 /\ workAvailable = 0
  /\ calcNeeded = FALSE /\ calcComplete \in BOOLEAN
  /\ request = NoRequest /\ grabbed = NoRequest /\ answered = 0
  /\ mgrPc = "fft" /\ wPc = "wait"

-----------------------------------------------------------------------------
(* CDecodeManager::Execute, once per audio buffer. *)

(* GenerateFft: every Add yields an FFT; it is copied into a buffer of the *)
(* pool, and what GetBuffer returned is dereferenced unchecked.            *)
GenerateFft ==
  /\ mgrPc = "fft"
  /\ \/ fftFree > 0 /\ fftFree' = fftFree - 1 /\ mgrPc' = "push"
     \/ fftFree = 0 /\ mgrPc' = "crashed" /\ UNCHANGED fftFree
  /\ UNCHANGED <<queued, workAvailable, calcNeeded, request, calcComplete, wVars>>

(* PushFftInput; popping the oldest drops its last reference.  (A *Faulty  *)
(* operator below is a variant of the definition that follows it, kept to  *)
(* show which property notices the difference.)                            *)
PushFftInput ==
  /\ mgrPc = "push" /\ workAvailable < MaxEvents
  /\ workAvailable' = workAvailable + 1 /\ mgrPc' = "tune"
  /\ \/ queued > MaxInputQueue /\ fftFree' = fftFree + 1 /\ UNCHANGED queued
     \/ queued <= MaxInputQueue /\ queued' = queued + 1 /\ UNCHANGED fftFree
  /\ UNCHANGED <<calcNeeded, request, calcComplete, wVars>>

(* Manual tune: no peak detection this time. *)
ManualTune ==
  /\ mgrPc = "tune" /\ mgrPc' = "fft"
  /\ UNCHANGED <<fftFree, queued, workAvailable, calcNeeded, request, calcComplete, wVars>>

(* CheckPeakDetection: the delay has not passed, or no decoder is free ... *)
NoPeakCalc ==
  /\ mgrPc = "tune" /\ mgrPc' = "updated"
  /\ UNCHANGED <<fftFree, queued, workAvailable, calcNeeded, request, calcComplete, wVars>>

(* ... or TriggerPeakCalc, for min(availDecoders, m_peakDetectMaxCalc).    *)
(* The application may have set m_peakDetectMaxCalc to zero.               *)
TriggerPeakCalcFaulty ==
  /\ mgrPc = "tune" /\ request.id < MaxRequests
  /\ \E n \in 0..MaxCalc : request' = [id |-> request.id + 1, count |-> n]
  /\ calcNeeded' = TRUE
  /\ mgrPc' = "updated"
  /\ UNCHANGED <<fftFree, queued, workAvailable, calcComplete, wVars>>

TriggerPeakCalc ==
  /\ mgrPc = "tune" /\ request.id < MaxRequests /\ workAvailable < MaxEvents
  /\ \E n \in 0..MaxCalc : request' = [id |-> request.id + 1, count |-> n]
  /\ calcNeeded' = TRUE
  /\ workAvailable' = workAvailable + 1 /\ mgrPc' = "updated"
  /\ UNCHANGED <<fftFree, queued, calcComplete, wVars>>

(* PeakCalcUpdated(TRUE), then GetPeaks when it said so. *)
PeakCalcUpdated ==
  /\ mgrPc = "updated"
  /\ calcComplete' = FALSE
  /\ mgrPc' = IF calcComplete THEN "peaks" ELSE "fft"
  /\ UNCHANGED <<fftFree, queued, workAvailable, calcNeeded, request, wVars>>

GetPeaks ==
  /\ mgrPc = "peaks" /\ mgrPc' = "fft"
  /\ UNCHANGED <<fftFree, queued, workAvailable, calcNeeded, request, calcComplete, wVars>>

-----------------------------------------------------------------------------
(* The worker's thread: CWorkerThread::Run and CPeakDetectWorker::Execute. *)

Wake ==
  /\ wPc = "wait" /\ workAvailable > 0
  /\ workAvailable' = workAvailable - 1 /\ wPc' = "collect" /\ grabbed' = NoRequest
  /\ UNCHANGED <<fftFree, queued, calcNeeded, request, calcComplete, mgrVars, answered>>

CollectFftInput ==
  /\ wPc = "collect"
  /\ \/ queued > 0 /\ queued' = queued - 1 /\ wPc' = "process"
     \/ queued = 0 /\ wPc' = "check" /\ UNCHANGED queued
  /\ UNCHANGED <<fftFree, workAvailable, calcNeeded, request, calcComplete, mgrVars, grabbed, answered>>

(* Process runs under the lock; the buffer goes back to the pool after it, *)
(* at the end of the loop's body.                                          *)
Process ==
  /\ wPc = "process" /\ wPc' = "drop"
  /\ UNCHANGED <<fftFree, queued, workAvailable, calcNeeded, request, calcComplete, mgrVars, grabbed, answered>>

DropFaulty ==
  /\ wPc = "drop" /\ wPc' = "collect"
  /\ UNCHANGED <<fftFree, queued, workAvailable, calcNeeded, request, calcComplete, mgrVars, grabbed, answered>>

Drop ==
  /\ wPc = "drop" /\ wPc' = "collect"
  /\ fftFree' = fftFree + 1
  /\ UNCHANGED <<queued, workAvailable, calcNeeded, request, calcComplete, mgrVars, grabbed, answered>>

(* The queue was empty: if (m_calcNeeded), its reset and the reading of    *)
(* m_numCalcPeaks, none of them under the lock.                            *)
CheckCalcNeeded ==
  /\ wPc = "check"
  /\ wPc' = IF calcNeeded THEN "reset" ELSE "wait"
  /\ UNCHANGED <<fftFree, queued, workAvailable, calcNeeded, request, calcComplete, mgrVars, grabbed, answered>>

ResetCalcNeeded ==
  /\ wPc = "reset" /\ wPc' = "grab"
  /\ calcNeeded' = FALSE
  /\ UNCHANGED <<fftFree, queued, workAvailable, request, calcComplete, mgrVars, grabbed, answered>>

GrabNumCalcPeaks ==
  /\ wPc = "grab"
  /\ grabbed' = request
  /\ \/ request.count > 0 /\ wPc' = "calc" /\ UNCHANGED answered
     \/ request.count = 0 /\ wPc' = "wait" /\ answered' = request.id
  /\ UNCHANGED <<fftFree, queued, workAvailable, calcNeeded, request, calcComplete, mgrVars>>

(* CalcPeaks and m_calcComplete, under the lock. *)
CalcPeaksFaulty ==
  /\ wPc = "calc" /\ wPc' = "wait"
  /\ calcComplete' = TRUE /\ calcNeeded' = FALSE
  /\ answered' = grabbed.id
  /\ UNCHANGED <<fftFree, queued, workAvailable, request, mgrVars, grabbed>>

CalcPeaks ==
  /\ wPc = "calc" /\ wPc' = "wait"
  /\ calcComplete' = TRUE
  /\ answered' = grabbed.id
  /\ UNCHANGED <<fftFree, queued, workAvailable, calcNeeded, request, mgrVars, grabbed>>

Manager == \/ GenerateFft \/ PushFftInput \/ ManualTune \/ NoPeakCalc
           \/ TriggerPeakCalc \/ PeakCalcUpdated \/ GetPeaks
Worker == \/ Wake \/ CollectFftInput \/ Process \/ Drop
          \/ CheckCalcNeeded \/ ResetCalcNeeded \/ GrabNumCalcPeaks \/ CalcPeaks

(* A crash of the manager's thread ends the process. *)
Running == mgrPc # "crashed"

Next == Running /\ (Manager \/ Worker)

Spec == Init /\ [][Next]_vars

(* The worker's thread runs when it can; the device need not deliver. *)
FairSpec == Spec /\ WF_vars(Running /\ Worker)

-----------------------------------------------------------------------------
(* The types, with the queue's limit (size() > MAX lets one more in). *)
TypeOK ==
  /\ fftFree \in Nat
  /\ queued \in 0..MaxInputQueue + 1
  /\ workAvailable \in 0..MaxEvents
  /\ calcNeeded \in BOOLEAN /\ calcComplete \in BOOLEAN
  /\ request \in Request /\ grabbed \in Request
  /\ answered \in 0..MaxRequests
  /\ mgrPc \in {"fft", "push", "tune", "updated", "peaks", "crashed"}
  /\ wPc \in {"wait", "collect", "process", "drop", "check", "reset", "grab", "calc"}

(* Every FFT buffer is in the pool, queued, or in one thread's hands. *)
InHands == (IF mgrPc = "push" THEN 1 ELSE 0) + (IF wPc \in {"process", "drop"} THEN 1 ELSE 0)
FftBuffersAccounted == fftFree + queued + InHands = FftPool

(* GenerateFft never gets the null buffer it would dereference, as its     *)
(* comment has it: "grab the new fft data and pass to peak detector".      *)
FftBufferAvailable == mgrPc # "crashed"

(* The pool runs dry at one moment only: the queue is as long as it gets   *)
(* and the worker has not yet given back the buffer of the FFT before, for *)
(* no buffer of the small pool leaks.  A worker that keeps within three    *)
(* FFTs of the manager never lets it crash.                                *)
DryOnlyWhenBehind ==
  mgrPc = "crashed" => queued = MaxInputQueue + 1 /\ wPc \in {"process", "drop"}

(* Every request is answered, provided the FFTs do not come so fast that   *)
(* Execute never finds its queue empty, and the process goes on.           *)
RequestAnswered ==
  []<>(wPc \in {"wait", "check"}) =>
    \A n \in 1..MaxRequests : (request.id = n) ~> (answered >= n \/ mgrPc = "crashed")
=============================================================================
