--------------------------- MODULE DecodePipeline ---------------------------
(***************************************************************************)
(* The receive path of the library between the audio device and the        *)
(* decoders: CDecode::CallbackIn fills a buffer of the input pool and      *)
(* queues it at CDecodeManager; the manager's worker thread takes one      *)
(* buffer per wake-up and queues the very same buffer (a shared_ptr, no    *)
(* copy) at each of the first m_decoderNum decoders; every decoder thread  *)
(* drains its own queue.  A buffer goes back to the pool when its last     *)
(* reference is dropped.                                                   *)
(*                                                                         *)
(* A step is a critical section of the code (m_bufferLock, a worker's      *)
(* m_lock, the pool's m_lock) or an unlocked piece between two of them.    *)
(* CEvent is the semaphore of wintypes.h: Set posts, Wait takes.           *)
(***************************************************************************)
EXTENDS Integers, Sequences, FiniteSets

CONSTANTS
  Buffer,           \* buffers of m_memPoolIn (64 in the code)
  NoBuffer,         \* the null AutoBufPtr
  Decoder,          \* the workers of m_decoders (MAX_DECODERS in the code)
  ManagerQueueMax,  \* PushAudioInput discards when size() exceeds it (8)
  WorkerQueueMax,   \* CDecodeWorker::MAX_INPUT_QUEUE (512)
  MaxFrames,        \* bound: how many frames the device delivers
  ShortFrames       \* the frames that arrive with the wrong sample count

ASSUME BufferAssumption  == IsFiniteSet(Buffer) /\ NoBuffer \notin Buffer
ASSUME DecoderAssumption == IsFiniteSet(Decoder) /\ Decoder # {}
ASSUME BoundAssumption   == /\ ManagerQueueMax \in Nat
                            /\ WorkerQueueMax \in Nat
                            /\ MaxFrames \in Nat
                            /\ ShortFrames \subseteq 1..MaxFrames

VARIABLES
  free,        \* m_memPoolIn.m_stack, as a set: which free buffer is taken is irrelevant
  frame,       \* which captured frame a buffer's data holds (0: none yet)
  captured,    \* how many frames the device has delivered
  capBuf,      \* the buffer CallbackIn has filled and not yet pushed
  queueIn,     \* CDecodeManager::m_queueAudioIn
  event,       \* CDecodeManager::m_workAvailable
  mgrPc,       \* where the manager's worker thread is
  mgrBuf,      \* inSamples of CDecodeManager::Execute
  taken,       \* history: the newest frame Execute has taken from queueIn
  fed,         \* i of the feeding loop: how many decoders have this buffer
  autoTune,    \* m_autoTuneState == FFTTunerState_On
  decoderNum,  \* m_decoderNum
  order,       \* the order std::sort left m_decoders in
  dQueue,      \* CDecodeWorker::m_queueAudioIn of each decoder
  dEvent,      \* CDecodeWorker::m_workAvailable of each decoder
  dPc,         \* where each decoder's worker thread is
  dBuf,        \* ptr of CDecodeWorker::Execute of each decoder
  done         \* history: the newest frame each decoder has processed

capVars == <<captured, capBuf>>
mgrVars == <<mgrPc, mgrBuf, taken, fed, order>>
apiVars == <<autoTune, decoderNum>>
decVars == <<dQueue, dEvent, dPc, dBuf, done>>
vars == <<free, frame, capVars, queueIn, event, mgrVars, apiVars, decVars>>

NumDecoders == Cardinality(Decoder)

Orders == {o \in [1..NumDecoders -> Decoder] :
             \A i, j \in 1..NumDecoders : o[i] = o[j] => i = j}

InSeq(b, s) == \E i \in 1..Len(s) : s[i] = b

(* b is referenced by a live shared_ptr *)
Referenced(b) ==
  \/ capBuf = b
  \/ mgrBuf = b
  \/ InSeq(b, queueIn)
  \/ \E d \in Decoder : dBuf[d] = b \/ InSeq(b, dQueue[d])

(* CMemPool::PutBuffer, the deleter of the last shared_ptr: of the buffers  *)
(* S whose reference a step drops, those nobody refers to any more go back *)
(* to the pool.  (A *Faulty operator is a variant of the definition that   *)
(* follows it, kept to show which property notices the difference.)        *)
ReclaimFaulty(S) == free' = free \cup S
Reclaim(S) == free' = free \cup {b \in S : ~Referenced(b)'}

(* CEvent: Set posts a counting semaphore, it does not set a flag. *)
PostFaulty(n) == 1
Post(n) == n + 1

Init ==
  /\ free = Buffer
  /\ frame = [b \in Buffer |-> 0]
  /\ captured = 0 /\ capBuf = NoBuffer
  /\ queueIn = <<>> /\ event = 0
  /\ mgrPc = "wait" /\ mgrBuf = NoBuffer /\ taken = 0 /\ fed = 0
  /\ autoTune = TRUE /\ decoderNum = NumDecoders
  /\ order \in Orders
  /\ dQueue = [d \in Decoder |-> <<>>]
  /\ dEvent = [d \in Decoder |-> 0]
  /\ dPc = [d \in Decoder |-> "wait"]
  /\ dBuf = [d \in Decoder |-> NoBuffer]
  /\ done = [d \in Decoder |-> 0]

-----------------------------------------------------------------------------
(* The audio device's thread. *)

(* CallbackIn up to the filled buffer: GetEmptyInputAudioBuffer pops one. *)
CallbackIn ==
  /\ capBuf = NoBuffer
  /\ captured < MaxFrames
  /\ captured' = captured + 1
  /\ \E b \in free :
       /\ capBuf' = b
       /\ free' = free \ {b}
       /\ frame' = [frame EXCEPT ![b] = captured + 1]
  /\ UNCHANGED <<queueIn, event, mgrVars, apiVars, decVars>>

(* CallbackIn returns early and the new frame is lost: m_lockWorking is    *)
(* taken, the pool is empty, or the buffer popped is too small or there is *)
(* no input to put in it, and it goes straight back.                       *)
CallbackInLosesFrame ==
  /\ capBuf = NoBuffer
  /\ captured < MaxFrames
  /\ captured' = captured + 1
  /\ UNCHANGED <<free, frame, capBuf, queueIn, event, mgrVars, apiVars, decVars>>

(* CDecodeManager::PushAudioInput with overwrite = TRUE: at the limit the  *)
(* oldest buffer is popped first.                                          *)
PushAudioInputFaulty ==
  /\ capBuf # NoBuffer
  /\ capBuf' = NoBuffer
  /\ event' = Post(event)
  /\ UNCHANGED <<frame, captured, mgrVars, apiVars, decVars>>
  /\ IF Len(queueIn) > ManagerQueueMax
       THEN queueIn' = <<capBuf>> \o Tail(queueIn) /\ Reclaim({Head(queueIn)})
       ELSE queueIn' = Append(queueIn, capBuf) /\ UNCHANGED free

PushAudioInput ==
  /\ capBuf # NoBuffer
  /\ capBuf' = NoBuffer
  /\ event' = Post(event)
  /\ UNCHANGED <<frame, captured, mgrVars, apiVars, decVars>>
  /\ \/ /\ Len(queueIn) > ManagerQueueMax
        /\ queueIn' = Append(Tail(queueIn), capBuf)
        /\ Reclaim({Head(queueIn)})
     \/ /\ Len(queueIn) <= ManagerQueueMax
        /\ queueIn' = Append(queueIn, capBuf)
        /\ UNCHANGED free

-----------------------------------------------------------------------------
(* The application's threads: the settings Execute reads without a lock. *)

SetAutoTuneState ==
  /\ autoTune' = ~autoTune
  /\ UNCHANGED <<free, frame, capVars, queueIn, event, mgrVars, decoderNum, decVars>>

SetWorkerCount ==
  /\ \E n \in 0..NumDecoders : n # decoderNum /\ decoderNum' = n
  /\ UNCHANGED <<free, frame, capVars, queueIn, event, mgrVars, autoTune, decVars>>

-----------------------------------------------------------------------------
(* The manager's worker thread: CWorkerThread::Run and Execute. *)

(* Run: m_pEvent->Wait() returns. *)
ManagerWake ==
  /\ mgrPc = "wait" /\ event > 0
  /\ event' = event - 1
  /\ mgrPc' = "run"
  /\ UNCHANGED <<free, frame, capVars, queueIn, mgrBuf, taken, fed, order, apiVars, decVars>>

(* Execute inside m_bufferLock: CollectAudioInput, and the early returns   *)
(* for an empty queue and for a buffer with the wrong number of samples.   *)
CollectAudioInputFaulty ==
  /\ mgrPc = "run"
  /\ UNCHANGED <<frame, capVars, event, fed, order, apiVars, decVars>>
  /\ IF queueIn = <<>>
       THEN mgrPc' = "wait" /\ UNCHANGED <<free, queueIn, mgrBuf, taken>>
       ELSE /\ queueIn' = Tail(queueIn)
            /\ taken' = frame[Head(queueIn)]
            /\ mgrPc' = "tune" /\ mgrBuf' = Head(queueIn)
            /\ UNCHANGED free

CollectAudioInput ==
  /\ mgrPc = "run"
  /\ UNCHANGED <<frame, capVars, event, fed, order, apiVars, decVars>>
  /\ \/ /\ queueIn = <<>>
        /\ mgrPc' = "wait"
        /\ UNCHANGED <<free, queueIn, mgrBuf, taken>>
     \/ /\ queueIn # <<>>
        /\ queueIn' = Tail(queueIn)
        /\ taken' = frame[Head(queueIn)]
        /\ \/ /\ frame[Head(queueIn)] \in ShortFrames
              /\ mgrPc' = "wait" /\ mgrBuf' = mgrBuf
              /\ Reclaim({Head(queueIn)})
           \/ /\ frame[Head(queueIn)] \notin ShortFrames
              /\ mgrPc' = "tune" /\ mgrBuf' = Head(queueIn)
              /\ UNCHANGED free

(* Execute after the lock: in auto tune a finished peak calculation sorts  *)
(* m_decoders (by how available they are: any order can come out); then    *)
(* the feeding loop starts at i = 0.                                       *)
Tune ==
  /\ mgrPc = "tune"
  /\ fed' = 0
  /\ \/ autoTune /\ mgrPc' = "feed" /\ order' \in Orders
     \/ ~autoTune /\ mgrPc' = "manual" /\ UNCHANGED order
  /\ UNCHANGED <<free, frame, capVars, queueIn, event, mgrBuf, taken, apiVars, decVars>>

(* CDecodeWorker::PushAudioInput(inSamples), under that worker's m_lock,   *)
(* which the worker holds while it processes.                              *)
WorkerPush(d) ==
  /\ dPc[d] # "process"
  /\ dEvent' = [dEvent EXCEPT ![d] = Post(@)]
  /\ \/ /\ Len(dQueue[d]) > WorkerQueueMax
        /\ dQueue' = [dQueue EXCEPT ![d] = Append(Tail(@), mgrBuf)]
        /\ Reclaim({Head(dQueue[d])})
     \/ /\ Len(dQueue[d]) <= WorkerQueueMax
        /\ dQueue' = [dQueue EXCEPT ![d] = Append(@, mgrBuf)]
        /\ UNCHANGED free

(* Auto tune: one turn of the loop over the first m_decoderNum decoders,   *)
(* which reads m_decoderNum afresh every time.                             *)
Feed ==
  /\ mgrPc = "feed" /\ fed < decoderNum
  /\ fed' = fed + 1
  /\ UNCHANGED <<frame, capVars, queueIn, event, mgrPc, mgrBuf, taken, order, apiVars, dPc, dBuf, done>>
  /\ WorkerPush(order[fed + 1])

FeedEnd ==
  /\ mgrPc = "feed" /\ fed >= decoderNum
  /\ mgrPc' = "release"
  /\ UNCHANGED <<free, frame, capVars, queueIn, event, mgrBuf, taken, fed, order, apiVars, decVars>>

(* Manual tune: only m_decoders[0] gets the buffer. *)
FeedManual ==
  /\ mgrPc = "manual"
  /\ mgrPc' = "release"
  /\ UNCHANGED <<frame, capVars, queueIn, event, mgrBuf, taken, fed, order, apiVars, dPc, dBuf, done>>
  /\ WorkerPush(order[1])

(* Execute returns: inSamples goes out of scope, Run waits again. *)
Release ==
  /\ mgrPc = "release"
  /\ mgrPc' = "wait" /\ mgrBuf' = NoBuffer
  /\ UNCHANGED <<frame, capVars, queueIn, event, taken, fed, order, apiVars, decVars>>
  /\ Reclaim({mgrBuf})

-----------------------------------------------------------------------------
(* The thread of decoder d: CWorkerThread::Run and CDecodeWorker::Execute. *)

DecoderWake(d) ==
  /\ dPc[d] = "wait" /\ dEvent[d] > 0
  /\ dEvent' = [dEvent EXCEPT ![d] = @ - 1]
  /\ dPc' = [dPc EXCEPT ![d] = "run"]
  /\ UNCHANGED <<free, frame, capVars, queueIn, event, mgrVars, apiVars, dQueue, dBuf, done>>

(* One CollectAudioInput of Execute's loop: an empty queue and a buffer of *)
(* the wrong size both end Execute; the second drops the buffer and leaves *)
(* what is behind it queued.                                               *)
DecoderCollect(d) ==
  /\ dPc[d] = "run"
  /\ UNCHANGED <<frame, capVars, queueIn, event, mgrVars, apiVars, dEvent, done>>
  /\ \/ /\ dQueue[d] = <<>>
        /\ dPc' = [dPc EXCEPT ![d] = "wait"]
        /\ UNCHANGED <<free, dQueue, dBuf>>
     \/ /\ dQueue[d] # <<>>
        /\ dQueue' = [dQueue EXCEPT ![d] = Tail(@)]
        /\ \/ /\ frame[Head(dQueue[d])] \in ShortFrames
              /\ dPc' = [dPc EXCEPT ![d] = "wait"]
              /\ dBuf' = dBuf
              /\ Reclaim({Head(dQueue[d])})
           \/ /\ frame[Head(dQueue[d])] \notin ShortFrames
              /\ dPc' = [dPc EXCEPT ![d] = "claim"]
              /\ dBuf' = [dBuf EXCEPT ![d] = Head(dQueue[d])]
              /\ UNCHANGED free

(* m_lock is taken around ProcessAudio ... *)
DecoderLock(d) ==
  /\ dPc[d] = "claim"
  /\ dPc' = [dPc EXCEPT ![d] = "process"]
  /\ UNCHANGED <<free, frame, capVars, queueIn, event, mgrVars, apiVars, dQueue, dEvent, dBuf, done>>

(* ... and released with the buffer at the end of the loop's body. *)
DecoderProcess(d) ==
  /\ dPc[d] = "process"
  /\ done' = [done EXCEPT ![d] = frame[dBuf[d]]]
  /\ dPc' = [dPc EXCEPT ![d] = "run"]
  /\ dBuf' = [dBuf EXCEPT ![d] = NoBuffer]
  /\ UNCHANGED <<frame, capVars, queueIn, event, mgrVars, apiVars, dQueue, dEvent>>
  /\ Reclaim({dBuf[d]})

Device == CallbackIn \/ CallbackInLosesFrame \/ PushAudioInput
Api == SetAutoTuneState \/ SetWorkerCount
Manager == ManagerWake \/ CollectAudioInput \/ Tune \/ Feed \/ FeedEnd \/ FeedManual \/ Release
Worker(d) == DecoderWake(d) \/ DecoderCollect(d) \/ DecoderLock(d) \/ DecoderProcess(d)

Next == Device \/ Api \/ Manager \/ \E d \in Decoder : Worker(d)

Spec == Init /\ [][Next]_vars

(* The operating system runs every thread that can run; the device and the *)
(* application owe nothing, except that a callback begun is completed.     *)
Fairness ==
  /\ WF_vars(PushAudioInput)
  /\ WF_vars(Manager)
  /\ \A d \in Decoder : WF_vars(Worker(d))

FairSpec == Spec /\ Fairness

-----------------------------------------------------------------------------
(* The types, with the limits the queues keep. *)
TypeOK ==
  /\ free \in SUBSET Buffer
  /\ frame \in [Buffer -> 0..MaxFrames]
  /\ captured \in 0..MaxFrames
  /\ capBuf \in Buffer \cup {NoBuffer}
  /\ queueIn \in Seq(Buffer) /\ Len(queueIn) <= ManagerQueueMax + 1
  /\ event \in Nat
  /\ mgrPc \in {"wait", "run", "tune", "feed", "manual", "release"}
  /\ mgrBuf \in Buffer \cup {NoBuffer}
  /\ mgrBuf # NoBuffer <=> mgrPc \in {"tune", "feed", "manual", "release"}
  /\ taken \in 0..MaxFrames
  /\ fed \in 0..NumDecoders
  /\ autoTune \in BOOLEAN
  /\ decoderNum \in 0..NumDecoders
  /\ order \in Orders
  /\ dQueue \in [Decoder -> Seq(Buffer)]
  /\ \A d \in Decoder : Len(dQueue[d]) <= WorkerQueueMax + 1
  /\ dEvent \in [Decoder -> Nat]
  /\ dPc \in [Decoder -> {"wait", "run", "claim", "process"}]
  /\ dBuf \in [Decoder -> Buffer \cup {NoBuffer}]
  /\ \A d \in Decoder : dBuf[d] # NoBuffer <=> dPc[d] \in {"claim", "process"}
  /\ done \in [Decoder -> 0..MaxFrames]

(* A buffer is in the pool exactly when nobody refers to it: none leaks,   *)
(* and none is handed to CallbackIn while the manager or one of the        *)
(* decoders that share it still has it queued or is reading it.            *)
PoolPartition == \A b \in Buffer : b \in free <=> ~Referenced(b)

(* No wake-up is lost.  Execute of the manager takes one buffer per        *)
(* wake-up, so there must be a post for every queued buffer; Execute of a  *)
(* decoder drains its queue, so one post, or a thread under way that will  *)
(* look at the queue again, is enough.                                     *)
ManagerWakeups ==
  Len(queueIn) <= event + (IF mgrPc = "run" THEN 1 ELSE 0)

DecoderWakeups ==
  \A d \in Decoder : dQueue[d] # <<>> => dEvent[d] > 0 \/ dPc[d] # "wait"

WakeupsSuffice == ManagerWakeups /\ DecoderWakeups

(* Frames keep the device's order all the way.  From the device to the     *)
(* manager: what is queued is newer than what Execute has taken, grows     *)
(* along the queue, and is older than what CallbackIn is filling.          *)
ManagerInOrder ==
  /\ capBuf # NoBuffer => frame[capBuf] = captured /\ taken < captured
  /\ mgrBuf # NoBuffer => frame[mgrBuf] = taken
  /\ \A i \in 1..Len(queueIn) :
       /\ taken < frame[queueIn[i]] /\ frame[queueIn[i]] <= captured
       /\ capBuf # NoBuffer => frame[queueIn[i]] < captured
       /\ \A j \in 1..i-1 : frame[queueIn[j]] < frame[queueIn[i]]
  /\ taken <= captured

(* Every frame decoder d has, or had, is older than n. *)
Behind(d, n) ==
  /\ done[d] < n
  /\ dBuf[d] # NoBuffer => frame[dBuf[d]] < n
  /\ \A i \in 1..Len(dQueue[d]) : frame[dQueue[d][i]] < n

(* Execute may still queue its buffer at d. *)
ToBeFed(d) ==
  \/ mgrPc \in {"tune", "manual"}
  \/ mgrPc = "feed" /\ \A i \in 1..fed : order[i] # d

(* From the manager to decoder d: what d holds is newer than what it       *)
(* processed, what is queued is newer than what it holds and grows along   *)
(* the queue, and nothing is newer than the frame the manager is at.       *)
DecoderInOrder(d) ==
  /\ dBuf[d] # NoBuffer => done[d] < frame[dBuf[d]]
  /\ \A i \in 1..Len(dQueue[d]) :
       /\ done[d] < frame[dQueue[d][i]]
       /\ dBuf[d] # NoBuffer => frame[dBuf[d]] < frame[dQueue[d][i]]
       /\ \A j \in 1..i-1 : frame[dQueue[d][j]] < frame[dQueue[d][i]]
  /\ Behind(d, taken + 1)
  /\ ToBeFed(d) => Behind(d, taken)

(* Every decoder meets the frames in the order the device delivered them,  *)
(* and none twice.                                                         *)
FramesInOrder == ManagerInOrder /\ \A d \in Decoder : DecoderInOrder(d)

(* A buffer with the wrong number of samples never gets past the manager:  *)
(* a decoder that met one would end Execute with frames still queued and   *)
(* no wake-up left for them.                                               *)
WholeFrames ==
  /\ mgrBuf # NoBuffer => frame[mgrBuf] \notin ShortFrames
  /\ \A d \in Decoder :
       /\ dBuf[d] # NoBuffer => frame[dBuf[d]] \notin ShortFrames
       /\ \A i \in 1..Len(dQueue[d]) : frame[dQueue[d][i]] \notin ShortFrames

(* A frame queued at a decoder leaves the queue only into that decoder's   *)
(* hands: the discard in CDecodeWorker::PushAudioInput never fires, which  *)
(* takes a pool with no more buffers than the queue may hold.              *)
DecodersMissNothing ==
  [][\A d \in Decoder :
       \A i \in 1..Len(dQueue[d]) :
         InSeq(dQueue[d][i], dQueue'[d]) \/ dBuf'[d] = dQueue[d][i]]_vars

(* All in all, from CallbackIn to the decoders' ProcessAudio, the receive  *)
(* path is a Delivery: whatever is discarded in three places, sorted or    *)
(* switched over, each decoder gets whole frames the manager has taken,    *)
(* newer each time.                                                        *)
Path == INSTANCE Delivery WITH
          Receiver <- Decoder, Damaged <- ShortFrames,
          sent <- captured, accepted <- taken, received <- done

DeliversInOrder == Path!Spec

(* After the last frame every buffer returns to the pool, which is what    *)
(* CMemPool::Shutdown needs to free them: nothing stays behind in a queue. *)
AllBuffersReturn == [](captured = MaxFrames => <>(free = Buffer))

=============================================================================
