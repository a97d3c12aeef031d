---------------------------- MODULE EncodeWorker ----------------------------
(***************************************************************************)
(* The transmit path: CEncode::PushData queues a block of data at          *)
(* CEncodeWorker; Execute gives queued blocks to the encoder one by one    *)
(* and fills the output queue with the samples of the encoder's next bits; *)
(* CEncode::CollectSamples takes them out.                                 *)
(*                                                                         *)
(* Execute runs on the worker's thread and also, called by PushInput, on   *)
(* the application's.  It does the encoder's work between an unlock() and  *)
(* a lock() of m_queueLock.  The mutex is recursive and PushInput already  *)
(* holds it, so the unlock() of the application's Execute does not open    *)
(* it; the worker's does, and then both are in the encoder at once.  The   *)
(* mutex is modelled with its owner and its depth, the encoder's variables *)
(* without protection, as they are.                                        *)
(***************************************************************************)
EXTENDS Integers, Sequences

CONSTANTS
  App, Worker,      \* the threads that run Execute
  Nobody,           \* the owner of a free mutex
  PhaseBits,        \* bits of a block's preamble, sync vector, code and postamble
                    \* (<<768, 32, 5200, 16>>)
  MaxOutputQueue,   \* CEncodeWorker::MAX_OUTPUT_QUEUE (64)
  MaxInputQueue,    \* CEncodeWorker::MAX_INPUT_QUEUE (128)
  DataPool,         \* buffers of m_poolDataIn (64)
  SamplePool,       \* buffers of m_poolSamplesOut (256)
  MaxBlocks,        \* bound: how many blocks the application pushes
  MaxEvents         \* bound: posts the semaphore may hold

ASSUME ThreadAssumption == App # Worker /\ Nobody \notin {App, Worker}
ASSUME PhaseAssumption == PhaseBits \in Seq(Nat \ {0}) /\ PhaseBits # <<>>
ASSUME SizeAssumption ==
  /\ MaxOutputQueue \in Nat \ {0}
  /\ MaxInputQueue \in Nat
  /\ DataPool \in Nat /\ SamplePool \in Nat
  /\ MaxBlocks \in Nat /\ MaxEvents \in Nat

VARIABLES
  owner, depth,     \* m_queueLock
  queueIn,          \* m_queueIn: the numbers of the blocks queued
  queueOut,         \* m_queueOut: buffers of samples, each of one bit
  event,            \* m_workAvailable, a counting semaphore
  dataFree,         \* m_poolDataIn.m_stack.size()
  sampleFree,       \* m_poolSamplesOut.m_stack.size()
  txbuf,            \* the block m_txbuf holds; Mixed while, or if, it holds no whole one
  phase,            \* m_encodeState: Init, the phases 1, 2, ... or Complete
  left,             \* GetNextTxBit's static bitsRemaining
  pushed,           \* how many blocks the application has got into the queue
  pc,               \* where each thread's Execute is
  input,            \* its local inputBuf
  seen, read,       \* what GetNextTxBit has read of phase and left
  sample,           \* its local outputBuf
  colPc,            \* where the collecting thread is
  collected,        \* the sample it has popped and is copying
  raced             \* history: both threads have been behind Execute's unlock() at once

lockVars == <<owner, depth>>
poolVars == <<dataFree, sampleFree>>
encVars == <<txbuf, phase, left>>
exeVars == <<pc, input, seen, read, sample>>
histVars == <<pushed, raced>>
colVars == <<colPc, collected>>
vars == <<lockVars, queueIn, queueOut, event, poolVars, encVars, histVars, exeVars, colVars>>

Thread == {App, Worker}
NoBlock == 0                            \* no input buffer
Mixed == MaxBlocks + 1                  \* no block has this number

(* m_encodeState runs from esInit through the phases to esComplete. *)
Phases == Len(PhaseBits)
InitState == 0
Complete == Phases + 1
Counts == {-1} \cup UNION {0..PhaseBits[i] : i \in 1..Phases}

(* A bit is known by its block, its phase and the bits left of that.       *)
Sample == [block : 0..Mixed, phase : 0..Complete, left : Counts]
NoSample == [block |-> NoBlock, phase |-> 0, left |-> 0]    \* the null AutoBufPtr

(* std::recursive_mutex *)
Lock(t) == owner \in {Nobody, t} /\ owner' = t /\ depth' = depth + 1
Unlock(t, n) == depth' = depth - n /\ owner' = IF depth = n THEN Nobody ELSE t

Ready == phase = Complete               \* CEncode::ReadyForInput

Init ==
  /\ owner = Nobody /\ depth = 0
  /\ queueIn = <<>> /\ queueOut = <<>> /\ event = 0
  /\ dataFree = DataPool /\ sampleFree = SamplePool
  /\ txbuf = Mixed /\ phase = Complete /\ left = 0 /\ pushed = 0
  /\ pc = [t \in Thread |-> "idle"]
  /\ input = [t \in Thread |-> NoBlock]
  /\ seen = [t \in Thread |-> 0] /\ read = [t \in Thread |-> 0]
  /\ sample = [t \in Thread |-> NoSample]
  /\ colPc = "idle" /\ collected = NoSample
  /\ raced = FALSE

-----------------------------------------------------------------------------
(* What starts Execute. *)

(* PushInput queues the block and, under its own lock, runs Execute.       *)
PushInput ==
  /\ owner = Nobody /\ Len(queueIn) <= MaxInputQueue
  /\ owner' = App /\ depth' = 2
  /\ queueIn' = Append(queueIn, pushed + 1)
  /\ event' = event + 1
  /\ pc' = [pc EXCEPT ![App] = "begin"]

(* CEncode::PushData.  One that finds no buffer, or a full queue, changes  *)
(* nothing.                                                                *)
PushData ==
  /\ pc[App] = "idle" /\ pushed < MaxBlocks /\ event < MaxEvents
  /\ dataFree > 0 /\ dataFree' = dataFree - 1
  /\ pushed' = pushed + 1 /\ raced' = raced
  /\ PushInput
  /\ UNCHANGED <<queueOut, sampleFree, encVars, input, seen, read, sample, colVars>>

(* CWorkerThread::Run: Wait returns and Execute takes the lock. *)
Wake ==
  /\ pc[Worker] = "idle" /\ event > 0
  /\ event' = event - 1
  /\ pc' = [pc EXCEPT ![Worker] = "enter"]
  /\ UNCHANGED <<lockVars, queueIn, queueOut, poolVars, encVars, histVars, input, seen, read, sample, colVars>>

Enter ==
  /\ pc[Worker] = "enter" /\ Lock(Worker)
  /\ pc' = [pc EXCEPT ![Worker] = "begin"]
  /\ UNCHANGED <<queueIn, queueOut, event, poolVars, encVars, histVars, input, seen, read, sample, colVars>>

-----------------------------------------------------------------------------
(* CEncodeWorker::Execute on thread t. *)

(* Between Execute's unlock() and its lock(). *)
Outside(t) == pc[t] \notin {"idle", "enter", "begin", "loop"}
NoteRace(t) == raced' = (raced \/ \E u \in Thread \ {t} : Outside(u))

(* if (CanCollectInput() && ReadyForInput()) CollectInput, unlock.  (A     *)
(* *Faulty operator is a variant of the definition that follows it, kept   *)
(* to show which property notices the difference.)                         *)
CollectInputFaulty(t) ==
  /\ pc[t] = "begin"
  /\ IF queueIn # <<>> /\ Ready
       THEN /\ input' = [input EXCEPT ![t] = Head(queueIn)]
            /\ Unlock(t, 1) /\ NoteRace(t)
            /\ pc' = [pc EXCEPT ![t] = "set"]
       ELSE pc' = [pc EXCEPT ![t] = "loop"] /\ UNCHANGED <<lockVars, input, raced>>
  /\ UNCHANGED <<queueIn, queueOut, event, poolVars, encVars, pushed, seen, read, sample, colVars>>

CollectInput(t) ==
  /\ pc[t] = "begin"
  /\ \/ /\ queueIn # <<>> /\ Ready
        /\ input' = [input EXCEPT ![t] = Head(queueIn)]
        /\ queueIn' = Tail(queueIn)
        /\ Unlock(t, 1) /\ NoteRace(t)
        /\ pc' = [pc EXCEPT ![t] = "set"]
     \/ /\ queueIn = <<>> \/ ~Ready
        /\ pc' = [pc EXCEPT ![t] = "loop"]
        /\ UNCHANGED <<lockVars, queueIn, input, raced>>
  /\ UNCHANGED <<queueOut, event, poolVars, encVars, pushed, seen, read, sample, colVars>>

(* CEncode::SetInputBuffer: m_fec.Encode overwrites m_txbuf ... *)
BeginEncode(t) ==
  /\ pc[t] = "set"
  /\ txbuf' = Mixed
  /\ pc' = [pc EXCEPT ![t] = "encode"]
  /\ UNCHANGED <<lockVars, queueIn, queueOut, event, poolVars, phase, left, histVars, input, seen, read, sample, colVars>>

(* ... and m_encodeState = esInit.  When the other thread is in Encode as  *)
(* well, or has been, either block or a mixture is left.                   *)
EndEncode(t) ==
  /\ pc[t] = "encode"
  /\ \/ txbuf' = input[t]
     \/ /\ txbuf # Mixed \/ \E u \in Thread \ {t} : pc[u] = "encode"
        /\ txbuf' \in {txbuf, Mixed}
  /\ phase' = InitState
  /\ pc' = [pc EXCEPT ![t] = "lock"]
  /\ UNCHANGED <<lockVars, queueIn, queueOut, event, poolVars, left, histVars, input, seen, read, sample, colVars>>

(* lock; inputBuf goes out of scope and back to the pool. *)
Relock(t) ==
  /\ pc[t] = "lock" /\ Lock(t)
  /\ input' = [input EXCEPT ![t] = NoBlock]
  /\ dataFree' = dataFree + 1
  /\ pc' = [pc EXCEPT ![t] = "loop"]
  /\ UNCHANGED <<queueIn, queueOut, event, sampleFree, encVars, histVars, seen, read, sample, colVars>>

(* while (CanPublishOutput() && !ReadyForInput()) unlock ... or return, of *)
(* Execute and for the application of PushInput as well.                   *)
CheckLoop(t) ==
  /\ pc[t] = "loop"
  /\ \/ /\ Len(queueOut) < MaxOutputQueue /\ ~Ready
        /\ Unlock(t, 1) /\ NoteRace(t)
        /\ pc' = [pc EXCEPT ![t] = "state"]
     \/ /\ Len(queueOut) >= MaxOutputQueue \/ Ready
        /\ Unlock(t, depth) /\ UNCHANGED raced
        /\ pc' = [pc EXCEPT ![t] = "idle"]
  /\ UNCHANGED <<queueIn, queueOut, event, poolVars, encVars, pushed, input, seen, read, sample, colVars>>

(* GetNextTxBit counts down static variables that nothing protects:        *)
(* switch (m_encodeState), where esInit starts the first phase ...         *)
ReadState(t) ==
  /\ pc[t] = "state"
  /\ \/ /\ phase = Complete
        /\ seen' = [seen EXCEPT ![t] = phase] /\ read' = [read EXCEPT ![t] = 0]
        /\ pc' = [pc EXCEPT ![t] = "buffer"]
        /\ UNCHANGED <<phase, left>>
     \/ /\ phase = InitState
        /\ phase' = 1 /\ left' = PhaseBits[1]
        /\ seen' = [seen EXCEPT ![t] = 1] /\ UNCHANGED read
        /\ pc' = [pc EXCEPT ![t] = "load"]
     \/ /\ phase \in 1..Phases
        /\ seen' = [seen EXCEPT ![t] = phase] /\ UNCHANGED read
        /\ pc' = [pc EXCEPT ![t] = "load"]
        /\ UNCHANGED <<phase, left>>
  /\ UNCHANGED <<lockVars, queueIn, queueOut, event, poolVars, txbuf, histVars, input, sample, colVars>>

(* ... then --bitsRemaining, a load and a store (once below zero it takes  *)
(* 2^32 bits to come back to it, which is not followed) ...                *)
LoadBits(t) ==
  /\ pc[t] = "load"
  /\ read' = [read EXCEPT ![t] = left]
  /\ pc' = [pc EXCEPT ![t] = "store"]
  /\ UNCHANGED <<lockVars, queueIn, queueOut, event, poolVars, encVars, histVars, input, seen, sample, colVars>>

StoreBits(t) ==
  /\ pc[t] = "store"
  /\ left' = IF read[t] > 0 THEN read[t] - 1 ELSE -1
  /\ pc' = [pc EXCEPT ![t] = IF read[t] = 1 THEN "next" ELSE "buffer"]
  /\ UNCHANGED <<lockVars, queueIn, queueOut, event, poolVars, txbuf, phase, histVars, input, seen, read, sample, colVars>>

(* ... and, at zero, the next phase. *)
NextPhaseFaulty(t) ==
  /\ pc[t] = "next"
  /\ phase' = seen[t] + 1
  /\ left' = IF seen[t] = Phases THEN left ELSE PhaseBits[seen[t] + 1] + 1
  /\ pc' = [pc EXCEPT ![t] = "buffer"]
  /\ UNCHANGED <<lockVars, queueIn, queueOut, event, poolVars, txbuf, histVars, input, seen, read, sample, colVars>>

NextPhase(t) ==
  /\ pc[t] = "next"
  /\ phase' = seen[t] + 1
  /\ left' = IF seen[t] = Phases THEN left ELSE PhaseBits[seen[t] + 1]
  /\ pc' = [pc EXCEPT ![t] = "buffer"]
  /\ UNCHANGED <<lockVars, queueIn, queueOut, event, poolVars, txbuf, histVars, input, seen, read, sample, colVars>>

(* GenerateNextBuffer's GetBuffer: with an empty pool the null buffer is   *)
(* returned, after the bit was taken.                                      *)
GetSampleBuffer(t) ==
  /\ pc[t] = "buffer"
  /\ \/ /\ sampleFree > 0 /\ sampleFree' = sampleFree - 1
        /\ sample' = [sample EXCEPT ![t] = [block |-> txbuf, phase |-> seen[t], left |-> read[t]]]
     \/ sampleFree = 0 /\ UNCHANGED <<sampleFree, sample>>
  /\ pc' = [pc EXCEPT ![t] = "publish"]
  /\ UNCHANGED <<lockVars, queueIn, queueOut, event, dataFree, encVars, histVars, input, seen, read, colVars>>

(* lock and PublishOutput, whose FALSE nobody looks at: a refused buffer   *)
(* goes back to the pool.                                                  *)
PublishOutput(t) ==
  /\ pc[t] = "publish" /\ Lock(t)
  /\ \/ /\ Len(queueOut) <= MaxOutputQueue
        /\ queueOut' = Append(queueOut, sample[t])
        /\ UNCHANGED sampleFree
     \/ /\ Len(queueOut) > MaxOutputQueue
        /\ sampleFree' = sampleFree + IF sample[t] = NoSample THEN 0 ELSE 1
        /\ UNCHANGED queueOut
  /\ sample' = [sample EXCEPT ![t] = NoSample]
  /\ pc' = [pc EXCEPT ![t] = "loop"]
  /\ UNCHANGED <<queueIn, event, dataFree, encVars, histVars, input, seen, read, colVars>>

-----------------------------------------------------------------------------
(* The thread that collects. *)

(* CEncode::CollectSamples for one buffer: PopOutput, which posts whether  *)
(* or not there was one ...                                                *)
PopOutputFaulty ==
  /\ colPc = "idle" /\ owner = Nobody /\ event < MaxEvents
  /\ queueOut # <<>>
  /\ queueOut' = Tail(queueOut) /\ collected' = Head(queueOut) /\ colPc' = "copy"
  /\ UNCHANGED <<lockVars, queueIn, event, poolVars, encVars, histVars, exeVars>>

PopOutput ==
  /\ colPc = "idle" /\ owner = Nobody /\ event < MaxEvents
  /\ event' = event + 1
  /\ queueOut # <<>>
  /\ queueOut' = Tail(queueOut) /\ collected' = Head(queueOut) /\ colPc' = "copy"
  /\ UNCHANGED <<lockVars, queueIn, poolVars, encVars, histVars, exeVars>>

PopOutputEmpty ==
  /\ colPc = "idle" /\ owner = Nobody /\ event < MaxEvents
  /\ event' = event + 1
  /\ queueOut = <<>>
  /\ UNCHANGED <<lockVars, queueIn, queueOut, poolVars, encVars, histVars, exeVars, colVars>>

(* ... and memcpy. *)
CopySamples ==
  /\ colPc = "copy" /\ colPc' = "idle"
  /\ sampleFree' = sampleFree + IF collected = NoSample THEN 0 ELSE 1
  /\ collected' = NoSample
  /\ UNCHANGED <<lockVars, queueIn, queueOut, event, dataFree, encVars, histVars, exeVars>>

(* CEncode::AllDataCollected: InputQueueLength() == 0 under the lock, then *)
(* ReadyForInput() without it, then OutputQueueLength() == 0.  FALSE at    *)
(* any of them ends it.                                                    *)
CheckInputQueue ==
  /\ colPc = "idle" /\ owner = Nobody
  /\ queueIn = <<>> /\ colPc' = "ready?"
  /\ UNCHANGED <<lockVars, queueIn, queueOut, event, poolVars, encVars, histVars, exeVars, collected>>

CheckReady ==
  /\ colPc = "ready?"
  /\ colPc' = IF Ready THEN "output?" ELSE "idle"
  /\ UNCHANGED <<lockVars, queueIn, queueOut, event, poolVars, encVars, histVars, exeVars, collected>>

CheckOutputQueue ==
  /\ colPc = "output?" /\ owner = Nobody
  /\ colPc' = IF queueOut = <<>> THEN "all" ELSE "idle"
  /\ UNCHANGED <<lockVars, queueIn, queueOut, event, poolVars, encVars, histVars, exeVars, collected>>

(* AllDataCollected has answered TRUE. *)
AllDataCollected ==
  /\ colPc = "all" /\ colPc' = "idle"
  /\ UNCHANGED <<lockVars, queueIn, queueOut, event, poolVars, encVars, histVars, exeVars, collected>>

Execute(t) == \/ CollectInput(t) \/ BeginEncode(t) \/ EndEncode(t) \/ Relock(t)
              \/ CheckLoop(t) \/ ReadState(t) \/ LoadBits(t) \/ StoreBits(t)
              \/ NextPhase(t) \/ GetSampleBuffer(t) \/ PublishOutput(t)

Collector == \/ PopOutput \/ PopOutputEmpty \/ CopySamples
             \/ CheckInputQueue \/ CheckReady \/ CheckOutputQueue \/ AllDataCollected

Next == PushData \/ Wake \/ Enter \/ Collector \/ \E t \in Thread : Execute(t)


Spec == Init /\ [][Next]_vars

(* The threads run; the application keeps taking out what there is to      *)
(* collect, however it polls in between (it need not push, nor call        *)
(* CollectSamples when there is nothing).                                  *)
Fairness ==
  /\ WF_vars(Wake \/ Enter)
  /\ \A t \in Thread : WF_vars(Execute(t))
  /\ SF_vars(PopOutput)
  /\ WF_vars(CopySamples \/ CheckReady \/ CheckOutputQueue \/ AllDataCollected)

FairSpec == Spec /\ Fairness
-----------------------------------------------------------------------------
(* Who holds m_queueLock, and how often: the worker where Execute's text   *)
(* says so, the application all the time it is in PushInput.               *)
LockHeld ==
  /\ owner = Worker <=> pc[Worker] \in {"begin", "loop"}
  /\ owner = App <=> pc[App] # "idle"
  /\ depth = IF owner = Nobody THEN 0
             ELSE IF owner = App /\ pc[App] \in {"begin", "loop"} THEN 2 ELSE 1

InExecute == {"begin", "set", "encode", "lock", "loop",
              "state", "load", "store", "next", "buffer", "publish"}

(* The types; which steps hold the mutex and which a buffer; the limit of  *)
(* the input queue.                                                        *)
TypeOK ==
  /\ owner \in Thread \cup {Nobody} /\ LockHeld
  /\ queueIn \in Seq(1..MaxBlocks) /\ Len(queueIn) <= MaxInputQueue + 1
  /\ queueOut \in Seq(Sample)
  /\ event \in 0..MaxEvents
  /\ dataFree \in Nat /\ sampleFree \in Nat
  /\ txbuf \in 1..Mixed /\ phase \in 0..Complete /\ left \in Counts
  /\ pushed \in 0..MaxBlocks
  /\ pc \in [Thread -> InExecute \cup {"idle", "enter"}] /\ pc[App] # "enter"
  /\ input \in [Thread -> 0..MaxBlocks]
  /\ \A t \in Thread : input[t] # NoBlock <=> pc[t] \in {"set", "encode", "lock"}
  /\ seen \in [Thread -> 0..Complete] /\ read \in [Thread -> Counts]
  /\ \A t \in Thread : pc[t] \in {"load", "store", "next"} => seen[t] \in 1..Phases
  /\ sample \in [Thread -> Sample]
  /\ \A t \in Thread : sample[t] # NoSample => pc[t] = "publish"
  /\ colPc \in {"idle", "copy", "ready?", "output?", "all"}
  /\ collected \in Sample /\ (collected # NoSample => colPc = "copy")
  /\ raced \in BOOLEAN

(* 1 when thread t has passed CanPublishOutput and not yet published. *)
Generating(t) == IF pc[t] \in {"state", "load", "store", "next", "buffer", "publish"} THEN 1 ELSE 0

(* Although the worker gives up the lock between CanPublishOutput and      *)
(* PublishOutput, and the application may fill the queue in between,       *)
(* PublishOutput never refuses a buffer: Execute would not notice, and the *)
(* bit would be missing from the signal.                                   *)
NothingRefused == Len(queueOut) + Generating(App) + Generating(Worker) <= MaxOutputQueue + 1

(* The sample pool never runs dry: GenerateNextBuffer has already consumed *)
(* the bit when it finds out, and the null buffer would be queued.         *)
NoNullQueued ==
  /\ \A i \in 1..Len(queueOut) : queueOut[i] # NoSample
  /\ \A t \in Thread : pc[t] = "publish" => sample[t] # NoSample

(* Every block accepted keeps its buffer until the encoder is done with    *)
(* it, and gives it back then.                                             *)
Given(t) == IF input[t] # NoBlock THEN 1 ELSE 0
DataBuffersAccounted ==
  dataFree + Len(queueIn) + Given(App) + Given(Worker) = DataPool

(* Blocks leave the input queue in the order they were pushed, none twice. *)
BlocksInOrder ==
  /\ \A i \in 1..Len(queueIn) : queueIn[i] = pushed - Len(queueIn) + i
  /\ \A t \in Thread : input[t] <= pushed - Len(queueIn)
  /\ input[App] = input[Worker] => input[App] = NoBlock

(* b is the bit sent next after a. *)
Successor(a, b) ==
  IF a.left > 1
    THEN b = [a EXCEPT !.left = a.left - 1]
    ELSE b = IF a.phase < Phases
               THEN [block |-> a.block, phase |-> a.phase + 1, left |-> PhaseBits[a.phase + 1]]
               ELSE [block |-> a.block + 1, phase |-> 1, left |-> PhaseBits[1]]

(* As long as the two threads have not been behind the unlock() at once,   *)
(* what is queued to be collected is an unbroken stretch of the signal:    *)
(* every bit of every block once, in order, and the blocks in theirs; and  *)
(* the bit a thread is about to publish is the next.                       *)
SignalUnbroken ==
  ~raced =>
    /\ \A i \in 1..Len(queueOut) - 1 : Successor(queueOut[i], queueOut[i + 1])
    /\ \A t \in Thread :
         (pc[t] = "publish" /\ queueOut # <<>>) =>
           Successor(queueOut[Len(queueOut)], sample[t])

(* The application that collects whatever there is to collect gets to the  *)
(* end, and no block is left waiting for a wake-up that nobody will post   *)
(* (unless the two threads have counted bitsRemaining down past zero       *)
(* together, which only a race can do).                                    *)
TransmissionEnds == []~raced => <>[](queueIn = <<>> /\ Ready /\ queueOut = <<>>)

=============================================================================
