------------------------- MODULE EncodeWorkerProofs -------------------------
(***************************************************************************)
(* Proofs about EncodeWorker for every queue limit, pool and block size    *)
(* and every number of blocks.                                             *)
(***************************************************************************)
EXTENDS EncodeWorker, TLAPS

LEMMA AppendFacts ==
  ASSUME NEW S, NEW s \in Seq(S), NEW x \in S
  PROVE  /\ Append(s, x) \in Seq(S)
         /\ Len(s) \in Nat /\ Len(Append(s, x)) = Len(s) + 1
         /\ \A i \in 1..Len(s) : Append(s, x)[i] = s[i]
         /\ Append(s, x)[Len(s) + 1] = x
OBVIOUS

LEMMA TailFacts ==
  ASSUME NEW S, NEW s \in Seq(S), s # <<>>
  PROVE  /\ Head(s) \in S /\ Tail(s) \in Seq(S)
         /\ Len(s) \in Nat \ {0} /\ Len(Tail(s)) = Len(s) - 1
         /\ Head(s) = s[1]
         /\ \A i \in 1..Len(Tail(s)) : Tail(s)[i] = s[i + 1]
OBVIOUS

(* The numbers that stand for no block and for a mixture are no block's. *)
LEMMA PhaseFacts == /\ Phases \in Nat \ {0} /\ Complete \in Nat /\ Complete = Phases + 1
                    /\ \A i \in 1..Phases : PhaseBits[i] \in Nat \ {0} /\ PhaseBits[i] \in Counts
                    /\ 0 \in Counts /\ -1 \in Counts /\ Counts \subseteq Int
                    /\ \A n \in Counts : n > 0 => n - 1 \in Counts
<1>1. /\ Phases \in Nat \ {0} /\ Complete \in Nat /\ Complete = Phases + 1
      /\ \A i \in 1..Phases : PhaseBits[i] \in Nat \ {0}
  BY PhaseAssumption DEF Phases, Complete
<1>2. \A i \in 1..Phases, n \in Int : n \in 0..PhaseBits[i] => n \in Counts
  BY DEF Counts
<1>3. \A n \in Counts : n = -1 \/ \E i \in 1..Phases : n \in 0..PhaseBits[i]
  BY DEF Counts
<1>4. 0 \in Counts /\ -1 \in Counts
  <2>1. 1 \in 1..Phases BY <1>1
  <2> QED BY <1>1, <1>2, <2>1 DEF Counts
<1>5. \A i \in 1..Phases : PhaseBits[i] \in Counts BY <1>1, <1>2
<1>6. \A n \in Counts : n \in Int /\ (n > 0 => n - 1 \in Counts)
  BY <1>1, <1>2, <1>3
<1> QED BY <1>1, <1>4, <1>5, <1>6

LEMMA BlockNumbers == /\ Mixed \in Nat /\ 1..MaxBlocks \subseteq 1..Mixed
                      /\ NoBlock \notin 1..Mixed /\ NoSample \in Sample
BY SizeAssumption, PhaseFacts DEF Mixed, NoBlock, NoSample, Sample

-----------------------------------------------------------------------------
(* Type correctness. *)

LEMMA TypeInit == Init => TypeOK
<1> SUFFICES ASSUME Init PROVE TypeOK OBVIOUS
<1> USE ThreadAssumption, SizeAssumption DEF Init, Thread
<1>1. queueIn \in Seq(1..MaxBlocks) /\ Len(queueIn) = 0 /\ queueOut \in Seq(Sample) OBVIOUS
<1>2. owner \in Thread \cup {Nobody} /\ LockHeld BY DEF LockHeld
<1>3. txbuf = Mixed /\ Mixed \in 1..Mixed /\ NoSample \in Sample BY BlockNumbers DEF Mixed
<1>4. phase \in 0..Complete /\ left \in Counts /\ read \in [Thread -> Counts]
      /\ seen \in [Thread -> 0..Complete]
  BY PhaseFacts
<1>5. /\ sample \in [Thread -> Sample] /\ collected \in Sample /\ collected = NoSample
      /\ \A t \in Thread : sample[t] = NoSample
  BY <1>3
<1>6. /\ pc \in [Thread -> InExecute \cup {"idle", "enter"}] /\ pc[App] # "enter"
      /\ input \in [Thread -> 0..MaxBlocks]
      /\ \A t \in Thread : input[t] # NoBlock <=> pc[t] \in {"set", "encode", "lock"}
      /\ \A t \in Thread : pc[t] \in {"load", "store", "next"} => seen[t] \in 1..Phases
  BY DEF InExecute, NoBlock
<1>7. /\ colPc = "idle" /\ pushed \in 0..MaxBlocks
      /\ event \in 0..MaxEvents /\ dataFree \in Nat /\ sampleFree \in Nat
      /\ 0 <= MaxInputQueue + 1
  BY SizeAssumption
<1>8. raced \in BOOLEAN BY Zenon
<1> QED BY ONLY <1>1, <1>2, <1>3, <1>4, <1>5, <1>6, <1>7, <1>8 DEF TypeOK

LEMMA RacedType == ASSUME raced \in BOOLEAN, NEW t, NoteRace(t) PROVE raced' \in BOOLEAN
BY Zenon DEF NoteRace

LEMMA TypeNext == TypeOK /\ [Next]_vars => TypeOK'
<1> SUFFICES ASSUME TypeOK, [Next]_vars PROVE TypeOK' OBVIOUS
<1> USE ThreadAssumption, SizeAssumption
        DEF TypeOK, LockHeld, Thread, InExecute, Lock, Unlock,
            lockVars, poolVars, encVars, exeVars, histVars, colVars
<1>0. queueIn \in Seq(1..MaxBlocks) /\ Len(queueIn) \in Nat
      /\ queueOut \in Seq(Sample) /\ Len(queueOut) \in Nat
  OBVIOUS
<1>1. CASE PushData
  <2>1. pushed + 1 \in 1..MaxBlocks BY <1>1 DEF PushData, PushInput
  <2>2. queueIn' = Append(queueIn, pushed + 1) BY <1>1 DEF PushData, PushInput
  <2>3. queueIn' \in Seq(1..MaxBlocks) /\ Len(queueIn') = Len(queueIn) + 1
    BY <1>0, <2>1, <2>2, AppendFacts
  <2>4. Len(queueIn') <= MaxInputQueue + 1 BY <1>0, <1>1, <2>3 DEF PushData, PushInput
  <2>5. /\ pc[App] = "idle" /\ pc' = [pc EXCEPT ![App] = "begin"]
        /\ owner = Nobody /\ owner' = App /\ depth' = 2
        /\ raced' = raced
        /\ UNCHANGED <<queueOut, sampleFree, encVars, input, seen, read, sample, colVars>>
    BY <1>1 DEF PushData, PushInput
  <2>6. event' \in 0..MaxEvents /\ dataFree' \in Nat /\ pushed' \in 0..MaxBlocks
    BY <1>1 DEF PushData, PushInput
  <2>7. LockHeld' BY <2>5
  <2>8. /\ pc' \in [Thread -> InExecute \cup {"idle", "enter"}] /\ pc'[App] # "enter"
        /\ \A t \in Thread : input'[t] # NoBlock <=> pc'[t] \in {"set", "encode", "lock"}
        /\ \A t \in Thread : sample'[t] # NoSample => pc'[t] = "publish"
    BY <2>5
  <2>9. UNCHANGED <<queueOut, sampleFree, txbuf, phase, left, input, seen, read, sample, colPc, collected, raced>>
    BY <2>5
  <2> QED BY ONLY TypeOK, <2>3, <2>4, <2>5, <2>6, <2>7, <2>8, <2>9, SizeAssumption DEF TypeOK
<1>2. CASE Wake BY <1>2 DEF Wake
<1>3. CASE Enter BY <1>3 DEF Enter
<1>4. ASSUME NEW t \in Thread, CollectInput(t) PROVE TypeOK'
  <2>1. CASE queueIn # <<>> /\ Ready
    <3>0. queueIn' = Tail(queueIn) BY <1>4, <2>1 DEF CollectInput
    <3>1. /\ Head(queueIn) \in 1..MaxBlocks
          /\ queueIn' \in Seq(1..MaxBlocks) /\ Len(queueIn') = Len(queueIn) - 1
      BY <1>0, <2>1, <3>0, TailFacts
    <3>2. /\ pc[t] = "begin" /\ pc' = [pc EXCEPT ![t] = "set"]
          /\ input' = [input EXCEPT ![t] = Head(queueIn)] /\ Unlock(t, 1)
          /\ UNCHANGED <<queueOut, event, poolVars, encVars, pushed, seen, read, sample, colVars>>
      BY <1>4, <2>1 DEF CollectInput
    <3>3. Len(queueIn') <= MaxInputQueue + 1 BY <1>0, <3>1
    <3>4. \A u \in Thread : input'[u] # NoBlock <=> pc'[u] \in {"set", "encode", "lock"}
      BY SMTT(20), <3>1, <3>2 DEF NoBlock
    <3>6. raced' \in BOOLEAN BY <1>4, <2>1, RacedType DEF CollectInput
    <3>5. owner' \in Thread \cup {Nobody} /\ LockHeld' BY <3>2
    <3>7. /\ input' \in [Thread -> 0..MaxBlocks]
          /\ pc' \in [Thread -> InExecute \cup {"idle", "enter"}] /\ pc'[App] # "enter"
      BY SMTT(20), <3>1, <3>2
    <3>8. /\ \A u \in Thread : pc'[u] \in {"load", "store", "next"} => seen'[u] \in 1..Phases
          /\ \A u \in Thread : sample'[u] # NoSample => pc'[u] = "publish"
      BY <3>2
    <3>9. UNCHANGED <<queueOut, event, dataFree, sampleFree, txbuf, phase, left, pushed,
                      seen, read, sample, colPc, collected>>
      BY <3>2
    <3> QED BY ONLY TypeOK, <3>1, <3>3, <3>4, <3>5, <3>6, <3>7, <3>8, <3>9 DEF TypeOK
  <2>2. CASE ~(queueIn # <<>> /\ Ready) BY SMTT(20), <1>4, <2>2 DEF CollectInput
  <2> QED BY <2>1, <2>2
<1>5. ASSUME NEW t \in Thread, BeginEncode(t) PROVE TypeOK'
  BY <1>5 DEF BeginEncode, Mixed
<1>6. ASSUME NEW t \in Thread, EndEncode(t) PROVE TypeOK'
  <2>0. phase' = InitState /\ InitState \in 0..Complete BY <1>6, PhaseFacts DEF EndEncode, InitState
  <2>1. input[t] \in 1..MaxBlocks BY <1>6 DEF EndEncode, NoBlock
  <2>2. txbuf' \in 1..Mixed BY <1>6, <2>1 DEF EndEncode, Mixed
  <2> QED BY <1>6, <2>0, <2>2 DEF EndEncode
<1>7. ASSUME NEW t \in Thread, Relock(t) PROVE TypeOK'
  BY <1>7 DEF Relock, NoBlock
<1>8. ASSUME NEW t \in Thread, CheckLoop(t) PROVE TypeOK'
  <2>1. raced' \in BOOLEAN BY <1>8, RacedType DEF CheckLoop
  <2> QED BY SMTT(20), <1>8, <2>1 DEF CheckLoop
<1>9. ASSUME NEW t \in Thread, ReadState(t) PROVE TypeOK'
  <2>1. /\ pc[t] = "state"
        /\ UNCHANGED <<lockVars, queueIn, queueOut, event, poolVars, txbuf, histVars, input, sample, colVars>>
    BY <1>9 DEF ReadState
  <2>2. CASE /\ phase = Complete /\ pc' = [pc EXCEPT ![t] = "buffer"]
             /\ seen' = [seen EXCEPT ![t] = phase] /\ read' = [read EXCEPT ![t] = 0]
             /\ UNCHANGED <<phase, left>>
    BY <2>1, <2>2, PhaseFacts
  <2>3. CASE /\ phase = InitState /\ phase' = 1 /\ left' = PhaseBits[1]
             /\ pc' = [pc EXCEPT ![t] = "load"]
             /\ seen' = [seen EXCEPT ![t] = 1] /\ UNCHANGED read
    <3>1. 1 \in 1..Phases /\ 1 \in 0..Complete /\ PhaseBits[1] \in Counts BY PhaseFacts
    <3> QED BY <2>1, <2>3, <3>1
  <2>4. CASE /\ phase \in 1..Phases /\ pc' = [pc EXCEPT ![t] = "load"]
             /\ seen' = [seen EXCEPT ![t] = phase] /\ UNCHANGED read
             /\ UNCHANGED <<phase, left>>
    BY <2>1, <2>4
  <2> QED BY <1>9, <2>2, <2>3, <2>4 DEF ReadState
<1>10. ASSUME NEW t \in Thread, LoadBits(t) \/ StoreBits(t) \/ NextPhase(t) PROVE TypeOK'
  <2>1. CASE LoadBits(t) BY <2>1 DEF LoadBits
  <2>2. CASE StoreBits(t) BY <2>2, PhaseFacts DEF StoreBits
  <2>3. CASE NextPhase(t)
    <3>1. seen[t] \in 1..Phases BY <2>3 DEF NextPhase
    <3>2. phase' = seen[t] + 1 /\ phase' \in 0..Complete
      <4>1. phase' = seen[t] + 1 BY ONLY <2>3 DEF NextPhase
      <4>2. seen[t] + 1 \in 0..Complete BY ONLY <3>1, PhaseFacts DEF Complete
      <4> QED BY ONLY <4>1, <4>2
    <3>3. seen[t] # Phases => PhaseBits[seen[t] + 1] \in Counts
      <4>1. seen[t] # Phases => seen[t] + 1 \in 1..Phases BY ONLY <3>1, PhaseFacts
      <4> QED BY ONLY <4>1, PhaseFacts
    <3>4. left' \in Counts BY <2>3, <3>3 DEF NextPhase
    <3> QED BY <2>3, <3>2, <3>4 DEF NextPhase
  <2> QED BY <1>10, <2>1, <2>2, <2>3
<1>11. ASSUME NEW t \in Thread, GetSampleBuffer(t) PROVE TypeOK'
  <2>1. [block |-> txbuf, phase |-> seen[t], left |-> read[t]] \in Sample BY SMTT(20) DEF Sample, Mixed
  <2> QED BY <1>11, <2>1 DEF GetSampleBuffer
<1>12. ASSUME NEW t \in Thread, PublishOutput(t) PROVE TypeOK'
  <2>1. \/ queueOut' = Append(queueOut, sample[t]) /\ sampleFree' = sampleFree
        \/ /\ queueOut' = queueOut
           /\ sampleFree' = sampleFree + (IF sample[t] = NoSample THEN 0 ELSE 1)
    BY <1>12 DEF PublishOutput
  <2>2. sample[t] \in Sample /\ sampleFree \in Nat OBVIOUS
  <2>20. Append(queueOut, sample[t]) \in Seq(Sample) BY <1>0, <2>2, AppendFacts
  <2>21. queueOut' \in Seq(Sample) BY <1>0, <2>1, <2>20
  <2>22. sampleFree' \in Nat BY <2>1, <2>2
  <2>3. /\ pc[t] = "publish" /\ pc' = [pc EXCEPT ![t] = "loop"] /\ Lock(t)
        /\ sample' = [sample EXCEPT ![t] = NoSample]
        /\ UNCHANGED <<queueIn, event, dataFree, encVars, histVars, input, seen, read, colVars>>
    BY <1>12 DEF PublishOutput
  <2>4. LockHeld' /\ owner' \in Thread BY <2>3
  <2>5. /\ pc' \in [Thread -> InExecute \cup {"idle", "enter"}] /\ pc'[App] # "enter"
        /\ \A u \in Thread : input'[u] # NoBlock <=> pc'[u] \in {"set", "encode", "lock"}
    BY <2>3
  <2>6. /\ sample' \in [Thread -> Sample]
        /\ \A u \in Thread : sample'[u] # NoSample => pc'[u] = "publish"
    BY <2>3, BlockNumbers
  <2> QED BY <2>21, <2>22, <2>3, <2>4, <2>5, <2>6
<1>13. CASE PopOutput
  <2>1. /\ Head(queueOut) \in Sample /\ queueOut' = Tail(queueOut) /\ queueOut' \in Seq(Sample)
    BY <1>0, <1>13, TailFacts DEF PopOutput
  <2> QED BY <1>13, <2>1 DEF PopOutput
<1>14. CASE PopOutputEmpty BY <1>14 DEF PopOutputEmpty
<1>15. CASE CopySamples BY <1>15, BlockNumbers DEF CopySamples
<1>16. CASE CheckInputQueue BY <1>16 DEF CheckInputQueue
<1>17. CASE CheckReady BY <1>17 DEF CheckReady
<1>18. CASE CheckOutputQueue BY <1>18 DEF CheckOutputQueue
<1>19. CASE AllDataCollected BY <1>19 DEF AllDataCollected
<1>20. CASE UNCHANGED vars BY <1>20 DEF vars
<1> QED BY <1>1, <1>2, <1>3, <1>4, <1>5, <1>6, <1>7, <1>8, <1>9, <1>10, <1>11, <1>12,
           <1>13, <1>14, <1>15, <1>16, <1>17, <1>18, <1>19, <1>20
        DEF Next, Execute, Collector

(* Every variable keeps its type; PushInput holds the mutex from its first *)
(* step to its last; the input queue holds MAX_INPUT_QUEUE + 1 at most.    *)
THEOREM TypeCorrect == Spec => []TypeOK
BY TypeInit, TypeNext, PTL DEF Spec

-----------------------------------------------------------------------------
(* The output queue. *)

LEMMA GeneratingType == \A t \in Thread : Generating(t) \in {0, 1}
BY DEF Generating

LEMMA RefusedNext == TypeOK /\ NothingRefused /\ [Next]_vars => NothingRefused'
<1> SUFFICES ASSUME TypeOK, NothingRefused, [Next]_vars PROVE NothingRefused' OBVIOUS
<1> USE ThreadAssumption, SizeAssumption
        DEF Thread, lockVars, poolVars, encVars, exeVars, histVars, colVars
<1>0. /\ queueOut \in Seq(Sample) /\ Len(queueOut) \in Nat
      /\ DOMAIN pc = Thread /\ sample \in [Thread -> Sample]
  BY DEF TypeOK
<1>1. ASSUME UNCHANGED <<queueOut>>, Generating(App)' = Generating(App),
             Generating(Worker)' = Generating(Worker)
      PROVE  NothingRefused'
  BY <1>1 DEF NothingRefused
<1>2. CASE PushData BY <1>0, <1>1, <1>2 DEF PushData, PushInput, Generating
<1>3. CASE Wake BY <1>0, <1>1, <1>3 DEF Wake, Generating
<1>4. CASE Enter BY <1>0, <1>1, <1>4 DEF Enter, Generating
<1>5. ASSUME NEW t \in Thread,
             \/ CollectInput(t) \/ BeginEncode(t) \/ EndEncode(t) \/ Relock(t)
             \/ ReadState(t) \/ LoadBits(t) \/ StoreBits(t) \/ NextPhase(t)
             \/ GetSampleBuffer(t)
      PROVE  NothingRefused'
  BY <1>0, <1>1, <1>5 DEF CollectInput, BeginEncode, EndEncode, Relock,
                          ReadState, LoadBits, StoreBits, NextPhase,
                          GetSampleBuffer, Generating
<1>6. ASSUME NEW t \in Thread, CheckLoop(t) PROVE NothingRefused'
  <2>1. pc[t] = "loop" /\ queueOut' = queueOut BY <1>6 DEF CheckLoop
  <2>2. CASE pc' = [pc EXCEPT ![t] = "idle"]
    BY <1>0, <1>1, <2>1, <2>2 DEF Generating
  <2>3. CASE Len(queueOut) < MaxOutputQueue /\ pc' = [pc EXCEPT ![t] = "state"]
    <3>1. \E u \in Thread : /\ u # t /\ Thread = {t, u}
                            /\ Generating(u)' = Generating(u) /\ Generating(u) \in {0, 1}
                            /\ Generating(t)' = 1 /\ Generating(t) = 0
      BY <1>0, <2>1, <2>3 DEF Generating
    <3>2. Generating(App)' + Generating(Worker)' <= 2
      BY <3>1
    <3> QED BY <1>0, <2>1, <2>3, <3>1, <3>2 DEF NothingRefused
  <2> QED BY <1>6, <2>2, <2>3 DEF CheckLoop
<1>7. ASSUME NEW t \in Thread, PublishOutput(t) PROVE NothingRefused'
  <2>1. pc[t] = "publish" /\ pc' = [pc EXCEPT ![t] = "loop"] BY <1>7 DEF PublishOutput
  <2>2. Append(queueOut, sample[t]) \in Seq(Sample) /\ Len(Append(queueOut, sample[t])) = Len(queueOut) + 1
    BY <1>0, AppendFacts
  <2>3. queueOut' = Append(queueOut, sample[t]) \/ queueOut' = queueOut
    BY <1>7 DEF PublishOutput
  <2>4. Len(queueOut') <= Len(queueOut) + 1 /\ Len(queueOut') \in Nat BY <1>0, <2>2, <2>3
  <2>5. \E u \in Thread : /\ u # t /\ Thread = {t, u}
                          /\ Generating(u)' = Generating(u) /\ Generating(u) \in {0, 1}
                          /\ Generating(t)' = 0 /\ Generating(t) = 1
    BY <1>0, <2>1 DEF Generating
  <2>6. Generating(App)' + Generating(Worker)' = Generating(App) + Generating(Worker) - 1
    BY <2>5
  <2> QED BY <1>0, <2>4, <2>5, <2>6, GeneratingType DEF NothingRefused
<1>8. CASE PopOutput
  <2>1. Len(queueOut') = Len(queueOut) - 1 /\ pc' = pc
    BY <1>0, <1>8, TailFacts DEF PopOutput
  <2>2. Generating(App)' = Generating(App) /\ Generating(Worker)' = Generating(Worker)
    BY <2>1 DEF Generating
  <2> QED BY <1>0, <2>1, <2>2, GeneratingType DEF NothingRefused
<1>9. CASE \/ PopOutputEmpty \/ CopySamples \/ CheckInputQueue \/ CheckReady
           \/ CheckOutputQueue \/ AllDataCollected \/ UNCHANGED vars
  BY <1>1, <1>9 DEF PopOutputEmpty, CopySamples, CheckInputQueue, CheckReady,
                    CheckOutputQueue, AllDataCollected, vars, Generating
<1> QED BY <1>2, <1>3, <1>4, <1>5, <1>6, <1>7, <1>8, <1>9 DEF Next, Execute, Collector

(* PublishOutput never refuses a buffer, although the mutex is given up    *)
(* between CanPublishOutput and PublishOutput.                             *)
THEOREM NoBitRefused == Spec => []NothingRefused
<1>1. Init => NothingRefused
  BY SizeAssumption, ThreadAssumption DEF Init, NothingRefused, Generating, Thread
<1> QED BY <1>1, RefusedNext, TypeCorrect, PTL DEF Spec

-----------------------------------------------------------------------------
(* The sample pool. *)

Has(s) == IF s = NoSample THEN 0 ELSE 1

(* The inductive strengthening of NoNullQueued: where every sample buffer  *)
(* is, and that the threads hold none but when they say so.                *)
SamplesAccounted ==
  sampleFree + Len(queueOut) + Has(sample[App]) + Has(sample[Worker]) + Has(collected)
    = SamplePool

LEMMA HasType == \A s \in Sample : Has(s) \in {0, 1} /\ (Has(s) = 0 <=> s = NoSample)
BY DEF Has

SampleInv == NothingRefused /\ NoNullQueued /\ SamplesAccounted

LEMMA SampleInit == Init => SampleInv
<1> SUFFICES ASSUME Init PROVE SampleInv OBVIOUS
<1> USE SizeAssumption, ThreadAssumption DEF Init, Thread
<1>1. NothingRefused /\ NoNullQueued BY DEF NothingRefused, NoNullQueued, Generating
<1>2. SamplesAccounted BY DEF SamplesAccounted, Has
<1> QED BY <1>1, <1>2 DEF SampleInv

LEMMA SampleNext ==
  ASSUME SamplePool >= MaxOutputQueue + 2, TypeOK, SampleInv, [Next]_vars
  PROVE  SampleInv'
<1> USE ThreadAssumption, SizeAssumption
        DEF Thread, lockVars, poolVars, encVars, exeVars, histVars, colVars
<1>0. /\ queueOut \in Seq(Sample) /\ Len(queueOut) \in Nat /\ sampleFree \in Nat
      /\ DOMAIN pc = Thread /\ sample \in [Thread -> Sample] /\ collected \in Sample
      /\ \A t \in Thread : sample[t] # NoSample => pc[t] = "publish"
  BY DEF TypeOK
<1>00. NothingRefused' BY RefusedNext DEF SampleInv
<1>1. ASSUME UNCHANGED <<queueOut, sampleFree, sample, collected>>,
             \A t \in Thread : pc'[t] = "publish" => pc[t] = "publish"
      PROVE  SampleInv'
  <2>1. NoNullQueued' BY <1>1 DEF SampleInv, NoNullQueued
  <2>2. SamplesAccounted' BY <1>1 DEF SampleInv, SamplesAccounted, Has
  <2> QED BY <1>00, <2>1, <2>2 DEF SampleInv
<1>2. CASE PushData BY <1>0, <1>1, <1>2 DEF PushData, PushInput
<1>3. CASE Wake BY <1>0, <1>1, <1>3 DEF Wake
<1>4. CASE Enter BY <1>0, <1>1, <1>4 DEF Enter
<1>5. ASSUME NEW t \in Thread,
             \/ CollectInput(t) \/ BeginEncode(t) \/ EndEncode(t) \/ Relock(t)
             \/ CheckLoop(t) \/ ReadState(t) \/ LoadBits(t) \/ StoreBits(t) \/ NextPhase(t)
      PROVE  SampleInv'
  BY <1>0, <1>1, <1>5 DEF CollectInput, BeginEncode, EndEncode, Relock, CheckLoop,
                          ReadState, LoadBits, StoreBits, NextPhase
<1>6. ASSUME NEW t \in Thread, GetSampleBuffer(t) PROVE SampleInv'
  <2>1. PICK u \in Thread : u # t /\ Thread = {t, u} OBVIOUS
  <2>2. pc[t] = "buffer" /\ sample[t] = NoSample BY <1>0, <1>6 DEF GetSampleBuffer
  <2>3. Len(queueOut) + Generating(t) + Generating(u) <= MaxOutputQueue + 1
    BY <1>0, <2>1, GeneratingType DEF SampleInv, NothingRefused
  <2>4. Generating(t) = 1 /\ Has(sample[t]) = 0 /\ Has(sample[u]) <= Generating(u)
    BY <1>0, <2>1, <2>2 DEF Generating, Has
  <2>5. sampleFree + Len(queueOut) + Has(sample[t]) + Has(sample[u]) + Has(collected)
          = SamplePool
    BY <1>0, <2>1, HasType DEF SampleInv, SamplesAccounted
  <2>6. Has(collected) \in {0, 1} /\ Has(sample[u]) \in {0, 1} /\ Generating(u) \in {0, 1}
    BY <1>0, HasType, GeneratingType
  <2>7. sampleFree > 0
    <3>1. Len(queueOut) + Has(sample[u]) <= MaxOutputQueue
      BY ONLY <1>0, <2>3, <2>4, <2>6, SizeAssumption
    <3> QED BY ONLY <1>0, <2>4, <2>5, <2>6, <3>1, SizeAssumption, SamplePool >= MaxOutputQueue + 2
  <2>8. /\ sampleFree' = sampleFree - 1 /\ queueOut' = queueOut /\ collected' = collected
        /\ sample' = [sample EXCEPT ![t] = [block |-> txbuf, phase |-> seen[t], left |-> read[t]]]
        /\ pc' = [pc EXCEPT ![t] = "publish"]
    BY <1>6, <2>7 DEF GetSampleBuffer
  <2>9. sample'[t] # NoSample /\ sample'[u] = sample[u]
    BY <1>0, <2>1, <2>8, BlockNumbers DEF NoSample, TypeOK
  <2>10. NoNullQueued'
    BY <1>0, <2>1, <2>8, <2>9 DEF SampleInv, NoNullQueued
  <2>11. Has(sample'[t]) = 1 /\ Has(sample'[u]) = Has(sample[u]) /\ Has(collected') = Has(collected)
    BY <2>8, <2>9 DEF Has
  <2>12. SamplesAccounted'
    BY <1>0, <2>1, <2>4, <2>5, <2>6, <2>8, <2>11 DEF SamplesAccounted, Has
  <2> QED BY <1>00, <2>10, <2>12 DEF SampleInv
<1>7. ASSUME NEW t \in Thread, PublishOutput(t) PROVE SampleInv'
  <2>1. PICK u \in Thread : u # t /\ Thread = {t, u} OBVIOUS
  <2>2. pc[t] = "publish" /\ sample[t] # NoSample
    BY <1>7 DEF PublishOutput, SampleInv, NoNullQueued
  <2>3. Len(queueOut) + Generating(t) + Generating(u) <= MaxOutputQueue + 1
    BY <1>0, <2>1, GeneratingType DEF SampleInv, NothingRefused
  <2>4. Len(queueOut) <= MaxOutputQueue
    BY <1>0, <2>2, <2>3, GeneratingType DEF Generating
  <2>5. /\ queueOut' = Append(queueOut, sample[t]) /\ sampleFree' = sampleFree
        /\ sample' = [sample EXCEPT ![t] = NoSample] /\ collected' = collected
        /\ pc' = [pc EXCEPT ![t] = "loop"]
    BY <1>0, <1>7, <2>4 DEF PublishOutput
  <2>6. /\ Len(queueOut') = Len(queueOut) + 1
        /\ \A i \in 1..Len(queueOut) : queueOut'[i] = queueOut[i]
        /\ queueOut'[Len(queueOut) + 1] = sample[t]
    BY <1>0, <2>5, AppendFacts
  <2>7. \A i \in 1..Len(queueOut') : i \in 1..Len(queueOut) \/ i = Len(queueOut) + 1
    BY <1>0, <2>6
  <2>8. sample'[u] = sample[u] /\ sample'[t] = NoSample /\ pc'[t] # "publish" /\ pc'[u] = pc[u]
    BY <1>0, <2>1, <2>5
  <2>9. NoNullQueued'
    BY <2>1, <2>2, <2>6, <2>7, <2>8 DEF SampleInv, NoNullQueued
  <2>10. Has(sample[t]) = 1 /\ Has(sample'[t]) = 0 /\ Has(sample'[u]) = Has(sample[u])
    BY <2>2, <2>8 DEF Has
  <2>11. sampleFree + Len(queueOut) + Has(sample[t]) + Has(sample[u]) + Has(collected)
          = SamplePool
    BY <1>0, <2>1, HasType DEF SampleInv, SamplesAccounted
  <2>12. SamplesAccounted'
    <3>1. Has(collected') = Has(collected) /\ Has(collected) \in {0, 1} /\ Has(sample[u]) \in {0, 1}
      BY <1>0, <2>5, HasType DEF Has
    <3>2. sampleFree' + Len(queueOut') + Has(sample'[t]) + Has(sample'[u]) + Has(collected')
            = SamplePool
      BY ONLY <1>0, <2>5, <2>6, <2>10, <2>11, <3>1, SizeAssumption
    <3>3. Has(sample'[t]) \in {0, 1} /\ Has(sample'[u]) \in {0, 1}
      BY <2>10, <3>1
    <3>4. (t = App /\ u = Worker) \/ (t = Worker /\ u = App) BY <2>1
    <3>5. sampleFree' + Len(queueOut') + Has(sample'[App]) + Has(sample'[Worker]) + Has(collected')
            = SamplePool
      BY ONLY <1>0, <2>5, <2>6, <3>1, <3>2, <3>3, <3>4, SizeAssumption
    <3> QED BY <3>5 DEF SamplesAccounted, Has
  <2> QED BY <1>00, <2>9, <2>12 DEF SampleInv
<1>8. CASE PopOutput
  <2>1. /\ queueOut # <<>> /\ queueOut' = Tail(queueOut) /\ collected' = Head(queueOut)
        /\ colPc = "idle" /\ UNCHANGED <<sampleFree, sample, pc>>
    BY <1>8 DEF PopOutput
  <2>2. /\ Len(queueOut') = Len(queueOut) - 1 /\ collected' = queueOut[1]
        /\ \A i \in 1..Len(queueOut') : queueOut'[i] = queueOut[i + 1]
        /\ Len(queueOut) >= 1
    BY <1>0, <2>1, TailFacts
  <2>3. \A i \in 1..Len(queueOut') : i + 1 \in 1..Len(queueOut) BY <1>0, <2>2
  <2>4. collected = NoSample /\ collected' # NoSample
    BY <1>0, <2>1, <2>2 DEF TypeOK, SampleInv, NoNullQueued
  <2>5. NoNullQueued' BY <2>1, <2>2, <2>3 DEF SampleInv, NoNullQueued
  <2>6. Has(collected) = 0 /\ Has(collected)' = 1 BY <2>4 DEF Has
  <2>7. Has(sample[App]) \in {0, 1} /\ Has(sample[Worker]) \in {0, 1} BY <1>0, HasType
  <2>8. Has(sample[App])' = Has(sample[App]) /\ Has(sample[Worker])' = Has(sample[Worker])
    BY <2>1 DEF Has
  <2>9. SamplesAccounted'
    BY <1>0, <2>1, <2>2, <2>6, <2>7, <2>8 DEF SampleInv, SamplesAccounted
  <2> QED BY <1>00, <2>5, <2>9 DEF SampleInv
<1>9. CASE CopySamples
  <2>1. /\ sampleFree' = sampleFree + Has(collected) /\ collected' = NoSample
        /\ UNCHANGED <<queueOut, sample, pc>>
    BY <1>9 DEF CopySamples, Has
  <2>2. NoNullQueued' BY <2>1 DEF SampleInv, NoNullQueued
  <2>3. Has(collected)' = 0 /\ Has(collected) \in {0, 1} BY <1>0, <2>1, HasType DEF Has
  <2>4. Has(sample[App]) \in {0, 1} /\ Has(sample[Worker]) \in {0, 1} BY <1>0, HasType
  <2>5. Has(sample[App])' = Has(sample[App]) /\ Has(sample[Worker])' = Has(sample[Worker])
    BY <2>1 DEF Has
  <2>6. SamplesAccounted'
    BY <1>0, <2>1, <2>3, <2>4, <2>5 DEF SampleInv, SamplesAccounted
  <2> QED BY <1>00, <2>2, <2>6 DEF SampleInv
<1>10. CASE \/ PopOutputEmpty \/ CheckInputQueue \/ CheckReady
            \/ CheckOutputQueue \/ AllDataCollected \/ UNCHANGED vars
  BY <1>0, <1>1, <1>10 DEF PopOutputEmpty, CheckInputQueue, CheckReady,
                           CheckOutputQueue, AllDataCollected, vars
<1> QED BY <1>2, <1>3, <1>4, <1>5, <1>6, <1>7, <1>8, <1>9, <1>10 DEF Next, Execute, Collector

(* With MAX_OUTPUT_QUEUE + 2 sample buffers (the code has 256, and a       *)
(* MAX_OUTPUT_QUEUE of 64) the pool never runs dry: no bit is consumed     *)
(* without its samples being sent.                                         *)
THEOREM SamplePoolSuffices ==
  ASSUME SamplePool >= MaxOutputQueue + 2
  PROVE  Spec => []NoNullQueued
<1>1. Init => SampleInv BY SampleInit
<1>2. TypeOK /\ SampleInv /\ [Next]_vars => SampleInv' BY SampleNext
<1>3. SampleInv => NoNullQueued BY DEF SampleInv
<1> QED BY <1>1, <1>2, <1>3, TypeCorrect, PTL DEF Spec

-----------------------------------------------------------------------------
(* The input queue. *)

LEMMA DataNext == TypeOK /\ DataBuffersAccounted /\ [Next]_vars => DataBuffersAccounted'
<1> SUFFICES ASSUME TypeOK, DataBuffersAccounted, [Next]_vars PROVE DataBuffersAccounted'
  OBVIOUS
<1> USE ThreadAssumption DEF Thread, lockVars, poolVars, encVars, exeVars, histVars, colVars
<1>0. /\ queueIn \in Seq(1..MaxBlocks) /\ Len(queueIn) \in Nat /\ dataFree \in Nat
      /\ DOMAIN input = Thread /\ DataPool \in Nat /\ pushed \in 0..MaxBlocks /\ MaxBlocks \in Nat
      /\ \A t \in Thread : input[t] # NoBlock <=> pc[t] \in {"set", "encode", "lock"}
  BY SizeAssumption DEF TypeOK
<1>1. ASSUME UNCHANGED <<dataFree, queueIn, input>> PROVE DataBuffersAccounted'
  BY <1>1 DEF DataBuffersAccounted, Given
<1>2. CASE PushData
  <2>1. /\ dataFree' = dataFree - 1 /\ queueIn' = Append(queueIn, pushed + 1)
        /\ input' = input /\ pushed + 1 \in 1..MaxBlocks
    BY <1>0, <1>2 DEF PushData, PushInput
  <2>2. Len(queueIn') = Len(queueIn) + 1 BY <1>0, <2>1, AppendFacts
  <2>3. Given(App)' = Given(App) /\ Given(Worker)' = Given(Worker) BY <2>1 DEF Given
  <2>4. Given(App) \in {0, 1} /\ Given(Worker) \in {0, 1} BY DEF Given
  <2> QED BY <1>0, <2>1, <2>2, <2>3, <2>4 DEF DataBuffersAccounted
<1>3. ASSUME NEW t \in Thread, CollectInput(t) PROVE DataBuffersAccounted'
  <2>1. CASE /\ queueIn # <<>> /\ queueIn' = Tail(queueIn) /\ pc[t] = "begin"
             /\ input' = [input EXCEPT ![t] = Head(queueIn)] /\ dataFree' = dataFree
    <3>0. Head(queueIn) \in 1..MaxBlocks /\ Len(Tail(queueIn)) = Len(queueIn) - 1
      BY <1>0, <2>1, TailFacts
    <3>1. Head(queueIn) # NoBlock /\ Len(queueIn') = Len(queueIn) - 1
      BY <2>1, <3>0 DEF NoBlock
    <3>2. PICK u \in Thread : u # t /\ Thread = {t, u} OBVIOUS
    <3>3. /\ Given(t) = 0 /\ Given(t)' = 1 /\ Given(u)' = Given(u) /\ Given(u) \in {0, 1}
      BY <1>0, <2>1, <3>1, <3>2 DEF Given
    <3> QED BY <1>0, <2>1, <3>1, <3>2, <3>3 DEF DataBuffersAccounted
  <2> QED BY <1>1, <1>3, <2>1 DEF CollectInput
<1>4. ASSUME NEW t \in Thread, Relock(t) PROVE DataBuffersAccounted'
  <2>1. PICK u \in Thread : u # t /\ Thread = {t, u} OBVIOUS
  <2>2. /\ dataFree' = dataFree + 1 /\ queueIn' = queueIn /\ pc[t] = "lock"
        /\ input' = [input EXCEPT ![t] = NoBlock]
    BY <1>4 DEF Relock
  <2>3. /\ Given(t) = 1 /\ Given(t)' = 0 /\ Given(u)' = Given(u) /\ Given(u) \in {0, 1}
    BY <1>0, <2>1, <2>2 DEF Given
  <2> QED BY <1>0, <2>1, <2>2, <2>3 DEF DataBuffersAccounted
<1>5. ASSUME NEW t \in Thread,
             \/ BeginEncode(t) \/ EndEncode(t) \/ CheckLoop(t) \/ ReadState(t) \/ LoadBits(t)
             \/ StoreBits(t) \/ NextPhase(t) \/ GetSampleBuffer(t) \/ PublishOutput(t)
      PROVE  DataBuffersAccounted'
  BY <1>1, <1>5 DEF BeginEncode, EndEncode, CheckLoop, ReadState, LoadBits, StoreBits,
                    NextPhase, GetSampleBuffer, PublishOutput
<1>6. CASE Wake \/ Enter \/ Collector \/ UNCHANGED vars
  BY <1>1, <1>6 DEF Wake, Enter, Collector, PopOutput, PopOutputEmpty, CopySamples,
                    CheckInputQueue, CheckReady, CheckOutputQueue, AllDataCollected, vars
<1> QED BY <1>2, <1>3, <1>4, <1>5, <1>6 DEF Next, Execute

(* The buffer of a block is in the pool, in the queue or with the one      *)
(* thread that encodes it: PushData never loses one.                       *)
THEOREM DataAccounted == Spec => []DataBuffersAccounted
<1>1. Init => DataBuffersAccounted
  BY SizeAssumption DEF Init, DataBuffersAccounted, Given, Thread
<1> QED BY <1>1, DataNext, TypeCorrect, PTL DEF Spec

LEMMA OrderNext == TypeOK /\ BlocksInOrder /\ [Next]_vars => BlocksInOrder'
<1> SUFFICES ASSUME TypeOK, BlocksInOrder, [Next]_vars PROVE BlocksInOrder' OBVIOUS
<1> USE ThreadAssumption DEF Thread, lockVars, poolVars, encVars, exeVars, histVars, colVars
<1>0. /\ queueIn \in Seq(1..MaxBlocks) /\ Len(queueIn) \in Nat
      /\ pushed \in 0..MaxBlocks /\ MaxBlocks \in Nat /\ input \in [Thread -> Nat]
  BY SizeAssumption DEF TypeOK
<1>1. ASSUME UNCHANGED <<pushed, queueIn, input>> PROVE BlocksInOrder'
  BY <1>1 DEF BlocksInOrder
<1>2. CASE PushData
  <2>1. /\ queueIn' = Append(queueIn, pushed + 1) /\ pushed' = pushed + 1
        /\ input' = input /\ pushed + 1 \in 1..MaxBlocks
    BY <1>0, <1>2 DEF PushData, PushInput
  <2>2. /\ Len(queueIn') = Len(queueIn) + 1
        /\ \A i \in 1..Len(queueIn) : queueIn'[i] = queueIn[i]
        /\ queueIn'[Len(queueIn) + 1] = pushed + 1
    BY <1>0, <2>1, AppendFacts
  <2>3. pushed' - Len(queueIn') = pushed - Len(queueIn) BY <1>0, <2>1, <2>2
  <2>4. ASSUME NEW i \in 1..Len(queueIn') PROVE queueIn'[i] = pushed' - Len(queueIn') + i
    <3>1. CASE i \in 1..Len(queueIn) BY <2>2, <2>3, <3>1 DEF BlocksInOrder
    <3>2. CASE i = Len(queueIn) + 1 BY <1>0, <2>1, <2>2, <3>2
    <3> QED BY <1>0, <2>2, <3>1, <3>2
  <2> QED BY <2>1, <2>3, <2>4 DEF BlocksInOrder
<1>3. ASSUME NEW t \in Thread, CollectInput(t) PROVE BlocksInOrder'
  <2>1. CASE /\ queueIn # <<>> /\ queueIn' = Tail(queueIn) /\ pushed' = pushed
             /\ input' = [input EXCEPT ![t] = Head(queueIn)]
    <3>1. /\ Len(queueIn') = Len(queueIn) - 1 /\ Len(queueIn) >= 1
          /\ Head(queueIn) = queueIn[1]
          /\ \A i \in 1..Len(queueIn') : queueIn'[i] = queueIn[i + 1]
      BY <1>0, <2>1, TailFacts
    <3>2. Head(queueIn) = pushed - Len(queueIn) + 1 BY <1>0, <3>1 DEF BlocksInOrder
    <3>3. ASSUME NEW i \in 1..Len(queueIn') PROVE queueIn'[i] = pushed' - Len(queueIn') + i
      <4>1. i + 1 \in 1..Len(queueIn) /\ i \in Nat BY <1>0, <3>1
      <4>2. queueIn[i + 1] = pushed - Len(queueIn) + (i + 1) BY <4>1 DEF BlocksInOrder
      <4> QED BY <1>0, <2>1, <3>1, <4>1, <4>2
    <3>4. PICK u \in Thread : u # t /\ Thread = {t, u} OBVIOUS
    <3>5. input'[t] = Head(queueIn) /\ input'[u] = input[u] BY <1>0, <2>1, <3>4
    <3>6. input[u] <= pushed - Len(queueIn) BY DEF BlocksInOrder
    <3>7. /\ input'[t] <= pushed' - Len(queueIn') /\ input'[u] <= pushed' - Len(queueIn')
          /\ input'[t] # input'[u]
      BY <1>0, <2>1, <3>1, <3>2, <3>5, <3>6
    <3> QED BY <3>3, <3>4, <3>7 DEF BlocksInOrder
  <2> QED BY <1>1, <1>3, <2>1 DEF CollectInput
<1>4. ASSUME NEW t \in Thread, Relock(t) PROVE BlocksInOrder'
  <2>1. UNCHANGED <<pushed, queueIn>> /\ input' = [input EXCEPT ![t] = NoBlock]
    BY <1>4 DEF Relock
  <2>2. input[t] <= pushed - Len(queueIn) /\ input[t] >= 0 BY <1>0 DEF BlocksInOrder
  <2>3. \A u \in Thread : input'[u] = IF u = t THEN NoBlock ELSE input[u] BY <1>0, <2>1
  <2>4. \A u \in Thread : input'[u] <= pushed - Len(queueIn)
    BY <1>0, <2>2, <2>3 DEF BlocksInOrder, NoBlock
  <2> QED BY <1>0, <2>1, <2>3, <2>4 DEF BlocksInOrder, NoBlock
<1>5. ASSUME NEW t \in Thread,
             \/ BeginEncode(t) \/ EndEncode(t) \/ CheckLoop(t) \/ ReadState(t) \/ LoadBits(t)
             \/ StoreBits(t) \/ NextPhase(t) \/ GetSampleBuffer(t) \/ PublishOutput(t)
      PROVE  BlocksInOrder'
  BY <1>1, <1>5 DEF BeginEncode, EndEncode, CheckLoop, ReadState, LoadBits, StoreBits,
                    NextPhase, GetSampleBuffer, PublishOutput
<1>6. CASE Wake \/ Enter \/ Collector \/ UNCHANGED vars
  BY <1>1, <1>6 DEF Wake, Enter, Collector, PopOutput, PopOutputEmpty, CopySamples,
                    CheckInputQueue, CheckReady, CheckOutputQueue, AllDataCollected, vars
<1> QED BY <1>2, <1>3, <1>4, <1>5, <1>6 DEF Next, Execute

(* Blocks leave the input queue in the order they were pushed, each to one *)
(* thread only, although two threads take them out.                        *)
THEOREM OrderKept == Spec => []BlocksInOrder
<1>1. Init => BlocksInOrder
  BY SizeAssumption DEF Init, BlocksInOrder, Thread, NoBlock
<1> QED BY <1>1, OrderNext, TypeCorrect, PTL DEF Spec

-----------------------------------------------------------------------------
(* The signal. *)

(* Until the two threads have been behind Execute's unlock() at once, one  *)
(* at most is there, and for it the encoder's variables are its own.       *)
Alone == ~(Outside(App) /\ Outside(Worker))

(* How many blocks have been taken from the input queue; the last bit of   *)
(* block n; the bit the encoder's variables describe; the bit thread t has *)
(* read from them; and that a bit continues what is queued.                *)
Taken == pushed - Len(queueIn)
FinalBit(n) == [block |-> n, phase |-> Phases, left |-> 1]
Coming == [block |-> txbuf, phase |-> IF phase = InitState THEN 1 ELSE phase,
           left |-> IF phase = InitState THEN PhaseBits[1] ELSE left]
Bit(t) == [block |-> txbuf, phase |-> seen[t], left |-> read[t]]
Last == queueOut[Len(queueOut)]
Follows(b) == queueOut # <<>> => Successor(Last, b)
EndedWith(n) == queueOut # <<>> => Last = FinalBit(n)

(* The inductive strengthening of SignalUnbroken.  At rest, that is with   *)
(* nobody between two parts of a bit or of a block, the encoder has        *)
(* finished the last block taken, or is in it and comes to the bit after   *)
(* the last one queued ...                                                 *)
Busy == {"set", "encode", "load", "store", "next", "buffer", "publish"}

InBlock == /\ txbuf = Taken
           /\ phase \in 1..Phases => left \in 1..PhaseBits[phase]
           /\ Follows(Coming)

AtRest == (\A t \in Thread : pc[t] \notin Busy) =>
            IF phase = Complete THEN EndedWith(Taken) ELSE InBlock

(* ... and in between, step by step: the thread with a block has the next, *)
(* the thread with a bit has the next, and once it has counted it the      *)
(* encoder's variables describe the one after it.                          *)
Starting(t) == phase = Complete /\ input[t] = Taken /\ EndedWith(Taken - 1)

Advanced(t) == /\ seen[t] \in 1..Phases /\ read[t] \in 1..PhaseBits[seen[t]]
               /\ txbuf = Taken /\ Follows(Bit(t))
               /\ read[t] > 1 => phase = seen[t] /\ left = read[t] - 1
               /\ read[t] = 1 =>
                    IF seen[t] < Phases THEN phase = seen[t] + 1 /\ left = PhaseBits[phase]
                                        ELSE phase = Complete

Step(t) ==
  /\ pc[t] = "set" => Starting(t)
  /\ pc[t] = "encode" => Starting(t) /\ txbuf = Mixed
  /\ pc[t] = "state" => phase # Complete
  /\ pc[t] \in {"load", "store", "next"} => seen[t] = phase /\ phase \in 1..Phases
  /\ pc[t] = "load" => InBlock
  /\ pc[t] = "store" => InBlock /\ read[t] = left
  /\ pc[t] = "next" => txbuf = Taken /\ read[t] = 1 /\ Follows(Bit(t))
  /\ pc[t] = "buffer" => Advanced(t)
  /\ pc[t] = "publish" => Advanced(t) /\ sample[t] = Bit(t)

Unbroken == \A i \in 1..Len(queueOut) - 1 : Successor(queueOut[i], queueOut[i + 1])

SignalInv == ~raced => /\ Alone /\ Unbroken /\ AtRest
                       /\ \A t \in Thread : Step(t)

(* The bit after the last one queued, of what the encoder has advanced to. *)
LEMMA BitAfter ==
  ASSUME TypeOK, NEW t \in Thread, Advanced(t)
  PROVE  IF phase = Complete
           THEN Bit(t) = FinalBit(Taken)
           ELSE /\ phase \in 1..Phases /\ left \in 1..PhaseBits[phase]
                /\ Successor(Bit(t), Coming)
<1>0. /\ seen[t] \in 1..Phases /\ read[t] \in 1..PhaseBits[seen[t]] /\ txbuf = Taken
      /\ PhaseBits[seen[t]] \in Nat \ {0} /\ Phases \in Nat
      /\ Complete = Phases + 1 /\ InitState = 0
  BY PhaseFacts DEF Advanced, InitState
<1>1. CASE read[t] > 1
  <2>1. phase = seen[t] /\ left = read[t] - 1 /\ phase # InitState /\ phase # Complete
    BY <1>0, <1>1 DEF Advanced
  <2>2. left \in 1..PhaseBits[phase]
    BY ONLY <1>0, <1>1, <2>1
  <2>3. Successor(Bit(t), Coming)
    BY <1>1, <2>1 DEF Successor, Bit, Coming
  <2> QED BY <1>0, <2>1, <2>2, <2>3
<1>2. CASE read[t] = 1 /\ seen[t] < Phases
  <2>1. phase = seen[t] + 1 /\ left = PhaseBits[phase]
    BY <1>2 DEF Advanced
  <2>2. phase \in 1..Phases /\ phase # InitState /\ phase # Complete
    BY ONLY <1>0, <1>2, <2>1
  <2>3. PhaseBits[phase] \in Nat \ {0}
    BY <2>2, PhaseFacts
  <2>4. left \in 1..PhaseBits[phase]
    BY ONLY <2>1, <2>3
  <2>5. Successor(Bit(t), Coming)
    BY <1>0, <1>2, <2>1, <2>2 DEF Successor, Bit, Coming
  <2> QED BY <2>2, <2>4, <2>5
<1>3. CASE read[t] = 1 /\ ~(seen[t] < Phases)
  <2>1. phase = Complete
    BY <1>3 DEF Advanced
  <2>2. seen[t] = Phases
    BY ONLY <1>0, <1>3
  <2>3. Bit(t) = FinalBit(Taken)
    BY <1>0, <1>3, <2>2 DEF Bit, FinalBit
  <2> QED BY <2>1, <2>3
<1>4. read[t] > 1 \/ read[t] = 1
  BY ONLY <1>0
<1> QED BY <1>1, <1>2, <1>3, <1>4

LEMMA SignalNext ==
  ASSUME SamplePool >= MaxOutputQueue + 2, TypeOK, TypeOK', SampleInv, SampleInv',
         BlocksInOrder, SignalInv, [Next]_vars
  PROVE  SignalInv'
<1> USE ThreadAssumption, SizeAssumption
        DEF Thread, lockVars, poolVars, encVars, exeVars, histVars, colVars
<1>0. /\ queueOut \in Seq(Sample) /\ Len(queueOut) \in Nat
      /\ queueIn \in Seq(1..MaxBlocks) /\ Len(queueIn) \in Nat
      /\ pushed \in Nat /\ Taken \in Int
      /\ DOMAIN pc = Thread /\ DOMAIN input = Thread /\ DOMAIN seen = Thread
      /\ DOMAIN read = Thread /\ sample \in [Thread -> Sample]
      /\ \A t \in Thread : sample[t] # NoSample => pc[t] = "publish"
  <2>1. /\ queueOut \in Seq(Sample) /\ queueIn \in Seq(1..MaxBlocks) /\ pushed \in Nat
        /\ DOMAIN pc = Thread /\ DOMAIN input = Thread /\ DOMAIN seen = Thread
        /\ DOMAIN read = Thread /\ sample \in [Thread -> Sample]
        /\ \A t \in Thread : sample[t] # NoSample => pc[t] = "publish"
    BY DEF TypeOK
  <2>2. Len(queueOut) \in Nat /\ Len(queueIn) \in Nat
    BY <2>1
  <2> QED BY <2>1, <2>2 DEF Taken
<1> SUFFICES ASSUME ~raced' PROVE (Alone /\ Unbroken /\ AtRest /\ \A t \in Thread : Step(t))'
  BY DEF SignalInv
<1>1. ~raced
  BY DEF Next, PushData, Wake, Enter, Collector, PopOutput, PopOutputEmpty, CopySamples,
         CheckInputQueue, CheckReady, CheckOutputQueue, AllDataCollected, Execute,
         CollectInput, BeginEncode, EndEncode, Relock, CheckLoop, ReadState, LoadBits,
         StoreBits, NextPhase, GetSampleBuffer, PublishOutput, NoteRace, vars
<1>2. Alone /\ Unbroken /\ AtRest /\ \A t \in Thread : Step(t)
  BY <1>1 DEF SignalInv
<1> DEFINE Rest == IF phase = Complete THEN EndedWith(Taken) ELSE InBlock
(* One thread is outside, if any; what the other does is of no account.    *)
<1>3. ASSUME NEW t \in Thread, NEW u \in Thread, u # t, ~Outside(u), pc'[u] = pc[u],
             Unbroken', Step(t)', pc'[t] \notin Busy => Rest'
      PROVE  (Alone /\ Unbroken /\ AtRest /\ \A v \in Thread : Step(v))'
  <2>1. pc'[u] \notin Busy \cup {"state"} /\ Thread = {t, u}
    BY <1>3 DEF Outside, Busy
  <2>2. Step(u)'
    BY <2>1 DEF Step, Busy
  <2>3. Alone'
    BY <1>3, <2>1 DEF Alone, Outside
  <2>4. AtRest'
    BY <1>3, <2>1 DEF AtRest
  <2> QED BY <1>3, <2>1, <2>2, <2>3, <2>4
<1>4. ASSUME NEW t \in Thread, Outside(t)
      PROVE  \E u \in Thread : u # t /\ Thread = {t, u} /\ ~Outside(u)
  BY <1>2, <1>4 DEF Alone
<1>5. ASSUME NEW t \in Thread, \A u \in Thread \ {t} : ~Outside(u), pc[t] \notin Busy
      PROVE  Rest
  BY <1>2, <1>5 DEF AtRest, Outside, Busy
(* Steps that leave the signal alone, and go neither in nor out.           *)
<1>6. ASSUME UNCHANGED <<queueOut, txbuf, phase, left, input, seen, read, sample>>,
             Taken' = Taken,
             \A t \in Thread : pc'[t] = pc[t] \/ {pc[t], pc'[t]} \cap (Busy \cup {"state", "lock"}) = {},
             \A t \in Thread : Outside(t)' => Outside(t)
      PROVE  (Alone /\ Unbroken /\ AtRest /\ \A t \in Thread : Step(t))'
  <2>1. Alone' /\ Unbroken'
    BY <1>2, <1>6 DEF Alone, Unbroken
  <2>2. \A t \in Thread : pc'[t] \in Busy <=> pc[t] \in Busy
    BY <1>6
  <2>3. AtRest'
    BY <1>2, <1>6, <2>2 DEF AtRest, InBlock, EndedWith, Follows, Coming, Last, FinalBit
  <2>4. ASSUME NEW t \in Thread PROVE Step(t)'
    <3>1. CASE pc'[t] = pc[t]
      BY <1>2, <1>6, <3>1 DEF Step, Starting, Advanced, InBlock, EndedWith, Follows, Coming,
                              Bit, Last, FinalBit
    <3>2. CASE pc'[t] \notin Busy \cup {"state"}
      BY <3>2 DEF Step, Busy
    <3> QED BY <1>6, <3>1, <3>2
  <2> QED BY <2>1, <2>3, <2>4
<1>7. CASE PushData
  <2>1. /\ queueIn' = Append(queueIn, pushed + 1) /\ pushed' = pushed + 1
        /\ pushed + 1 \in 1..MaxBlocks /\ pc[App] = "idle" /\ pc' = [pc EXCEPT ![App] = "begin"]
        /\ UNCHANGED <<queueOut, txbuf, phase, left, input, seen, read, sample>>
    BY <1>0, <1>7 DEF PushData, PushInput, TypeOK
  <2>2. Taken' = Taken
    BY <1>0, <2>1, AppendFacts DEF Taken
  <2> QED BY <1>0, <1>6, <2>1, <2>2 DEF Outside, Busy
<1>8. CASE Wake \/ Enter
  BY <1>0, <1>6, <1>8 DEF Wake, Enter, Outside, Busy, Taken
<1>9. CASE \/ PopOutputEmpty \/ CopySamples \/ CheckInputQueue \/ CheckReady
           \/ CheckOutputQueue \/ AllDataCollected \/ UNCHANGED vars
  BY <1>0, <1>6, <1>9 DEF PopOutputEmpty, CopySamples, CheckInputQueue, CheckReady,
       CheckOutputQueue, AllDataCollected, Outside, Taken, vars
<1>10. CASE PopOutput
  <2>1. /\ queueOut # <<>> /\ queueOut' = Tail(queueOut)
        /\ UNCHANGED <<txbuf, phase, left, input, seen, read, sample, pc, pushed, queueIn>>
    BY <1>10 DEF PopOutput
  <2>2. /\ Len(queueOut') = Len(queueOut) - 1 /\ Len(queueOut) >= 1
        /\ \A i \in 1..Len(queueOut') : queueOut'[i] = queueOut[i + 1]
    BY <1>0, <2>1, TailFacts
  <2>3. Unbroken'
    <3>1. ASSUME NEW i \in 1..Len(queueOut') - 1 PROVE Successor(queueOut'[i], queueOut'[i + 1])
      <4>1. i + 1 \in 1..Len(queueOut) - 1 /\ i \in 1..Len(queueOut') /\ i + 1 \in 1..Len(queueOut')
        BY <1>0, <2>2
      <4>2. queueOut'[i] = queueOut[i + 1] /\ queueOut'[i + 1] = queueOut[i + 1 + 1]
        BY <2>2, <4>1
      <4> QED BY <1>2, <4>1, <4>2 DEF Unbroken
    <3> QED BY <3>1 DEF Unbroken, Successor
  <2>4. queueOut' # <<>> => Last' = Last
    <3>1. queueOut' # <<>> => Len(queueOut') \in 1..Len(queueOut')
      BY <1>0, <2>1, <2>2
    <3>2. Len(queueOut') + 1 = Len(queueOut)
      BY <1>0, <2>2
    <3> QED BY <2>2, <3>1, <3>2 DEF Last
  <2>5. AtRest'
    BY <1>2, <2>1, <2>4 DEF AtRest, InBlock, EndedWith, Follows, Coming, FinalBit, Taken, Successor
  <2>6. \A t \in Thread : Step(t)'
    <3>1. ASSUME NEW t \in Thread PROVE Step(t)'
      <4>1. /\ Starting(t) => Starting(t)'
            /\ InBlock => InBlock'
            /\ Advanced(t) => Advanced(t)'
            /\ Follows(Bit(t)) => Follows(Bit(t))'
            /\ Bit(t)' = Bit(t)
        BY <2>1, <2>4 DEF Starting, Advanced, InBlock, EndedWith, Follows, Coming,
                          Bit, FinalBit, Taken, Successor
      <4>2. UNCHANGED Taken
        BY <2>1 DEF Taken
      <4> QED BY <1>2, <2>1, <4>1, <4>2 DEF Step
    <3> QED BY <3>1
  <2> QED BY <1>2, <2>1, <2>3, <2>5, <2>6 DEF Alone, Outside
<1>11. ASSUME NEW t \in Thread, CollectInput(t)
       PROVE  (Alone /\ Unbroken /\ AtRest /\ \A v \in Thread : Step(v))'
  <2>1. CASE /\ queueIn # <<>> /\ Ready /\ queueIn' = Tail(queueIn) /\ pc[t] = "begin"
             /\ input' = [input EXCEPT ![t] = Head(queueIn)] /\ NoteRace(t)
             /\ pc' = [pc EXCEPT ![t] = "set"] /\ pushed' = pushed
             /\ UNCHANGED <<queueOut, txbuf, phase, left, seen, read, sample>>
    <3>1. PICK u \in Thread : u # t /\ Thread = {t, u}
      OBVIOUS
    <3>2. \A v \in Thread \ {t} : ~Outside(v)
      BY <1>1, <2>1 DEF NoteRace
    <3>3. EndedWith(Taken) /\ phase = Complete
      BY <1>5, <2>1, <3>2 DEF Ready, Busy
    <3>4. Len(queueIn') = Len(queueIn) - 1 /\ Len(queueIn) >= 1 /\ Head(queueIn) = queueIn[1]
      BY <1>0, <2>1, TailFacts
    <3>5. Taken' = Taken + 1
      BY <1>0, <2>1, <3>4 DEF Taken
    <3>6. Head(queueIn) = Taken + 1
      BY <1>0, <3>4 DEF BlocksInOrder, Taken
    <3>7. Taken' - 1 = Taken
      BY <1>0, <3>5
    <3>8. Starting(t)'
      BY <1>0, <2>1, <3>3, <3>5, <3>6, <3>7 DEF Starting, EndedWith, Last, FinalBit
    <3>9. pc'[t] = "set" /\ pc'[u] = pc[u]
      BY <1>0, <2>1, <3>1
    <3>10. Unbroken'
      BY <1>2, <2>1 DEF Unbroken
    <3> QED BY <1>3, <3>1, <3>2, <3>8, <3>9, <3>10 DEF Step, Busy
  <2>2. CASE /\ pc[t] = "begin" /\ pc' = [pc EXCEPT ![t] = "loop"]
             /\ UNCHANGED <<queueIn, queueOut, txbuf, phase, left, pushed, input, seen, read, sample>>
    BY <1>0, <1>6, <2>2 DEF Outside, Busy, Taken
  <2> QED BY <1>11, <2>1, <2>2 DEF CollectInput
<1>12. ASSUME NEW t \in Thread, BeginEncode(t) \/ EndEncode(t)
       PROVE  (Alone /\ Unbroken /\ AtRest /\ \A v \in Thread : Step(v))'
  <2>1. PICK u \in Thread : u # t /\ Thread = {t, u} /\ ~Outside(u)
    BY <1>4, <1>12 DEF BeginEncode, EndEncode, Outside
  <2>2. /\ UNCHANGED <<queueOut, queueIn, pushed, input, seen, read, sample>>
        /\ Taken' = Taken /\ Unbroken' /\ pc'[u] = pc[u]
    BY <1>0, <1>2, <1>12, <2>1 DEF BeginEncode, EndEncode, Taken, Unbroken
  <2>3. CASE BeginEncode(t)
    <3>1. Starting(t) /\ pc'[t] = "encode" /\ txbuf' = Mixed /\ phase' = phase
      BY <1>0, <1>2, <2>3 DEF BeginEncode, Step
    <3>2. Starting(t)'
      BY <2>2, <3>1 DEF Starting, EndedWith, Last, FinalBit
    <3> QED BY <1>3, <2>1, <2>2, <3>1, <3>2 DEF Step, Busy
  <2>4. CASE EndEncode(t)
    <3>1. Starting(t) /\ txbuf = Mixed /\ pc'[t] = "lock" /\ phase' = InitState
      BY <1>0, <1>2, <2>4 DEF EndEncode, Step
    <3>2. txbuf' = input[t]
      BY <2>1, <2>4, <3>1 DEF EndEncode, Outside
    <3>3. txbuf' = Taken' /\ EndedWith(Taken - 1)'
      BY <2>2, <3>1, <3>2 DEF Starting, EndedWith, Last, FinalBit
    <3>4. ASSUME TypeOK', EndedWith(Taken - 1)', txbuf' = Taken', phase' = InitState
          PROVE  InBlock'
      <4>1. Phases \in Nat \ {0} /\ 1 \in 1..Phases /\ InitState = 0
        BY PhaseFacts DEF InitState
      <4>2. Taken' \in Int
        BY <1>0, <2>2
      <4>3. Successor(FinalBit(Taken' - 1), Coming')
        BY <3>4, <4>1, <4>2 DEF Successor, FinalBit, Coming
      <4>4. Last' = FinalBit(Taken' - 1) \/ queueOut' = <<>>
        BY <3>4 DEF EndedWith, FinalBit
      <4> HIDE DEF InitState
      <4>5. phase' \notin 1..Phases
        BY <3>4, <4>1
      <4> QED BY <3>4, <4>3, <4>4, <4>5 DEF InBlock, Follows, Successor
    <3>5. InBlock' /\ phase' # Complete
      BY <3>1, <3>3, <3>4, PhaseFacts DEF InitState
    <3> QED BY <1>3, <2>1, <2>2, <3>1, <3>5 DEF Step, Busy
  <2> QED BY <1>12, <2>3, <2>4
<1>13. ASSUME NEW t \in Thread, Relock(t) \/ CheckLoop(t)
       PROVE  (Alone /\ Unbroken /\ AtRest /\ \A v \in Thread : Step(v))'
  <2>1. /\ UNCHANGED <<queueOut, queueIn, pushed, txbuf, phase, left, seen, read, sample>>
        /\ Taken' = Taken /\ Unbroken' /\ pc[t] \notin Busy
    BY <1>2, <1>13 DEF Relock, CheckLoop, Taken, Unbroken, Busy
  <2>2. CASE pc[t] = "lock" /\ pc'[t] = "loop" /\ \A v \in Thread \ {t} : pc'[v] = pc[v]
    <3>1. PICK u \in Thread : u # t /\ Thread = {t, u} /\ ~Outside(u)
      BY <1>4, <2>2 DEF Outside
    <3>2. Rest
      BY <1>5, <2>1, <3>1
    <3>3. Rest'
      BY <2>1, <3>2 DEF InBlock, EndedWith, Follows, Coming, Last, FinalBit
    <3> QED BY <1>3, <2>1, <2>2, <3>1, <3>3 DEF Step, Busy
  <2>3. CASE /\ ~Ready /\ NoteRace(t) /\ pc[t] = "loop" /\ pc' = [pc EXCEPT ![t] = "state"]
    <3>1. PICK u \in Thread : u # t /\ Thread = {t, u}
      OBVIOUS
    <3>2. \A v \in Thread \ {t} : ~Outside(v)
      BY <1>1, <2>3 DEF NoteRace
    <3>3. Rest
      BY <1>5, <2>1, <3>2
    <3>4. Rest'
      BY <2>1, <3>3 DEF InBlock, EndedWith, Follows, Coming, Last, FinalBit
    <3>5. pc'[t] = "state" /\ pc'[u] = pc[u] /\ phase' # Complete
      BY <1>0, <2>1, <2>3, <3>1 DEF Ready
    <3> QED BY <1>3, <2>1, <3>1, <3>2, <3>4, <3>5 DEF Step, Busy
  <2>4. CASE pc[t] = "loop" /\ pc' = [pc EXCEPT ![t] = "idle"] /\ input' = input
    BY <1>0, <1>6, <2>1, <2>4 DEF Outside, Busy
  <2> QED BY <1>0, <1>13, <2>2, <2>3, <2>4 DEF Relock, CheckLoop
<1>14. ASSUME NEW t \in Thread, ReadState(t) \/ LoadBits(t) \/ StoreBits(t) \/ NextPhase(t)
       PROVE  (Alone /\ Unbroken /\ AtRest /\ \A v \in Thread : Step(v))'
  <2>1. PICK u \in Thread : u # t /\ Thread = {t, u} /\ ~Outside(u)
    BY <1>4, <1>14 DEF ReadState, LoadBits, StoreBits, NextPhase, Outside
  <2>2. /\ UNCHANGED <<queueOut, queueIn, pushed, txbuf, input, sample>>
        /\ Taken' = Taken /\ Unbroken' /\ pc'[u] = pc[u]
    BY <1>0, <1>2, <1>14, <2>1 DEF ReadState, LoadBits, StoreBits, NextPhase, Taken, Unbroken
  <2>3. /\ Phases \in Nat \ {0} /\ Complete = Phases + 1 /\ InitState = 0
        /\ \A i \in 1..Phases : PhaseBits[i] \in Nat \ {0}
    BY PhaseFacts DEF InitState
  <2>4. CASE ReadState(t)
    <3>1. phase # Complete /\ pc[t] = "state"
      BY <1>2, <2>4 DEF ReadState, Step
    <3>2. InBlock
      BY <1>5, <2>1, <3>1 DEF Busy
    <3>3. /\ pc'[t] = "load" /\ seen'[t] = phase' /\ phase' \in 1..Phases
          /\ left' \in 1..PhaseBits[phase'] /\ Coming' = Coming
      <4>1. CASE phase = InitState /\ phase' = 1 /\ left' = PhaseBits[1]
        BY <1>0, <2>2, <2>3, <2>4, <3>1, <4>1 DEF ReadState, Coming
      <4>2. CASE phase \in 1..Phases /\ UNCHANGED <<phase, left>>
        BY <1>0, <2>2, <2>3, <2>4, <3>1, <3>2, <4>2 DEF ReadState, Coming, InBlock
      <4> QED BY <2>4, <3>1, <4>1, <4>2 DEF ReadState
    <3>4. InBlock'
      BY <2>2, <3>2, <3>3 DEF InBlock, Follows, Last, Successor
    <3> QED BY <1>3, <2>1, <2>2, <3>3, <3>4 DEF Step, Busy
  <2>5. CASE LoadBits(t)
    <3>1. /\ pc'[t] = "store" /\ read'[t] = left /\ UNCHANGED <<phase, left, seen>>
          /\ seen[t] = phase /\ phase \in 1..Phases /\ InBlock
      BY <1>0, <1>2, <2>5 DEF LoadBits, Step
    <3>2. InBlock'
      BY <2>2, <3>1 DEF InBlock, Follows, Coming, Last, Successor
    <3> QED BY <1>3, <2>1, <2>2, <3>1, <3>2 DEF Step, Busy
  <2>6. CASE StoreBits(t)
    <3>1. /\ seen[t] = phase /\ phase \in 1..Phases /\ InBlock /\ read[t] = left
          /\ UNCHANGED <<phase, seen, read>> /\ left' = (IF read[t] > 0 THEN read[t] - 1 ELSE -1)
          /\ pc'[t] = IF read[t] = 1 THEN "next" ELSE "buffer"
      BY <1>0, <1>2, <2>6 DEF StoreBits, Step
    <3>2. left \in 1..PhaseBits[phase] /\ txbuf = Taken /\ phase # InitState
      BY <2>3, <3>1 DEF InBlock
    <3>3. Coming = Bit(t) /\ Follows(Bit(t))
      <4>1. Coming = Bit(t)
        BY <3>1, <3>2 DEF Coming, Bit
      <4> QED BY <3>1, <4>1 DEF InBlock
    <3>4. Follows(Bit(t))'
      BY <2>2, <3>1, <3>3 DEF Follows, Bit, Last, Successor
    <3>5. CASE read[t] = 1
      BY <1>3, <2>1, <2>2, <3>1, <3>2, <3>4, <3>5 DEF Step, Busy
    <3>6. CASE read[t] # 1
      <4>1. Advanced(t)'
        BY <2>2, <2>3, <3>1, <3>2, <3>4, <3>6 DEF Advanced
      <4> QED BY <1>3, <2>1, <2>2, <3>1, <3>6, <4>1 DEF Step, Busy
    <3> QED BY <3>5, <3>6
  <2>7. CASE NextPhase(t)
    <3>1. /\ seen[t] = phase /\ phase \in 1..Phases /\ txbuf = Taken /\ read[t] = 1
          /\ Follows(Bit(t)) /\ UNCHANGED <<seen, read>> /\ pc'[t] = "buffer"
          /\ phase' = seen[t] + 1
          /\ left' = IF seen[t] = Phases THEN left ELSE PhaseBits[seen[t] + 1]
      BY <1>0, <1>2, <2>7 DEF NextPhase, Step
    <3>2. Follows(Bit(t))'
      BY <2>2, <3>1 DEF Follows, Bit, Last, Successor
    <3>3. Advanced(t)'
      BY <2>2, <2>3, <3>1, <3>2 DEF Advanced
    <3> QED BY <1>3, <2>1, <2>2, <3>1, <3>3 DEF Step, Busy
  <2> QED BY <1>14, <2>4, <2>5, <2>6, <2>7
<1>15. ASSUME NEW t \in Thread, GetSampleBuffer(t)
       PROVE  (Alone /\ Unbroken /\ AtRest /\ \A v \in Thread : Step(v))'
  <2>1. PICK u \in Thread : u # t /\ Thread = {t, u} /\ ~Outside(u)
    BY <1>4, <1>15 DEF GetSampleBuffer, Outside
  <2>2. /\ UNCHANGED <<queueOut, queueIn, pushed, txbuf, phase, left, input, seen, read>>
        /\ Taken' = Taken /\ Unbroken' /\ pc'[u] = pc[u] /\ pc'[t] = "publish"
        /\ pc[t] = "buffer" /\ Advanced(t)
    BY <1>0, <1>2, <1>15, <2>1 DEF GetSampleBuffer, Taken, Unbroken, Step
  <2>3. sample'[t] = Bit(t)
    <3>1. sample'[t] # NoSample
      BY <2>2 DEF SampleInv, NoNullQueued
    <3> QED BY <1>0, <1>15, <2>2, <3>1 DEF GetSampleBuffer, Bit
  <2>4. Advanced(t)' /\ Bit(t)' = Bit(t)
    BY <2>2 DEF Advanced, Follows, Bit, Last, Successor
  <2> QED BY <1>3, <2>1, <2>2, <2>3, <2>4 DEF Step, Busy
<1>16. ASSUME NEW t \in Thread, PublishOutput(t)
       PROVE  (Alone /\ Unbroken /\ AtRest /\ \A v \in Thread : Step(v))'
  <2>1. PICK u \in Thread : u # t /\ Thread = {t, u} /\ ~Outside(u)
    BY <1>4, <1>16 DEF PublishOutput, Outside
  <2>2. /\ UNCHANGED <<queueIn, pushed, txbuf, phase, left, input, seen, read>>
        /\ Taken' = Taken /\ pc'[u] = pc[u] /\ pc'[t] = "loop"
        /\ pc[t] = "publish" /\ Advanced(t) /\ sample[t] = Bit(t)
    BY <1>0, <1>2, <1>16, <2>1 DEF PublishOutput, Taken, Step
  <2>3. Len(queueOut) <= MaxOutputQueue
    <3>1. Len(queueOut) + Generating(t) + Generating(u) <= MaxOutputQueue + 1
      BY <1>0, <2>1, GeneratingType DEF SampleInv, NothingRefused
    <3> QED BY <1>0, <2>1, <2>2, <3>1, GeneratingType DEF Generating
  <2>4. queueOut' = Append(queueOut, Bit(t)) /\ Bit(t) \in Sample
    BY <1>0, <1>16, <2>2, <2>3 DEF PublishOutput
  <2>5. /\ Len(queueOut') = Len(queueOut) + 1 /\ queueOut' # <<>>
        /\ \A i \in 1..Len(queueOut) : queueOut'[i] = queueOut[i]
        /\ queueOut'[Len(queueOut) + 1] = Bit(t)
    <3>1. queueOut \in Seq(Sample)
      BY <1>0 DEF TypeOK
    <3>2. /\ Append(queueOut, Bit(t)) \in Seq(Sample) /\ Len(queueOut) \in Nat
          /\ Len(Append(queueOut, Bit(t))) = Len(queueOut) + 1
          /\ \A i \in 1..Len(queueOut) : Append(queueOut, Bit(t))[i] = queueOut[i]
          /\ Append(queueOut, Bit(t))[Len(queueOut) + 1] = Bit(t)
      BY ONLY <2>4, <3>1, AppendFacts
    <3>3. Append(queueOut, Bit(t)) # <<>>
      BY ONLY <3>2
    <3> QED BY ONLY <2>4, <3>2, <3>3
  <2>6. Unbroken'
    <3>1. ASSUME NEW i \in 1..Len(queueOut') - 1 PROVE Successor(queueOut'[i], queueOut'[i + 1])
      <4>1. CASE i < Len(queueOut)
        <5>1. i \in 1..Len(queueOut) - 1 /\ i \in 1..Len(queueOut) /\ i + 1 \in 1..Len(queueOut)
          BY ONLY <1>0, <2>5, <4>1
        <5> QED BY <1>2, <2>5, <5>1 DEF Unbroken
      <4>2. CASE i = Len(queueOut)
        <5>1. i \in 1..Len(queueOut) /\ queueOut # <<>>
          BY <1>0, <4>2
        <5>2. Successor(Last, Bit(t))
          BY <2>2, <5>1 DEF Advanced, Follows
        <5> QED BY <2>5, <4>2, <5>1, <5>2 DEF Last
      <4> QED BY ONLY <1>0, <2>5, <4>1, <4>2
    <3> QED BY <3>1 DEF Unbroken, Successor
  <2>7. Last' = Bit(t)
    BY <2>5 DEF Last
  <2>8. Rest'
    <3>1. CASE phase = Complete
      <4>1. Bit(t) = FinalBit(Taken)
        BY <2>2, <3>1, BitAfter
      <4> QED BY <2>2, <2>7, <3>1, <4>1 DEF EndedWith, FinalBit
    <3>2. CASE phase # Complete
      <4>1. /\ phase \in 1..Phases /\ left \in 1..PhaseBits[phase]
            /\ Successor(Bit(t), Coming) /\ txbuf = Taken
        BY <2>2, <3>2, BitAfter DEF Advanced
      <4>2. Coming' = Coming
        BY <2>2 DEF Coming
      <4>3. Follows(Coming)'
        BY <2>7, <4>1, <4>2 DEF Follows, Successor
      <4> QED BY <2>2, <3>2, <4>1, <4>3 DEF InBlock
    <3> QED BY <3>1, <3>2
  <2> QED BY <1>3, <2>1, <2>2, <2>6, <2>8 DEF Step, Busy
<1> QED
  BY <1>7, <1>8, <1>9, <1>10, <1>11, <1>12, <1>13, <1>14, <1>15, <1>16 DEF Next, Execute, Collector

(* With MAX_OUTPUT_QUEUE + 2 sample buffers, and as long as the two        *)
(* threads have not been behind Execute's unlock() at once, what is queued *)
(* to be collected is an unbroken stretch of the signal, and a bit about   *)
(* to be published is the next.                                            *)
THEOREM SignalWhole ==
  ASSUME SamplePool >= MaxOutputQueue + 2
  PROVE  Spec => []SignalUnbroken
<1>1. Init => SignalInv
  BY ThreadAssumption DEF Init, SignalInv, Alone, Outside, Unbroken, AtRest, EndedWith,
                          Step, Busy, Thread
<1>2. /\ TypeOK /\ TypeOK' /\ SampleInv /\ SampleInv' /\ BlocksInOrder /\ SignalInv /\ [Next]_vars
      => SignalInv'
  BY SignalNext
<1>3. TypeOK /\ SignalInv => SignalUnbroken
  <2> SUFFICES ASSUME TypeOK, SignalInv, ~raced PROVE SignalUnbroken
    BY DEF SignalUnbroken
  <2>1. \A t \in Thread : pc[t] = "publish" => sample[t] = Bit(t) /\ Follows(Bit(t))
    BY DEF SignalInv, Step, Advanced
  <2> QED BY <2>1 DEF SignalInv, SignalUnbroken, Unbroken, Follows, Last
<1>4. Spec => []SampleInv
  <2>1. Init => SampleInv BY SampleInit
  <2>2. TypeOK /\ SampleInv /\ [Next]_vars => SampleInv' BY SampleNext
  <2> QED BY <2>1, <2>2, TypeCorrect, PTL DEF Spec
<1> QED BY <1>1, <1>2, <1>3, <1>4, TypeCorrect, OrderKept, PTL DEF Spec
=============================================================================
