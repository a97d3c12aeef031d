------------------------ MODULE DecodePipelineProofs ------------------------
(***************************************************************************)
(* Proofs about DecodePipeline for every number of buffers, decoders and   *)
(* frames and every queue limit, and about PeakDetectWorker, the same      *)
(* manager's hand-over to the peak detection thread.                       *)
(***************************************************************************)
EXTENDS DecodePipeline, PeakRequests, FiniteSetTheorems, TLAPS

(* What a step does to the queues, in terms of membership and indices. *)
LEMMA AppendFacts ==
  ASSUME NEW S, NEW s \in Seq(S), NEW x \in S
  PROVE  /\ Append(s, x) \in Seq(S)
         /\ Len(Append(s, x)) = Len(s) + 1
         /\ \A i \in 1..Len(s) : Append(s, x)[i] = s[i]
         /\ Append(s, x)[Len(s) + 1] = x
         /\ \A b : InSeq(b, Append(s, x)) <=> InSeq(b, s) \/ b = x
<1>1. /\ Append(s, x) \in Seq(S)
      /\ Len(Append(s, x)) = Len(s) + 1
      /\ \A i \in 1..Len(s) : Append(s, x)[i] = s[i]
      /\ Append(s, x)[Len(s) + 1] = x
  OBVIOUS
<1>2. ASSUME NEW b, InSeq(b, s) \/ b = x PROVE InSeq(b, Append(s, x))
  BY <1>1, <1>2 DEF InSeq
<1>3. ASSUME NEW b, InSeq(b, Append(s, x)) PROVE InSeq(b, s) \/ b = x
  <2>1. PICK i \in 1..Len(s)+1 : Append(s, x)[i] = b
    BY <1>1, <1>3 DEF InSeq
  <2> QED BY <1>1, <2>1 DEF InSeq
<1> QED BY <1>1, <1>2, <1>3

LEMMA AppendInSeq ==
  ASSUME NEW S, NEW s \in Seq(S), NEW x \in S, NEW t, t = Append(s, x)
  PROVE  \A b : InSeq(b, t) <=> InSeq(b, s) \/ b = x
BY AppendFacts

LEMMA TailFacts ==
  ASSUME NEW S, NEW s \in Seq(S), s # <<>>
  PROVE  /\ Head(s) \in S /\ Tail(s) \in Seq(S)
         /\ Len(s) \in Nat \ {0} /\ Len(Tail(s)) = Len(s) - 1
         /\ Head(s) = s[1]
         /\ \A i \in 1..Len(Tail(s)) : Tail(s)[i] = s[i + 1]
         /\ \A b : InSeq(b, s) <=> b = Head(s) \/ InSeq(b, Tail(s))
<1>1. /\ Head(s) \in S /\ Tail(s) \in Seq(S)
      /\ Len(s) \in Nat \ {0} /\ Len(Tail(s)) = Len(s) - 1
      /\ Head(s) = s[1]
      /\ \A i \in 1..Len(Tail(s)) : Tail(s)[i] = s[i + 1]
  OBVIOUS
<1>2. ASSUME NEW b, InSeq(b, s) PROVE b = Head(s) \/ InSeq(b, Tail(s))
  <2>1. PICK i \in 1..Len(s) : s[i] = b BY <1>2 DEF InSeq
  <2>2. CASE i = 1 BY <1>1, <2>1, <2>2
  <2>3. CASE i # 1
    <3>1. i - 1 \in 1..Len(Tail(s)) /\ Tail(s)[i - 1] = b BY <1>1, <2>1, <2>3
    <3> QED BY <3>1 DEF InSeq
  <2> QED BY <2>2, <2>3
<1>3. ASSUME NEW b, b = Head(s) \/ InSeq(b, Tail(s)) PROVE InSeq(b, s)
  <2>1. CASE b = Head(s) BY <1>1, <2>1 DEF InSeq
  <2>2. CASE InSeq(b, Tail(s))
    <3>1. PICK i \in 1..Len(Tail(s)) : Tail(s)[i] = b BY <2>2 DEF InSeq
    <3>2. i + 1 \in 1..Len(s) /\ s[i + 1] = b BY <1>1, <3>1
    <3> QED BY <3>2 DEF InSeq
  <2> QED BY <1>3, <2>1, <2>2
<1> QED BY <1>1, <1>2, <1>3

LEMMA NumDecodersType == NumDecoders \in Nat \ {0}
<1>1. Cardinality(Decoder) \in Nat /\ (Cardinality(Decoder) = 0 <=> Decoder = {})
  BY DecoderAssumption, FS_CardinalityType, FS_EmptySet
<1> QED BY <1>1, DecoderAssumption DEF NumDecoders
-----------------------------------------------------------------------------
(* Type correctness. *)

LEMMA TypeInit == Init => TypeOK
<1> SUFFICES ASSUME Init PROVE TypeOK OBVIOUS
<1> USE NumDecodersType, BoundAssumption DEF Init
<1>1. \A d \in Decoder : dQueue[d] \in Seq(Buffer) /\ Len(dQueue[d]) = 0 OBVIOUS
<1>2. queueIn \in Seq(Buffer) /\ Len(queueIn) = 0 OBVIOUS
<1> QED BY <1>1, <1>2 DEF TypeOK

(* What Reclaim leaves in the pool are buffers. *)
LEMMA ReclaimType ==
  ASSUME free \in SUBSET Buffer, NEW S \in SUBSET Buffer, Reclaim(S)
  PROVE  free' \in SUBSET Buffer
BY DEF Reclaim

LEMMA WorkerPushType ==
  ASSUME TypeOK, NEW d \in Decoder, WorkerPush(d), mgrBuf \in Buffer
  PROVE  /\ free' \in SUBSET Buffer
         /\ dQueue' \in [Decoder -> Seq(Buffer)]
         /\ \A e \in Decoder : Len(dQueue'[e]) <= WorkerQueueMax + 1
         /\ dEvent' \in [Decoder -> Nat]
<1> USE BoundAssumption
<1>0. dQueue[d] \in Seq(Buffer) /\ Len(dQueue[d]) \in Nat BY DEF TypeOK
<1>00. dEvent' \in [Decoder -> Nat] BY SMTT(20) DEF TypeOK, WorkerPush, Post
<1>1. CASE Len(dQueue[d]) > WorkerQueueMax
  <2>1. dQueue[d] # <<>> BY <1>0, <1>1
  <2>2. /\ Head(dQueue[d]) \in Buffer /\ Tail(dQueue[d]) \in Seq(Buffer)
        /\ Len(Tail(dQueue[d])) = Len(dQueue[d]) - 1
    BY <1>0, <2>1, TailFacts
  <2>3. /\ Append(Tail(dQueue[d]), mgrBuf) \in Seq(Buffer)
        /\ Len(Append(Tail(dQueue[d]), mgrBuf)) = Len(dQueue[d])
    BY <1>0, <2>2, AppendFacts
  <2>4. /\ dQueue' = [dQueue EXCEPT ![d] = Append(Tail(@), mgrBuf)]
        /\ Reclaim({Head(dQueue[d])})
    BY <1>0, <1>1 DEF WorkerPush
  <2>5. free' \in SUBSET Buffer BY <2>2, <2>4, ReclaimType DEF TypeOK
  <2> QED BY <1>00, <2>3, <2>4, <2>5, <1>0 DEF TypeOK
<1>2. CASE Len(dQueue[d]) <= WorkerQueueMax
  <2>1. /\ Append(dQueue[d], mgrBuf) \in Seq(Buffer)
        /\ Len(Append(dQueue[d], mgrBuf)) = Len(dQueue[d]) + 1
    BY <1>0, AppendFacts
  <2>2. /\ dQueue' = [dQueue EXCEPT ![d] = Append(@, mgrBuf)]
        /\ free' = free
    BY <1>0, <1>2 DEF WorkerPush
  <2>3. dQueue' \in [Decoder -> Seq(Buffer)] BY <2>1, <2>2 DEF TypeOK
  <2>4. ASSUME NEW e \in Decoder PROVE Len(dQueue'[e]) <= WorkerQueueMax + 1
    <3>1. CASE e = d
      <4>1. dQueue'[e] = Append(dQueue[d], mgrBuf) BY <2>2, <3>1 DEF TypeOK
      <4> QED BY <4>1, <2>1, <1>0, <1>2
    <3>2. CASE e # d
      <4>1. dQueue'[e] = dQueue[e] BY <2>2, <3>2 DEF TypeOK
      <4> QED BY <4>1 DEF TypeOK
    <3> QED BY <3>1, <3>2
  <2> QED BY <1>00, <2>2, <2>3, <2>4 DEF TypeOK
<1> QED BY <1>0, <1>1, <1>2

LEMMA TypeNext == TypeOK /\ [Next]_vars => TypeOK'
<1> SUFFICES ASSUME TypeOK, [Next]_vars PROVE TypeOK' OBVIOUS
<1> USE NumDecodersType, BoundAssumption, BufferAssumption
        DEF capVars, mgrVars, apiVars, decVars
<1>1. CASE CallbackIn
  BY <1>1 DEF CallbackIn, TypeOK
<1>2. CASE CallbackInLosesFrame
  BY <1>2 DEF CallbackInLosesFrame, TypeOK
<1>3. CASE PushAudioInput
  <2>1. capBuf \in Buffer BY <1>3 DEF PushAudioInput, TypeOK
  <2>2. queueIn \in Seq(Buffer) /\ Len(queueIn) \in Nat BY DEF TypeOK
  <2>3. free' \in SUBSET Buffer /\ queueIn' \in Seq(Buffer) /\ Len(queueIn') <= ManagerQueueMax + 1
    <3>1. CASE Len(queueIn) > ManagerQueueMax
      <4>1. queueIn # <<>> BY <2>2, <3>1
      <4>2. /\ Head(queueIn) \in Buffer /\ Tail(queueIn) \in Seq(Buffer)
            /\ Len(Tail(queueIn)) = Len(queueIn) - 1
        BY <2>2, <4>1, TailFacts
      <4>3. /\ queueIn' = Append(Tail(queueIn), capBuf) /\ Reclaim({Head(queueIn)})
        BY <1>3, <2>2, <3>1 DEF PushAudioInput
      <4>4. queueIn' \in Seq(Buffer) /\ Len(queueIn') = Len(queueIn)
        BY <2>1, <2>2, <4>2, <4>3, AppendFacts
      <4>5. free' \in SUBSET Buffer BY <4>2, <4>3, ReclaimType DEF TypeOK
      <4> QED BY <4>4, <4>5 DEF TypeOK
    <3>2. CASE Len(queueIn) <= ManagerQueueMax
      <4>1. queueIn' = Append(queueIn, capBuf) /\ free' = free
        BY <1>3, <2>2, <3>2 DEF PushAudioInput
      <4>2. queueIn' \in Seq(Buffer) /\ Len(queueIn') = Len(queueIn) + 1
        BY <2>1, <2>2, <4>1, AppendFacts
      <4> QED BY <2>2, <3>2, <4>1, <4>2 DEF TypeOK
    <3> QED BY <2>2, <3>1, <3>2
  <2> QED BY <1>3, <2>3 DEF PushAudioInput, TypeOK, Post
<1>4. CASE SetAutoTuneState
  BY <1>4 DEF SetAutoTuneState, TypeOK
<1>5. CASE SetWorkerCount
  BY <1>5 DEF SetWorkerCount, TypeOK
<1>6. CASE ManagerWake
  BY <1>6 DEF ManagerWake, TypeOK
<1>7. CASE CollectAudioInput
  <2>0. queueIn \in Seq(Buffer) /\ Len(queueIn) \in Nat BY DEF TypeOK
  <2>1. CASE queueIn = <<>>
    BY <1>7, <2>1 DEF CollectAudioInput, TypeOK
  <2>2. CASE queueIn # <<>>
    <3>1. /\ Head(queueIn) \in Buffer /\ Tail(queueIn) \in Seq(Buffer)
          /\ Len(Tail(queueIn)) = Len(queueIn) - 1
      BY <2>0, <2>2, TailFacts
    <3>2. queueIn' = Tail(queueIn) /\ taken' = frame[Head(queueIn)]
      BY <1>7, <2>2 DEF CollectAudioInput
    <3>3. queueIn' \in Seq(Buffer) /\ Len(queueIn') <= ManagerQueueMax + 1
      BY <2>0, <3>1, <3>2 DEF TypeOK
    <3>4. taken' \in 0..MaxFrames BY <3>1, <3>2 DEF TypeOK
    <3>5. UNCHANGED <<frame, capVars, event, fed, order, apiVars, decVars>>
      BY <1>7 DEF CollectAudioInput
    <3>6. \/ mgrPc' = "wait" /\ mgrBuf' = mgrBuf /\ Reclaim({Head(queueIn)})
          \/ mgrPc' = "tune" /\ mgrBuf' = Head(queueIn) /\ free' = free
      BY <1>7, <2>2 DEF CollectAudioInput
    <3>7. mgrPc = "run" BY <1>7 DEF CollectAudioInput
    <3>8. free' \in SUBSET Buffer BY <3>1, <3>6, ReclaimType DEF TypeOK
    <3>9. /\ mgrPc' \in {"wait", "tune"} /\ mgrBuf' \in Buffer \cup {NoBuffer}
          /\ mgrBuf' # NoBuffer <=> mgrPc' = "tune"
      BY <3>1, <3>6, <3>7 DEF TypeOK
    <3> QED BY <3>3, <3>4, <3>5, <3>8, <3>9 DEF TypeOK
  <2> QED BY <2>1, <2>2
<1>8. CASE Tune
  BY <1>8 DEF Tune, TypeOK
<1>9. CASE Feed
  <2>1. fed + 1 \in 1..NumDecoders BY <1>9 DEF Feed, TypeOK
  <2>2. order[fed + 1] \in Decoder BY <2>1 DEF TypeOK, Orders
  <2>3. mgrBuf \in Buffer BY <1>9 DEF Feed, TypeOK
  <2>4. WorkerPush(order[fed + 1]) BY <1>9 DEF Feed
  <2>5. /\ free' \in SUBSET Buffer
        /\ dQueue' \in [Decoder -> Seq(Buffer)]
        /\ \A e \in Decoder : Len(dQueue'[e]) <= WorkerQueueMax + 1
        /\ dEvent' \in [Decoder -> Nat]
    BY <2>2, <2>3, <2>4, WorkerPushType
  <2> QED BY <1>9, <2>1, <2>5 DEF Feed, TypeOK
<1>10. CASE FeedEnd
  BY <1>10 DEF FeedEnd, TypeOK
<1>11. CASE FeedManual
  <2>2. order[1] \in Decoder BY DEF TypeOK, Orders
  <2>3. mgrBuf \in Buffer BY <1>11 DEF FeedManual, TypeOK
  <2>4. WorkerPush(order[1]) BY <1>11 DEF FeedManual
  <2>5. /\ free' \in SUBSET Buffer
        /\ dQueue' \in [Decoder -> Seq(Buffer)]
        /\ \A e \in Decoder : Len(dQueue'[e]) <= WorkerQueueMax + 1
        /\ dEvent' \in [Decoder -> Nat]
    BY <2>2, <2>3, <2>4, WorkerPushType
  <2> QED BY <1>11, <2>5 DEF FeedManual, TypeOK
<1>12. CASE Release
  <2>1. mgrBuf \in Buffer /\ Reclaim({mgrBuf}) BY <1>12 DEF Release, TypeOK
  <2>2. free' \in SUBSET Buffer BY <2>1, ReclaimType DEF TypeOK
  <2> QED BY <1>12, <2>2 DEF Release, TypeOK
<1>13. ASSUME NEW d \in Decoder, DecoderWake(d) PROVE TypeOK'
  BY SMTT(20), <1>13 DEF DecoderWake, TypeOK
<1>14. ASSUME NEW d \in Decoder, DecoderCollect(d) PROVE TypeOK'
  <2>0. dQueue[d] \in Seq(Buffer) /\ Len(dQueue[d]) \in Nat BY DEF TypeOK
  <2>1. CASE dQueue[d] = <<>>
    BY <1>14, <2>1 DEF DecoderCollect, TypeOK
  <2>2. CASE dQueue[d] # <<>>
    <3>1. /\ Head(dQueue[d]) \in Buffer /\ Tail(dQueue[d]) \in Seq(Buffer)
          /\ Len(Tail(dQueue[d])) = Len(dQueue[d]) - 1
      BY <2>0, <2>2, TailFacts
    <3>2. dQueue' = [dQueue EXCEPT ![d] = Tail(@)]
      BY <1>14, <2>2 DEF DecoderCollect
    <3>3. /\ dQueue' \in [Decoder -> Seq(Buffer)]
          /\ \A e \in Decoder : Len(dQueue'[e]) <= WorkerQueueMax + 1
      BY <2>0, <3>1, <3>2 DEF TypeOK
    <3>4. UNCHANGED <<frame, capVars, queueIn, event, mgrVars, apiVars, dEvent, done>>
      BY <1>14 DEF DecoderCollect
    <3>5. \/ /\ dPc' = [dPc EXCEPT ![d] = "wait"] /\ dBuf' = dBuf
             /\ Reclaim({Head(dQueue[d])})
          \/ /\ dPc' = [dPc EXCEPT ![d] = "claim"]
             /\ dBuf' = [dBuf EXCEPT ![d] = Head(dQueue[d])]
             /\ free' = free
      BY <1>14, <2>2 DEF DecoderCollect
    <3>6. dPc[d] = "run" BY <1>14 DEF DecoderCollect
    <3>7. free' \in SUBSET Buffer BY <3>1, <3>5, ReclaimType DEF TypeOK
    <3>8. /\ dPc' \in [Decoder -> {"wait", "run", "claim", "process"}]
          /\ dBuf' \in [Decoder -> Buffer \cup {NoBuffer}]
          /\ \A e \in Decoder : dBuf'[e] # NoBuffer <=> dPc'[e] \in {"claim", "process"}
      BY ZenonT(30), <3>1, <3>5, <3>6 DEF TypeOK
    <3> QED BY <3>3, <3>4, <3>7, <3>8 DEF TypeOK
  <2> QED BY <2>1, <2>2
<1>15. ASSUME NEW d \in Decoder, DecoderLock(d) PROVE TypeOK'
  BY <1>15 DEF DecoderLock, TypeOK
<1>16. ASSUME NEW d \in Decoder, DecoderProcess(d) PROVE TypeOK'
  <2>1. dBuf[d] \in Buffer /\ Reclaim({dBuf[d]}) BY <1>16 DEF DecoderProcess, TypeOK
  <2>2. free' \in SUBSET Buffer BY <2>1, ReclaimType DEF TypeOK
  <2> QED BY <1>16, <2>1, <2>2 DEF DecoderProcess, TypeOK
<1>17. CASE UNCHANGED vars
  BY <1>17 DEF vars, TypeOK
<1> QED BY <1>1, <1>2, <1>3, <1>4, <1>5, <1>6, <1>7, <1>8, <1>9, <1>10, <1>11, <1>12,
           <1>13, <1>14, <1>15, <1>16, <1>17
        DEF Next, Device, Api, Manager, Worker

(* Every variable keeps its type, and no queue outgrows its limit by more  *)
(* than the one buffer the size() > limit tests let through.               *)
THEOREM TypeCorrect == Spec => []TypeOK
BY TypeInit, TypeNext, PTL DEF Spec

-----------------------------------------------------------------------------
(* The pool and the references partition the buffers. *)

(* A step that drops no reference and takes none leaves the partition. *)
LEMMA PartitionSame ==
  ASSUME PoolPartition, free' = free,
         \A b \in Buffer : Referenced(b)' <=> Referenced(b)
  PROVE  PoolPartition'
BY DEF PoolPartition

(* A step that drops references to the buffers of S at most, takes none of *)
(* a free buffer, and reclaims S.                                          *)
LEMMA PartitionReclaim ==
  ASSUME PoolPartition, NEW S \in SUBSET Buffer, Reclaim(S),
         \A b \in Buffer : Referenced(b)' => Referenced(b),
         \A b \in Buffer : Referenced(b) /\ b \notin S => Referenced(b)'
  PROVE  PoolPartition'
<1> SUFFICES ASSUME NEW b \in Buffer PROVE b \in free' <=> ~Referenced(b)'
  BY DEF PoolPartition
<1>1. b \in free' <=> b \in free \/ (b \in S /\ ~Referenced(b)') BY DEF Reclaim
<1>2. b \in free <=> ~Referenced(b) BY DEF PoolPartition
<1> QED BY <1>1, <1>2

LEMMA WorkerPushPartition ==
  ASSUME TypeOK, PoolPartition, NEW d \in Decoder, WorkerPush(d), mgrBuf \in Buffer,
         UNCHANGED <<capBuf, mgrBuf, queueIn, dBuf>>
  PROVE  PoolPartition'
<1> USE BoundAssumption
<1>0. dQueue[d] \in Seq(Buffer) /\ Len(dQueue[d]) \in Nat BY DEF TypeOK
<1>1. CASE Len(dQueue[d]) > WorkerQueueMax
  <2>1. dQueue[d] # <<>> BY <1>0, <1>1
  <2>2. /\ Head(dQueue[d]) \in Buffer /\ Tail(dQueue[d]) \in Seq(Buffer)
        /\ \A b : InSeq(b, dQueue[d]) <=> b = Head(dQueue[d]) \/ InSeq(b, Tail(dQueue[d]))
    BY <1>0, <2>1, TailFacts
  <2>3. /\ dQueue' = [dQueue EXCEPT ![d] = Append(Tail(@), mgrBuf)]
        /\ Reclaim({Head(dQueue[d])})
    BY <1>0, <1>1 DEF WorkerPush
  <2>4. \A b : InSeq(b, Append(Tail(dQueue[d]), mgrBuf)) <=> InSeq(b, Tail(dQueue[d])) \/ b = mgrBuf
    BY <2>2, AppendInSeq
  <2>5. \A b : InSeq(b, dQueue'[d]) <=> InSeq(b, Tail(dQueue[d])) \/ b = mgrBuf
    BY <2>3, <2>4 DEF TypeOK
  <2>6. \A e \in Decoder : e # d => dQueue'[e] = dQueue[e] BY <2>3 DEF TypeOK
  <2>7. \A b \in Buffer : Referenced(b)' => Referenced(b)
    BY <2>2, <2>5, <2>6 DEF Referenced
  <2>8. \A b \in Buffer : Referenced(b) /\ b \notin {Head(dQueue[d])} => Referenced(b)'
    BY <2>2, <2>5, <2>6 DEF Referenced
  <2> QED BY <2>2, <2>3, <2>7, <2>8, PartitionReclaim
<1>2. CASE Len(dQueue[d]) <= WorkerQueueMax
  <2>1. dQueue' = [dQueue EXCEPT ![d] = Append(@, mgrBuf)] /\ free' = free
    BY <1>0, <1>2 DEF WorkerPush
  <2>2. \A b : InSeq(b, Append(dQueue[d], mgrBuf)) <=> InSeq(b, dQueue[d]) \/ b = mgrBuf
    BY <1>0, AppendFacts
  <2>3. \A b : InSeq(b, dQueue'[d]) <=> InSeq(b, dQueue[d]) \/ b = mgrBuf
    BY <2>1, <2>2 DEF TypeOK
  <2>4. \A e \in Decoder : e # d => dQueue'[e] = dQueue[e] BY <2>1 DEF TypeOK
  <2>5. \A b \in Buffer : Referenced(b)' <=> Referenced(b)
    BY <2>3, <2>4 DEF Referenced
  <2> QED BY <2>1, <2>5, PartitionSame
<1> QED BY <1>0, <1>1, <1>2

LEMMA PartitionInit == Init => PoolPartition
BY BufferAssumption DEF Init, PoolPartition, Referenced, InSeq

LEMMA PartitionNext == TypeOK /\ PoolPartition /\ [Next]_vars => PoolPartition'
<1> SUFFICES ASSUME TypeOK, PoolPartition, [Next]_vars PROVE PoolPartition' OBVIOUS
<1> USE BufferAssumption DEF capVars, mgrVars, apiVars, decVars
<1>1. CASE CallbackIn
  <2>1. PICK c \in free : capBuf' = c /\ free' = free \ {c} BY <1>1 DEF CallbackIn
  <2>2. capBuf = NoBuffer /\ UNCHANGED <<mgrBuf, queueIn, dBuf, dQueue>> BY <1>1 DEF CallbackIn
  <2>3. \A b \in Buffer : Referenced(b)' <=> Referenced(b) \/ b = c
    BY <2>1, <2>2 DEF Referenced
  <2> QED BY <2>1, <2>3 DEF PoolPartition
<1>2. CASE PushAudioInput
  <2>0. /\ queueIn \in Seq(Buffer) /\ Len(queueIn) \in Nat /\ capBuf \in Buffer
        /\ capBuf' = NoBuffer /\ UNCHANGED <<mgrBuf, dBuf, dQueue>>
    BY <1>2 DEF PushAudioInput, TypeOK
  <2>1. CASE Len(queueIn) > ManagerQueueMax
    <3>1. queueIn # <<>> BY <2>0, <2>1, BoundAssumption
    <3>2. /\ Head(queueIn) \in Buffer /\ Tail(queueIn) \in Seq(Buffer)
          /\ \A b : InSeq(b, queueIn) <=> b = Head(queueIn) \/ InSeq(b, Tail(queueIn))
      BY <2>0, <3>1, TailFacts
    <3>3. queueIn' = Append(Tail(queueIn), capBuf) /\ Reclaim({Head(queueIn)})
      BY <1>2, <2>0, <2>1, BoundAssumption DEF PushAudioInput
    <3>4. \A b : InSeq(b, queueIn') <=> InSeq(b, Tail(queueIn)) \/ b = capBuf
      BY <2>0, <3>2, <3>3, AppendInSeq
    <3>5. \A b \in Buffer : Referenced(b)' => Referenced(b)
      BY <2>0, <3>2, <3>4 DEF Referenced
    <3>6. \A b \in Buffer : Referenced(b) /\ b \notin {Head(queueIn)} => Referenced(b)'
      BY <2>0, <3>2, <3>4 DEF Referenced
    <3> QED BY <3>2, <3>3, <3>5, <3>6, PartitionReclaim
  <2>2. CASE Len(queueIn) <= ManagerQueueMax
    <3>1. queueIn' = Append(queueIn, capBuf) /\ free' = free
      BY <1>2, <2>0, <2>2, BoundAssumption DEF PushAudioInput
    <3>2. \A b : InSeq(b, queueIn') <=> InSeq(b, queueIn) \/ b = capBuf
      BY <2>0, <3>1, AppendFacts
    <3>3. \A b \in Buffer : Referenced(b)' <=> Referenced(b)
      BY <2>0, <3>2 DEF Referenced
    <3> QED BY <3>1, <3>3, PartitionSame
  <2> QED BY <2>0, <2>1, <2>2, BoundAssumption
<1>3. CASE CollectAudioInput
  <2>0. /\ queueIn \in Seq(Buffer) /\ mgrBuf = NoBuffer
        /\ UNCHANGED <<capBuf, dBuf, dQueue>>
    BY <1>3 DEF CollectAudioInput, TypeOK
  <2>1. CASE queueIn = <<>>
    BY <1>3, <2>0, <2>1, PartitionSame DEF CollectAudioInput, Referenced
  <2>2. CASE queueIn # <<>>
    <3>1. /\ Head(queueIn) \in Buffer
          /\ \A b : InSeq(b, queueIn) <=> b = Head(queueIn) \/ InSeq(b, Tail(queueIn))
      BY <2>0, <2>2, TailFacts
    <3>2. queueIn' = Tail(queueIn) BY <1>3, <2>2 DEF CollectAudioInput
    <3>3. CASE mgrBuf' = mgrBuf /\ Reclaim({Head(queueIn)})
      <4>1. \A b \in Buffer : Referenced(b)' => Referenced(b)
        BY <2>0, <3>1, <3>2, <3>3 DEF Referenced
      <4>2. \A b \in Buffer : Referenced(b) /\ b \notin {Head(queueIn)} => Referenced(b)'
        BY <2>0, <3>1, <3>2, <3>3 DEF Referenced
      <4> QED BY <3>1, <3>3, <4>1, <4>2, PartitionReclaim
    <3>4. CASE mgrBuf' = Head(queueIn) /\ free' = free
      <4>1. \A b \in Buffer : Referenced(b)' <=> Referenced(b)
        BY <2>0, <3>1, <3>2, <3>4 DEF Referenced
      <4> QED BY <3>4, <4>1, PartitionSame
    <3> QED BY <1>3, <2>2, <3>3, <3>4 DEF CollectAudioInput
  <2> QED BY <2>1, <2>2
<1>4. CASE Feed
  <2>1. order[fed + 1] \in Decoder /\ mgrBuf \in Buffer
    BY <1>4, NumDecodersType DEF Feed, TypeOK, Orders
  <2>2. WorkerPush(order[fed + 1]) /\ UNCHANGED <<capBuf, mgrBuf, queueIn, dBuf>>
    BY <1>4 DEF Feed
  <2> QED BY <2>1, <2>2, WorkerPushPartition
<1>5. CASE FeedManual
  <2>1. order[1] \in Decoder /\ mgrBuf \in Buffer
    BY <1>5, NumDecodersType DEF FeedManual, TypeOK, Orders
  <2>2. WorkerPush(order[1]) /\ UNCHANGED <<capBuf, mgrBuf, queueIn, dBuf>>
    BY <1>5 DEF FeedManual
  <2> QED BY <2>1, <2>2, WorkerPushPartition
<1>6. CASE Release
  <2>1. /\ mgrBuf \in Buffer /\ mgrBuf' = NoBuffer /\ Reclaim({mgrBuf})
        /\ UNCHANGED <<capBuf, queueIn, dBuf, dQueue>>
    BY <1>6 DEF Release, TypeOK
  <2>2. \A b \in Buffer : Referenced(b)' => Referenced(b) BY <2>1 DEF Referenced
  <2>3. \A b \in Buffer : Referenced(b) /\ b \notin {mgrBuf} => Referenced(b)'
    BY <2>1 DEF Referenced
  <2> QED BY <2>1, <2>2, <2>3, PartitionReclaim
<1>7. ASSUME NEW d \in Decoder, DecoderCollect(d) PROVE PoolPartition'
  <2>0. /\ dQueue[d] \in Seq(Buffer) /\ dBuf[d] = NoBuffer
        /\ UNCHANGED <<capBuf, mgrBuf, queueIn>>
    BY <1>7 DEF DecoderCollect, TypeOK
  <2>1. CASE dQueue[d] = <<>>
    BY <1>7, <2>0, <2>1, PartitionSame DEF DecoderCollect, Referenced
  <2>2. CASE dQueue[d] # <<>>
    <3>1. /\ Head(dQueue[d]) \in Buffer
          /\ \A b : InSeq(b, dQueue[d]) <=> b = Head(dQueue[d]) \/ InSeq(b, Tail(dQueue[d]))
      BY <2>0, <2>2, TailFacts
    <3>2. dQueue' = [dQueue EXCEPT ![d] = Tail(@)] BY <1>7, <2>2 DEF DecoderCollect
    <3>3. dQueue'[d] = Tail(dQueue[d]) /\ \A e \in Decoder : e # d => dQueue'[e] = dQueue[e]
      BY <3>2 DEF TypeOK
    <3>4. CASE dBuf' = dBuf /\ Reclaim({Head(dQueue[d])})
      <4>1. \A b \in Buffer : Referenced(b)' => Referenced(b)
        BY <2>0, <3>1, <3>3, <3>4 DEF Referenced
      <4>2. \A b \in Buffer : Referenced(b) /\ b \notin {Head(dQueue[d])} => Referenced(b)'
        BY <2>0, <3>1, <3>3, <3>4 DEF Referenced
      <4> QED BY <3>1, <3>4, <4>1, <4>2, PartitionReclaim
    <3>5. CASE dBuf' = [dBuf EXCEPT ![d] = Head(dQueue[d])] /\ free' = free
      <4>1. dBuf'[d] = Head(dQueue[d]) /\ \A e \in Decoder : e # d => dBuf'[e] = dBuf[e]
        BY <3>5 DEF TypeOK
      <4>2. \A b \in Buffer : Referenced(b)' <=> Referenced(b)
        BY <2>0, <3>1, <3>3, <4>1 DEF Referenced
      <4> QED BY <3>5, <4>2, PartitionSame
    <3> QED BY <1>7, <2>2, <3>4, <3>5 DEF DecoderCollect
  <2> QED BY <2>1, <2>2
<1>8. ASSUME NEW d \in Decoder, DecoderProcess(d) PROVE PoolPartition'
  <2>1. /\ dBuf[d] \in Buffer /\ dBuf' = [dBuf EXCEPT ![d] = NoBuffer] /\ Reclaim({dBuf[d]})
        /\ UNCHANGED <<capBuf, mgrBuf, queueIn, dQueue>>
    BY <1>8 DEF DecoderProcess, TypeOK
  <2>2. dBuf'[d] = NoBuffer /\ \A e \in Decoder : e # d => dBuf'[e] = dBuf[e]
    BY <2>1 DEF TypeOK
  <2>3. \A b \in Buffer : Referenced(b)' => Referenced(b) BY <2>1, <2>2 DEF Referenced
  <2>4. \A b \in Buffer : Referenced(b) /\ b \notin {dBuf[d]} => Referenced(b)'
    BY <2>1, <2>2 DEF Referenced
  <2> QED BY <2>1, <2>3, <2>4, PartitionReclaim
<1>9. ASSUME UNCHANGED <<free, capBuf, mgrBuf, queueIn, dBuf, dQueue>> PROVE PoolPartition'
  BY <1>9, PartitionSame DEF Referenced
<1>10. CASE CallbackInLosesFrame BY <1>9, <1>10 DEF CallbackInLosesFrame
<1>11. CASE SetAutoTuneState BY <1>9, <1>11 DEF SetAutoTuneState
<1>12. CASE SetWorkerCount BY <1>9, <1>12 DEF SetWorkerCount
<1>13. CASE ManagerWake BY <1>9, <1>13 DEF ManagerWake
<1>14. CASE Tune BY <1>9, <1>14 DEF Tune
<1>15. CASE FeedEnd BY <1>9, <1>15 DEF FeedEnd
<1>16. ASSUME NEW d \in Decoder, DecoderWake(d) PROVE PoolPartition'
  BY <1>9, <1>16 DEF DecoderWake
<1>17. ASSUME NEW d \in Decoder, DecoderLock(d) PROVE PoolPartition'
  BY <1>9, <1>17 DEF DecoderLock
<1>18. CASE UNCHANGED vars BY <1>9, <1>18 DEF vars
<1> QED BY <1>1, <1>2, <1>3, <1>4, <1>5, <1>6, <1>7, <1>8, <1>10, <1>11, <1>12, <1>13,
           <1>14, <1>15, <1>16, <1>17, <1>18
        DEF Next, Device, Api, Manager, Worker

(* A buffer is in the pool exactly when no thread refers to it any more,   *)
(* however many decoders shared it and in whatever order they let go.      *)
THEOREM PoolSound == Spec => []PoolPartition
BY TypeInit, TypeNext, PartitionInit, PartitionNext, PTL DEF Spec

-----------------------------------------------------------------------------
(* What the steps do to the queues, whichever of their branches is taken:  *)
(* a push may lose the oldest buffer and puts the new one at the end.      *)

(* s is q, or what is left of q when its first element is taken. *)
Remains(s, q) == s = q \/ (q # <<>> /\ s = Tail(q))

LEMMA RemainsFacts ==
  ASSUME NEW S, NEW q \in Seq(S), NEW s, Remains(s, q)
  PROVE  /\ s \in Seq(S) /\ Len(s) <= Len(q)
         /\ \A b : InSeq(b, s) => InSeq(b, q)
<1>1. CASE s = q BY <1>1
<1>2. CASE q # <<>> /\ s = Tail(q) BY <1>2, TailFacts
<1> QED BY <1>1, <1>2 DEF Remains

LEMMA InSeqIn == ASSUME NEW S, NEW s \in Seq(S), NEW b, InSeq(b, s) PROVE b \in S
BY DEF InSeq

LEMMA PushAudioInputQueue ==
  ASSUME TypeOK, PushAudioInput
  PROVE  \E s : Remains(s, queueIn) /\ queueIn' = Append(s, capBuf)
<1>1. queueIn \in Seq(Buffer) /\ Len(queueIn) \in Nat BY DEF TypeOK
<1>2. CASE Len(queueIn) > ManagerQueueMax
  <2>1. queueIn # <<>> BY <1>1, <1>2, BoundAssumption
  <2> QED BY <1>1, <1>2, <2>1, BoundAssumption DEF PushAudioInput, Remains
<1>3. CASE Len(queueIn) <= ManagerQueueMax
  BY <1>1, <1>3, BoundAssumption DEF PushAudioInput, Remains
<1> QED BY <1>1, <1>2, <1>3, BoundAssumption

LEMMA WorkerPushQueue ==
  ASSUME TypeOK, NEW d \in Decoder, WorkerPush(d)
  PROVE  /\ \E s : Remains(s, dQueue[d]) /\ dQueue'[d] = Append(s, mgrBuf)
         /\ dEvent'[d] > 0
         /\ \A e \in Decoder : e # d => dQueue'[e] = dQueue[e] /\ dEvent'[e] = dEvent[e]
<1>1. dQueue[d] \in Seq(Buffer) /\ Len(dQueue[d]) \in Nat BY DEF TypeOK
<1>2. /\ dEvent'[d] > 0
      /\ \A e \in Decoder : e # d => dEvent'[e] = dEvent[e]
  BY DEF TypeOK, WorkerPush, Post
<1>3. CASE Len(dQueue[d]) > WorkerQueueMax
  <2>1. dQueue[d] # <<>> BY <1>1, <1>3, BoundAssumption
  <2>2. dQueue' = [dQueue EXCEPT ![d] = Append(Tail(@), mgrBuf)]
    BY <1>1, <1>3, BoundAssumption DEF WorkerPush
  <2>3. /\ dQueue'[d] = Append(Tail(dQueue[d]), mgrBuf)
        /\ \A e \in Decoder : e # d => dQueue'[e] = dQueue[e]
    BY <2>2 DEF TypeOK
  <2> QED BY <1>2, <2>1, <2>3 DEF Remains
<1>4. CASE Len(dQueue[d]) <= WorkerQueueMax
  <2>2. dQueue' = [dQueue EXCEPT ![d] = Append(@, mgrBuf)]
    BY <1>1, <1>4, BoundAssumption DEF WorkerPush
  <2>3. /\ dQueue'[d] = Append(dQueue[d], mgrBuf)
        /\ \A e \in Decoder : e # d => dQueue'[e] = dQueue[e]
    BY <2>2 DEF TypeOK
  <2> QED BY <1>2, <2>3 DEF Remains
<1> QED BY <1>1, <1>3, <1>4, BoundAssumption

LEMMA FeedsADecoder ==
  ASSUME TypeOK, Feed
  PROVE  fed + 1 \in 1..NumDecoders /\ order[fed + 1] \in Decoder /\ mgrBuf \in Buffer
BY NumDecodersType DEF Feed, TypeOK, Orders

LEMMA FeedsTheFirst ==
  ASSUME TypeOK, FeedManual
  PROVE  order[1] \in Decoder /\ mgrBuf \in Buffer
BY NumDecodersType DEF FeedManual, TypeOK, Orders

(* CallbackIn writes into a buffer nobody refers to. *)
LEMMA FramesStable ==
  ASSUME TypeOK, PoolPartition, [Next]_vars
  PROVE  \A b \in Buffer : Referenced(b) => frame'[b] = frame[b]
<1>1. CASE CallbackIn
  <2>1. PICK c \in free : frame' = [frame EXCEPT ![c] = captured + 1] BY <1>1 DEF CallbackIn
  <2>2. \A b \in Buffer : Referenced(b) => b # c BY <2>1 DEF PoolPartition, TypeOK
  <2> QED BY <2>1, <2>2 DEF TypeOK
<1>2. CASE ~CallbackIn
  <2>1. frame' = frame
    BY <1>2 DEF Next, Device, Api, Manager, Worker, vars, CallbackInLosesFrame, PushAudioInput,
                SetAutoTuneState, SetWorkerCount, ManagerWake, CollectAudioInput, Tune, Feed,
                FeedEnd, FeedManual, Release, DecoderWake, DecoderCollect, DecoderLock,
                DecoderProcess
  <2> QED BY <2>1
<1> QED BY <1>1, <1>2

LEMMA HeldStable ==
  ASSUME TypeOK, PoolPartition, [Next]_vars
  PROVE  /\ \A b : InSeq(b, queueIn) => frame'[b] = frame[b]
         /\ mgrBuf # NoBuffer => frame'[mgrBuf] = frame[mgrBuf]
         /\ \A d \in Decoder : /\ dBuf[d] # NoBuffer => frame'[dBuf[d]] = frame[dBuf[d]]
                               /\ \A b : InSeq(b, dQueue[d]) => frame'[b] = frame[b]
<1>1. \A b \in Buffer : Referenced(b) => frame'[b] = frame[b] BY FramesStable
<1>2. queueIn \in Seq(Buffer) /\ \A d \in Decoder : dQueue[d] \in Seq(Buffer) BY DEF TypeOK
<1>3. \A b : InSeq(b, queueIn) => b \in Buffer /\ Referenced(b)
  BY <1>2, InSeqIn DEF Referenced
<1>4. \A d \in Decoder : \A b : InSeq(b, dQueue[d]) => b \in Buffer /\ Referenced(b)
  BY <1>2, InSeqIn DEF Referenced
<1>5. mgrBuf # NoBuffer => mgrBuf \in Buffer /\ Referenced(mgrBuf) BY DEF Referenced, TypeOK
<1>6. \A d \in Decoder : dBuf[d] # NoBuffer => dBuf[d] \in Buffer /\ Referenced(dBuf[d])
  BY DEF Referenced, TypeOK
<1> QED BY <1>1, <1>3, <1>4, <1>5, <1>6

-----------------------------------------------------------------------------
(* Only whole frames get past the manager. *)

(* WholeFrames, by membership. *)
WholeByMember ==
  /\ mgrBuf # NoBuffer => frame[mgrBuf] \notin ShortFrames
  /\ \A d \in Decoder : /\ dBuf[d] # NoBuffer => frame[dBuf[d]] \notin ShortFrames
                        /\ \A b : InSeq(b, dQueue[d]) => frame[b] \notin ShortFrames

LEMMA WholeFramesIs == (WholeFrames <=> WholeByMember) /\ (WholeFrames' <=> WholeByMember')
BY DEF WholeFrames, WholeByMember, InSeq

LEMMA WholeInit == Init => WholeFrames
BY DEF Init, WholeFrames

LEMMA WholeWorkerPush ==
  ASSUME TypeOK, WholeFrames, NEW d \in Decoder, WorkerPush(d), mgrBuf \in Buffer, TypeOK',
         UNCHANGED <<frame, mgrBuf, dBuf>>
  PROVE  WholeFrames'
<1> USE BufferAssumption
<1>1. PICK s : Remains(s, dQueue[d]) /\ dQueue'[d] = Append(s, mgrBuf) BY WorkerPushQueue
<1>2. \A e \in Decoder : e # d => dQueue'[e] = dQueue[e] BY WorkerPushQueue
<1>3. dQueue[d] \in Seq(Buffer) BY DEF TypeOK
<1>4. s \in Seq(Buffer) /\ \A b : InSeq(b, s) => InSeq(b, dQueue[d]) BY <1>1, <1>3, RemainsFacts
<1>5. \A b : InSeq(b, dQueue'[d]) <=> InSeq(b, s) \/ b = mgrBuf BY <1>1, <1>4, AppendInSeq
<1> QED BY <1>2, <1>4, <1>5, WholeFramesIs DEF WholeByMember

LEMMA WholeNext ==
  TypeOK /\ PoolPartition /\ WholeFrames /\ [Next]_vars => WholeFrames'
<1> SUFFICES ASSUME TypeOK, PoolPartition, WholeFrames, [Next]_vars PROVE WholeFrames' OBVIOUS
<1> USE BufferAssumption DEF capVars, mgrVars, apiVars, decVars
<1>0. TypeOK' BY TypeNext
<1>1. ASSUME UNCHANGED <<mgrBuf, dBuf, dQueue>> PROVE WholeFrames'
  BY <1>0, <1>1, HeldStable, WholeFramesIs DEF WholeByMember
<1>2. CASE CollectAudioInput
  <2>1. UNCHANGED <<frame, dBuf, dQueue>> BY <1>2 DEF CollectAudioInput
  <2>2. mgrBuf' = mgrBuf \/ frame[mgrBuf'] \notin ShortFrames BY <1>2 DEF CollectAudioInput
  <2> QED BY <1>0, <2>1, <2>2, WholeFramesIs DEF WholeByMember
<1>3. CASE Feed BY <1>0, <1>3, FeedsADecoder, WholeWorkerPush DEF Feed
<1>4. CASE FeedManual BY <1>0, <1>4, FeedsTheFirst, WholeWorkerPush DEF FeedManual
<1>5. CASE Release
  BY <1>0, <1>5, WholeFramesIs DEF WholeByMember, Release
<1>6. ASSUME NEW d \in Decoder, DecoderCollect(d) PROVE WholeFrames'
  <2>1. dQueue[d] \in Seq(Buffer) /\ UNCHANGED <<frame, mgrBuf>>
    BY <1>6 DEF DecoderCollect, TypeOK
  <2>2. CASE dQueue[d] = <<>> BY <1>1, <1>6, <2>2 DEF DecoderCollect
  <2>3. CASE dQueue[d] # <<>>
    <3>1. \A b : InSeq(b, dQueue[d]) <=> b = Head(dQueue[d]) \/ InSeq(b, Tail(dQueue[d]))
      BY <2>1, <2>3, TailFacts
    <3>2. dQueue'[d] = Tail(dQueue[d]) /\ \A e \in Decoder : e # d => dQueue'[e] = dQueue[e]
      BY <1>6, <2>3 DEF DecoderCollect, TypeOK
    <3>3. dBuf' = dBuf \/ dBuf' = [dBuf EXCEPT ![d] = Head(dQueue[d])]
      BY <1>6, <2>3 DEF DecoderCollect
    <3>4. \A e \in Decoder : dBuf'[e] = dBuf[e] \/ (e = d /\ dBuf'[d] = Head(dQueue[d]))
      BY <3>3 DEF TypeOK
    <3>5. \A b : InSeq(b, dQueue[d]) => frame[b] \notin ShortFrames BY WholeFramesIs DEF WholeByMember
    <3>6. \A e \in Decoder : \A b : InSeq(b, dQueue'[e]) => InSeq(b, dQueue[e])
      BY <3>1, <3>2
    <3> QED BY <1>0, <2>1, <3>1, <3>4, <3>5, <3>6, WholeFramesIs DEF WholeByMember
  <2> QED BY <2>2, <2>3
<1>7. ASSUME NEW d \in Decoder, DecoderProcess(d) PROVE WholeFrames'
  <2>1. UNCHANGED <<frame, mgrBuf, dQueue>> /\ dBuf' = [dBuf EXCEPT ![d] = NoBuffer]
    BY <1>7 DEF DecoderProcess
  <2>2. \A e \in Decoder : dBuf'[e] # NoBuffer => dBuf'[e] = dBuf[e] BY <2>1 DEF TypeOK
  <2> QED BY <1>0, <2>1, <2>2, WholeFramesIs DEF WholeByMember
<1>8. CASE CallbackIn BY <1>1, <1>8 DEF CallbackIn
<1>9. CASE CallbackInLosesFrame BY <1>1, <1>9 DEF CallbackInLosesFrame
<1>10. CASE PushAudioInput BY <1>1, <1>10 DEF PushAudioInput
<1>11. CASE SetAutoTuneState BY <1>1, <1>11 DEF SetAutoTuneState
<1>12. CASE SetWorkerCount BY <1>1, <1>12 DEF SetWorkerCount
<1>13. CASE ManagerWake BY <1>1, <1>13 DEF ManagerWake
<1>14. CASE Tune BY <1>1, <1>14 DEF Tune
<1>15. CASE FeedEnd BY <1>1, <1>15 DEF FeedEnd
<1>16. ASSUME NEW d \in Decoder, DecoderWake(d) PROVE WholeFrames'
  BY <1>1, <1>16 DEF DecoderWake
<1>17. ASSUME NEW d \in Decoder, DecoderLock(d) PROVE WholeFrames'
  BY <1>1, <1>17 DEF DecoderLock
<1>18. CASE UNCHANGED vars BY <1>1, <1>18 DEF vars
<1> QED BY <1>2, <1>3, <1>4, <1>5, <1>6, <1>7, <1>8, <1>9, <1>10, <1>11, <1>12, <1>13, <1>14,
           <1>15, <1>16, <1>17, <1>18
        DEF Next, Device, Api, Manager, Worker

(* A buffer with the wrong number of samples never gets past the manager.  *)
THEOREM OnlyWholeFrames == Spec => []WholeFrames
BY TypeInit, TypeNext, PartitionInit, PartitionNext, WholeInit, WholeNext, PTL DEF Spec

-----------------------------------------------------------------------------
(* No wake-up is lost. *)

LEMMA WakeupsInit == Init => WakeupsSuffice
<1> SUFFICES ASSUME Init PROVE WakeupsSuffice OBVIOUS
<1>1. Len(queueIn) = 0 BY DEF Init
<1> QED BY <1>1 DEF Init, WakeupsSuffice, ManagerWakeups, DecoderWakeups

(* Feeding a decoder posts its event, whatever the queue does. *)
LEMMA WakeupsWorkerPush ==
  ASSUME TypeOK, DecoderWakeups, NEW d \in Decoder, WorkerPush(d), UNCHANGED dPc
  PROVE  DecoderWakeups'
BY WorkerPushQueue DEF DecoderWakeups

LEMMA WakeupsNext ==
  TypeOK /\ WholeFrames /\ WakeupsSuffice /\ [Next]_vars => WakeupsSuffice'
<1> SUFFICES ASSUME TypeOK, WholeFrames, WakeupsSuffice, [Next]_vars PROVE WakeupsSuffice'
  OBVIOUS
<1> USE DEF capVars, mgrVars, apiVars, decVars
<1>0. queueIn \in Seq(Buffer) /\ Len(queueIn) \in Nat /\ event \in Nat BY DEF TypeOK
<1>1. ASSUME UNCHANGED <<queueIn, event>>, mgrPc' = "run" <=> mgrPc = "run" PROVE ManagerWakeups'
  BY <1>1 DEF WakeupsSuffice, ManagerWakeups
<1>2. ASSUME UNCHANGED <<dQueue, dEvent, dPc>> PROVE DecoderWakeups'
  BY <1>2 DEF WakeupsSuffice, DecoderWakeups
<1>3. CASE PushAudioInput
  <2>1. PICK s : Remains(s, queueIn) /\ queueIn' = Append(s, capBuf)
    BY <1>3, PushAudioInputQueue
  <2>2. s \in Seq(Buffer) /\ Len(s) <= Len(queueIn) BY <1>0, <2>1, RemainsFacts
  <2>3. capBuf \in Buffer /\ event' = event + 1 /\ mgrPc' = mgrPc
    BY <1>3 DEF PushAudioInput, Post, TypeOK
  <2>4. Len(queueIn') = Len(s) + 1 /\ Len(s) \in Nat BY <2>1, <2>2, <2>3
  <2>5. ManagerWakeups'
    BY <1>0, <2>2, <2>3, <2>4 DEF WakeupsSuffice, ManagerWakeups
  <2> QED BY <1>2, <1>3, <2>5 DEF PushAudioInput, WakeupsSuffice
<1>4. CASE ManagerWake
  BY <1>0, <1>2, <1>4 DEF ManagerWake, WakeupsSuffice, ManagerWakeups
<1>5. CASE CollectAudioInput
  <2>1. mgrPc = "run" /\ mgrPc' # "run" /\ event' = event
    BY <1>5 DEF CollectAudioInput
  <2>2. CASE queueIn = <<>>
    <3>1. Len(queueIn') = 0 BY <1>5, <2>2 DEF CollectAudioInput
    <3>2. ManagerWakeups' BY <1>0, <2>1, <3>1 DEF ManagerWakeups
    <3> QED BY <1>2, <1>5, <3>2 DEF CollectAudioInput, WakeupsSuffice
  <2>3. CASE queueIn # <<>>
    <3>1. Len(queueIn') = Len(queueIn) - 1 BY <1>0, <1>5, <2>3, TailFacts DEF CollectAudioInput
    <3>2. ManagerWakeups' BY <1>0, <2>1, <3>1 DEF WakeupsSuffice, ManagerWakeups
    <3> QED BY <1>2, <1>5, <3>2 DEF CollectAudioInput, WakeupsSuffice
  <2> QED BY <2>2, <2>3
<1>6. CASE Feed
  <2>1. DecoderWakeups'
    BY <1>6, FeedsADecoder, WakeupsWorkerPush DEF Feed, WakeupsSuffice
  <2> QED BY <1>1, <1>6, <2>1 DEF Feed, WakeupsSuffice
<1>7. CASE FeedManual
  <2>1. DecoderWakeups'
    BY <1>7, FeedsTheFirst, WakeupsWorkerPush DEF FeedManual, WakeupsSuffice
  <2> QED BY <1>1, <1>7, <2>1 DEF FeedManual, WakeupsSuffice
<1>8. ASSUME NEW d \in Decoder, DecoderWake(d) PROVE WakeupsSuffice'
  <2>1. dPc'[d] = "run" /\ \A e \in Decoder : e # d => dPc'[e] = dPc[e] /\ dEvent'[e] = dEvent[e]
    BY <1>8 DEF DecoderWake, TypeOK
  <2>2. DecoderWakeups' BY <1>8, <2>1 DEF DecoderWake, WakeupsSuffice, DecoderWakeups
  <2> QED BY <1>1, <1>8, <2>2 DEF DecoderWake, WakeupsSuffice
<1>9. ASSUME NEW d \in Decoder, DecoderCollect(d) PROVE WakeupsSuffice'
  <2>0. dQueue[d] \in Seq(Buffer) /\ UNCHANGED <<queueIn, event, mgrPc, dEvent>>
    BY <1>9 DEF DecoderCollect, TypeOK
  <2>1. CASE dQueue[d] = <<>>
    <3>1. dQueue' = dQueue /\ \A e \in Decoder : e # d => dPc'[e] = dPc[e]
      BY <1>9, <2>1 DEF DecoderCollect, TypeOK
    <3>2. DecoderWakeups' BY <2>0, <2>1, <3>1 DEF WakeupsSuffice, DecoderWakeups
    <3> QED BY <1>1, <2>0, <3>2 DEF WakeupsSuffice
  <2>2. CASE dQueue[d] # <<>>
    <3>1. InSeq(Head(dQueue[d]), dQueue[d]) BY <2>0, <2>2, TailFacts
    <3>2. frame[Head(dQueue[d])] \notin ShortFrames
      BY <3>1, WholeFramesIs DEF WholeByMember
    <3>3. dPc' = [dPc EXCEPT ![d] = "claim"] /\ dQueue' = [dQueue EXCEPT ![d] = Tail(@)]
      BY <1>9, <2>2, <3>2 DEF DecoderCollect
    <3>4. /\ dPc'[d] = "claim"
          /\ \A e \in Decoder : e # d => dPc'[e] = dPc[e] /\ dQueue'[e] = dQueue[e]
      BY <3>3 DEF TypeOK
    <3>5. DecoderWakeups' BY <2>0, <3>4 DEF WakeupsSuffice, DecoderWakeups
    <3> QED BY <1>1, <2>0, <3>5 DEF WakeupsSuffice
  <2> QED BY <2>1, <2>2
<1>10. ASSUME NEW d \in Decoder, DecoderLock(d) PROVE WakeupsSuffice'
  <2>1. dPc'[d] = "process" /\ \A e \in Decoder : e # d => dPc'[e] = dPc[e]
    BY <1>10 DEF DecoderLock, TypeOK
  <2>2. DecoderWakeups' BY <1>10, <2>1 DEF DecoderLock, WakeupsSuffice, DecoderWakeups
  <2> QED BY <1>1, <1>10, <2>2 DEF DecoderLock, WakeupsSuffice
<1>11. ASSUME NEW d \in Decoder, DecoderProcess(d) PROVE WakeupsSuffice'
  <2>1. dPc'[d] = "run" /\ \A e \in Decoder : e # d => dPc'[e] = dPc[e]
    BY <1>11 DEF DecoderProcess, TypeOK
  <2>2. DecoderWakeups' BY <1>11, <2>1 DEF DecoderProcess, WakeupsSuffice, DecoderWakeups
  <2> QED BY <1>1, <1>11, <2>2 DEF DecoderProcess, WakeupsSuffice
<1>12. CASE CallbackIn BY <1>1, <1>2, <1>12 DEF CallbackIn, WakeupsSuffice
<1>13. CASE CallbackInLosesFrame BY <1>1, <1>2, <1>13 DEF CallbackInLosesFrame, WakeupsSuffice
<1>14. CASE SetAutoTuneState BY <1>1, <1>2, <1>14 DEF SetAutoTuneState, WakeupsSuffice
<1>15. CASE SetWorkerCount BY <1>1, <1>2, <1>15 DEF SetWorkerCount, WakeupsSuffice
<1>16. CASE Tune BY <1>1, <1>2, <1>16 DEF Tune, WakeupsSuffice
<1>17. CASE FeedEnd BY <1>1, <1>2, <1>17 DEF FeedEnd, WakeupsSuffice
<1>18. CASE Release
  <2>1. mgrPc' # "run" /\ mgrPc # "run" BY <1>18 DEF Release
  <2> QED BY <1>1, <1>2, <1>18, <2>1 DEF Release, WakeupsSuffice
<1>19. CASE UNCHANGED vars BY <1>1, <1>2, <1>19 DEF vars, WakeupsSuffice
<1> QED BY <1>3, <1>4, <1>5, <1>6, <1>7, <1>8, <1>9, <1>10, <1>11, <1>12, <1>13, <1>14,
           <1>15, <1>16, <1>17, <1>18, <1>19
        DEF Next, Device, Api, Manager, Worker

(* There is a wake-up for everything queued: for every buffer at the       *)
(* manager, which takes one a wake-up, and for every decoder that has any, *)
(* because a decoder never leaves its loop on a short buffer.              *)
THEOREM NoWakeupLost == Spec => []WakeupsSuffice
BY TypeInit, TypeNext, PartitionInit, PartitionNext, WholeInit, WholeNext,
   WakeupsInit, WakeupsNext, PTL DEF Spec

-----------------------------------------------------------------------------
(* Frames keep the device's order.                                         *)

(* The frames f of the buffers in s grow along s. *)
Increasing(s, f) == \A i \in 1..Len(s) : \A j \in 1..i-1 : f[s[j]] < f[s[i]]

LEMMA IncreasingSame ==
  ASSUME NEW S, NEW s \in Seq(S), NEW f, NEW g, \A b : InSeq(b, s) => g[b] = f[b],
         Increasing(s, f)
  PROVE  Increasing(s, g)
<1> SUFFICES ASSUME NEW i \in 1..Len(s), NEW j \in 1..i-1 PROVE g[s[j]] < g[s[i]]
  BY DEF Increasing
<1>1. j \in 1..Len(s) OBVIOUS
<1>2. InSeq(s[i], s) /\ InSeq(s[j], s) BY <1>1 DEF InSeq
<1> QED BY <1>1, <1>2 DEF Increasing

LEMMA IncreasingAppend ==
  ASSUME NEW S, NEW s \in Seq(S), NEW f, NEW x \in S, Increasing(s, f),
         \A b : InSeq(b, s) => f[b] < f[x]
  PROVE  Increasing(Append(s, x), f)
<1>1. /\ Len(Append(s, x)) = Len(s) + 1
      /\ \A i \in 1..Len(s) : Append(s, x)[i] = s[i]
      /\ Append(s, x)[Len(s) + 1] = x
  BY AppendFacts
<1> SUFFICES ASSUME NEW i \in 1..Len(Append(s, x)), NEW j \in 1..i-1
             PROVE  f[Append(s, x)[j]] < f[Append(s, x)[i]]
  BY DEF Increasing
<1>2. j \in 1..Len(s) /\ Append(s, x)[j] = s[j] BY <1>1
<1>3. CASE i = Len(s) + 1
  <2>1. InSeq(s[j], s) BY <1>2 DEF InSeq
  <2> QED BY <1>1, <1>2, <1>3, <2>1
<1>4. CASE i # Len(s) + 1
  <2>1. i \in 1..Len(s) /\ Append(s, x)[i] = s[i] BY <1>1, <1>4
  <2> QED BY <1>2, <2>1 DEF Increasing
<1> QED BY <1>3, <1>4

LEMMA IncreasingTail ==
  ASSUME NEW S, NEW s \in Seq(S), NEW f, s # <<>>, Increasing(s, f)
  PROVE  /\ Increasing(Tail(s), f)
         /\ \A b : InSeq(b, Tail(s)) => f[Head(s)] < f[b]
<1>1. /\ Len(s) \in Nat \ {0} /\ Len(Tail(s)) = Len(s) - 1 /\ Head(s) = s[1]
      /\ \A i \in 1..Len(Tail(s)) : Tail(s)[i] = s[i + 1]
  BY TailFacts
<1>2. ASSUME NEW i \in 1..Len(Tail(s)), NEW j \in 1..i-1 PROVE f[Tail(s)[j]] < f[Tail(s)[i]]
  <2>1. /\ i + 1 \in 1..Len(s) /\ Tail(s)[i] = s[i + 1]
        /\ j + 1 \in 1..(i+1)-1 /\ j \in 1..Len(Tail(s)) /\ Tail(s)[j] = s[j + 1]
    BY <1>1
  <2> QED BY <2>1 DEF Increasing
<1>3. ASSUME NEW b, InSeq(b, Tail(s)) PROVE f[Head(s)] < f[b]
  <2>1. PICK i \in 1..Len(Tail(s)) : Tail(s)[i] = b BY <1>3 DEF InSeq
  <2>2. i + 1 \in 1..Len(s) /\ s[i + 1] = b /\ 1 \in 1..(i+1)-1 BY <1>1, <2>1
  <2> QED BY <1>1, <2>2 DEF Increasing
<1> QED BY <1>2, <1>3 DEF Increasing

LEMMA IncreasingRemains ==
  ASSUME NEW S, NEW q \in Seq(S), NEW s, Remains(s, q), NEW f, Increasing(q, f)
  PROVE  Increasing(s, f)
BY IncreasingTail DEF Remains

(* The two halves of FramesInOrder, by membership. *)
ManagerByMember ==
  /\ capBuf # NoBuffer => frame[capBuf] = captured /\ taken < captured
  /\ mgrBuf # NoBuffer => frame[mgrBuf] = taken
  /\ \A b : InSeq(b, queueIn) => /\ taken < frame[b] /\ frame[b] <= captured
                                 /\ capBuf # NoBuffer => frame[b] < captured
  /\ Increasing(queueIn, frame)
  /\ taken <= captured

LEMMA ManagerOrderIs ==
  (ManagerInOrder <=> ManagerByMember) /\ (ManagerInOrder' <=> ManagerByMember')
BY DEF ManagerInOrder, ManagerByMember, InSeq, Increasing

BehindByMember(d, n) ==
  /\ done[d] < n
  /\ dBuf[d] # NoBuffer => frame[dBuf[d]] < n
  /\ \A b : InSeq(b, dQueue[d]) => frame[b] < n

DecoderByMember(d) ==
  /\ dBuf[d] # NoBuffer => done[d] < frame[dBuf[d]]
  /\ \A b : InSeq(b, dQueue[d]) => /\ done[d] < frame[b]
                                   /\ dBuf[d] # NoBuffer => frame[dBuf[d]] < frame[b]
  /\ Increasing(dQueue[d], frame)
  /\ BehindByMember(d, taken + 1)
  /\ ToBeFed(d) => BehindByMember(d, taken)

LEMMA BehindIs ==
  ASSUME NEW d \in Decoder, NEW n
  PROVE  (Behind(d, n) <=> BehindByMember(d, n)) /\ (Behind(d, n)' <=> BehindByMember(d, n)')
BY DEF Behind, BehindByMember, InSeq

LEMMA DecoderOrderIs ==
  ASSUME NEW d \in Decoder
  PROVE  /\ DecoderInOrder(d) <=> DecoderByMember(d)
         /\ DecoderInOrder(d)' <=> DecoderByMember(d)'
<1>1. /\ Behind(d, taken + 1) <=> BehindByMember(d, taken + 1)
      /\ Behind(d, taken) <=> BehindByMember(d, taken)
  BY DEF Behind, BehindByMember, InSeq
<1>2. /\ Behind(d, taken + 1)' <=> BehindByMember(d, taken + 1)'
      /\ Behind(d, taken)' <=> BehindByMember(d, taken)'
  BY DEF Behind, BehindByMember, InSeq
<1> QED BY <1>1, <1>2 DEF DecoderInOrder, DecoderByMember, InSeq, Increasing

LEMMA OrderInit == Init => FramesInOrder
BY DEF Init, FramesInOrder, ManagerInOrder, DecoderInOrder, Behind, ToBeFed

-----------------------------------------------------------------------------
(* From the device to the manager. *)
LEMMA ManagerOrderNext ==
  TypeOK /\ PoolPartition /\ ManagerInOrder /\ [Next]_vars => ManagerInOrder'
<1> SUFFICES ASSUME TypeOK, PoolPartition, ManagerInOrder, [Next]_vars PROVE ManagerByMember'
  BY ManagerOrderIs
<1> USE BufferAssumption DEF capVars, mgrVars, apiVars, decVars
<1>0. /\ queueIn \in Seq(Buffer) /\ captured \in Nat /\ taken \in Nat
      /\ \A b \in Buffer : frame[b] \in Nat
  BY BoundAssumption DEF TypeOK
<1>00. ManagerByMember /\ \A b : InSeq(b, queueIn) => b \in Buffer
  BY <1>0, InSeqIn, ManagerOrderIs
<1>1. ASSUME UNCHANGED <<frame, capBuf, captured, mgrBuf, taken, queueIn>> PROVE ManagerByMember'
  BY <1>00, <1>1 DEF ManagerByMember, Increasing
<1>2. CASE CallbackIn
  <2>1. PICK c \in free : capBuf' = c /\ frame' = [frame EXCEPT ![c] = captured + 1]
    BY <1>2 DEF CallbackIn
  <2>2. c \in Buffer /\ c # NoBuffer /\ frame'[c] = captured + 1 BY <2>1 DEF TypeOK
  <2>3. captured' = captured + 1 /\ UNCHANGED <<queueIn, mgrBuf, taken>> BY <1>2 DEF CallbackIn
  <2>4. /\ \A b : InSeq(b, queueIn) => frame'[b] = frame[b]
        /\ mgrBuf # NoBuffer => frame'[mgrBuf] = frame[mgrBuf]
    BY HeldStable
  <2>5. Increasing(queueIn, frame') BY <1>00, <1>0, <2>4, IncreasingSame DEF ManagerByMember
  <2>6. \A b : InSeq(b, queueIn) => frame'[b] <= captured BY <1>00, <2>4 DEF ManagerByMember
  <2>7. \A b : InSeq(b, queueIn) => /\ taken < frame'[b] /\ frame'[b] < captured + 1
    BY <1>0, <1>00, <2>4, <2>6 DEF ManagerByMember
  <2>8. taken < captured + 1 BY <1>00, <1>0 DEF ManagerByMember
  <2>9. \A b : InSeq(b, queueIn) => frame'[b] <= captured + 1
    BY <1>0, <1>00, <2>4, <2>6
  <2> QED BY <1>00, <1>0, <2>1, <2>2, <2>3, <2>4, <2>5, <2>7, <2>8, <2>9 DEF ManagerByMember
<1>3. CASE CallbackInLosesFrame
  <2>1. /\ captured' = captured + 1 /\ capBuf' = NoBuffer
        /\ UNCHANGED <<frame, mgrBuf, taken, queueIn>>
    BY <1>3 DEF CallbackInLosesFrame
  <2>2. Increasing(queueIn', frame') BY <1>00, <2>1 DEF ManagerByMember
  <2>3. \A b : InSeq(b, queueIn) => frame[b] <= captured + 1
    BY <1>0, <1>00 DEF ManagerByMember
  <2> QED BY <1>00, <1>0, <2>1, <2>2, <2>3 DEF ManagerByMember
<1>4. CASE PushAudioInput
  <2>1. PICK s : Remains(s, queueIn) /\ queueIn' = Append(s, capBuf)
    BY <1>4, PushAudioInputQueue
  <2>2. s \in Seq(Buffer) /\ \A b : InSeq(b, s) => InSeq(b, queueIn)
    BY <1>0, <2>1, RemainsFacts
  <2>3. /\ capBuf \in Buffer /\ capBuf # NoBuffer /\ capBuf' = NoBuffer
        /\ UNCHANGED <<frame, captured, mgrBuf, taken>>
    BY <1>4 DEF PushAudioInput, TypeOK
  <2>4. Increasing(s, frame) BY <1>00, <1>0, <2>1, IncreasingRemains DEF ManagerByMember
  <2>5. \A b : InSeq(b, s) => frame[b] < frame[capBuf] BY <1>00, <2>2, <2>3 DEF ManagerByMember
  <2>6. Increasing(queueIn', frame') BY <2>1, <2>2, <2>3, <2>4, <2>5, IncreasingAppend
  <2>7. \A b : InSeq(b, queueIn') <=> InSeq(b, s) \/ b = capBuf
    <3>1. \A b : InSeq(b, Append(s, capBuf)) <=> InSeq(b, s) \/ b = capBuf
      BY <2>2, <2>3, AppendFacts
    <3> QED BY <2>1, <3>1
  <2> QED BY <1>00, <1>0, <2>2, <2>3, <2>6, <2>7 DEF ManagerByMember
<1>5. CASE CollectAudioInput
  <2>0. UNCHANGED <<frame, capBuf, captured>> /\ mgrBuf = NoBuffer
    BY <1>5 DEF CollectAudioInput, TypeOK
  <2>1. CASE queueIn = <<>> BY <1>1, <1>5, <2>1 DEF CollectAudioInput
  <2>2. CASE queueIn # <<>>
    <3>1. /\ queueIn' = Tail(queueIn) /\ taken' = frame[Head(queueIn)]
          /\ mgrBuf' = NoBuffer \/ mgrBuf' = Head(queueIn)
      BY <1>5, <2>0, <2>2 DEF CollectAudioInput
    <3>2. \A b : InSeq(b, queueIn) <=> b = Head(queueIn) \/ InSeq(b, Tail(queueIn))
      BY <1>0, <2>2, TailFacts
    <3>3. /\ Increasing(Tail(queueIn), frame)
          /\ \A b : InSeq(b, Tail(queueIn)) => frame[Head(queueIn)] < frame[b]
      BY <1>00, <1>0, <2>2, IncreasingTail DEF ManagerByMember
    <3>4. Increasing(queueIn', frame') BY <2>0, <3>1, <3>3
    <3>5. taken' <= captured /\ (capBuf # NoBuffer => taken' < captured)
      BY <1>00, <3>1, <3>2 DEF ManagerByMember
    <3>6. \A b : InSeq(b, queueIn') => taken' < frame[b] BY <3>1, <3>3
    <3>7. \A b : InSeq(b, queueIn') => InSeq(b, queueIn) BY <3>1, <3>2
    <3> QED BY <1>00, <2>0, <3>1, <3>4, <3>5, <3>6, <3>7 DEF ManagerByMember
  <2> QED BY <2>1, <2>2
<1>6. CASE Release
  <2>1. mgrBuf' = NoBuffer /\ UNCHANGED <<frame, capBuf, captured, taken, queueIn>>
    BY <1>6 DEF Release
  <2>2. Increasing(queueIn', frame') BY <1>00, <2>1 DEF ManagerByMember
  <2> QED BY <1>00, <2>1, <2>2 DEF ManagerByMember
<1>7. CASE SetAutoTuneState \/ SetWorkerCount
  BY <1>1, <1>7 DEF SetAutoTuneState, SetWorkerCount
<1>8. CASE ManagerWake \/ Tune \/ Feed \/ FeedEnd \/ FeedManual
  BY <1>1, <1>8 DEF ManagerWake, Tune, Feed, FeedEnd, FeedManual
<1>9. ASSUME NEW d \in Decoder, Worker(d) PROVE ManagerByMember'
  BY <1>00, <1>1, <1>9 DEF Worker, DecoderWake, DecoderCollect, DecoderLock, DecoderProcess
<1>10. CASE UNCHANGED vars BY <1>1, <1>10 DEF vars
<1> QED BY <1>2, <1>3, <1>4, <1>5, <1>6, <1>7, <1>8, <1>9, <1>10 DEF Next, Device, Api, Manager

-----------------------------------------------------------------------------
(* From the manager to decoder d. *)

LEMMA NumbersTyped ==
  ASSUME TypeOK
  PROVE  /\ captured \in Nat /\ taken \in Nat
         /\ \A b \in Buffer : frame[b] \in Nat
         /\ \A d \in Decoder :
              /\ done[d] \in Nat /\ dQueue[d] \in Seq(Buffer)
              /\ dBuf[d] # NoBuffer => dBuf[d] \in Buffer /\ frame[dBuf[d]] \in Nat
              /\ \A b : InSeq(b, dQueue[d]) => b \in Buffer /\ frame[b] \in Nat
<1>1. /\ captured \in Nat /\ taken \in Nat
      /\ \A b \in Buffer : frame[b] \in Nat
  BY BoundAssumption DEF TypeOK
<1>2. \A d \in Decoder :
        /\ done[d] \in Nat /\ dQueue[d] \in Seq(Buffer)
        /\ dBuf[d] # NoBuffer => dBuf[d] \in Buffer
  BY BoundAssumption DEF TypeOK
<1> QED BY <1>1, <1>2, InSeqIn

(* A step that leaves d alone, whatever the manager takes meanwhile. *)
LEMMA DecoderSame ==
  ASSUME TypeOK, PoolPartition, [Next]_vars, NEW d \in Decoder, DecoderInOrder(d),
         dQueue'[d] = dQueue[d], dBuf'[d] = dBuf[d], done'[d] = done[d], taken' \in Nat,
         \/ taken' = taken /\ (ToBeFed(d)' => ToBeFed(d))
         \/ taken' > taken
  PROVE  DecoderInOrder(d)'
<1>1. /\ dBuf[d] # NoBuffer => frame'[dBuf[d]] = frame[dBuf[d]]
      /\ \A b : InSeq(b, dQueue[d]) => frame'[b] = frame[b]
  BY HeldStable
<1>2. /\ taken \in Nat /\ done[d] \in Nat /\ dQueue[d] \in Seq(Buffer)
      /\ dBuf[d] # NoBuffer => frame[dBuf[d]] \in Nat
      /\ \A b : InSeq(b, dQueue[d]) => frame[b] \in Nat
  BY NumbersTyped
<1>3. DecoderByMember(d) BY DecoderOrderIs
<1>4. Increasing(dQueue[d], frame') BY <1>1, <1>2, <1>3, IncreasingSame DEF DecoderByMember
<1>5. /\ dBuf[d] # NoBuffer => done[d] < frame'[dBuf[d]]
      /\ \A b : InSeq(b, dQueue[d]) => /\ done[d] < frame'[b]
                                       /\ dBuf[d] # NoBuffer => frame'[dBuf[d]] < frame'[b]
  BY <1>1, <1>3 DEF DecoderByMember
<1>6. /\ done[d] < taken + 1
      /\ dBuf[d] # NoBuffer => frame'[dBuf[d]] < taken + 1
      /\ \A b : InSeq(b, dQueue[d]) => frame'[b] < taken + 1
  BY <1>1, <1>3 DEF DecoderByMember, BehindByMember
<1>7. ASSUME NEW n \in Nat, n >= taken + 1 PROVE BehindByMember(d, n)'
  BY <1>1, <1>2, <1>6, <1>7 DEF BehindByMember
<1>8. BehindByMember(d, taken + 1)' BY <1>2, <1>7
<1>9. ASSUME ToBeFed(d)' PROVE BehindByMember(d, taken)'
  <2>1. CASE taken' > taken BY <1>2, <1>7, <2>1
  <2>2. CASE taken' = taken /\ ToBeFed(d)
    <3>1. BehindByMember(d, taken) BY <1>3, <2>2 DEF DecoderByMember
    <3> QED BY <1>1, <2>2, <3>1 DEF BehindByMember
  <2> QED BY <1>9, <2>1, <2>2
<1> QED BY <1>4, <1>5, <1>8, <1>9, DecoderOrderIs DEF DecoderByMember

(* The manager queues its buffer at d, to which this buffer is new. *)
LEMMA DecoderFed ==
  ASSUME TypeOK, NEW d \in Decoder, DecoderInOrder(d), WorkerPush(d), ToBeFed(d), ~ToBeFed(d)',
         mgrBuf \in Buffer, frame[mgrBuf] = taken, UNCHANGED <<frame, taken, dBuf, done>>
  PROVE  DecoderInOrder(d)'
<1>1. PICK s : Remains(s, dQueue[d]) /\ dQueue'[d] = Append(s, mgrBuf) BY WorkerPushQueue
<1>2. /\ taken \in Nat /\ done[d] \in Nat /\ dQueue[d] \in Seq(Buffer)
      /\ dBuf[d] # NoBuffer => frame[dBuf[d]] \in Nat
      /\ \A b : InSeq(b, dQueue[d]) => frame[b] \in Nat
  BY NumbersTyped
<1>3. s \in Seq(Buffer) /\ \A b : InSeq(b, s) => InSeq(b, dQueue[d]) BY <1>1, <1>2, RemainsFacts
<1>4. DecoderByMember(d) /\ BehindByMember(d, taken) BY DecoderOrderIs DEF DecoderByMember
<1>5. \A b : InSeq(b, dQueue'[d]) <=> InSeq(b, s) \/ b = mgrBuf
  <2>1. \A b : InSeq(b, Append(s, mgrBuf)) <=> InSeq(b, s) \/ b = mgrBuf BY <1>3, AppendFacts
  <2> QED BY <1>1, <2>1
<1>6. Increasing(dQueue'[d], frame)
  <2>1. Increasing(s, frame) BY <1>1, <1>2, <1>4, IncreasingRemains DEF DecoderByMember
  <2>2. \A b : InSeq(b, s) => frame[b] < frame[mgrBuf] BY <1>3, <1>4 DEF BehindByMember
  <2> QED BY <1>1, <1>3, <2>1, <2>2, IncreasingAppend
<1>7. \A b : InSeq(b, dQueue'[d]) => /\ done[d] < frame[b] /\ frame[b] < taken + 1
                                     /\ dBuf[d] # NoBuffer => frame[dBuf[d]] < frame[b]
  <2>1. \A b : InSeq(b, s) => /\ done[d] < frame[b] /\ frame[b] < taken
                              /\ dBuf[d] # NoBuffer => frame[dBuf[d]] < frame[b]
    BY <1>3, <1>4 DEF DecoderByMember, BehindByMember
  <2>2. done[d] < taken /\ (dBuf[d] # NoBuffer => frame[dBuf[d]] < taken)
    BY <1>4 DEF BehindByMember
  <2> QED BY <1>2, <1>3, <1>5, <2>1, <2>2
<1>8. BehindByMember(d, taken + 1)' BY <1>4, <1>7 DEF DecoderByMember, BehindByMember
<1> QED BY <1>4, <1>6, <1>7, <1>8, DecoderOrderIs DEF DecoderByMember

LEMMA DecoderOrderNext ==
  ASSUME TypeOK, PoolPartition, FramesInOrder, [Next]_vars, NEW d \in Decoder
  PROVE  DecoderInOrder(d)'
<1> USE BufferAssumption DEF capVars, mgrVars, apiVars, decVars
<1>0. /\ taken \in Nat /\ taken' \in Nat /\ done[d] \in Nat /\ dQueue[d] \in Seq(Buffer)
      /\ dBuf[d] # NoBuffer => frame[dBuf[d]] \in Nat
      /\ \A b : InSeq(b, dQueue[d]) => frame[b] \in Nat
  <2>1. taken' \in Nat BY TypeNext, BoundAssumption DEF TypeOK
  <2> QED BY <2>1, NumbersTyped
<1>1. ManagerByMember /\ DecoderInOrder(d) /\ DecoderByMember(d)
  BY ManagerOrderIs, DecoderOrderIs DEF FramesInOrder
<1>2. ASSUME UNCHANGED <<dQueue, dBuf, done>>, taken' = taken, ToBeFed(d)' => ToBeFed(d)
      PROVE  DecoderInOrder(d)'
  BY <1>0, <1>1, <1>2, DecoderSame
<1>3. CASE CollectAudioInput
  <2>1. UNCHANGED <<dQueue, dBuf, done>> BY <1>3 DEF CollectAudioInput
  <2>2. CASE queueIn = <<>>
    <3>1. taken' = taken /\ mgrPc' = "wait" BY <1>3, <2>2 DEF CollectAudioInput
    <3> QED BY <1>2, <2>1, <3>1 DEF ToBeFed
  <2>3. CASE queueIn # <<>>
    <3>0. queueIn \in Seq(Buffer) BY DEF TypeOK
    <3>1. InSeq(Head(queueIn), queueIn)
      <4>1. \A b : InSeq(b, queueIn) <=> b = Head(queueIn) \/ InSeq(b, Tail(queueIn))
        BY <2>3, <3>0, TailFacts
      <4> QED BY <4>1
    <3>2. taken' > taken BY <1>1, <1>3, <2>3, <3>1 DEF CollectAudioInput, ManagerByMember
    <3> QED BY <1>0, <1>1, <2>1, <3>2, DecoderSame
  <2> QED BY <2>2, <2>3
<1>4. CASE Tune
  <2>1. ToBeFed(d) BY <1>4 DEF Tune, ToBeFed
  <2> QED BY <1>2, <1>4, <2>1 DEF Tune
<1>5. CASE Feed
  <2>1. fed + 1 \in 1..NumDecoders /\ order[fed + 1] \in Decoder /\ mgrBuf \in Buffer
    BY <1>5, FeedsADecoder
  <2>2. /\ WorkerPush(order[fed + 1]) /\ mgrPc = "feed" /\ mgrPc' = "feed" /\ fed' = fed + 1
        /\ UNCHANGED <<frame, taken, order, dBuf, done>>
    BY <1>5 DEF Feed
  <2>3. CASE order[fed + 1] = d
    <3>1. \A i \in 1..fed : order[i] # d
      <4>1. \A i \in 1..fed : i \in 1..NumDecoders /\ i # fed + 1 BY <2>1, NumDecodersType DEF TypeOK
      <4> QED BY <2>1, <2>3, <4>1 DEF TypeOK, Orders
    <3>2. ToBeFed(d) BY <2>2, <3>1 DEF ToBeFed
    <3>3. ~ToBeFed(d)'
      <4>1. fed + 1 \in 1..fed' BY <2>1, <2>2, NumDecodersType
      <4> QED BY <2>2, <2>3, <4>1 DEF ToBeFed
    <3>4. frame[mgrBuf] = taken BY <1>1, <2>1 DEF ManagerByMember
    <3> QED BY <1>1, <2>1, <2>2, <2>3, <3>2, <3>3, <3>4, DecoderFed
  <2>4. CASE order[fed + 1] # d
    <3>1. dQueue'[d] = dQueue[d] BY <2>1, <2>2, <2>4, WorkerPushQueue
    <3>2. ToBeFed(d)' => ToBeFed(d)
      <4>1. \A i \in 1..fed : i \in 1..fed' BY <2>2, NumDecodersType DEF TypeOK
      <4> QED BY <2>2, <4>1 DEF ToBeFed
    <3> QED BY <1>0, <1>1, <2>2, <3>1, <3>2, DecoderSame
  <2> QED BY <2>3, <2>4
<1>6. CASE FeedManual
  <2>1. order[1] \in Decoder /\ mgrBuf \in Buffer BY <1>6, FeedsTheFirst
  <2>2. /\ WorkerPush(order[1]) /\ mgrPc = "manual" /\ mgrPc' = "release"
        /\ UNCHANGED <<frame, taken, dBuf, done>>
    BY <1>6 DEF FeedManual
  <2>3. ToBeFed(d) /\ ~ToBeFed(d)' BY <2>2 DEF ToBeFed
  <2>4. CASE order[1] = d
    <3>1. frame[mgrBuf] = taken BY <1>1, <2>1 DEF ManagerByMember
    <3> QED BY <1>1, <2>1, <2>2, <2>3, <2>4, <3>1, DecoderFed
  <2>5. CASE order[1] # d
    <3>1. dQueue'[d] = dQueue[d] BY <2>1, <2>2, <2>5, WorkerPushQueue
    <3> QED BY <1>0, <1>1, <2>2, <2>3, <3>1, DecoderSame
  <2> QED BY <2>4, <2>5
<1>7. ASSUME NEW e \in Decoder, DecoderCollect(e) PROVE DecoderInOrder(d)'
  <2>1. /\ dBuf[e] = NoBuffer /\ UNCHANGED <<frame, taken, done, mgrPc, fed, order>>
        /\ ToBeFed(d)' <=> ToBeFed(d)
    BY <1>7 DEF DecoderCollect, TypeOK, ToBeFed
  <2>2. CASE dQueue[e] = <<>> BY <1>2, <1>7, <2>1, <2>2 DEF DecoderCollect
  <2>3. CASE dQueue[e] # <<>> /\ e # d
    <3>1. dQueue'[d] = dQueue[d] /\ dBuf'[d] = dBuf[d]
      BY <1>7, <2>3 DEF DecoderCollect, TypeOK
    <3> QED BY <1>0, <1>1, <2>1, <3>1, DecoderSame
  <2>4. CASE dQueue[e] # <<>> /\ e = d
    <3>1. dQueue'[d] = Tail(dQueue[d]) /\ (dBuf'[d] = NoBuffer \/ dBuf'[d] = Head(dQueue[d]))
      BY <1>7, <2>1, <2>4 DEF DecoderCollect, TypeOK
    <3>2. \A b : InSeq(b, dQueue[d]) <=> b = Head(dQueue[d]) \/ InSeq(b, Tail(dQueue[d]))
      BY <1>0, <2>4, TailFacts
    <3>3. /\ Increasing(Tail(dQueue[d]), frame)
          /\ \A b : InSeq(b, Tail(dQueue[d])) => frame[Head(dQueue[d])] < frame[b]
      BY <1>0, <1>1, <2>4, IncreasingTail DEF DecoderByMember
    <3>4. done[d] < frame[Head(dQueue[d])] /\ \A b : InSeq(b, Tail(dQueue[d])) => done[d] < frame[b]
      BY <1>1, <3>2 DEF DecoderByMember
    <3>5. \A n : BehindByMember(d, n) => BehindByMember(d, n)'
      BY <2>1, <3>1, <3>2 DEF BehindByMember
    <3>6. BehindByMember(d, taken + 1)' /\ (ToBeFed(d)' => BehindByMember(d, taken)')
      BY <1>1, <2>1, <3>5 DEF DecoderByMember, BehindByMember
    <3>7. DecoderByMember(d)' BY <2>1, <3>1, <3>3, <3>4, <3>6 DEF DecoderByMember
    <3> QED BY <3>7, DecoderOrderIs
  <2> QED BY <2>2, <2>3, <2>4
<1>8. ASSUME NEW e \in Decoder, DecoderProcess(e) PROVE DecoderInOrder(d)'
  <2>1. /\ UNCHANGED <<frame, taken, dQueue, mgrPc, fed, order>> /\ dBuf[e] # NoBuffer
        /\ ToBeFed(d)' <=> ToBeFed(d)
    BY <1>8 DEF DecoderProcess, TypeOK, ToBeFed
  <2>2. CASE e # d
    <3>1. done'[d] = done[d] /\ dBuf'[d] = dBuf[d] BY <1>8, <2>2 DEF DecoderProcess, TypeOK
    <3> QED BY <1>0, <1>1, <2>1, <3>1, DecoderSame
  <2>3. CASE e = d
    <3>1. done'[d] = frame[dBuf[d]] /\ dBuf'[d] = NoBuffer
      BY <1>8, <2>3 DEF DecoderProcess, TypeOK
    <3>2. \A n : BehindByMember(d, n) => BehindByMember(d, n)'
      BY <2>1, <2>3, <3>1 DEF BehindByMember
    <3>3. BehindByMember(d, taken + 1)' /\ (ToBeFed(d)' => BehindByMember(d, taken)')
      BY <1>1, <2>1, <3>2 DEF DecoderByMember, BehindByMember
    <3>4. DecoderByMember(d)' BY <1>1, <2>1, <2>3, <3>1, <3>3 DEF DecoderByMember
    <3> QED BY <3>4, DecoderOrderIs
  <2> QED BY <2>2, <2>3
<1>9. CASE CallbackIn \/ CallbackInLosesFrame \/ PushAudioInput
  BY <1>2, <1>9 DEF CallbackIn, CallbackInLosesFrame, PushAudioInput, ToBeFed
<1>10. CASE SetAutoTuneState \/ SetWorkerCount
  BY <1>2, <1>10 DEF SetAutoTuneState, SetWorkerCount, ToBeFed
<1>11. CASE ManagerWake \/ FeedEnd \/ Release
  BY <1>2, <1>11 DEF ManagerWake, FeedEnd, Release, ToBeFed
<1>12. ASSUME NEW e \in Decoder, DecoderWake(e) \/ DecoderLock(e) PROVE DecoderInOrder(d)'
  BY <1>2, <1>12 DEF DecoderWake, DecoderLock, ToBeFed
<1>13. CASE UNCHANGED vars BY <1>2, <1>13 DEF vars, ToBeFed
<1> QED BY <1>3, <1>4, <1>5, <1>6, <1>7, <1>8, <1>9, <1>10, <1>11, <1>12, <1>13
        DEF Next, Device, Api, Manager, Worker

LEMMA OrderNext ==
  TypeOK /\ PoolPartition /\ FramesInOrder /\ [Next]_vars => FramesInOrder'
BY ManagerOrderNext, DecoderOrderNext DEF FramesInOrder

(* Every decoder meets the frames in the order the device delivered them,  *)
(* and none twice, however the threads interleave, the frames are dropped  *)
(* and the application changes the tuning and the number of decoders.      *)
THEOREM DeviceOrder == Spec => []FramesInOrder
BY TypeInit, TypeNext, PartitionInit, PartitionNext, OrderInit, OrderNext, PTL DEF Spec

-----------------------------------------------------------------------------
(* The discard of CDecodeWorker::PushAudioInput never fires.               *)

(* A queue of growing frames holds no buffer twice, so it is no longer     *)
(* than there are buffers.                                                 *)
LEMMA IncreasingBounded ==
  ASSUME NEW s \in Seq(Buffer), NEW f \in [Buffer -> Nat], Increasing(s, f)
  PROVE  Len(s) <= Cardinality(Buffer)
<1> SUFFICES ASSUME Len(s) > Cardinality(Buffer) PROVE FALSE
  BY BufferAssumption, FS_CardinalityType
<1>1. Len(s) \in Nat /\ Cardinality(Buffer) \in Nat /\ IsFiniteSet(Buffer)
  BY BufferAssumption, FS_CardinalityType
<1>2. IsFiniteSet(1..Len(s)) /\ Cardinality(1..Len(s)) = Len(s)
  <2>1. IsFiniteSet(1..Len(s)) /\ Cardinality(1..Len(s)) = IF 1 > Len(s) THEN 0 ELSE Len(s) - 1 + 1
    BY <1>1, FS_Interval
  <2> QED BY <1>1, <2>1
<1>3. s \in [1..Len(s) -> Buffer] OBVIOUS
<1>4. PICK x, y \in 1..Len(s) : x # y /\ s[x] = s[y]
  BY <1>1, <1>2, <1>3, FS_PigeonHole
<1>5. f[s[x]] \in Nat /\ f[s[y]] \in Nat OBVIOUS
<1>6. x \in 1..y-1 \/ y \in 1..x-1 BY <1>4
<1> QED BY <1>4, <1>5, <1>6 DEF Increasing

(* The pool lets the queue of a decoder hold every other buffer. *)
QueueHoldsThePool == Cardinality(Buffer) <= WorkerQueueMax + 1

LEMMA QueueHasRoom ==
  ASSUME TypeOK, FramesInOrder, QueueHoldsThePool, NEW d \in Decoder, ToBeFed(d), mgrBuf \in Buffer
  PROVE  Len(dQueue[d]) <= WorkerQueueMax
<1>1. dQueue[d] \in Seq(Buffer) /\ frame \in [Buffer -> Nat] BY BoundAssumption DEF TypeOK
<1>2. frame[mgrBuf] = taken BY BufferAssumption, ManagerOrderIs DEF FramesInOrder, ManagerByMember
<1>3. /\ Increasing(dQueue[d], frame)
      /\ \A b : InSeq(b, dQueue[d]) => frame[b] < taken
  BY DecoderOrderIs DEF FramesInOrder, DecoderByMember, BehindByMember
<1>4. Increasing(Append(dQueue[d], mgrBuf), frame) BY <1>1, <1>2, <1>3, IncreasingAppend
<1>5. Append(dQueue[d], mgrBuf) \in Seq(Buffer) /\ Len(Append(dQueue[d], mgrBuf)) = Len(dQueue[d]) + 1
  BY <1>1, AppendFacts
<1>6. Len(dQueue[d]) + 1 <= Cardinality(Buffer) BY <1>1, <1>4, <1>5, IncreasingBounded
<1>7. Cardinality(Buffer) \in Nat /\ Len(dQueue[d]) \in Nat
  BY <1>1, BufferAssumption, FS_CardinalityType
<1> QED BY <1>6, <1>7, BoundAssumption DEF QueueHoldsThePool

MissNothing == \A d \in Decoder : \A i \in 1..Len(dQueue[d]) :
                 InSeq(dQueue[d][i], dQueue'[d]) \/ dBuf'[d] = dQueue[d][i]

LEMMA FeedMissesNothing ==
  ASSUME TypeOK, FramesInOrder, QueueHoldsThePool, NEW d \in Decoder, ToBeFed(d), mgrBuf \in Buffer,
         WorkerPush(d)
  PROVE  MissNothing
<1>1. dQueue[d] \in Seq(Buffer) /\ Len(dQueue[d]) \in Nat /\ Len(dQueue[d]) <= WorkerQueueMax
  BY QueueHasRoom DEF TypeOK
<1>2. dQueue' = [dQueue EXCEPT ![d] = Append(@, mgrBuf)]
  BY <1>1, BoundAssumption DEF WorkerPush
<1>3. dQueue'[d] = Append(dQueue[d], mgrBuf) /\ \A e \in Decoder : e # d => dQueue'[e] = dQueue[e]
  BY <1>2 DEF TypeOK
<1>4. \A b : InSeq(b, Append(dQueue[d], mgrBuf)) <=> InSeq(b, dQueue[d]) \/ b = mgrBuf
  BY <1>1, AppendFacts
<1>5. \A e \in Decoder : \A b : InSeq(b, dQueue[e]) => InSeq(b, dQueue'[e]) BY <1>3, <1>4
<1> QED BY <1>5 DEF MissNothing, InSeq

LEMMA MissNothingStep ==
  ASSUME TypeOK, WholeFrames, FramesInOrder, QueueHoldsThePool, [Next]_vars
  PROVE  MissNothing
<1> USE DEF capVars, mgrVars, apiVars, decVars
<1>1. ASSUME dQueue' = dQueue PROVE MissNothing BY <1>1 DEF MissNothing, InSeq
<1>2. CASE Feed
  <2>1. fed + 1 \in 1..NumDecoders /\ order[fed + 1] \in Decoder /\ mgrBuf \in Buffer
    BY <1>2, FeedsADecoder
  <2>2. \A i \in 1..fed : i \in 1..NumDecoders /\ i # fed + 1 BY <2>1, NumDecodersType DEF TypeOK
  <2>3. ToBeFed(order[fed + 1])
    <3>1. \A i, j \in 1..NumDecoders : order[i] = order[j] => i = j BY DEF TypeOK, Orders
    <3> QED BY <1>2, <2>1, <2>2, <3>1 DEF Feed, ToBeFed
  <2> QED BY <1>2, <2>1, <2>3, FeedMissesNothing DEF Feed
<1>3. CASE FeedManual
  <2>1. order[1] \in Decoder /\ mgrBuf \in Buffer BY <1>3, FeedsTheFirst
  <2> QED BY <1>3, <2>1, FeedMissesNothing DEF FeedManual, ToBeFed
<1>4. ASSUME NEW d \in Decoder, DecoderCollect(d) PROVE MissNothing
  <2>0. dQueue[d] \in Seq(Buffer) BY DEF TypeOK
  <2>1. CASE dQueue[d] = <<>> BY <1>1, <1>4, <2>1 DEF DecoderCollect
  <2>2. CASE dQueue[d] # <<>>
    <3>1. \A b : InSeq(b, dQueue[d]) <=> b = Head(dQueue[d]) \/ InSeq(b, Tail(dQueue[d]))
      BY <2>0, <2>2, TailFacts
    <3>2. frame[Head(dQueue[d])] \notin ShortFrames
      BY <3>1, WholeFramesIs DEF WholeByMember
    <3>3. dBuf'[d] = Head(dQueue[d]) /\ dQueue'[d] = Tail(dQueue[d])
      BY <1>4, <2>2, <3>2 DEF DecoderCollect, TypeOK
    <3>4. \A e \in Decoder : e # d => dQueue'[e] = dQueue[e]
      BY <1>4, <2>2 DEF DecoderCollect, TypeOK
    <3>5. \A e \in Decoder : \A b : InSeq(b, dQueue[e]) => InSeq(b, dQueue'[e]) \/ dBuf'[e] = b
      BY <3>1, <3>3, <3>4
    <3> QED BY <3>5 DEF MissNothing, InSeq
  <2> QED BY <2>1, <2>2
<1>5. CASE Device BY <1>1, <1>5 DEF Device, CallbackIn, CallbackInLosesFrame, PushAudioInput
<1>6. CASE Api BY <1>1, <1>6 DEF Api, SetAutoTuneState, SetWorkerCount
<1>7. CASE ManagerWake \/ CollectAudioInput \/ Tune \/ FeedEnd \/ Release
  BY <1>1, <1>7 DEF ManagerWake, CollectAudioInput, Tune, FeedEnd, Release
<1>8. ASSUME NEW d \in Decoder, DecoderWake(d) \/ DecoderLock(d) \/ DecoderProcess(d)
      PROVE  MissNothing
  BY <1>1, <1>8 DEF DecoderWake, DecoderLock, DecoderProcess
<1>9. CASE UNCHANGED vars BY <1>1, <1>9 DEF vars
<1> QED BY <1>2, <1>3, <1>4, <1>5, <1>6, <1>7, <1>8, <1>9 DEF Next, Manager, Worker

(* When the pool has no more buffers than a decoder's queue may hold (64   *)
(* against 513), a frame queued at a decoder leaves the queue only into    *)
(* that decoder's hands: PushAudioInput never discards it and Execute      *)
(* never drops it as short.                                                *)
THEOREM NothingMissed == ASSUME QueueHoldsThePool PROVE Spec => DecodersMissNothing
<1>1. TypeOK /\ WholeFrames /\ FramesInOrder /\ [Next]_vars => [MissNothing]_vars
  BY MissNothingStep
<1>2. [MissNothing]_vars <=>
        [\A d \in Decoder : \A i \in 1..Len(dQueue[d]) :
           InSeq(dQueue[d][i], dQueue'[d]) \/ dBuf'[d] = dQueue[d][i]]_vars
  BY DEF MissNothing
<1> QED BY <1>1, <1>2, TypeInit, TypeNext, PartitionInit, PartitionNext, WholeInit, WholeNext,
           OrderInit, OrderNext, PTL DEF Spec, DecodersMissNothing

-----------------------------------------------------------------------------
(* The receive path as a whole. *)

DeliveryVars == <<captured, taken, done>>

LEMMA DeliveryNext ==
  ASSUME TypeOK, WholeFrames, FramesInOrder, [Next]_vars
  PROVE  [Path!Next]_DeliveryVars
<1> USE DEF DeliveryVars, capVars, mgrVars, apiVars, decVars
<1>1. CASE CallbackIn \/ CallbackInLosesFrame
  BY <1>1 DEF CallbackIn, CallbackInLosesFrame, Path!Next, Path!Send
<1>2. CASE PushAudioInput \/ Api BY <1>2 DEF PushAudioInput, Api, SetAutoTuneState, SetWorkerCount
<1>3. CASE CollectAudioInput
  <2>1. CASE queueIn = <<>> BY <1>3, <2>1 DEF CollectAudioInput
  <2>2. CASE queueIn # <<>>
    <3>1. /\ queueIn \in Seq(Buffer) /\ frame \in [Buffer -> 0..MaxFrames]
          /\ taken \in Int /\ captured \in Int
      BY DEF TypeOK
    <3>2. Head(queueIn) = queueIn[1] /\ 1 \in 1..Len(queueIn) /\ Head(queueIn) \in Buffer
      BY <2>2, <3>1
    <3>3. taken < frame[Head(queueIn)] /\ frame[Head(queueIn)] <= captured
      BY <3>2 DEF FramesInOrder, ManagerInOrder
    <3>4. frame[Head(queueIn)] \in Int BY <3>1, <3>2, BoundAssumption
    <3>5. frame[Head(queueIn)] \in taken + 1 .. captured BY <3>1, <3>3, <3>4
    <3>6. taken' = frame[Head(queueIn)] /\ captured' = captured /\ done' = done
      BY <1>3, <2>2 DEF CollectAudioInput
    <3> QED BY <3>5, <3>6 DEF Path!Next, Path!Accept
  <2> QED BY <2>1, <2>2
<1>4. CASE ManagerWake \/ Tune \/ Feed \/ FeedEnd \/ FeedManual \/ Release
  BY <1>4 DEF ManagerWake, Tune, Feed, FeedEnd, FeedManual, Release
<1>5. ASSUME NEW d \in Decoder, DecoderWake(d) \/ DecoderCollect(d) \/ DecoderLock(d)
      PROVE  UNCHANGED DeliveryVars
  BY <1>5 DEF DecoderWake, DecoderCollect, DecoderLock
<1>6. ASSUME NEW d \in Decoder, DecoderProcess(d) PROVE Path!Next
  <2>1. dBuf[d] # NoBuffer /\ dBuf[d] \in Buffer BY <1>6 DEF DecoderProcess, TypeOK
  <2>2. frame[dBuf[d]] \notin ShortFrames BY <2>1 DEF WholeFrames
  <2>3. done[d] < frame[dBuf[d]] /\ frame[dBuf[d]] < taken + 1
    BY <2>1 DEF FramesInOrder, DecoderInOrder, Behind
  <2>4. /\ frame[dBuf[d]] \in Int /\ done[d] \in Int /\ taken \in Int
    BY <2>1, BoundAssumption DEF TypeOK
  <2>5. frame[dBuf[d]] \in (done[d] + 1 .. taken) \ ShortFrames BY <2>2, <2>3, <2>4
  <2>6. /\ done' = [done EXCEPT ![d] = frame[dBuf[d]]]
        /\ UNCHANGED <<captured, taken>>
    BY <1>6 DEF DecoderProcess
  <2> QED BY <2>5, <2>6 DEF Path!Next, Path!Receive
<1>7. CASE UNCHANGED vars BY <1>7 DEF vars
<1> QED BY <1>1, <1>2, <1>3, <1>4, <1>5, <1>6, <1>7 DEF Next, Device, Manager, Worker

(* The receive path implements Delivery: for every pool, number of         *)
(* decoders and queue limits, each decoder gets whole frames, of those the *)
(* manager has taken, newer each time, whatever is discarded, sorted or    *)
(* switched over on the way.                                               *)
THEOREM PipelineDelivers == Spec => DeliversInOrder
<1>1. Init => Path!Init BY DEF Init, Path!Init
<1>2. TypeOK /\ WholeFrames /\ FramesInOrder /\ [Next]_vars => [Path!Next]_DeliveryVars
  BY DeliveryNext
<1>3. [Path!Next]_DeliveryVars <=> [Path!Next]_<<captured, taken, done>> BY DEF DeliveryVars
<1> QED BY <1>1, <1>2, <1>3, TypeCorrect, OnlyWholeFrames, DeviceOrder, PTL
        DEF Spec, DeliversInOrder, Path!Spec

-----------------------------------------------------------------------------
(***************************************************************************)
(* The manager's other hand-over, of FFTs and requests to the peak         *)
(* detection thread: PeakDetectWorker, for every pool, queue limit and     *)
(* number of requests.  Its manager is the same thread, in other steps,    *)
(* with a semaphore of the peak detection's own.                           *)
(***************************************************************************)
CONSTANTS FftPool, MaxInputQueue, MaxCalc, MaxRequests, MaxEvents
VARIABLES fftFree, calcComplete, peakMgrPc

Peak == INSTANCE PeakDetectWorker WITH mgrPc <- peakMgrPc

(* What PeakDetectWorker assumes of its constants.                         *)
PeakSizes ==
  /\ FftPool \in Nat /\ MaxInputQueue \in Nat /\ MaxCalc \in Nat
  /\ MaxRequests \in Nat /\ MaxEvents \in Nat

LEMMA PeakTypeInit == ASSUME PeakSizes PROVE Peak!Init => Peak!TypeOK
<1>1. Peak!NoRequest \in Peak!Request BY DEF PeakSizes, Peak!Request, Peak!NoRequest
<1>2. \A n \in Nat : 0 \in 0..n OBVIOUS
<1>3. 0 \in 0..MaxInputQueue + 1 BY DEF PeakSizes
<1> QED BY <1>1, <1>2, <1>3 DEF PeakSizes, Peak!Init, Peak!TypeOK

LEMMA PeakTypeNext ==
  ASSUME PeakSizes PROVE Peak!TypeOK /\ [Peak!Next]_(Peak!vars) => Peak!TypeOK'
<1> SUFFICES ASSUME Peak!TypeOK, [Peak!Next]_(Peak!vars) PROVE Peak!TypeOK' OBVIOUS
<1> USE DEF PeakSizes, Peak!TypeOK, Peak!mgrVars, Peak!wVars
<1>1. CASE Peak!GenerateFft BY <1>1 DEF Peak!GenerateFft
<1>2. CASE Peak!PushFftInput BY <1>2 DEF Peak!PushFftInput
<1>3. CASE Peak!ManualTune BY <1>3 DEF Peak!ManualTune
<1>4. CASE Peak!NoPeakCalc BY <1>4 DEF Peak!NoPeakCalc
<1>5. CASE Peak!TriggerPeakCalc
  <2>1. request.id \in 0..MaxRequests /\ request.id < MaxRequests
    BY <1>5 DEF Peak!TriggerPeakCalc, Peak!Request
  <2>2. request' \in Peak!Request BY <1>5, <2>1 DEF Peak!TriggerPeakCalc, Peak!Request
  <2> QED BY <1>5, <2>2 DEF Peak!TriggerPeakCalc
<1>6. CASE Peak!PeakCalcUpdated BY <1>6 DEF Peak!PeakCalcUpdated
<1>7. CASE Peak!GetPeaks BY <1>7 DEF Peak!GetPeaks
<1>8. CASE Peak!Wake BY <1>8 DEF Peak!Wake, Peak!Request, Peak!NoRequest
<1>9. CASE Peak!CollectFftInput BY <1>9 DEF Peak!CollectFftInput
<1>10. CASE Peak!Process BY <1>10 DEF Peak!Process
<1>11. CASE Peak!Drop BY <1>11 DEF Peak!Drop
<1>12. CASE Peak!CheckCalcNeeded BY <1>12 DEF Peak!CheckCalcNeeded
<1>13. CASE Peak!ResetCalcNeeded BY <1>13 DEF Peak!ResetCalcNeeded
<1>14. CASE Peak!GrabNumCalcPeaks
  <2>1. request.id \in 0..MaxRequests BY DEF Peak!Request
  <2> QED BY <1>14, <2>1 DEF Peak!GrabNumCalcPeaks
<1>15. CASE Peak!CalcPeaks
  <2>1. grabbed.id \in 0..MaxRequests BY DEF Peak!Request
  <2> QED BY <1>15, <2>1 DEF Peak!CalcPeaks
<1>16. CASE UNCHANGED Peak!vars BY <1>16 DEF Peak!vars
<1> QED BY <1>1, <1>2, <1>3, <1>4, <1>5, <1>6, <1>7, <1>8, <1>9, <1>10, <1>11, <1>12,
           <1>13, <1>14, <1>15, <1>16
        DEF Peak!Next, Peak!Manager, Peak!Worker

(* Every variable keeps its type; the queue holds one FFT more than        *)
(* MAX_INPUT_QUEUE at most.                                                *)
THEOREM PeakTypeCorrect == ASSUME PeakSizes PROVE Peak!Spec => []Peak!TypeOK
<1>1. Peak!Init => Peak!TypeOK BY PeakTypeInit
<1>2. Peak!TypeOK /\ [Peak!Next]_(Peak!vars) => Peak!TypeOK' BY PeakTypeNext
<1> QED BY <1>1, <1>2, PTL DEF Peak!Spec

-----------------------------------------------------------------------------
(* The FFT buffers.  Nobody touches one of them but by the steps that move *)
(* it, so their number is constant, whatever the interleaving.             *)

LEMMA AccountedInit == ASSUME PeakSizes PROVE Peak!Init => Peak!FftBuffersAccounted
BY DEF PeakSizes, Peak!Init, Peak!FftBuffersAccounted, Peak!InHands

LEMMA AccountedNext ==
  ASSUME PeakSizes
  PROVE  Peak!TypeOK /\ Peak!FftBuffersAccounted /\ [Peak!Next]_(Peak!vars)
           => Peak!FftBuffersAccounted'
<1> SUFFICES ASSUME Peak!TypeOK, Peak!FftBuffersAccounted, [Peak!Next]_(Peak!vars)
             PROVE  Peak!FftBuffersAccounted'
  OBVIOUS
<1> USE DEF PeakSizes, Peak!TypeOK, Peak!FftBuffersAccounted, Peak!InHands, Peak!mgrVars,
            Peak!wVars
<1>1. CASE Peak!GenerateFft BY <1>1 DEF Peak!GenerateFft
<1>2. CASE Peak!PushFftInput BY <1>2 DEF Peak!PushFftInput
<1>3. CASE Peak!ManualTune BY <1>3 DEF Peak!ManualTune
<1>4. CASE Peak!NoPeakCalc BY <1>4 DEF Peak!NoPeakCalc
<1>5. CASE Peak!TriggerPeakCalc BY <1>5 DEF Peak!TriggerPeakCalc
<1>6. CASE Peak!PeakCalcUpdated BY <1>6 DEF Peak!PeakCalcUpdated
<1>7. CASE Peak!GetPeaks BY <1>7 DEF Peak!GetPeaks
<1>8. CASE Peak!Wake BY <1>8 DEF Peak!Wake
<1>9. CASE Peak!CollectFftInput BY <1>9 DEF Peak!CollectFftInput
<1>10. CASE Peak!Process BY <1>10 DEF Peak!Process
<1>11. CASE Peak!Drop BY <1>11 DEF Peak!Drop
<1>12. CASE Peak!CheckCalcNeeded BY <1>12 DEF Peak!CheckCalcNeeded
<1>13. CASE Peak!ResetCalcNeeded BY <1>13 DEF Peak!ResetCalcNeeded
<1>14. CASE Peak!GrabNumCalcPeaks BY <1>14 DEF Peak!GrabNumCalcPeaks
<1>15. CASE Peak!CalcPeaks BY <1>15 DEF Peak!CalcPeaks
<1>16. CASE UNCHANGED Peak!vars BY <1>16 DEF Peak!vars
<1> QED BY <1>1, <1>2, <1>3, <1>4, <1>5, <1>6, <1>7, <1>8, <1>9, <1>10, <1>11, <1>12,
           <1>13, <1>14, <1>15, <1>16
        DEF Peak!Next, Peak!Manager, Peak!Worker

(* No FFT buffer leaks, and none is counted twice. *)
THEOREM BuffersAccounted ==
  ASSUME PeakSizes PROVE Peak!Spec => []Peak!FftBuffersAccounted
<1>1. Peak!Init => Peak!FftBuffersAccounted BY AccountedInit
<1>2. Peak!TypeOK /\ Peak!FftBuffersAccounted /\ [Peak!Next]_(Peak!vars)
        => Peak!FftBuffersAccounted'
  BY AccountedNext
<1>3. Peak!Spec => []Peak!TypeOK BY PeakTypeCorrect
<1> QED BY <1>1, <1>2, <1>3, PTL DEF Peak!Spec

(* When the manager asks for a buffer it holds none itself, the queue has  *)
(* MaxInputQueue + 1 at most and the worker one: with two more than        *)
(* MaxInputQueue in the pool there is none left only when both have all    *)
(* they can have.                                                          *)
LEMMA DryNext ==
  ASSUME PeakSizes, FftPool >= MaxInputQueue + 2,
         Peak!TypeOK, Peak!FftBuffersAccounted, Peak!DryOnlyWhenBehind,
         [Peak!Next]_(Peak!vars)
  PROVE  Peak!DryOnlyWhenBehind'
<1> USE DEF PeakSizes, Peak!DryOnlyWhenBehind, Peak!mgrVars, Peak!wVars
<1>1. CASE Peak!GenerateFft
  <2>1. fftFree = 0 => queued = MaxInputQueue + 1 /\ wPc \in {"process", "drop"}
    BY <1>1 DEF Peak!GenerateFft, Peak!TypeOK, Peak!FftBuffersAccounted, Peak!InHands
  <2>2. peakMgrPc' = "crashed" => fftFree = 0 BY <1>1 DEF Peak!GenerateFft
  <2>3. queued' = queued /\ wPc' = wPc BY <1>1 DEF Peak!GenerateFft
  <2> QED BY <2>1, <2>2, <2>3
<1>2. CASE \/ Peak!PushFftInput \/ Peak!ManualTune \/ Peak!NoPeakCalc \/ Peak!TriggerPeakCalc
           \/ Peak!PeakCalcUpdated \/ Peak!GetPeaks
  <2>1. peakMgrPc' # "crashed"
    BY <1>2 DEF Peak!PushFftInput, Peak!ManualTune, Peak!NoPeakCalc, Peak!TriggerPeakCalc,
                Peak!PeakCalcUpdated, Peak!GetPeaks
  <2> QED BY <2>1
<1>3. CASE Peak!Running /\ Peak!Worker
  <2>1. UNCHANGED peakMgrPc
    BY <1>3 DEF Peak!Worker, Peak!Wake, Peak!CollectFftInput, Peak!Process, Peak!Drop,
                Peak!CheckCalcNeeded, Peak!ResetCalcNeeded, Peak!GrabNumCalcPeaks, Peak!CalcPeaks
  <2> QED BY <1>3, <2>1 DEF Peak!Running
<1>4. CASE UNCHANGED Peak!vars BY <1>4 DEF Peak!vars
<1> QED BY <1>1, <1>2, <1>3, <1>4 DEF Peak!Next, Peak!Manager

(* With a pool of MaxInputQueue + 2 buffers or more (the code's has 4, its *)
(* MaxInputQueue is 2) GenerateFft meets the null buffer only while the    *)
(* queue is full and the worker still at an FFT before those.              *)
THEOREM DryOnlyBehind ==
  ASSUME PeakSizes, FftPool >= MaxInputQueue + 2
  PROVE  Peak!Spec => []Peak!DryOnlyWhenBehind
<1>1. Peak!Init => Peak!DryOnlyWhenBehind BY DEF Peak!Init, Peak!DryOnlyWhenBehind
<1>2. Peak!TypeOK /\ Peak!FftBuffersAccounted /\ Peak!DryOnlyWhenBehind
        /\ [Peak!Next]_(Peak!vars) => Peak!DryOnlyWhenBehind'
  BY DryNext
<1>3. Peak!Spec => []Peak!TypeOK BY PeakTypeCorrect
<1>4. Peak!Spec => []Peak!FftBuffersAccounted BY BuffersAccounted
<1> QED BY <1>1, <1>2, <1>3, <1>4, PTL DEF Peak!Spec

-----------------------------------------------------------------------------
(* Requests and wake-ups. *)

(* Strengthening of RequestPending: a request that came after the grab has *)
(* its flag still up when the calculation ends.                            *)
CalcIsLatest == wPc = "calc" => grabbed.id = request.id \/ calcNeeded

LEMMA PendingNext ==
  ASSUME PeakSizes
  PROVE  Peak!TypeOK /\ RequestPending /\ CalcIsLatest /\ [Peak!Next]_(Peak!vars)
           => RequestPending' /\ CalcIsLatest'
<1> SUFFICES ASSUME Peak!TypeOK, RequestPending, CalcIsLatest, [Peak!Next]_(Peak!vars)
             PROVE  RequestPending' /\ CalcIsLatest'
  OBVIOUS
<1> USE DEF RequestPending, CalcIsLatest, Peak!mgrVars, Peak!wVars
<1>0. request.id \in Int /\ grabbed.id \in Int /\ answered \in Int
  BY DEF PeakSizes, Peak!TypeOK, Peak!Request
<1>1. CASE \/ Peak!GenerateFft \/ Peak!PushFftInput \/ Peak!ManualTune \/ Peak!NoPeakCalc
           \/ Peak!PeakCalcUpdated \/ Peak!GetPeaks
  BY <1>1 DEF Peak!GenerateFft, Peak!PushFftInput, Peak!ManualTune, Peak!NoPeakCalc,
              Peak!PeakCalcUpdated, Peak!GetPeaks
<1>2. CASE Peak!TriggerPeakCalc BY <1>2 DEF Peak!TriggerPeakCalc
<1>3. CASE Peak!Wake \/ Peak!CollectFftInput \/ Peak!Process \/ Peak!Drop
  BY <1>3 DEF Peak!Wake, Peak!CollectFftInput, Peak!Process, Peak!Drop
<1>4. CASE Peak!CheckCalcNeeded BY <1>4 DEF Peak!CheckCalcNeeded
<1>5. CASE Peak!ResetCalcNeeded BY <1>5 DEF Peak!ResetCalcNeeded
<1>6. CASE Peak!GrabNumCalcPeaks BY <1>0, <1>6 DEF Peak!GrabNumCalcPeaks
<1>7. CASE Peak!CalcPeaks BY <1>0, <1>7 DEF Peak!CalcPeaks
<1>8. CASE UNCHANGED Peak!vars BY <1>8 DEF Peak!vars
<1> QED BY <1>1, <1>2, <1>3, <1>4, <1>5, <1>6, <1>7, <1>8 DEF Peak!Next, Peak!Manager,
        Peak!Worker

(* No request is lost to the unlocked check, reset and grab. *)
THEOREM NoRequestLost == ASSUME PeakSizes PROVE Peak!Spec => []RequestPending
<1>1. Peak!Init => RequestPending /\ CalcIsLatest
  BY DEF Peak!Init, RequestPending, CalcIsLatest, Peak!NoRequest
<1>2. Peak!TypeOK /\ RequestPending /\ CalcIsLatest /\ [Peak!Next]_(Peak!vars)
        => RequestPending' /\ CalcIsLatest'
  BY PendingNext
<1>3. Peak!Spec => []Peak!TypeOK BY PeakTypeCorrect
<1> QED BY <1>1, <1>2, <1>3, PTL DEF Peak!Spec

LEMMA NoticedNext ==
  ASSUME PeakSizes
  PROVE  Peak!TypeOK /\ WorkNoticed /\ [Peak!Next]_(Peak!vars) => WorkNoticed'
<1> SUFFICES ASSUME Peak!TypeOK, WorkNoticed, [Peak!Next]_(Peak!vars)
             PROVE  WorkNoticed'
  OBVIOUS
<1> USE DEF PeakSizes, WorkNoticed, Peak!mgrVars, Peak!wVars
<1>1. CASE Peak!Manager
  BY <1>1 DEF Peak!Manager, Peak!TypeOK, Peak!GenerateFft, Peak!PushFftInput,
              Peak!ManualTune, Peak!NoPeakCalc,
              Peak!TriggerPeakCalc, Peak!PeakCalcUpdated, Peak!GetPeaks
<1>2. CASE Peak!Worker
  <2>1. CASE Peak!Wake BY <2>1 DEF Peak!Wake, Peak!TypeOK
  <2>2. CASE Peak!CollectFftInput BY <2>2 DEF Peak!CollectFftInput, Peak!TypeOK
  <2>3. CASE Peak!Process \/ Peak!Drop BY <2>3 DEF Peak!Process, Peak!Drop
  <2>4. CASE Peak!CheckCalcNeeded BY <2>4 DEF Peak!CheckCalcNeeded, Peak!TypeOK
  <2>5. CASE Peak!ResetCalcNeeded BY <2>5 DEF Peak!ResetCalcNeeded
  <2>6. CASE Peak!GrabNumCalcPeaks BY <2>6 DEF Peak!GrabNumCalcPeaks
  <2>7. CASE Peak!CalcPeaks BY <2>7 DEF Peak!CalcPeaks
  <2> QED BY <1>2, <2>1, <2>2, <2>3, <2>4, <2>5, <2>6, <2>7 DEF Peak!Worker
<1>3. CASE UNCHANGED Peak!vars BY <1>3 DEF Peak!vars
<1> QED BY <1>1, <1>2, <1>3 DEF Peak!Next

(* No FFT and no request is left behind by a worker that waits. *)
THEOREM NothingLeftBehind == ASSUME PeakSizes PROVE Peak!Spec => []WorkNoticed
<1>1. Peak!Init => WorkNoticed BY DEF Peak!Init, WorkNoticed
<1>2. Peak!TypeOK /\ WorkNoticed /\ [Peak!Next]_(Peak!vars) => WorkNoticed'
  BY NoticedNext
<1>3. Peak!Spec => []Peak!TypeOK BY PeakTypeCorrect
<1> QED BY <1>1, <1>2, <1>3, PTL DEF Peak!Spec
=============================================================================
