------------------------- MODULE DecodeSessionProofs -------------------------
(***************************************************************************)
(* Proofs about DecodeSession for every number of decoders, threads and    *)
(* output buffers, every queue limit, and any number of sessions.          *)
(***************************************************************************)
EXTENDS DecodeSession, FiniteSetTheorems, TLAPS

-----------------------------------------------------------------------------
(* Type correctness. *)


LEMMA PostType ==
  ASSUME NEW n \in 0..MaxPosted
  PROVE  Post(n) \in 0..MaxPosted /\ Post(n) > 0
BY LimitsAreCounts, AWakeUpCanWait DEF Post

LEMMA PushedType ==
  ASSUME NEW n \in 0..(InQueueLimit + 1)
  PROVE  Pushed(n) \in 0..(InQueueLimit + 1)
BY LimitsAreCounts DEF Pushed

LEMMA GetOutputType ==
  ASSUME TypeOK
  PROVE  /\ FreeOut \subseteq OutBuffer
         /\ GetEmptyOutputAudioBuffer \in OutBuffer \cup {NoBuffer}
         /\ FreeOut # {} => GetEmptyOutputAudioBuffer \in FreeOut
<1>1. FreeOut \subseteq OutBuffer BY DEF FreeOut, TypeOK
<1>2. FreeOut # {} => (CHOOSE b \in FreeOut : TRUE) \in FreeOut OBVIOUS
<1> QED BY <1>1, <1>2 DEF GetEmptyOutputAudioBuffer

(* The groups of variables an action leaves alone. *)
AppTypes ==
  /\ app \in AppPlace /\ shuttingDown \in BOOLEAN /\ victim \in Thread
  /\ starts \in 0..MaxStarts
ObjectTypes ==
  /\ manager \in {"none", "alive", "dying", "torn"}
  /\ m_decoders \in {{}, Decoder} /\ m_memPoolOut \in {{}, OutBuffer}
StreamTypes ==
  /\ m_stream \in [Direction -> BOOLEAN]
  /\ pa \in [Direction -> {"closed", "open", "running"}]
CallbackTypes == cb \in [Direction -> CallbackPlace] /\ m_lockWorking \in 0..1
ThreadTypes ==
  /\ m_pEvent \in [Thread -> BOOLEAN] /\ posted \in [Thread -> 0..MaxPosted]
  /\ at \in [Thread -> ThreadPlace]
  /\ m_queueAudioIn \in [Thread -> 0..(InQueueLimit + 1)]
AudioTypes ==
  /\ m_queueAudioOut \in Seq(OutBuffer)
  /\ m_requiredAudioCount \in {0, RestartCount, FirstCount}
  /\ m_enableAudioOut \subseteq Decoder
  /\ m_audioOut \in [Decoder -> OutBuffer \cup {NoBuffer}]
  /\ playing \in OutBuffer \cup {NoBuffer}
VerdictTypes == quiet \in BOOLEAN /\ fault \in Fault

LEMMA TypeIs ==
  TypeOK <=> AppTypes /\ ObjectTypes /\ StreamTypes /\ CallbackTypes /\ ThreadTypes
               /\ AudioTypes /\ VerdictTypes
BY DEF TypeOK, AppTypes, ObjectTypes, StreamTypes, CallbackTypes, ThreadTypes, AudioTypes, VerdictTypes

LEMMA TypeIsNext ==
  AppTypes' /\ ObjectTypes' /\ StreamTypes' /\ CallbackTypes' /\ ThreadTypes'
    /\ AudioTypes' /\ VerdictTypes' => TypeOK'
BY DEF TypeOK, AppTypes, ObjectTypes, StreamTypes, CallbackTypes, ThreadTypes, AudioTypes, VerdictTypes

LEMMA TypesKept ==
  /\ AppTypes /\ UNCHANGED appVars => AppTypes'
  /\ ObjectTypes /\ UNCHANGED objects => ObjectTypes'
  /\ StreamTypes /\ UNCHANGED streams => StreamTypes'
  /\ CallbackTypes /\ UNCHANGED callbacks => CallbackTypes'
  /\ ThreadTypes /\ UNCHANGED threads => ThreadTypes'
  /\ AudioTypes /\ UNCHANGED audio => AudioTypes'
  /\ VerdictTypes /\ UNCHANGED <<quiet, fault>> => VerdictTypes'
BY DEF AppTypes, ObjectTypes, StreamTypes, CallbackTypes, ThreadTypes, AudioTypes, VerdictTypes,
       appVars, objects, streams, callbacks, threads, audio

LEMMA NothingYet ==
  /\ <<>> \in Seq(OutBuffer)
  /\ 0 \in 0..MaxPosted /\ 0 \in 0..MaxStarts /\ 0 \in 0..(InQueueLimit + 1)
BY LimitsAreCounts

LEMMA TypeInit == Init => TypeOK
<1> SUFFICES ASSUME Init PROVE TypeOK OBVIOUS
<1> USE NothingYet DEF Init, Thread, Direction, AppPlace, CallbackPlace, ThreadPlace, Fault
<1>1. AppTypes BY DEF AppTypes
<1>2. ObjectTypes BY DEF ObjectTypes
<1>3. StreamTypes /\ CallbackTypes BY DEF StreamTypes, CallbackTypes
<1>4. ThreadTypes BY DEF ThreadTypes
<1>5. AudioTypes BY DEF AudioTypes
<1> QED BY <1>1, <1>2, <1>3, <1>4, <1>5, TypeIs DEF VerdictTypes

LEMMA TypeNextApp == TypeOK /\ AppStep => TypeOK'
<1> SUFFICES ASSUME TypeOK, AppStep PROVE TypeOK' OBVIOUS
<1> USE TypeIs, TypeIsNext, TypesKept, LimitsAreCounts
        DEF Thread, Direction, AppPlace, CallbackPlace, ThreadPlace, Fault
<1>1. CASE Decode_Initialize
  BY <1>1 DEF Decode_Initialize, ObjectTypes, ThreadTypes, threads, objects
<1>2. CASE ReinitialisePortAudio
  BY <1>2 DEF ReinitialisePortAudio, StreamTypes
<1>3. CASE Decode_Start
  BY <1>3 DEF Decode_Start, StreamTypes, AppTypes, VerdictTypes, Quiet
<1>4. CASE StartManager
  BY <1>4 DEF StartManager, AppTypes, ObjectTypes, ThreadTypes
<1>5. CASE StartManagerRaces
  BY <1>5 DEF StartManagerRaces, VerdictTypes
<1>6. ASSUME NEW d \in Direction, NEW here, NEW next \in AppPlace, StartStream(d, here, next) PROVE TypeOK'
  BY <1>6 DEF StartStream, AppTypes, StreamTypes
<1>7. CASE Decode_Stop
  BY <1>7 DEF Decode_Stop, AppTypes
<1>8. CASE Decode_Shutdown
  BY <1>8 DEF Decode_Shutdown, AppTypes, VerdictTypes, Quiet
<1>9. ASSUME NEW d \in Direction, NEW here, NEW next \in AppPlace, StopStream(d, here, next) PROVE TypeOK'
  BY <1>9 DEF StopStream, AppTypes, StreamTypes
<1>10. CASE Terminate
  BY <1>10 DEF Terminate, AppTypes, StreamTypes, ObjectTypes
<1>11. CASE RemoveHandle
  <2>1. posted[victim] \in 0..MaxPosted BY DEF AppTypes, ThreadTypes
  <2>2. Post(posted[victim]) \in 0..MaxPosted BY <2>1, PostType
  <2>3. ThreadTypes' BY <1>11, <2>2 DEF RemoveHandle, ThreadTypes
  <2>4. AppTypes' BY <1>11 DEF RemoveHandle, AppTypes
  <2> QED BY <1>11, <2>3, <2>4 DEF RemoveHandle
<1>12. CASE Join
  BY <1>12 DEF Join, NextVictim, AppTypes, VerdictTypes, ObjectTypes
<1>13. CASE DestroyMembers
  <2>1. AppTypes' BY <1>13 DEF DestroyMembers, NextVictim, AppTypes, ObjectTypes
  <2>2. ObjectTypes' BY <1>13 DEF DestroyMembers, ObjectTypes
  <2>3. ThreadTypes' BY <1>13, NothingYet DEF DestroyMembers, ThreadTypes
  <2>4. AudioTypes' BY <1>13, NothingYet DEF DestroyMembers, AudioTypes
  <2> QED BY <1>13, <2>1, <2>2, <2>3, <2>4 DEF DestroyMembers
<1>14. CASE Free
  <2>1. AppTypes' /\ ObjectTypes' BY <1>14, NothingYet DEF Free, AppTypes, ObjectTypes
  <2>2. ThreadTypes' BY <1>14, NothingYet DEF Free, ThreadTypes
  <2>3. AudioTypes' BY <1>14, NothingYet DEF Free, AudioTypes
  <2> QED BY <1>14, <2>1, <2>2, <2>3 DEF Free
<1> QED
  BY <1>1, <1>2, <1>3, <1>4, <1>5, <1>6, <1>7, <1>8, <1>9, <1>10, <1>11, <1>12, <1>13, <1>14
     DEF AppStep, Decode_RefreshAudioDevices, Decode_EnumDevices, Decode_StartByName

LEMMA TypeNextCallback == TypeOK /\ (CallbackInStep \/ CallbackOutStep) => TypeOK'
<1> SUFFICES ASSUME TypeOK, CallbackInStep \/ CallbackOutStep PROVE TypeOK' OBVIOUS
<1> USE TypeIs, TypeIsNext, TypesKept DEF Thread, Direction, CallbackPlace, Fault
<1>1. CASE CallbackIn
  BY <1>1 DEF CallbackIn, CallbackTypes
<1>2. CASE CallbackInGets
  BY <1>2 DEF CallbackInGets, Relies, CallbackTypes, VerdictTypes
<1>3. CASE CallbackInPushes
  <2>1. posted[Manager] \in 0..MaxPosted /\ m_queueAudioIn[Manager] \in 0..(InQueueLimit + 1)
    BY DEF ThreadTypes
  <2>2. /\ Post(posted[Manager]) \in 0..MaxPosted
        /\ Pushed(m_queueAudioIn[Manager]) \in 0..(InQueueLimit + 1)
    BY <2>1, PostType, PushedType
  <2>3. ThreadTypes' BY <1>3, <2>2 DEF CallbackInPushes, ThreadTypes
  <2>4. CallbackTypes' /\ VerdictTypes'
    BY <1>3 DEF CallbackInPushes, Relies, CallbackTypes, VerdictTypes
  <2> QED BY <1>3, <2>3, <2>4 DEF CallbackInPushes
<1>4. CASE CallbackOut
  BY <1>4 DEF CallbackOut, CallbackTypes
<1>5. CASE PopAudioOutput
  <2>1. AudioTypes'
    <3>1. CASE Len(m_queueAudioOut) > m_requiredAudioCount
      <4>1. m_queueAudioOut # <<>> BY <3>1, LimitsAreCounts DEF AudioTypes
      <4>2. Head(m_queueAudioOut) \in OutBuffer /\ Tail(m_queueAudioOut) \in Seq(OutBuffer)
        BY <4>1 DEF AudioTypes
      <4>3. /\ playing' = Head(m_queueAudioOut) /\ m_queueAudioOut' = Tail(m_queueAudioOut)
            /\ m_requiredAudioCount' = 0
        BY <1>5, <3>1, LimitsAreCounts DEF PopAudioOutput, AudioTypes
      <4> QED BY <1>5, <4>2, <4>3 DEF PopAudioOutput, AudioTypes
    <3>2. CASE ~(Len(m_queueAudioOut) > m_requiredAudioCount)
      BY <1>5, <3>2 DEF PopAudioOutput, AudioTypes
    <3> QED BY <3>1, <3>2
  <2>2. CallbackTypes' /\ VerdictTypes'
    BY <1>5 DEF PopAudioOutput, Relies, CallbackTypes, VerdictTypes
  <2> QED BY <1>5, <2>1, <2>2 DEF PopAudioOutput
<1>6. CASE CallbackOutReturns
  BY <1>6 DEF CallbackOutReturns, CallbackTypes, AudioTypes
<1> QED BY <1>1, <1>2, <1>3, <1>4, <1>5, <1>6 DEF CallbackInStep, CallbackOutStep

LEMMA TypeNextThread ==
  ASSUME TypeOK, NEW t \in Thread,
         RunStep(t) \/ (t = Manager /\ FeedDecoders) \/ (t \in Decoder /\ DecoderStep(t))
  PROVE  TypeOK'
<1> USE TypeIs, TypeIsNext, TypesKept DEF Thread, ThreadPlace, Fault
<1>1. CASE TestEvent(t)
  BY <1>1 DEF TestEvent, MoveTo, ThreadTypes
<1>2. CASE WaitForEvent(t)
  BY <1>2 DEF WaitForEvent, MoveTo, ThreadTypes
<1>3. CASE WaitForNull(t)
  BY <1>3 DEF WaitForNull, VerdictTypes
<1>4. CASE Wake(t)
  BY <1>4, LimitsAreCounts DEF Wake, MoveTo, ThreadTypes
<1>5. CASE CollectAudioInput(t)
  BY <1>5, LimitsAreCounts DEF CollectAudioInput, MoveTo, ThreadTypes
<1>6. CASE FeedDecoders
  <2>1. \A u \in Thread : /\ Post(posted[u]) \in 0..MaxPosted
                          /\ Pushed(m_queueAudioIn[u]) \in 0..(InQueueLimit + 1)
    BY PostType, PushedType DEF ThreadTypes
  <2>2. PICK fed \in SUBSET m_decoders :
          /\ m_queueAudioIn' = [u \in Thread |-> IF u \in fed THEN Pushed(m_queueAudioIn[u])
                                                              ELSE m_queueAudioIn[u]]
          /\ posted' = [u \in Thread |-> IF u \in fed THEN Post(posted[u]) ELSE posted[u]]
          /\ m_enableAudioOut' = m_enableAudioOut \/ m_enableAudioOut' = m_enableAudioOut \cup fed
    BY <1>6 DEF FeedDecoders
  <2>3. ThreadTypes' BY <1>6, <2>1, <2>2 DEF FeedDecoders, MoveTo, ThreadTypes
  <2>4. fed \subseteq Decoder BY <2>2 DEF ObjectTypes
  <2>5. AudioTypes' BY <1>6, <2>2, <2>4 DEF FeedDecoders, AudioTypes
  <2>6. VerdictTypes' BY <1>6 DEF FeedDecoders, Relies, VerdictTypes
  <2> QED BY <1>6, <2>3, <2>5, <2>6 DEF FeedDecoders
<1>7. CASE t \in Decoder /\ FinishInput(t)
  BY <1>7 DEF FinishInput, MoveTo, ThreadTypes
<1>8. CASE t \in Decoder /\ TakeOutput(t)
  BY <1>8, GetOutputType DEF TakeOutput, Relies, AudioTypes, VerdictTypes
<1>9. CASE t \in Decoder /\ PublishAudioOutput(t)
  <2>1. m_audioOut[t] \in OutBuffer BY <1>9 DEF PublishAudioOutput, AudioTypes
  <2>2. Len(m_queueAudioOut) > OutQueueLimit => Tail(m_queueAudioOut) \in Seq(OutBuffer)
    BY LimitsAreCounts DEF AudioTypes
  <2>3. m_queueAudioOut' \in Seq(OutBuffer)
    BY <1>9, <2>1, <2>2 DEF PublishAudioOutput, AudioTypes
  <2>4. AudioTypes' BY <1>9, <2>3 DEF PublishAudioOutput, AudioTypes
  <2>5. ThreadTypes' BY <1>9 DEF PublishAudioOutput, MoveTo, ThreadTypes
  <2> QED BY <1>9, <2>4, <2>5 DEF PublishAudioOutput
<1>10. CASE t \in Decoder /\ SwapOutput(t)
  BY <1>10, GetOutputType DEF SwapOutput, MoveTo, AudioTypes, ThreadTypes
<1>11. CASE WorkLate(t)
  BY <1>11 DEF WorkLate, VerdictTypes
<1> QED BY <1>1, <1>2, <1>3, <1>4, <1>5, <1>6, <1>7, <1>8, <1>9, <1>10, <1>11
        DEF RunStep, DecoderStep

LEMMA TypeNext == TypeOK /\ [Next]_vars => TypeOK'
<1> SUFFICES ASSUME TypeOK, [Next]_vars PROVE TypeOK' OBVIOUS
<1>1. CASE AppStep BY <1>1, TypeNextApp
<1>2. CASE CallbackInStep \/ CallbackOutStep BY <1>2, TypeNextCallback
<1>3. CASE ManagerStep BY <1>3, TypeNextThread DEF ManagerStep, Thread
<1>4. ASSUME NEW d \in Decoder, DecoderStep(d) PROVE TypeOK'
  BY <1>4, TypeNextThread DEF Thread
<1>5. CASE UNCHANGED vars BY <1>5, TypeIs, TypeIsNext, TypesKept DEF vars
<1> QED BY <1>1, <1>2, <1>3, <1>4, <1>5 DEF Next, Step

(* Every variable of a session keeps its type; among them no input queue   *)
(* outgrows its limit by more than the one buffer the test lets through.   *)
THEOREM TypeCorrect == Spec => []TypeOK
BY TypeInit, TypeNext, PTL DEF Spec

-----------------------------------------------------------------------------
(* The streams and the manager through a call: what may exist where the    *)
(* application's thread is.                                                *)
Opening == {"grow", "startIn", "startOut"}
Tearing == {"clear", "post", "join", "members", "free"}

CallPlaces ==
  /\ app = "idle" => manager \in {"none", "alive"} /\ ~shuttingDown
  /\ app \in Opening => manager = "alive" /\ ~shuttingDown
  /\ app \in {"stopIn", "stopOut"} => manager = "alive"
  /\ app = "terminate" => manager = "alive" /\ shuttingDown
  /\ app \in Tearing => manager \in {"dying", "torn"} /\ shuttingDown
  /\ app \in {"startIn", "startOut"} => m_decoders = Decoder

(* A callback runs only while its stream does, and a stream exists only    *)
(* while the manager is alive.                                             *)
Streams ==
  /\ StreamHandlesTrue
  /\ \A d \in Direction : cb[d] # "idle" => pa[d] = "running"
  /\ app = "stopOut" => ~m_stream["in"]
  /\ manager = "none" \/ app = "terminate" \/ app \in Tearing =>
       \A d \in Direction : ~m_stream[d]

SessionInv == CallPlaces /\ Streams

LEMMA SessionInit == Init => SessionInv
BY DEF Init, SessionInv, CallPlaces, Streams, StreamHandlesTrue, Opening, Tearing

(* No callback while the manager is not alive. *)
LEMMA CallbackNeedsManager ==
  ASSUME TypeOK, SessionInv, NEW d \in Direction, cb[d] # "idle" \/ pa[d] = "running"
  PROVE  manager = "alive"
BY DEF TypeOK, SessionInv, CallPlaces, Streams, StreamHandlesTrue, AppPlace, Opening, Tearing

LEMMA SessionNextApp == TypeOK /\ SessionInv /\ AppStep => SessionInv'
<1> SUFFICES ASSUME TypeOK, SessionInv, AppStep PROVE SessionInv' OBVIOUS
<1> USE DEF SessionInv, Opening, Tearing, appVars, objects, streams, callbacks
<1>0. StreamTypes /\ AppTypes /\ ObjectTypes /\ cb \in [Direction -> CallbackPlace] /\ TypeOK'
  BY TypeIs, TypeNextApp DEF CallbackTypes
<1>1. CASE Decode_Initialize
  BY <1>0, <1>1 DEF Decode_Initialize, CallPlaces, Streams, StreamHandlesTrue
<1>2. CASE ReinitialisePortAudio
  BY <1>0, <1>2 DEF ReinitialisePortAudio, NotStreaming, CallPlaces, Streams, StreamHandlesTrue
<1>3. CASE Decode_Start
  <2>1. CallPlaces' BY <1>0, <1>3 DEF Decode_Start, CallPlaces
  <2>2. \A d \in Direction : cb[d] = "idle"
    BY <1>0, <1>3 DEF Decode_Start, NotStreaming, Streams, StreamHandlesTrue
  <2>3. StreamHandlesTrue' BY <1>3 DEF Decode_Start, StreamHandlesTrue
  <2> QED BY <1>0, <1>3, <2>1, <2>2, <2>3 DEF Decode_Start, Streams, CallPlaces
<1>4. CASE StartManager
  BY <1>0, <1>4 DEF StartManager, CallPlaces, Streams, StreamHandlesTrue
<1>5. CASE StartManagerRaces
  BY <1>0, <1>5 DEF StartManagerRaces, CallPlaces, Streams, StreamHandlesTrue
<1>6. ASSUME NEW d \in Direction, NEW here \in {"startIn", "startOut"}, NEW next \in {"startOut", "idle"},
             StartStream(d, here, next)
      PROVE  SessionInv'
  BY <1>0, <1>6 DEF StartStream, CallPlaces, Streams, StreamHandlesTrue
<1>7. CASE Decode_Stop
  BY <1>0, <1>7 DEF Decode_Stop, CallPlaces, Streams, StreamHandlesTrue
<1>8. CASE Decode_Shutdown
  BY <1>0, <1>8 DEF Decode_Shutdown, CallPlaces, Streams, StreamHandlesTrue
<1>9. CASE StopStream("in", "stopIn", "stopOut")
  <2>1. /\ app = "stopIn" /\ app' = "stopOut" /\ UNCHANGED <<shuttingDown, manager, m_decoders, cb>>
        /\ m_stream' = [m_stream EXCEPT !["in"] = FALSE]
        /\ pa' = IF m_stream["in"] THEN [pa EXCEPT !["in"] = "closed"] ELSE pa
        /\ m_stream["in"] => cb["in"] = "idle"
    BY <1>9 DEF StopStream
  <2>2. CallPlaces' BY <2>1 DEF CallPlaces
  <2>3. StreamHandlesTrue' /\ ~m_stream'["in"]
    BY <1>0, <2>1 DEF Streams, StreamHandlesTrue, StreamTypes, Direction
  <2>4. \A d \in Direction : cb'[d] # "idle" => pa'[d] = "running"
    BY <1>0, <2>1 DEF Streams, StreamTypes
  <2> QED BY <2>1, <2>2, <2>3, <2>4 DEF Streams, CallPlaces
<1>10. CASE StopStream("out", "stopOut", IF shuttingDown THEN "terminate" ELSE "idle")
  <2>1. /\ app = "stopOut" /\ app' = (IF shuttingDown THEN "terminate" ELSE "idle")
        /\ UNCHANGED <<shuttingDown, manager, m_decoders, cb>>
        /\ m_stream' = [m_stream EXCEPT !["out"] = FALSE]
        /\ pa' = IF m_stream["out"] THEN [pa EXCEPT !["out"] = "closed"] ELSE pa
        /\ m_stream["out"] => cb["out"] = "idle"
    BY <1>10 DEF StopStream
  <2>2. CallPlaces' BY <1>0, <2>1 DEF CallPlaces
  <2>3. StreamHandlesTrue' /\ \A d \in Direction : ~m_stream'[d]
    BY <1>0, <2>1 DEF Streams, StreamHandlesTrue, StreamTypes, Direction
  <2>4. \A d \in Direction : cb'[d] # "idle" => pa'[d] = "running"
    BY <1>0, <2>1 DEF Streams, StreamTypes
  <2> QED BY <2>1, <2>2, <2>3, <2>4 DEF Streams, CallPlaces
<1>11. CASE Terminate
  BY <1>0, <1>11 DEF Terminate, CallPlaces, Streams, StreamHandlesTrue
<1>12. CASE RemoveHandle
  BY <1>0, <1>12 DEF RemoveHandle, CallPlaces, Streams, StreamHandlesTrue
<1>13. CASE Join
  <2>1. app \in Tearing /\ app' \in Tearing BY <1>13 DEF Join, NextVictim
  <2> QED BY <1>0, <1>13, <2>1 DEF Join, CallPlaces, Streams, StreamHandlesTrue
<1>14. CASE DestroyMembers
  <2>1. app \in Tearing /\ app' \in Tearing BY <1>14 DEF DestroyMembers, NextVictim
  <2> QED BY <1>0, <1>14, <2>1 DEF DestroyMembers, CallPlaces, Streams, StreamHandlesTrue
<1>15. CASE Free
  BY <1>0, <1>15 DEF Free, CallPlaces, Streams, StreamHandlesTrue
<1> QED
  BY <1>1, <1>2, <1>3, <1>4, <1>5, <1>6, <1>7, <1>8, <1>9, <1>10, <1>11, <1>12, <1>13, <1>14, <1>15
     DEF AppStep, Decode_RefreshAudioDevices, Decode_EnumDevices, Decode_StartByName, Direction

LEMMA SessionNext == TypeOK /\ SessionInv /\ [Next]_vars => SessionInv'
<1> SUFFICES ASSUME TypeOK, SessionInv, [Next]_vars PROVE SessionInv' OBVIOUS
<1> USE DEF appVars, objects, streams, callbacks
<1>1. CASE AppStep BY <1>1, SessionNextApp
<1>2. ASSUME UNCHANGED <<appVars, objects, streams, callbacks>> PROVE SessionInv'
  BY <1>2 DEF SessionInv, CallPlaces, Streams, StreamHandlesTrue
<1>3. ASSUME UNCHANGED <<appVars, objects, streams>>, NEW d \in Direction,
             \E place : cb' = [cb EXCEPT ![d] = place], pa[d] = "running"
      PROVE  SessionInv'
  BY <1>3 DEF SessionInv, CallPlaces, Streams, StreamHandlesTrue, TypeOK
<1>4. CASE CallbackInStep \/ CallbackOutStep
  <2>1. \A d \in Direction : cb[d] # "idle" => pa[d] = "running" BY DEF SessionInv, Streams
  <2> QED
    BY <1>3, <1>4, <2>1
       DEF CallbackInStep, CallbackOutStep, CallbackIn, CallbackInGets, CallbackInPushes,
           CallbackOut, PopAudioOutput, CallbackOutReturns, MayCall, Direction
<1>5. ASSUME NEW t \in Thread, RunStep(t) \/ FeedDecoders \/ DecoderStep(t) PROVE SessionInv'
  BY <1>2, <1>5
     DEF RunStep, DecoderStep, TestEvent, WaitForEvent, WaitForNull, Wake, CollectAudioInput,
         FeedDecoders, FinishInput, TakeOutput, PublishAudioOutput, SwapOutput, WorkLate
<1>6. CASE UNCHANGED vars BY <1>2, <1>6 DEF vars
<1> QED BY <1>1, <1>4, <1>5, <1>6 DEF Next, Step, ManagerStep, Thread

(* CDecode holds a stream exactly while PortAudio has it open, whatever    *)
(* fails to open or start and in whatever order the calls are made.        *)
THEOREM HandlesTrue == Spec => []StreamHandlesTrue
<1>1. SessionInv => StreamHandlesTrue BY DEF SessionInv, Streams
<1> QED BY <1>1, TypeInit, TypeNext, SessionInit, SessionNext, PTL DEF Spec

LEMMA NeverLateNext ==
  TypeOK /\ SessionInv /\ CallbackNeverLate /\ [Next]_vars => CallbackNeverLate'
<1> SUFFICES ASSUME TypeOK, SessionInv, CallbackNeverLate, [Next]_vars PROVE CallbackNeverLate'
  OBVIOUS
<1>1. \A d \in Direction : cb[d] # "idle" => MembersExist
  BY CallbackNeedsManager DEF MembersExist
<1>2. CASE CallbackInStep \/ CallbackOutStep
  BY <1>1, <1>2
     DEF CallbackNeverLate, Direction, CallbackInStep, CallbackOutStep, CallbackIn, CallbackInGets,
         CallbackInPushes, CallbackOut, PopAudioOutput, CallbackOutReturns, Relies
<1>3. CASE AppStep
  BY <1>3
     DEF CallbackNeverLate, AppStep, Decode_RefreshAudioDevices, Decode_EnumDevices,
         Decode_StartByName, Decode_Initialize, ReinitialisePortAudio, Decode_Start, StartManager,
         StartManagerRaces, StartStream, Decode_Stop, Decode_Shutdown, StopStream, Terminate,
         RemoveHandle, Join, DestroyMembers, Free
<1>4. ASSUME NEW t \in Thread, RunStep(t) \/ FeedDecoders \/ DecoderStep(t)
      PROVE  CallbackNeverLate'
  BY <1>4
     DEF CallbackNeverLate, RunStep, DecoderStep, TestEvent, WaitForEvent, WaitForNull, Wake,
         CollectAudioInput, FeedDecoders, FinishInput, TakeOutput, PublishAudioOutput, SwapOutput,
         WorkLate, Relies
<1>5. CASE UNCHANGED vars BY <1>5 DEF CallbackNeverLate, vars
<1> QED BY <1>2, <1>3, <1>4, <1>5 DEF Next, Step, ManagerStep, Thread

(* No callback uses a manager that is gone, although Shutdown tears it     *)
(* down without waiting for the lock the callback holds: the stream of     *)
(* every callback is stopped, and its callback waited for, before.         *)
THEOREM CallbacksInTime == Spec => []CallbackNeverLate
<1>1. Init => CallbackNeverLate BY DEF Init, CallbackNeverLate
<1> QED BY <1>1, TypeInit, TypeNext, SessionInit, SessionNext, NeverLateNext, PTL DEF Spec

-----------------------------------------------------------------------------
(* The thread that is being stopped. *)

(* Its pointer is cleared before it is posted, and the post stays for it   *)
(* unless it is the one that takes it, which ends it.                      *)
Victim ==
  /\ app \in {"post", "join"} => ~m_pEvent[victim]
  /\ app = "join" => at[victim] = "ended" \/ posted[victim] > 0

LEMMA VictimInit == Init => Victim
BY DEF Init, Victim

LEMMA VictimNext == TypeOK /\ Victim /\ [Next]_vars => Victim'
<1> SUFFICES ASSUME TypeOK, Victim, [Next]_vars PROVE Victim' OBVIOUS
<1> USE DEF appVars, threads
<1>0. /\ m_pEvent \in [Thread -> BOOLEAN] /\ at \in [Thread -> ThreadPlace] /\ victim \in Thread
      /\ posted \in [Thread -> 0..MaxPosted]
  BY DEF TypeOK
<1>1. ASSUME UNCHANGED <<appVars, m_pEvent, posted, at>> PROVE Victim' BY <1>1 DEF Victim
<1>2. CASE app' \notin {"post", "join"} BY <1>2 DEF Victim
<1>3. CASE RemoveHandle
  <2>1. CASE app = "clear"
    BY <1>0, <1>3, <2>1 DEF RemoveHandle, Victim
  <2>2. CASE app = "post"
    <3>1. posted' = [posted EXCEPT ![victim] = Post(@)] /\ Post(posted[victim]) > 0
      BY <1>0, <1>3, <2>2, PostType DEF RemoveHandle
    <3> QED BY <1>0, <1>3, <2>2, <3>1 DEF RemoveHandle, Victim
  <2> QED BY <1>3, <2>1, <2>2 DEF RemoveHandle
<1>4. CASE AppStep /\ ~RemoveHandle
  BY <1>1, <1>2, <1>4
     DEF AppStep, Decode_RefreshAudioDevices, Decode_EnumDevices, Decode_StartByName,
         Decode_Initialize, ReinitialisePortAudio, Decode_Start, StartManager, StartManagerRaces,
         StartStream, Decode_Stop, Decode_Shutdown, StopStream, Terminate, Join, NextVictim,
         DestroyMembers, Free
<1>5. CASE CallbackInPushes
  <2>1. /\ posted' = [posted EXCEPT ![Manager] = Post(@)] /\ UNCHANGED <<appVars, m_pEvent, at>>
        /\ Post(posted[Manager]) > 0
    BY <1>0, <1>5, PostType DEF CallbackInPushes, Thread
  <2> QED BY <1>0, <2>1 DEF Victim
<1>6. CASE CallbackIn \/ CallbackInGets \/ CallbackOutStep
  BY <1>1, <1>6
     DEF CallbackIn, CallbackInGets, CallbackOutStep, CallbackOut, PopAudioOutput, CallbackOutReturns
<1>7. ASSUME NEW t \in Thread, NEW place \in ThreadPlace, MoveTo(t, place), at[t] # "ended",
             UNCHANGED <<appVars, m_pEvent, posted>>
      PROVE  Victim'
  BY <1>0, <1>7 DEF Victim, MoveTo
<1>8. ASSUME NEW t \in Thread, Wake(t) PROVE Victim'
  <2>1. CASE t = victim /\ ~m_pEvent[victim]
    <3>1. at'[victim] = "ended" BY <1>0, <1>8, <2>1 DEF Wake, MoveTo
    <3> QED BY <1>0, <1>8, <2>1, <3>1 DEF Wake, Victim
  <2>2. CASE t = victim /\ m_pEvent[victim]
    BY <1>8, <2>2 DEF Wake, Victim
  <2>3. CASE t # victim
    <3>1. at'[victim] = at[victim] /\ posted'[victim] = posted[victim]
      BY <1>0, <1>8, <2>3 DEF Wake, MoveTo
    <3> QED BY <1>8, <3>1 DEF Wake, Victim
  <2> QED BY <2>1, <2>2, <2>3
<1>9. CASE FeedDecoders
  <2>1. PICK fed \in SUBSET m_decoders :
          posted' = [u \in Thread |-> IF u \in fed THEN Post(posted[u]) ELSE posted[u]]
    BY <1>9 DEF FeedDecoders
  <2>2. posted[victim] > 0 => posted'[victim] > 0 BY <1>0, <2>1, PostType
  <2>3. at[victim] = "ended" => at'[victim] = "ended" BY <1>0, <1>9 DEF FeedDecoders, MoveTo, Thread
  <2> QED BY <1>9, <2>2, <2>3 DEF FeedDecoders, Victim
<1>10. ASSUME NEW t \in Thread, RunStep(t) \/ DecoderStep(t) PROVE Victim'
  BY <1>1, <1>7, <1>8, <1>10
     DEF RunStep, DecoderStep, TestEvent, WaitForEvent, WaitForNull, CollectAudioInput,
         FinishInput, TakeOutput, PublishAudioOutput, SwapOutput, WorkLate, ThreadPlace
<1>11. CASE UNCHANGED vars BY <1>1, <1>11 DEF vars
<1> QED BY <1>3, <1>4, <1>5, <1>6, <1>9, <1>10, <1>11
        DEF Next, Step, ManagerStep, Thread, CallbackInStep

(* RemoveHandle never waits for a thread that waits for its event, in      *)
(* whatever place of Run, or of its work, the thread is overtaken.         *)
THEOREM VictimEnds == Spec => []VictimWillEnd
<1>1. Victim => VictimWillEnd BY DEF Victim, VictimWillEnd
<1> QED BY <1>1, TypeInit, TypeNext, VictimInit, VictimNext, PTL DEF Spec

-----------------------------------------------------------------------------
(* What there is of a session while a thread is somewhere. *)
Threads ==
  /\ manager = "none" => \A t \in Thread : at[t] = "none"
  /\ ~shuttingDown => \A t \in Thread : at[t] # "none" => m_pEvent[t]
  /\ m_decoders = {} => /\ m_queueAudioIn[Manager] = 0 /\ at[Manager] # "work"
                        /\ \A d \in Direction : pa[d] # "running"
  /\ \A d \in Decoder : at[d] # "none" => m_memPoolOut = OutBuffer

LEMMA ThreadsInit == Init => Threads
BY DEF Init, Threads, Thread

LEMMA ThreadsNextApp == TypeOK /\ SessionInv /\ Threads /\ AppStep => Threads'
<1> SUFFICES ASSUME TypeOK, SessionInv, Threads, AppStep PROVE Threads' OBVIOUS
<1> USE SomeDecoders, NobodyIsADecoder DEF appVars, objects, streams, threads, SessionInv
<1>0. /\ m_pEvent \in [Thread -> BOOLEAN] /\ at \in [Thread -> ThreadPlace]
      /\ pa \in [Direction -> {"closed", "open", "running"}]
  BY DEF TypeOK
<1>00. Decoder \subseteq Thread /\ Manager \in Thread /\ Manager \notin Decoder BY DEF Thread
<1>1. CASE Decode_Initialize
  BY <1>0, <1>00, <1>1 DEF Decode_Initialize, Threads, CallPlaces
<1>2. CASE ReinitialisePortAudio
  BY <1>2 DEF ReinitialisePortAudio, Threads
<1>3. CASE Decode_Start
  BY <1>3 DEF Decode_Start, Threads
<1>4. CASE StartManager
  BY <1>00, <1>4 DEF StartManager, Threads, CallPlaces, Opening
<1>5. CASE StartManagerRaces
  BY <1>5 DEF StartManagerRaces, Threads
<1>6. ASSUME NEW d \in Direction, NEW here \in {"startIn", "startOut"}, NEW next,
             StartStream(d, here, next)
      PROVE  Threads'
  BY <1>6 DEF StartStream, Threads, CallPlaces
<1>7. CASE Decode_Stop
  BY <1>7 DEF Decode_Stop, Threads, CallPlaces
<1>8. CASE Decode_Shutdown
  BY <1>8 DEF Decode_Shutdown, Threads
<1>9. ASSUME NEW d \in Direction, NEW here, NEW next, StopStream(d, here, next) PROVE Threads'
  BY <1>0, <1>9 DEF StopStream, Threads
<1>10. CASE Terminate
  BY <1>10 DEF Terminate, Threads
<1>11. CASE RemoveHandle
  BY <1>11 DEF RemoveHandle, Threads, CallPlaces, Tearing
<1>12. CASE Join
  BY <1>12 DEF Join, Threads
<1>13. CASE DestroyMembers
  <2>1. m_queueAudioIn' = [m_queueAudioIn EXCEPT ![Manager] = 0] BY <1>13 DEF DestroyMembers
  <2>2. m_queueAudioIn[Manager] = 0 => m_queueAudioIn'[Manager] = 0
    BY <1>00, <2>1 DEF TypeOK
  <2> QED BY <1>13, <2>2 DEF DestroyMembers, Threads
<1>14. CASE Free
  <2>1. \A d \in Direction : pa[d] # "running"
    BY <1>0, <1>14 DEF Free, Streams, StreamHandlesTrue, Tearing
  <2> QED BY <1>00, <1>14, <2>1 DEF Free, Threads
<1> QED
  BY <1>1, <1>2, <1>3, <1>4, <1>5, <1>6, <1>7, <1>8, <1>9, <1>10, <1>11, <1>12, <1>13, <1>14
     DEF AppStep, Decode_RefreshAudioDevices, Decode_EnumDevices, Decode_StartByName, Direction

LEMMA ThreadsNext == TypeOK /\ SessionInv /\ Threads /\ [Next]_vars => Threads'
<1> SUFFICES ASSUME TypeOK, SessionInv, Threads, [Next]_vars PROVE Threads' OBVIOUS
<1> USE DEF appVars, objects, streams, threads
<1>0. at \in [Thread -> ThreadPlace] /\ m_queueAudioIn \in [Thread -> 0..(InQueueLimit + 1)]
  BY DEF TypeOK
<1>00. Decoder \subseteq Thread /\ Manager \in Thread /\ Manager \notin Decoder
  BY NobodyIsADecoder DEF Thread
<1>1. CASE AppStep BY <1>1, ThreadsNextApp
<1>2. ASSUME UNCHANGED <<appVars, objects, streams, m_pEvent, at, m_queueAudioIn>> PROVE Threads'
  BY <1>2 DEF Threads
<1>3. CASE CallbackInPushes
  <2>1. pa["in"] = "running" BY <1>3 DEF CallbackInPushes, SessionInv, Streams, Direction
  <2>2. m_decoders # {} BY <2>1 DEF Threads, Direction
  <2> QED BY <1>3, <2>2 DEF CallbackInPushes, Threads
<1>4. CASE CallbackIn \/ CallbackInGets \/ CallbackOutStep
  BY <1>2, <1>4
     DEF CallbackIn, CallbackInGets, CallbackOutStep, CallbackOut, PopAudioOutput, CallbackOutReturns
<1>5. ASSUME NEW t \in Thread, NEW place \in ThreadPlace \ {"none", "work"}, MoveTo(t, place),
             at[t] # "none", UNCHANGED <<appVars, objects, streams, m_pEvent, m_queueAudioIn>>
      PROVE  Threads'
  <2>1. /\ at'[t] = place /\ \A u \in Thread : u # t => at'[u] = at[u] BY <1>0, <1>5 DEF MoveTo
  <2>2. \A u \in Thread : at'[u] # "none" <=> at[u] # "none" BY <1>5, <2>1
  <2>3. at'[Manager] = "work" => at[Manager] = "work" BY <1>00, <1>5, <2>1
  <2> QED BY <1>00, <1>5, <2>2, <2>3 DEF Threads
<1>6. ASSUME NEW t \in Thread, CollectAudioInput(t), m_queueAudioIn[t] > 0 PROVE Threads'
  <2>1. /\ at'[t] = "work" /\ \A u \in Thread : u # t => at'[u] = at[u]
        /\ \A u \in Thread : u # t => m_queueAudioIn'[u] = m_queueAudioIn[u]
    BY <1>0, <1>6 DEF CollectAudioInput, MoveTo
  <2>2. \A u \in Thread : at'[u] # "none" <=> at[u] # "none"
    BY <1>6, <2>1 DEF CollectAudioInput
  <2>3. t = Manager => m_decoders # {} BY <1>0, <1>6 DEF Threads
  <2> QED BY <1>00, <1>6, <2>1, <2>2, <2>3 DEF Threads, CollectAudioInput
<1>7. CASE FeedDecoders
  <2>1. m_decoders # {} BY <1>7 DEF FeedDecoders, Threads
  <2>2. \A u \in Thread : at'[u] # "none" <=> at[u] # "none"
    BY <1>0, <1>00, <1>7 DEF FeedDecoders, MoveTo
  <2> QED BY <1>00, <1>7, <2>1, <2>2 DEF FeedDecoders, Threads
<1>8. ASSUME NEW t \in Thread, RunStep(t) PROVE Threads'
  <2>1. CASE CollectAudioInput(t)
    BY <1>0, <1>5, <1>6, <2>1 DEF CollectAudioInput, ThreadPlace
  <2>2. CASE TestEvent(t) BY <1>5, <2>2 DEF TestEvent, ThreadPlace
  <2>3. CASE WaitForEvent(t) BY <1>5, <2>3 DEF WaitForEvent, ThreadPlace
  <2>4. CASE Wake(t) BY <1>5, <2>4 DEF Wake, ThreadPlace
  <2>5. CASE WaitForNull(t) BY <1>2, <2>5 DEF WaitForNull
  <2> QED BY <1>8, <2>1, <2>2, <2>3, <2>4, <2>5 DEF RunStep
<1>9. ASSUME NEW d \in Decoder, DecoderStep(d) PROVE Threads'
  BY <1>00, <1>2, <1>5, <1>8, <1>9
     DEF DecoderStep, FinishInput, TakeOutput, PublishAudioOutput, SwapOutput, WorkLate, ThreadPlace
<1>10. CASE UNCHANGED vars BY <1>2, <1>10 DEF vars
<1> QED BY <1>00, <1>1, <1>3, <1>4, <1>7, <1>8, <1>9, <1>10
        DEF Next, Step, ManagerStep, CallbackInStep

-----------------------------------------------------------------------------
(* The output pool.                                                        *)

(* It holds a buffer for every decoder, for every place of the queue (one  *)
(* more than its limit) and for the callback: 64 where 39 are needed.      *)
PoolHoldsAll == Cardinality(OutBuffer) >= Cardinality(Decoder) + OutQueueLimit + 2

QueueBounded == Len(m_queueAudioOut) <= OutQueueLimit + 1

LEMMA QueueInit == Init => QueueBounded
BY LimitsAreCounts DEF Init, QueueBounded

LEMMA QueueNext == TypeOK /\ QueueBounded /\ [Next]_vars => QueueBounded'
<1> SUFFICES ASSUME TypeOK, QueueBounded, [Next]_vars PROVE QueueBounded' OBVIOUS
<1> USE LimitsAreCounts DEF audio, QueueBounded
<1>0. m_queueAudioOut \in Seq(OutBuffer) /\ Len(m_queueAudioOut) \in Nat BY DEF TypeOK
<1>1. CASE m_queueAudioOut' = m_queueAudioOut BY <1>1
<1>2. CASE m_queueAudioOut' = <<>> BY <1>2
<1>3. CASE AppStep
  BY <1>1, <1>2, <1>3
     DEF AppStep, Decode_RefreshAudioDevices, Decode_EnumDevices, Decode_StartByName,
         Decode_Initialize, ReinitialisePortAudio, Decode_Start, StartManager, StartManagerRaces,
         StartStream, Decode_Stop, Decode_Shutdown, StopStream, Terminate, RemoveHandle, Join,
         DestroyMembers, Free
<1>4. CASE CallbackInStep \/ CallbackOut \/ CallbackOutReturns
  BY <1>1, <1>4
     DEF CallbackInStep, CallbackIn, CallbackInGets, CallbackInPushes, CallbackOut, CallbackOutReturns
<1>5. CASE PopAudioOutput
  <2>1. m_queueAudioOut' = m_queueAudioOut
          \/ (Len(m_queueAudioOut) > 0 /\ m_queueAudioOut' = Tail(m_queueAudioOut))
    BY SMTT(20), <1>0, <1>5 DEF PopAudioOutput, TypeOK
  <2> QED BY <1>0, <2>1
<1>6. ASSUME NEW d \in Decoder, PublishAudioOutput(d) PROVE QueueBounded'
  <2>1. m_audioOut[d] \in OutBuffer BY <1>6 DEF PublishAudioOutput, TypeOK
  <2>2. CASE Len(m_queueAudioOut) > OutQueueLimit
    <3>1. Tail(m_queueAudioOut) \in Seq(OutBuffer) /\ Len(Tail(m_queueAudioOut)) = Len(m_queueAudioOut) - 1
      BY <1>0, <2>2
    <3> QED BY <1>0, <1>6, <2>1, <2>2, <3>1 DEF PublishAudioOutput
  <2>3. CASE ~(Len(m_queueAudioOut) > OutQueueLimit)
    BY <1>0, <1>6, <2>1, <2>3 DEF PublishAudioOutput
  <2> QED BY <2>2, <2>3
<1>7. ASSUME NEW t \in Thread,
             RunStep(t) \/ FeedDecoders \/ (t \in Decoder /\ DecoderStep(t))
      PROVE  QueueBounded'
  BY <1>1, <1>6, <1>7
     DEF RunStep, DecoderStep, TestEvent, WaitForEvent, WaitForNull, Wake, CollectAudioInput,
         FeedDecoders, FinishInput, TakeOutput, SwapOutput, WorkLate
<1>8. CASE UNCHANGED vars BY <1>1, <1>8 DEF vars
<1> QED BY <1>3, <1>4, <1>5, <1>7, <1>8 DEF Next, Step, ManagerStep, Thread, CallbackOutStep

(* The image of a finite set is no larger than the set. *)
LEMMA ImageBounded ==
  ASSUME NEW S, IsFiniteSet(S), NEW f
  PROVE  /\ IsFiniteSet({f[x] : x \in S})
         /\ Cardinality({f[x] : x \in S}) <= Cardinality(S)
<1> DEFINE T == {f[x] : x \in S}
           g == [x \in S |-> f[x]]
<1>1. g \in Surjection(S, T) BY DEF Surjection
<1> QED BY <1>1, FS_Surjection

LEMMA UnionBounded ==
  ASSUME NEW S, NEW T, IsFiniteSet(S), IsFiniteSet(T)
  PROVE  /\ IsFiniteSet(S \cup T) /\ Cardinality(S \cup T) \in Nat
         /\ Cardinality(S \cup T) <= Cardinality(S) + Cardinality(T)
<1>1. IsFiniteSet(S \cap T) BY FS_Intersection
<1>2. /\ IsFiniteSet(S \cup T)
      /\ Cardinality(S \cup T) = Cardinality(S) + Cardinality(T) - Cardinality(S \cap T)
  BY FS_Union
<1>3. Cardinality(S) \in Nat /\ Cardinality(T) \in Nat /\ Cardinality(S \cap T) \in Nat
  BY <1>1, FS_CardinalityType
<1> QED BY <1>2, <1>3, FS_CardinalityType

LEMMA PoolHasOne ==
  ASSUME TypeOK, QueueBounded, Threads, PoolHoldsAll, NEW d \in Decoder, at[d] = "work",
         m_audioOut[d] = NoBuffer
  PROVE  FreeOut # {}
<1> SUFFICES ASSUME FreeOut = {} PROVE FALSE OBVIOUS
<1> DEFINE queued == {m_queueAudioOut[i] : i \in 1..Len(m_queueAudioOut)}
           others == {m_audioOut[e] : e \in Decoder \ {d}}
<1>1. m_memPoolOut = OutBuffer BY DEF Threads
<1>2. OutBuffer \subseteq (queued \cup others) \cup {playing}
  BY <1>1, NobodyIsADecoder DEF FreeOut
<1>3. Len(m_queueAudioOut) \in Nat /\ Len(m_queueAudioOut) <= OutQueueLimit + 1
  BY DEF TypeOK, QueueBounded
<1>4. IsFiniteSet(queued) /\ Cardinality(queued) <= Len(m_queueAudioOut)
  <2>1. /\ IsFiniteSet(1..Len(m_queueAudioOut))
        /\ Cardinality(1..Len(m_queueAudioOut)) =
             IF 1 > Len(m_queueAudioOut) THEN 0 ELSE Len(m_queueAudioOut) - 1 + 1
    BY <1>3, FS_Interval
  <2>2. Cardinality(1..Len(m_queueAudioOut)) = Len(m_queueAudioOut) BY <1>3, <2>1
  <2>3. IsFiniteSet(queued) /\ Cardinality(queued) <= Cardinality(1..Len(m_queueAudioOut))
    BY <2>1, ImageBounded
  <2> QED BY <2>2, <2>3
<1>5. IsFiniteSet(others) /\ Cardinality(others) <= Cardinality(Decoder) - 1
  <2>1. IsFiniteSet(Decoder \ {d}) /\ Cardinality(Decoder \ {d}) = Cardinality(Decoder) - 1
    BY SomeDecoders, FS_RemoveElement
  <2>2. IsFiniteSet(others) /\ Cardinality(others) <= Cardinality(Decoder \ {d})
    BY <2>1, ImageBounded
  <2> QED BY <2>1, <2>2
<1>6. IsFiniteSet({playing}) /\ Cardinality({playing}) = 1 BY FS_Singleton
<1>7. /\ IsFiniteSet(queued \cup others)
      /\ Cardinality(queued \cup others) <= Cardinality(queued) + Cardinality(others)
  BY <1>4, <1>5, UnionBounded
<1>8. /\ IsFiniteSet((queued \cup others) \cup {playing})
      /\ Cardinality((queued \cup others) \cup {playing}) <= Cardinality(queued \cup others) + 1
  BY <1>6, <1>7, UnionBounded
<1>9. Cardinality(OutBuffer) <= Cardinality((queued \cup others) \cup {playing})
  BY <1>2, <1>8, FS_Subset
<1>10. /\ Cardinality(queued) \in Nat /\ Cardinality(others) \in Nat /\ Cardinality(Decoder) \in Nat
       /\ Cardinality(queued \cup others) \in Nat /\ Cardinality(OutBuffer) \in Nat
       /\ Cardinality((queued \cup others) \cup {playing}) \in Nat
  BY <1>4, <1>5, <1>7, <1>8, SomeDecoders, FS_CardinalityType
<1>11. OutQueueLimit \in Nat BY LimitsAreCounts
<1>12. Cardinality(OutBuffer) >= Cardinality(Decoder) + OutQueueLimit + 2 BY DEF PoolHoldsAll
<1> HIDE DEF queued, others
<1> QED BY <1>3, <1>4, <1>5, <1>7, <1>8, <1>9, <1>10, <1>11, <1>12

LEMMA NeverDryNext ==
  ASSUME TypeOK, QueueBounded, Threads, PoolHoldsAll, PoolNeverDry, [Next]_vars
  PROVE  PoolNeverDry'
<1> USE DEF PoolNeverDry
<1>1. CASE AppStep
  BY <1>1
     DEF AppStep, Decode_RefreshAudioDevices, Decode_EnumDevices, Decode_StartByName,
         Decode_Initialize, ReinitialisePortAudio, Decode_Start, StartManager, StartManagerRaces,
         StartStream, Decode_Stop, Decode_Shutdown, StopStream, Terminate, RemoveHandle, Join,
         DestroyMembers, Free
<1>2. CASE CallbackInStep \/ CallbackOutStep
  BY <1>2
     DEF CallbackInStep, CallbackOutStep, CallbackIn, CallbackInGets, CallbackInPushes,
         CallbackOut, PopAudioOutput, CallbackOutReturns, Relies
<1>3. ASSUME NEW t \in Thread, RunStep(t) \/ FeedDecoders PROVE PoolNeverDry'
  BY <1>3
     DEF RunStep, TestEvent, WaitForEvent, WaitForNull, Wake, CollectAudioInput, FeedDecoders, Relies
<1>4. ASSUME NEW d \in Decoder, TakeOutput(d) PROVE PoolNeverDry'
  BY <1>4, PoolHasOne DEF TakeOutput, Relies
<1>5. ASSUME NEW d \in Decoder, DecoderStep(d) PROVE PoolNeverDry'
  BY <1>3, <1>4, <1>5
     DEF DecoderStep, Thread, FinishInput, PublishAudioOutput, SwapOutput, WorkLate
<1>6. CASE UNCHANGED vars BY <1>6 DEF vars
<1> QED BY <1>1, <1>2, <1>3, <1>5, <1>6 DEF Next, Step, ManagerStep, Thread

(* A decoder that needs an output buffer gets one, however slowly the      *)
(* output callback plays, when the pool has a buffer for every decoder,    *)
(* for every place of the output queue and for the callback.               *)
THEOREM NeverDry == ASSUME PoolHoldsAll PROVE Spec => []PoolNeverDry
<1>1. Init => PoolNeverDry BY DEF Init, PoolNeverDry
<1>2. TypeOK /\ QueueBounded /\ Threads /\ PoolNeverDry /\ [Next]_vars => PoolNeverDry'
  BY NeverDryNext
<1> QED BY <1>1, <1>2, TypeInit, TypeNext, SessionInit, SessionNext, ThreadsInit, ThreadsNext,
           QueueInit, QueueNext, PTL DEF Spec

-----------------------------------------------------------------------------
(* The calls that find nothing going on.                                   *)

(* Nothing starts while such a Start sets the manager up, and such a       *)
(* Shutdown finds every thread asleep until it stops it itself.            *)
Calm ==
  /\ fault # "none" => ~quiet
  /\ quiet /\ app = "grow" => Quiet
  /\ quiet /\ shuttingDown =>
       /\ \A d \in Direction : pa[d] # "running"
       /\ \A t \in Thread : /\ at[t] \in {"none", "blocked", "ended"}
                            /\ m_queueAudioIn[t] = 0
                            /\ posted[t] > 0 => ~m_pEvent[t]

LEMMA CalmInit == Init => Calm
BY DEF Init, Calm

Safe == TypeOK /\ SessionInv /\ Threads /\ Victim /\ QueueBounded

LEMMA CalmNextApp == Safe /\ Calm /\ fault = "none" /\ AppStep => Calm'
<1> SUFFICES ASSUME Safe, Calm, fault = "none", AppStep PROVE Calm' OBVIOUS
<1> USE DEF Safe, appVars, objects, streams, threads
<1>0. /\ m_pEvent \in [Thread -> BOOLEAN] /\ at \in [Thread -> ThreadPlace] /\ victim \in Thread
      /\ posted \in [Thread -> 0..MaxPosted] /\ Manager \in Thread /\ quiet \in BOOLEAN
      /\ pa \in [Direction -> {"closed", "open", "running"}]
      /\ m_queueAudioIn \in [Thread -> 0..(InQueueLimit + 1)]
  BY DEF TypeOK, Thread
<1>1. CASE Decode_Initialize
  BY <1>1 DEF Decode_Initialize, Calm, SessionInv, CallPlaces
<1>2. CASE ReinitialisePortAudio
  BY <1>2 DEF ReinitialisePortAudio, Calm
<1>3. CASE Decode_Start
  <2>1. /\ quiet' = Quiet /\ ~shuttingDown /\ ~shuttingDown' /\ fault' = "none"
        /\ \A d \in Direction : pa'[d] # "running"
        /\ UNCHANGED <<at, posted, m_queueAudioIn>>
    BY <1>3 DEF Decode_Start, SessionInv, CallPlaces
  <2> QED BY <2>1 DEF Calm, Quiet
<1>4. CASE StartManager
  BY <1>4 DEF StartManager, Calm, SessionInv, CallPlaces, Opening
<1>5. CASE StartManagerRaces
  <2>1. ~quiet BY <1>0, <1>5 DEF StartManagerRaces, Executing, Calm, Quiet
  <2> QED BY <1>0, <1>5, <2>1 DEF StartManagerRaces, Calm
<1>6. ASSUME NEW d \in Direction, NEW here \in {"startIn", "startOut"},
             NEW next \in {"startOut", "idle"}, StartStream(d, here, next)
      PROVE  Calm'
  BY <1>6 DEF StartStream, Calm, SessionInv, CallPlaces, Opening
<1>7. CASE Decode_Stop
  BY <1>7 DEF Decode_Stop, Calm
<1>8. CASE Decode_Shutdown
  <2>1. quiet' = Quiet /\ app' = "stopIn" /\ fault' = "none" /\ UNCHANGED <<pa, threads>>
    BY <1>8 DEF Decode_Shutdown
  <2> QED BY <1>0, <2>1 DEF Calm, Quiet
<1>9. ASSUME NEW d \in Direction, NEW here, NEW next \in {"stopOut", "terminate", "idle"},
             StopStream(d, here, next)
      PROVE  Calm'
  <2>1. \A e \in Direction : pa[e] # "running" => pa'[e] # "running"
    BY <1>0, <1>9 DEF StopStream
  <2> QED BY <1>9, <2>1 DEF StopStream, Calm
<1>10. CASE Terminate
  BY <1>10 DEF Terminate, Calm
<1>11. CASE RemoveHandle
  <2>1. app' \in {"post", "join"} /\ shuttingDown /\ UNCHANGED <<shuttingDown, pa, at, m_queueAudioIn, quiet, fault>>
    BY <1>11 DEF RemoveHandle, SessionInv, CallPlaces, Tearing
  <2>2. \A t \in Thread : (posted[t] > 0 => ~m_pEvent[t]) => (posted'[t] > 0 => ~m_pEvent'[t])
    BY <1>0, <1>11 DEF RemoveHandle, Victim
  <2> QED BY <2>1, <2>2 DEF Calm
<1>12. CASE Join
  <2>1. app \in Tearing /\ app' \in Tearing /\ shuttingDown
    BY <1>12 DEF Join, NextVictim, SessionInv, CallPlaces, Tearing
  <2>2. quiet => fault' = "none" BY <1>0, <1>12, <2>1 DEF Join, Calm
  <2> QED BY <1>0, <1>12, <2>1, <2>2 DEF Join, Calm, Tearing
<1>13. CASE DestroyMembers
  <2>1. app' # "grow" BY <1>13 DEF DestroyMembers, NextVictim
  <2>2. \A t \in Thread : m_queueAudioIn[t] = 0 => m_queueAudioIn'[t] = 0
    BY <1>0, <1>13 DEF DestroyMembers
  <2> QED BY <1>13, <2>1, <2>2 DEF DestroyMembers, Calm
<1>14. CASE Free
  BY <1>14 DEF Free, Calm
<1> QED
  BY <1>1, <1>2, <1>3, <1>4, <1>5, <1>6, <1>7, <1>8, <1>9, <1>10, <1>11, <1>12, <1>13, <1>14
     DEF AppStep, Decode_RefreshAudioDevices, Decode_EnumDevices, Decode_StartByName, Direction

LEMMA CalmNext ==
  ASSUME Safe, Calm, PoolHoldsAll, [Next]_vars
  PROVE  Calm'
<1> USE DEF Safe, appVars, objects, streams, threads
<1>0. /\ m_pEvent \in [Thread -> BOOLEAN] /\ at \in [Thread -> ThreadPlace]
      /\ posted \in [Thread -> 0..MaxPosted] /\ Manager \in Thread /\ Decoder \subseteq Thread
  BY DEF TypeOK, Thread
<1>1. CASE UNCHANGED vars BY <1>1 DEF vars, Calm, Quiet
<1> SUFFICES ASSUME fault = "none", Step PROVE Calm' BY <1>1 DEF Next
<1>2. CASE AppStep BY <1>2, CalmNextApp
(* The streams of a quiet call do not run, and its threads sleep. *)
<1>3. ASSUME quiet, app = "grow" \/ shuttingDown
      PROVE  /\ \A d \in Direction : pa[d] # "running" /\ cb[d] = "idle"
             /\ \A t \in Thread : /\ at[t] \in {"none", "blocked", "ended"} /\ m_queueAudioIn[t] = 0
                                  /\ posted[t] > 0 => ~m_pEvent[t] /\ app # "grow"
  <2>1. /\ \A d \in Direction : pa[d] # "running"
        /\ \A t \in Thread : /\ at[t] \in {"none", "blocked", "ended"} /\ m_queueAudioIn[t] = 0
                             /\ posted[t] > 0 => ~m_pEvent[t] /\ app # "grow"
    BY <1>0, <1>3 DEF Calm, Quiet, SessionInv, CallPlaces, Opening
  <2> QED BY <2>1 DEF SessionInv, Streams
(* Elsewhere only a fault of the step could matter. *)
<1>4. ASSUME UNCHANGED <<appVars, quiet>>, ~(quiet /\ (app = "grow" \/ shuttingDown)),
             fault' # "none" => ~quiet
      PROVE  Calm'
  BY <1>4 DEF Calm
<1>5. CASE CallbackInStep \/ CallbackOutStep
  <2>1. \A d \in Direction : cb[d] # "idle" => MembersExist
    BY CallbackNeedsManager DEF MembersExist
  <2>2. UNCHANGED <<appVars, quiet>> /\ fault' = "none"
    BY <1>5, <2>1
       DEF Direction, CallbackInStep, CallbackOutStep, CallbackIn, CallbackInGets,
           CallbackInPushes, CallbackOut, PopAudioOutput, CallbackOutReturns, Relies
  <2>3. \E d \in Direction : pa[d] = "running" \/ cb[d] # "idle"
    BY <1>5
       DEF Direction, CallbackInStep, CallbackOutStep, CallbackIn, CallbackInGets,
           CallbackInPushes, CallbackOut, PopAudioOutput, CallbackOutReturns, MayCall
  <2> QED BY <1>3, <1>4, <2>2, <2>3
(* A thread runs in a quiet call only when it is stopped. *)
<1>6. ASSUME NEW t \in Thread, Wake(t) PROVE Calm'
  <2>1. UNCHANGED <<appVars, quiet, pa, m_pEvent, m_queueAudioIn, fault>> /\ posted[t] > 0
    BY <1>6 DEF Wake
  <2>2. CASE quiet /\ (app = "grow" \/ shuttingDown)
    <3>1. ~m_pEvent[t] /\ app # "grow" BY <1>3, <2>1, <2>2
    <3>2. /\ at' = [at EXCEPT ![t] = "ended"] /\ posted' = [posted EXCEPT ![t] = @ - 1]
      BY <1>6, <3>1 DEF Wake, MoveTo
    <3>3. \A u \in Thread : posted'[u] > 0 => posted[u] > 0 BY <1>0, <3>2, <2>1
    <3>4. \A u \in Thread : at'[u] = at[u] \/ at'[u] = "ended" BY <1>0, <3>2
    <3> QED BY <1>3, <2>1, <2>2, <3>1, <3>3, <3>4 DEF Calm
  <2> QED BY <1>4, <2>1, <2>2
<1>7. ASSUME NEW t \in Thread, WaitForNull(t) PROVE Calm'
  <2>1. at[t] = "load" /\ ~m_pEvent[t] /\ UNCHANGED <<appVars, quiet>> BY <1>7 DEF WaitForNull
  <2>2. shuttingDown BY <2>1 DEF Threads
  <2>3. ~quiet BY <1>3, <2>1, <2>2
  <2> QED BY <1>4, <2>1, <2>3
<1>8. ASSUME NEW t \in Thread, RunStep(t), ~Wake(t), ~WaitForNull(t) PROVE Calm'
  <2>1. at[t] \notin {"none", "blocked", "ended"} /\ UNCHANGED <<appVars, quiet, fault>>
    BY <1>8 DEF RunStep, TestEvent, WaitForEvent, CollectAudioInput
  <2> QED BY <1>3, <1>4, <2>1
<1>9. CASE FeedDecoders
  <2>1. at[Manager] = "work" /\ UNCHANGED <<appVars, quiet>> BY <1>9 DEF FeedDecoders
  <2>2. m_decoders # {} BY <2>1 DEF Threads
  <2>3. fault' = "none" BY <1>9, <2>2 DEF FeedDecoders, Relies
  <2> QED BY <1>0, <1>3, <1>4, <2>1, <2>3
<1>10. ASSUME NEW d \in Decoder, DecoderStep(d), ~RunStep(d) PROVE Calm'
  <2>1. at[d] \in {"work", "swap"} /\ UNCHANGED <<appVars, quiet>>
    BY <1>10 DEF DecoderStep, FinishInput, TakeOutput, PublishAudioOutput, SwapOutput, WorkLate
  <2>2. ~(quiet /\ (app = "grow" \/ shuttingDown)) BY <1>0, <1>3, <2>1
  <2>3. TakeOutput(d) => fault' = "none" BY PoolHasOne DEF TakeOutput, Relies
  <2>4. WorkLate(d) => ~quiet
    <3>1. ASSUME WorkLate(d) PROVE shuttingDown
      <4>1. manager \in {"none", "torn"} BY <3>1 DEF WorkLate, MembersExist, TypeOK
      <4>2. manager # "none" BY <1>0, <2>1 DEF Threads
      <4> QED BY <4>1, <4>2 DEF SessionInv, CallPlaces, TypeOK, AppPlace, Opening, Tearing
    <3> QED BY <2>2, <3>1
  <2>5. fault' # "none" => ~quiet
    BY <1>10, <2>3, <2>4 DEF DecoderStep, FinishInput, PublishAudioOutput, SwapOutput
  <2> QED BY <1>4, <2>1, <2>2, <2>5
<1>11. ASSUME NEW t \in Thread, RunStep(t) PROVE Calm' BY <1>6, <1>7, <1>8, <1>11
<1> QED BY <1>0, <1>2, <1>5, <1>9, <1>10, <1>11 DEF Step, ManagerStep

(* A Start or a Shutdown that finds every stream stopped and every thread  *)
(* asleep with nothing to do meets no undefined behaviour, neither in the  *)
(* call nor until the next one.                                            *)
THEOREM QuietSafe == ASSUME PoolHoldsAll PROVE Spec => []QuietCallsAreSafe
<1>1. Safe /\ Calm /\ [Next]_vars => Calm' BY CalmNext
<1>2. Calm => QuietCallsAreSafe BY DEF Calm, QuietCallsAreSafe
<1> QED BY <1>1, <1>2, TypeInit, TypeNext, SessionInit, SessionNext, ThreadsInit, ThreadsNext,
           VictimInit, VictimNext, QueueInit, QueueNext, CalmInit, PTL DEF Spec, Safe
=============================================================================
