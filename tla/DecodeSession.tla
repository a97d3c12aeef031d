---------------------------- MODULE DecodeSession ----------------------------
(***************************************************************************)
(* A decode session, from Decode_Initialize to Decode_Shutdown: the        *)
(* application's thread, PortAudio's two callbacks, the manager's thread   *)
(* and the decoders' threads, with the event and the pointer to it through *)
(* which a CWorkerThread is woken and stopped, and the audio the decoders  *)
(* publish and the output callback plays (funcubeLib.cpp, decode.cpp,      *)
(* decodeManager.cpp, decodeWorker.cpp, memPool.cpp, wintypes.h).          *)
(*                                                                         *)
(* An input buffer is a unit in a queue: DecodePipeline says what becomes  *)
(* of its contents.  An output buffer is one of OutBuffers, because a      *)
(* decoder keeps its reference to one it has published.  The first use of  *)
(* memory that is gone, or of a vector while it grows, is undefined        *)
(* behaviour: fault records it and the process does nothing more.          *)
(***************************************************************************)
EXTENDS Integers, Sequences, FiniteSets

CONSTANTS
  Decoder,         \* the decoders a Start makes (32)
  Manager,         \* the manager's thread
  OutBuffer,       \* the output buffers a Start makes (64)
  NoBuffer,
  OutQueueLimit,   \* the audio output queue discards above it (5)
  RestartCount,    \* what must wait after the output ran dry (3)
  FirstCount,      \* ... and at the beginning (24)
  InQueueLimit,    \* an input queue discards above it
  MaxPosted,       \* bound: the wake-ups that may wait in one event
  MaxStarts        \* bound: the times a session is started

ASSUME NobodyIsADecoder == Manager \notin Decoder /\ NoBuffer \notin OutBuffer
ASSUME LimitsAreCounts ==
  {OutQueueLimit, RestartCount, FirstCount, InQueueLimit, MaxPosted, MaxStarts}
    \subseteq Nat
ASSUME SomeDecoders ==
  IsFiniteSet(Decoder) /\ Decoder # {} /\ IsFiniteSet(OutBuffer)
ASSUME AWakeUpCanWait == MaxPosted > 0

Thread == {Manager} \cup Decoder
Direction == {"in", "out"}

VARIABLES
  app,            \* where the application's thread is
  shuttingDown,   \* whether its Stop is Shutdown's
  victim,         \* the thread RemoveHandle is stopping
  starts,         \* the times this session was started
  manager,        \* the CDecodeManager: "none", "alive", "dying", "torn"
  m_decoders,     \* the decoders Start has pushed
  m_memPoolOut,   \* the output buffers Start has made
  m_stream,       \* m_streamIn, m_streamOut: whether each is not NULL
  pa,             \* the streams as PortAudio has them
  cb,             \* where each callback is
  m_lockWorking,
  playing,        \* the output buffer the callback plays from
  m_pEvent,       \* whether a thread's m_pEvent is not NULL
  posted,         \* the count of a thread's semaphore
  at,             \* where a thread is
  m_queueAudioIn, \* the buffers a thread has yet to collect
  m_queueAudioOut,
  m_requiredAudioCount,
  m_enableAudioOut,   \* the decoders that publish audio
  m_audioOut,     \* the output buffer each decoder fills
  quiet,          \* whether nothing was going on when the last call began
  fault           \* what undefined behaviour happened, or "none"

appVars == <<app, shuttingDown, victim, starts>>
objects == <<manager, m_decoders, m_memPoolOut>>
streams == <<m_stream, pa>>
callbacks == <<cb, m_lockWorking>>
threads == <<m_pEvent, posted, at, m_queueAudioIn>>
audio == <<playing, m_queueAudioOut, m_requiredAudioCount, m_enableAudioOut,
           m_audioOut>>
vars == <<appVars, objects, streams, callbacks, threads, audio, quiet, fault>>

AppPlace == {"idle", "grow", "startIn", "startOut", "stopIn", "stopOut",
             "terminate", "clear", "post", "join", "members", "free"}
CallbackPlace == {"idle", "get", "copy", "pop", "play"}
ThreadPlace == {"none", "test", "load", "blocked", "execute", "work",
                "swap", "ended"}
Fault == {"none", "manager", "members", "decoders", "event", "dry"}

Init ==
  /\ manager = "none" /\ m_decoders = {} /\ m_memPoolOut = {}
  /\ m_pEvent = [t \in Thread |-> FALSE]
  /\ posted = [t \in Thread |-> 0]
  /\ at = [t \in Thread |-> "none"]
  /\ m_queueAudioIn = [t \in Thread |-> 0]
  /\ m_queueAudioOut = <<>> /\ m_requiredAudioCount = FirstCount
  /\ m_enableAudioOut = {} /\ m_audioOut = [d \in Decoder |-> NoBuffer]
  /\ starts = 0
  /\ app = "idle" /\ shuttingDown = FALSE /\ victim = Manager
  /\ m_stream = [d \in Direction |-> FALSE]
  /\ pa = [d \in Direction |-> "closed"]
  /\ cb = [d \in Direction |-> "idle"] /\ m_lockWorking = 0
  /\ playing = NoBuffer
  /\ quiet = TRUE /\ fault = "none"

-----------------------------------------------------------------------------
(* The manager's members can be used until its destructor's body is done.  *)
MembersExist == manager \in {"alive", "dying"}

(* The undefined behaviour of a step that relies on ok. *)
Relies(ok, otherwise) == fault' = IF ok THEN fault ELSE otherwise

Executing(t) == at[t] \in {"execute", "work", "swap"}

(* Nothing is going on: no stream runs and every thread sleeps with nothing *)
(* to do.                                                                   *)
Quiet ==
  /\ \A d \in Direction : pa[d] # "running"
  /\ \A t \in Thread :
       at[t] \in {"none", "blocked"} /\ posted[t] = 0 /\ m_queueAudioIn[t] = 0

(* CEvent::Set, up to the bound. *)
Post(count) == IF count < MaxPosted THEN count + 1 ELSE count

(* A push that discards the oldest of a queue that is over its limit. *)
Pushed(count) == IF count > InQueueLimit THEN count ELSE count + 1

(* The buffers of the output pool nobody refers to: those on its stack. *)
FreeOut ==
  m_memPoolOut \ ({m_queueAudioOut[i] : i \in 1..Len(m_queueAudioOut)}
                    \cup {m_audioOut[d] : d \in Decoder} \cup {playing})

(* CMemPool::GetBuffer of the output pool. *)
GetEmptyOutputAudioBuffer ==
  IF FreeOut = {} THEN NoBuffer ELSE CHOOSE b \in FreeOut : TRUE

-----------------------------------------------------------------------------
(* The application: Decode_Initialize to Decode_Shutdown.  A call that a   *)
(* NULL m_pDecode, or a stream in progress, turns away changes nothing.    *)
Decode_Initialize ==
  /\ app = "idle" /\ manager = "none"
  /\ manager' = "alive"
  /\ m_pEvent' = [m_pEvent EXCEPT ![Manager] = TRUE]
  /\ at' = [at EXCEPT ![Manager] = "test"]
  /\ UNCHANGED <<appVars, m_decoders, m_memPoolOut, streams, callbacks, posted,
                 m_queueAudioIn, audio, quiet, fault>>

(* (A *Faulty operator is a variant of the definition that follows it,     *)
(* with a mistake that is easy to make there.  NotStreamingFaulty forgets  *)
(* the input stream.)                                                      *)
NotStreamingFaulty == ~m_stream["out"]

(* ReinitialisePortAudio, which Start, EnumDevices and RefreshAudioDevices *)
(* begin with: it refuses while there is a stream, and Pa_Terminate closes *)
(* whatever is open.                                                       *)
NotStreaming == \A d \in Direction : ~m_stream[d]

ReinitialisePortAudio ==
  /\ app = "idle" /\ manager = "alive"
  /\ NotStreaming
  /\ pa' = [d \in Direction |-> "closed"]
  /\ UNCHANGED <<appVars, objects, m_stream, callbacks, threads, audio, quiet,
                 fault>>

Decode_RefreshAudioDevices == ReinitialisePortAudio

(* The devices, but for the last, are told one by one while the callback   *)
(* likes to hear of more.                                                  *)
Decode_EnumDevices == ReinitialisePortAudio

(* (Decode_StartFaulty starts the streams it opens at once.)               *)
Decode_StartFaulty ==
  /\ app = "idle" /\ manager = "alive" /\ starts < MaxStarts
  /\ NotStreaming
  /\ \E opened \in {{}, {"in"}, {"in", "out"}} :
       /\ m_stream' = [d \in Direction |-> d \in opened]
       /\ pa' = [d \in Direction |->
                   IF d \in opened THEN "running" ELSE "closed"]
  /\ app' = "grow" /\ quiet' = Quiet /\ starts' = starts + 1
  /\ UNCHANGED <<shuttingDown, victim, objects, callbacks, threads, audio,
                 fault>>

(* CDecode::Start up to the manager's Start: the input stream opens or not, *)
(* and the output stream only if it did; neither failure ends the call.     *)
Decode_Start ==
  /\ app = "idle" /\ manager = "alive" /\ starts < MaxStarts
  /\ NotStreaming
  /\ \E opened \in {{}, {"in"}, {"in", "out"}} :
       /\ m_stream' = [d \in Direction |-> d \in opened]
       /\ pa' = [d \in Direction |-> IF d \in opened THEN "open" ELSE "closed"]
  /\ app' = "grow" /\ quiet' = Quiet /\ starts' = starts + 1
  /\ UNCHANGED <<shuttingDown, victim, objects, callbacks, threads, audio,
                 fault>>

(* Start by name ends when it finds no such devices; else it is a start by *)
(* index, which reinitialises once more.                                   *)
Decode_StartByName == ReinitialisePortAudio \/ Decode_Start

(* CDecodeManager::Start: more buffers and more decoders, whose threads    *)
(* start.  (The model has names for those of the first Start only.)        *)
StartManager ==
  /\ app = "grow" /\ app' = "startIn"
  /\ m_decoders' = Decoder /\ m_memPoolOut' = OutBuffer
  /\ at' = [t \in Thread |-> IF at[t] = "none" THEN "test" ELSE at[t]]
  /\ m_pEvent' = [t \in Thread |-> TRUE]
  /\ UNCHANGED <<shuttingDown, victim, starts, manager, streams, callbacks,
                 posted, m_queueAudioIn, audio, quiet, fault>>

(* It rearranges m_decoders and the FFT under a manager that executes. *)
StartManagerRaces ==
  /\ app = "grow" /\ Executing(Manager)
  /\ fault' = "decoders"
  /\ UNCHANGED <<appVars, objects, streams, callbacks, threads, audio, quiet>>

(* Pa_StartStream, of a stream that may not exist and may fail: the call   *)
(* goes on, and the stream stays open.                                     *)
StartStream(d, here, next) ==
  /\ app = here /\ app' = next
  /\ \E ok \in BOOLEAN :
       pa' = IF ok /\ pa[d] = "open" THEN [pa EXCEPT ![d] = "running"] ELSE pa
  /\ UNCHANGED <<shuttingDown, victim, starts, objects, m_stream, callbacks,
                 threads, audio, quiet, fault>>

Decode_Stop ==
  /\ app = "idle" /\ manager = "alive"
  /\ app' = "stopIn" /\ shuttingDown' = FALSE
  /\ UNCHANGED <<victim, starts, objects, streams, callbacks, threads, audio,
                 quiet, fault>>

Decode_Shutdown ==
  /\ app = "idle" /\ manager = "alive"
  /\ app' = "stopIn" /\ shuttingDown' = TRUE /\ quiet' = Quiet
  /\ UNCHANGED <<victim, starts, objects, streams, callbacks, threads, audio,
                 fault>>

(* (StopStreamFaulty does not wait, as Pa_AbortStream might not.)          *)
StopStreamFaulty(d, here, next) ==
  /\ app = here /\ app' = next
  /\ m_stream' = [m_stream EXCEPT ![d] = FALSE]
  /\ pa' = IF m_stream[d] THEN [pa EXCEPT ![d] = "closed"] ELSE pa
  /\ UNCHANGED <<shuttingDown, victim, starts, objects, callbacks, threads,
                 audio, quiet, fault>>

(* Pa_StopStream calls no callback any more and waits for the one that     *)
(* runs; Pa_CloseStream; the handle becomes NULL.                          *)
StopStream(d, here, next) ==
  /\ app = here /\ app' = next
  /\ m_stream[d] => cb[d] = "idle"
  /\ m_stream' = [m_stream EXCEPT ![d] = FALSE]
  /\ pa' = IF m_stream[d] THEN [pa EXCEPT ![d] = "closed"] ELSE pa
  /\ UNCHANGED <<shuttingDown, victim, starts, objects, callbacks, threads,
                 audio, quiet, fault>>

(* Shutdown takes the lock without looking whether it had it, and          *)
(* Pa_Terminate closes what is still open, which waits for its callback.   *)
Terminate ==
  /\ app = "terminate" /\ app' = "clear" /\ victim' = Manager
  /\ \A d \in Direction : pa[d] # "closed" => cb[d] = "idle"
  /\ pa' = [d \in Direction |-> "closed"]
  /\ manager' = "dying"
  /\ UNCHANGED <<shuttingDown, starts, m_decoders, m_memPoolOut, m_stream,
                 callbacks, threads, audio, quiet, fault>>

(* (RemoveHandleFaulty posts before it clears the pointer.)                *)
RemoveHandleFaulty ==
  /\ \/ /\ app = "clear" /\ app' = "post"
        /\ posted' = [posted EXCEPT ![victim] = Post(@)]
        /\ UNCHANGED m_pEvent
     \/ /\ app = "post" /\ app' = "join"
        /\ m_pEvent' = [m_pEvent EXCEPT ![victim] = FALSE]
        /\ UNCHANGED posted
  /\ UNCHANGED <<shuttingDown, victim, starts, objects, streams, callbacks, at,
                 m_queueAudioIn, audio, quiet, fault>>

(* CWorkerThread::RemoveHandle: the pointer first, then the wake-up, then  *)
(* the join.                                                               *)
RemoveHandle ==
  /\ \/ /\ app = "clear" /\ app' = "post"
        /\ m_pEvent' = [m_pEvent EXCEPT ![victim] = FALSE]
        /\ UNCHANGED posted
     \/ /\ app = "post" /\ app' = "join"
        /\ posted' = [posted EXCEPT ![victim] = Post(@)]
        /\ UNCHANGED m_pEvent
  /\ UNCHANGED <<shuttingDown, victim, starts, objects, streams, callbacks, at,
                 m_queueAudioIn, audio, quiet, fault>>

(* The decoders still to be destroyed, one after the other. *)
NextVictim ==
  LET left == {d \in m_decoders : at[d] # "ended"} \ {victim}
  IN  /\ victim' \in (IF left = {} THEN {victim} ELSE left)
      /\ app' = IF left = {} THEN "free" ELSE "clear"

(* What is destroyed once the thread has ended: after the manager's, its   *)
(* members; after a decoder's, that decoder's queue, whose buffers go back *)
(* to a pool that no longer exists.                                        *)
Join ==
  /\ app = "join" /\ at[victim] = "ended"
  /\ \/ victim = Manager /\ app' = "members" /\ UNCHANGED <<victim, fault>>
     \/ /\ victim # Manager /\ m_queueAudioIn[victim] > 0
        /\ fault' = "members" /\ UNCHANGED <<app, victim>>
     \/ /\ victim # Manager /\ m_queueAudioIn[victim] = 0
        /\ NextVictim
        /\ UNCHANGED fault
  /\ UNCHANGED <<shuttingDown, starts, objects, streams, callbacks, threads,
                 audio, quiet>>

(* ~CDecodeManager after its body: the queues give their buffers back, the *)
(* pools and the mutex go, and then m_decoders.                            *)
DestroyMembers ==
  /\ app = "members" /\ manager' = "torn"
  /\ m_queueAudioOut' = <<>>
  /\ m_queueAudioIn' = [m_queueAudioIn EXCEPT ![Manager] = 0]
  /\ NextVictim
  /\ UNCHANGED <<shuttingDown, starts, m_decoders, m_memPoolOut, streams,
                 callbacks, m_pEvent, posted, at, playing,
                 m_requiredAudioCount, m_enableAudioOut, m_audioOut, quiet,
                 fault>>

(* CDecode and its manager are gone; a CBpskDecoder is never deleted.      *)
Free ==
  /\ app = "free" /\ app' = "idle" /\ starts' = 0
  /\ shuttingDown' = FALSE /\ victim' = Manager
  /\ manager' = "none" /\ m_decoders' = {} /\ m_memPoolOut' = {}
  /\ m_pEvent' = [t \in Thread |-> FALSE]
  /\ posted' = [t \in Thread |-> 0]
  /\ at' = [t \in Thread |-> "none"]
  /\ m_queueAudioIn' = [t \in Thread |-> 0]
  /\ m_queueAudioOut' = <<>> /\ m_requiredAudioCount' = FirstCount
  /\ m_enableAudioOut' = {} /\ m_audioOut' = [d \in Decoder |-> NoBuffer]
  /\ UNCHANGED <<streams, callbacks, playing, quiet, fault>>

-----------------------------------------------------------------------------
(* PortAudio calls the input callback while its stream runs and nobody is  *)
(* stopping it; the callback turns back when the lock is taken.            *)
MayCall(d, stopping) == pa[d] = "running" /\ cb[d] = "idle" /\ app # stopping

CallbackIn ==
  /\ MayCall("in", "stopIn") /\ m_lockWorking = 0
  /\ cb' = [cb EXCEPT !["in"] = "get"]
  /\ m_lockWorking' = 1
  /\ UNCHANGED <<appVars, objects, streams, threads, audio, quiet, fault>>

(* It asks the manager for an empty buffer, and returns if the pool has    *)
(* none, or if there are no samples.                                       *)
CallbackInGets ==
  /\ cb["in"] = "get" /\ Relies(MembersExist, "manager")
  /\ \/ cb' = [cb EXCEPT !["in"] = "copy"] /\ UNCHANGED m_lockWorking
     \/ cb' = [cb EXCEPT !["in"] = "idle"] /\ m_lockWorking' = 0
  /\ UNCHANGED <<appVars, objects, streams, threads, audio, quiet>>

(* It copies the samples, pushes the buffer and returns. *)
CallbackInPushes ==
  /\ cb["in"] = "copy" /\ posted[Manager] < MaxPosted
  /\ Relies(MembersExist, "manager")
  /\ m_queueAudioIn' = [m_queueAudioIn EXCEPT ![Manager] = Pushed(@)]
  /\ posted' = [posted EXCEPT ![Manager] = Post(@)]
  /\ cb' = [cb EXCEPT !["in"] = "idle"] /\ m_lockWorking' = 0
  /\ UNCHANGED <<appVars, objects, streams, m_pEvent, at, audio, quiet>>

(* The output callback takes no lock; it does nothing unless the audio is  *)
(* monitored.                                                              *)
CallbackOut ==
  /\ MayCall("out", "stopOut")
  /\ cb' = [cb EXCEPT !["out"] = "pop"]
  /\ UNCHANGED <<appVars, objects, streams, m_lockWorking, threads, audio,
                 quiet, fault>>

PopAudioOutput ==
  /\ cb["out"] = "pop" /\ Relies(MembersExist, "manager")
  /\ \/ /\ Len(m_queueAudioOut) > m_requiredAudioCount
        /\ m_requiredAudioCount' = 0
        /\ playing' = Head(m_queueAudioOut)
        /\ m_queueAudioOut' = Tail(m_queueAudioOut)
        /\ cb' = [cb EXCEPT !["out"] = "play"]
     \/ /\ Len(m_queueAudioOut) <= m_requiredAudioCount
        /\ m_requiredAudioCount' = RestartCount
        /\ cb' = [cb EXCEPT !["out"] = "idle"]
        /\ UNCHANGED <<playing, m_queueAudioOut>>
  /\ UNCHANGED <<appVars, objects, streams, m_lockWorking, threads,
                 m_enableAudioOut, m_audioOut, quiet>>

CallbackOutReturns ==
  /\ cb["out"] = "play"
  /\ cb' = [cb EXCEPT !["out"] = "idle"] /\ playing' = NoBuffer
  /\ UNCHANGED <<appVars, objects, streams, m_lockWorking, threads,
                 m_queueAudioOut, m_requiredAudioCount, m_enableAudioOut,
                 m_audioOut, quiet, fault>>

-----------------------------------------------------------------------------
(* CWorkerThread::Run.  m_pEvent is read, tested, and read again to wait:  *)
(* if it was cleared in between, the thread waits on NULL, unless the      *)
(* build reads it once.                                                    *)
MoveTo(t, place) == at' = [at EXCEPT ![t] = place]

TestEvent(t) ==
  /\ at[t] = "test"
  /\ \/ m_pEvent[t] /\ MoveTo(t, "load")
     \/ ~m_pEvent[t] /\ MoveTo(t, "ended")
  /\ UNCHANGED <<appVars, objects, streams, callbacks, m_pEvent, posted,
                 m_queueAudioIn, audio, quiet, fault>>

WaitForEvent(t) ==
  /\ at[t] = "load" /\ MoveTo(t, "blocked")
  /\ UNCHANGED <<appVars, objects, streams, callbacks, m_pEvent, posted,
                 m_queueAudioIn, audio, quiet, fault>>

WaitForNull(t) ==
  /\ at[t] = "load" /\ ~m_pEvent[t]
  /\ fault' = "event"
  /\ UNCHANGED <<appVars, objects, streams, callbacks, threads, audio, quiet>>

(* Wait returns, and the pointer is tested again. *)
Wake(t) ==
  /\ at[t] = "blocked" /\ posted[t] > 0
  /\ posted' = [posted EXCEPT ![t] = @ - 1]
  /\ \/ m_pEvent[t] /\ MoveTo(t, "execute")
     \/ ~m_pEvent[t] /\ MoveTo(t, "ended")
  /\ UNCHANGED <<appVars, objects, streams, callbacks, m_pEvent,
                 m_queueAudioIn, audio, quiet, fault>>

(* CollectAudioInput: Execute returns when nothing waits. *)
CollectAudioInput(t) ==
  /\ at[t] = "execute"
  /\ \/ m_queueAudioIn[t] = 0 /\ MoveTo(t, "test") /\ UNCHANGED m_queueAudioIn
     \/ /\ m_queueAudioIn[t] > 0 /\ MoveTo(t, "work")
        /\ m_queueAudioIn' = [m_queueAudioIn EXCEPT ![t] = @ - 1]
  /\ UNCHANGED <<appVars, objects, streams, callbacks, m_pEvent, posted, audio,
                 quiet, fault>>

(* CDecodeManager::Execute has one buffer.  It drops one of another sample *)
(* rate; it feeds the first m_decoderNum decoders, those being any, or one *)
(* decoder alone, when it tunes by hand, whose audio it enables.  It       *)
(* indexes m_decoders whether or not Start has made them.                  *)
FeedDecoders ==
  /\ at[Manager] = "work" /\ MoveTo(Manager, "test")
  /\ Relies(m_decoders # {}, "decoders")
  /\ \E fed \in SUBSET m_decoders :
       /\ m_queueAudioIn' = [t \in Thread |-> IF t \in fed
                               THEN Pushed(m_queueAudioIn[t])
                               ELSE m_queueAudioIn[t]]
       /\ posted' = [t \in Thread |-> IF t \in fed THEN Post(posted[t])
                                                   ELSE posted[t]]
       /\ \/ UNCHANGED m_enableAudioOut
          \/ /\ Cardinality(fed) = 1
             /\ m_enableAudioOut' = m_enableAudioOut \cup fed
  /\ UNCHANGED <<appVars, objects, streams, callbacks, m_pEvent, playing,
                 m_queueAudioOut, m_requiredAudioCount, m_audioOut, quiet>>

(* A decoder is done with an input buffer, which goes back to its pool.    *)
FinishInput(d) ==
  /\ at[d] = "work" /\ MembersExist
  /\ d \in m_enableAudioOut => m_audioOut[d] # NoBuffer
  /\ MoveTo(d, "execute")
  /\ UNCHANGED <<appVars, objects, streams, callbacks, m_pEvent, posted,
                 m_queueAudioIn, audio, quiet, fault>>

(* AddOutSample takes an output buffer when it has none: it uses what it   *)
(* is given without a look.                                                *)
TakeOutput(d) ==
  /\ at[d] = "work" /\ MembersExist
  /\ d \in m_enableAudioOut /\ m_audioOut[d] = NoBuffer
  /\ m_audioOut' = [m_audioOut EXCEPT ![d] = GetEmptyOutputAudioBuffer]
  /\ Relies(FreeOut # {}, "dry")
  /\ UNCHANGED <<appVars, objects, streams, callbacks, threads, playing,
                 m_queueAudioOut, m_requiredAudioCount, m_enableAudioOut,
                 quiet>>

(* (PublishAudioOutputFaulty lets the queue grow.)                         *)
PublishAudioOutputFaulty(d) ==
  /\ at[d] = "work" /\ MembersExist
  /\ d \in m_enableAudioOut /\ m_audioOut[d] # NoBuffer
  /\ m_queueAudioOut' = Append(m_queueAudioOut, m_audioOut[d])
  /\ MoveTo(d, "swap")
  /\ UNCHANGED <<appVars, objects, streams, callbacks, m_pEvent, posted,
                 m_queueAudioIn, playing, m_requiredAudioCount,
                 m_enableAudioOut, m_audioOut, quiet, fault>>

(* A full buffer is published, the oldest that waits making room; the      *)
(* decoder refers to it until it has the next.                             *)
PublishAudioOutput(d) ==
  /\ at[d] = "work" /\ MembersExist
  /\ d \in m_enableAudioOut /\ m_audioOut[d] # NoBuffer
  /\ m_queueAudioOut' =
       Append(IF Len(m_queueAudioOut) > OutQueueLimit
                THEN Tail(m_queueAudioOut) ELSE m_queueAudioOut,
              m_audioOut[d])
  /\ MoveTo(d, "swap")
  /\ UNCHANGED <<appVars, objects, streams, callbacks, m_pEvent, posted,
                 m_queueAudioIn, playing, m_requiredAudioCount,
                 m_enableAudioOut, m_audioOut, quiet, fault>>

SwapOutput(d) ==
  /\ at[d] = "swap" /\ MembersExist
  /\ m_audioOut' = [m_audioOut EXCEPT ![d] = GetEmptyOutputAudioBuffer]
  /\ MoveTo(d, "execute")
  /\ UNCHANGED <<appVars, objects, streams, callbacks, m_pEvent, posted,
                 m_queueAudioIn, playing, m_queueAudioOut,
                 m_requiredAudioCount, m_enableAudioOut, quiet, fault>>

(* A decoder that works on uses the pools, the queue and the mutex of a    *)
(* manager that has destroyed them.                                        *)
WorkLate(d) ==
  /\ at[d] \in {"work", "swap"} /\ ~MembersExist
  /\ fault' = "members"
  /\ UNCHANGED <<appVars, objects, streams, callbacks, threads, audio, quiet>>

-----------------------------------------------------------------------------
AppStep ==
  \/ Decode_Initialize
  \/ Decode_RefreshAudioDevices
  \/ Decode_EnumDevices
  \/ Decode_Start
  \/ Decode_StartByName
  \/ StartManager
  \/ StartManagerRaces
  \/ StartStream("in", "startIn", "startOut")
  \/ StartStream("out", "startOut", "idle")
  \/ Decode_Stop
  \/ Decode_Shutdown
  \/ StopStream("in", "stopIn", "stopOut")
  \/ StopStream("out", "stopOut", IF shuttingDown THEN "terminate" ELSE "idle")
  \/ Terminate
  \/ RemoveHandle
  \/ Join
  \/ DestroyMembers
  \/ Free

CallbackInStep ==
  CallbackIn \/ CallbackInGets \/ CallbackInPushes

CallbackOutStep ==
  CallbackOut \/ PopAudioOutput \/ CallbackOutReturns

RunStep(t) ==
  TestEvent(t) \/ WaitForEvent(t) \/ WaitForNull(t) \/ Wake(t)
    \/ CollectAudioInput(t)

ManagerStep == RunStep(Manager) \/ FeedDecoders

DecoderStep(d) ==
  \/ RunStep(d)
  \/ FinishInput(d)
  \/ TakeOutput(d)
  \/ PublishAudioOutput(d)
  \/ SwapOutput(d)
  \/ WorkLate(d)

Step ==
  \/ AppStep
  \/ CallbackInStep
  \/ CallbackOutStep
  \/ ManagerStep
  \/ \E d \in Decoder : DecoderStep(d)

Next == fault = "none" /\ Step

Spec == Init /\ [][Next]_vars

-----------------------------------------------------------------------------
TypeOK ==
  /\ app \in AppPlace /\ shuttingDown \in BOOLEAN /\ victim \in Thread
  /\ starts \in 0..MaxStarts
  /\ manager \in {"none", "alive", "dying", "torn"}
  /\ m_decoders \in {{}, Decoder} /\ m_memPoolOut \in {{}, OutBuffer}
  /\ m_stream \in [Direction -> BOOLEAN]
  /\ pa \in [Direction -> {"closed", "open", "running"}]
  /\ cb \in [Direction -> CallbackPlace] /\ m_lockWorking \in 0..1
  /\ m_pEvent \in [Thread -> BOOLEAN] /\ posted \in [Thread -> 0..MaxPosted]
  /\ at \in [Thread -> ThreadPlace]
  /\ m_queueAudioIn \in [Thread -> 0..(InQueueLimit + 1)]
  /\ m_queueAudioOut \in Seq(OutBuffer)
  /\ m_requiredAudioCount \in {0, RestartCount, FirstCount}
  /\ m_enableAudioOut \subseteq Decoder
  /\ m_audioOut \in [Decoder -> OutBuffer \cup {NoBuffer}]
  /\ playing \in OutBuffer \cup {NoBuffer}
  /\ quiet \in BOOLEAN /\ fault \in Fault

(* CDecode holds a stream exactly while PortAudio has it open, whatever    *)
(* fails to open or start and whatever is called while it streams: none is *)
(* closed behind its back and none is left behind (decode.cpp:82-99,       *)
(* 219-366).                                                               *)
StreamHandlesTrue == \A d \in Direction : m_stream[d] <=> pa[d] # "closed"

(* A callback never uses a manager that is gone: the lock is not what      *)
(* prevents it, the order of Shutdown is (decode.cpp:368-384, 482-586).    *)
CallbackNeverLate == fault # "manager"

(* A Start or a Shutdown that finds every stream stopped and every thread  *)
(* asleep with nothing to do meets no undefined behaviour, neither in the  *)
(* call nor until the next one: the manager is started before the streams  *)
(* ("Before we start the streams initialise the DecodeManager",            *)
(* decode.cpp:317) and torn down after them.                               *)
QuietCallsAreSafe == fault # "none" => ~quiet

(* A decoder that needs an output buffer gets one, however slowly the      *)
(* output callback plays what was published, or if it never does           *)
(* (bpskDecoder.cpp:195-198 dereferences what it is given).                *)
PoolNeverDry == fault # "dry"

(* Shutdown never waits for a thread that waits for its event: whichever   *)
(* of them RemoveHandle overtakes, a wake-up is there for it               *)
(* (wintypes.h:186-227).                                                   *)
VictimWillEnd == app = "join" /\ at[victim] = "blocked" => posted[victim] > 0
=============================================================================
