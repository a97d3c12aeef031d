--------------------------- MODULE TelemetryLink ---------------------------
(***************************************************************************)
(* A telemetry frame from the transmitter's encoder to the receiver's      *)
(* decoder, bit by bit: CEncode::SetInputBuffer and GetNextTxBit           *)
(* (src/common/encode.cpp), the differential modulation, the air, and the  *)
(* second half of CBpskDecoder::RxPutNextUCSample                          *)
(* (src/common/bpskDecoder.cpp): the last SYMPBLOCK symbols, the           *)
(* correlation with the sync vector, CFec::Decode, and on to what the      *)
(* application is told (CDecodeManager's and CDecode's OnDecodeSuccess).   *)
(* The codec is a parameter; module AO40Codec is what the code puts there. *)
(* The receiver's bit clock is in step, and there is one decoder.          *)
(***************************************************************************)
EXTENDS Interleaver, Sequences, FiniteSets

CONSTANTS
  Encoded(_),  \* CFec::Encode: where a block's frame has ones
  Decoded(_),  \* CFec::Decode of a frame of soft symbols: [ok, data, errorCount]
  Zeros,       \* the block of zero bytes
  PreambleBits, PostambleBits,   \* 768 and 16 in the code
  Plans      \* what is sent, and what happens to it on the air: sequences of
             \* [block, hits, fades, bearable]; hits (turned) and fades (lost)
             \* are positions in m_txbuf

VARIABLES
  m_encodeState, bitsRemaining, bitState,   \* CEncode, statics of GetNextTxBit
  m_txbuf,                                  \* the ones of the frame being sent
  plan, sent,       \* what there is to send; how much of it was taken
  lastPhase,        \* m_csLastIQ
  m_hardBits, m_softBits,
  lastResult,       \* the static of CDecodeManager::OnDecodeSuccess
  results           \* what the application was told; the last of them is
                    \* what CollectLastData gives

(* What the demodulator makes of a lost symbol, of a one and of a zero.    *)
Lost == 128
One  == 224
Zero == 32

encoder  == <<m_encodeState, bitsRemaining, bitState, m_txbuf, plan, sent>>
receiver == <<lastPhase, m_hardBits, m_softBits, lastResult, results>>
vars     == <<encoder, receiver>>

(* SYNC_VECTOR 0x1acffc1d, most significant bit first.                     *)
SYNC_VECTOR == <<0,0,0,1,1,0,1,0, 1,1,0,0,1,1,1,1, 1,1,1,1,1,1,0,0, 0,0,0,1,1,1,0,1>>
SyncVectorBits == 32

(* The receiver's own table of what the code's every ROWS-th symbol is.    *)
SYNC_VECTOR_VALUES ==
  << 1, 1, 1, 1, 1, 1, 1,-1,-1,-1,-1, 1, 1, 1,-1, 1, 1, 1, 1,-1,-1, 1,-1, 1, 1,-1,-1, 1,-1,-1, 1,-1,
    -1,-1,-1,-1,-1, 1,-1,-1,-1, 1,-1,-1, 1, 1,-1,-1,-1, 1,-1, 1, 1, 1,-1, 1,-1, 1, 1,-1, 1, 1,-1,-1,-1>>

ASSUME LinkAssumption ==
  /\ COLUMNS \in 1 .. 65                      \* the table's length
  /\ PreambleBits \in Nat \ {0} /\ PostambleBits \in Nat \ {0}

(* What is sent is hit, or lost, where it has symbols on the air; every   *)
(* frame begins as the sync vector does, with a one.                       *)
Air == 1 .. SYMPBLOCK - 1
ASSUME PlansAssumption ==
  \A p \in Plans :
    /\ Len(p) \in Nat
    /\ \A i \in 1 .. Len(p) : p[i].hits \subseteq Air /\ p[i].fades \subseteq Air
ASSUME EncodedAssumption ==
  \A p \in Plans : \A i \in 1 .. Len(p) :
    Encoded(p[i].block) \subseteq Symbol /\ 0 \in Encoded(p[i].block)

(* CDecodeManager's lastResult is zero bytes to begin with, so that a      *)
(* first frame of zero bytes would not be told; nobody sends one.          *)
ASSUME FirstNotZeros ==
  \A p \in Plans : \A f \in 1 .. Len(p) :
    p[f].bearable /\ (\A e \in 1 .. f - 1 : ~p[e].bearable) => p[f].block # Zeros

EncodeStates == {"esInit", "esPreamble", "esSync", "esFec", "esPostamble", "esComplete"}

TypeOK ==
  /\ m_encodeState \in EncodeStates /\ bitsRemaining \in Nat
  /\ m_encodeState = "esPreamble"  => bitsRemaining \in 1 .. PreambleBits
  /\ m_encodeState = "esSync"      => bitsRemaining \in 1 .. SyncVectorBits
  /\ m_encodeState = "esFec"       => bitsRemaining \in 1 .. SYMPBLOCK
  /\ m_encodeState = "esPostamble" => bitsRemaining \in 1 .. PostambleBits
  /\ bitState \in {0, 1} /\ lastPhase = bitState
  /\ plan \in Plans /\ sent \in 0 .. Len(plan)
  /\ m_encodeState # "esComplete" => sent > 0
  /\ sent > 0 => m_txbuf = Encoded(plan[sent].block)
  /\ m_hardBits \in Seq({-1, 0, 1})      /\ Len(m_hardBits) = SYMPBLOCK
  /\ m_softBits \in Seq({Zero, Lost, One}) /\ Len(m_softBits) = SYMPBLOCK

Init ==
  /\ m_encodeState = "esComplete" /\ bitsRemaining = 0 /\ bitState = 0
  /\ m_txbuf = {} /\ plan \in Plans /\ sent = 0
  /\ lastPhase = 0
  /\ m_hardBits = [i \in 1 .. SYMPBLOCK |-> 0]
  /\ m_softBits = [i \in 1 .. SYMPBLOCK |-> Lost]
  /\ lastResult = Zeros /\ results = <<>>

-----------------------------------------------------------------------------
(* The receiver, given what it makes of one bit: its sign and its level.   *)
(* m_hardBits[1] is the oldest symbol, m_hardBits[0] of the source.        *)

Correlation(hard) ==
  LET agree    == {i \in 1 .. COLUMNS : hard[(i - 1) * ROWS + 1] = SYNC_VECTOR_VALUES[i]}
      opposite == {i \in 1 .. COLUMNS : hard[(i - 1) * ROWS + 1] = -SYNC_VECTOR_VALUES[i]}
  IN  Cardinality(agree) - Cardinality(opposite)

(* CDecode::OnDecodeSuccess: the block is kept and the callbacks are called. *)
Tell(frame) ==
  results' = Append(results, [data |-> frame.data, errorCount |-> frame.errorCount])

(* CDecodeManager::OnDecodeSuccess: a frame the same as the last is not    *)
(* told again, for several decoders may have decoded it.  (A *Faulty       *)
(* operator is a variant of the definition that follows it, with a         *)
(* plausible error.)                                                       *)
OnDecodeSuccessFaulty(frame) == lastResult' = frame.data /\ Tell(frame)

OnDecodeSuccess(frame) ==
  /\ lastResult' = frame.data
  /\ IF frame.data = lastResult THEN results' = results ELSE Tell(frame)

Receive(hard, level) ==
  /\ m_hardBits' = Append(Tail(m_hardBits), hard)
  /\ m_softBits' = Append(Tail(m_softBits), level)
  /\ IF Correlation(m_hardBits') > 37
     THEN \E frame \in {Decoded([p \in Symbol |-> m_softBits'[p + 1]])} :
            IF frame.ok THEN OnDecodeSuccess(frame) ELSE UNCHANGED <<lastResult, results>>
     ELSE UNCHANGED <<lastResult, results>>

(* One bit through modulator and demodulator: the phase turns at a zero,   *)
(* and a phase that did not turn is a one.                                 *)
TransmitFaulty(bitValue, hit, fade) ==
  LET phase == IF bitValue = 1 THEN 1 - bitState ELSE bitState
      one   == (phase = lastPhase) # hit
  IN  /\ bitState' = phase /\ lastPhase' = phase
      /\ IF fade THEN Receive(-1, Lost)
                 ELSE Receive(IF one THEN 1 ELSE -1, IF one THEN One ELSE Zero)

Transmit(bitValue, hit, fade) ==
  LET phase == IF bitValue = 0 THEN 1 - bitState ELSE bitState
      same  == phase = lastPhase
      one   == IF hit THEN ~same ELSE same
  IN  /\ bitState' = phase /\ lastPhase' = phase
      /\ IF fade THEN Receive(-1, Lost)
                 ELSE Receive(IF one THEN 1 ELSE -1, IF one THEN One ELSE Zero)

-----------------------------------------------------------------------------
(* The encode worker hands over a block, when the encoder is ready.        *)
SetInputBuffer ==
  /\ m_encodeState = "esComplete" /\ sent < Len(plan)
  /\ m_txbuf' = Encoded(plan[sent + 1].block)
  /\ m_encodeState' = "esInit" /\ sent' = sent + 1
  /\ UNCHANGED <<bitsRemaining, bitState, plan, receiver>>

(* GetNextTxBit, by what m_encodeState is.                                 *)
SendPreamble ==
  /\ m_encodeState \in {"esInit", "esPreamble"}
  /\ LET remaining == (IF m_encodeState = "esInit" THEN PreambleBits ELSE bitsRemaining) - 1
     IN  IF remaining = 0
         THEN m_encodeState' = "esSync" /\ bitsRemaining' = SyncVectorBits
         ELSE m_encodeState' = "esPreamble" /\ bitsRemaining' = remaining
  /\ Transmit(0, FALSE, FALSE)
  /\ UNCHANGED <<m_txbuf, plan, sent>>

SendSync ==
  /\ m_encodeState = "esSync"
  /\ IF bitsRemaining = 1
     THEN m_encodeState' = "esFec" /\ bitsRemaining' = SYMPBLOCK
     ELSE m_encodeState' = m_encodeState /\ bitsRemaining' = bitsRemaining - 1
  /\ Transmit(SYNC_VECTOR[SyncVectorBits - bitsRemaining + 1], FALSE, FALSE)
  /\ UNCHANGED <<m_txbuf, plan, sent>>

(* m_txbuf[TxBufferBytes-(--bitsRemaining)]: the index runs from 1 to      *)
(* SYMPBLOCK, and at the last there is no such element.                    *)
SendIndex == SYMPBLOCK - (bitsRemaining - 1)

TxBits(index) ==
  IF index \in Symbol THEN {IF index \in m_txbuf THEN 1 ELSE 0} ELSE {0, 1}

SendFec ==
  /\ m_encodeState = "esFec"
  /\ IF bitsRemaining = 1
     THEN m_encodeState' = "esPostamble" /\ bitsRemaining' = PostambleBits
     ELSE m_encodeState' = m_encodeState /\ bitsRemaining' = bitsRemaining - 1
  /\ \E bitValue \in TxBits(SendIndex) :
       Transmit(bitValue, SendIndex \in plan[sent].hits, SendIndex \in plan[sent].fades)
  /\ UNCHANGED <<m_txbuf, plan, sent>>

SendPostamble ==
  /\ m_encodeState = "esPostamble"
  /\ bitsRemaining' = bitsRemaining - 1
  /\ m_encodeState' = IF bitsRemaining = 1 THEN "esComplete" ELSE m_encodeState
  /\ Transmit(0, FALSE, FALSE)
  /\ UNCHANGED <<m_txbuf, plan, sent>>

AllSent == m_encodeState = "esComplete" /\ sent = Len(plan) /\ UNCHANGED vars

Next ==
  \/ SetInputBuffer \/ SendPreamble \/ SendSync \/ SendFec \/ SendPostamble
  \/ AllSent

Spec == Init /\ [][Next]_vars
-----------------------------------------------------------------------------
(* What every Plans must say of the air: a frame's damage is within what   *)
(* the code corrects, or far beyond it.                                    *)
Bearable(frame) == frame.bearable

(* What the shift register holds of a frame when its last symbol is in:    *)
(* its first one is the sync vector's last bit, which is a one.            *)
Heard(frame) ==
  LET ones == Encoded(frame.block)
  IN  [p \in Symbol |-> IF p \in frame.fades THEN Lost
                        ELSE IF p = 0 \/ (p \in ones) # (p \in frame.hits) THEN One ELSE Zero]

(* The symbols of the sync vector that the correlation finds wrong.        *)
SyncDamage(heard) ==
  {i \in 1 .. COLUMNS :
     (IF heard[(i - 1) * ROWS] = One THEN 1 ELSE -1) # SYNC_VECTOR_VALUES[i]}

(* The symbols that read otherwise than the encoder made them.             *)
HeardWrong(frame) ==
  LET ones  == Encoded(frame.block)
      heard == Heard(frame)
  IN  {p \in Symbol : (p \in ones) # (heard[p] >= Lost)}

(* Enough of the sync vector is left of the frame, it is put right, and    *)
(* the errors are counted.                                                 *)
PutRight(frame) ==
  \A heard \in {Heard(frame)} :
    /\ COLUMNS - 2 * Cardinality(SyncDamage(heard)) > 37
    /\ \A result \in {Decoded(heard)} :
         /\ result.ok /\ result.data = frame.block
         /\ result.errorCount = Cardinality(HeardWrong(frame))

(* What the link relies on, of its codec: damage that is called bearable   *)
(* is put right (CFec::Decode, the 37 of RxPutNextUCSample).               *)
CodecBears ==
  sent = 0 => \A i \in 1 .. Len(plan) : Bearable(plan[i]) => PutRight(plan[i])

(* The receiver tries at every bit, where the sync vector seems to be; but *)
(* what it decodes is a whole frame, one it can bear, and never a stretch  *)
(* of two frames, of a frame and its preamble, or of a frame's debris      *)
(* (CBpskDecoder::RxPutNextUCSample).                                      *)
FrameEnd == m_encodeState = "esFec" /\ bitsRemaining = 1

OnlyFramesDecode ==
  (Correlation(m_hardBits) > 37 /\ Decoded([p \in Symbol |-> m_softBits[p + 1]]).ok)
    => FrameEnd /\ Bearable(plan[sent])

(* A frame whose damage the code can bear has been decoded by the time its *)
(* last bit is sent, although its first symbol, a sync bit, never goes on  *)
(* the air, and whatever became of the frames before it: it is what the    *)
(* application was told last (GetNextTxBit, RxPutNextUCSample,             *)
(* OnDecodeSuccess).                                                       *)
FrameArrives ==
  (m_encodeState \in {"esPostamble", "esComplete"} /\ sent > 0 /\ Bearable(plan[sent]))
    => results # <<>> /\ results[Len(results)].data = plan[sent].block

(* What the application is told was sent: of the frames that could be      *)
(* decoded, in the order they went, each that differs from the one before  *)
(* it, once; nothing in place of one that was destroyed, nothing put       *)
(* together from two (RxPutNextUCSample decodes at every position that     *)
(* correlates).                                                            *)
NothingInvented ==
  LET good  == {f \in 1 .. sent : Bearable(plan[f])}
      New(f) == \A e \in good : (e < f /\ \A d \in good : d < f => d <= e)
                                  => plan[e].block # plan[f].block
      begun == {f \in good : f < sent \/ m_encodeState \in {"esFec", "esPostamble", "esComplete"}}
      told  == {f \in begun : New(f)}
  IN  /\ Len(results) <= Cardinality(told)
      /\ \A r \in 1 .. Len(results) :
           \E f \in told : /\ Cardinality({g \in told : g <= f}) = r
                           /\ results[r].data = plan[f].block

(* m_errorCount is the number of symbols the air changed: those turned,    *)
(* and those lost that were zeros, for what is lost reads as a one         *)
(* (CCodecAO40::count_errors compares with the frame encoded anew).        *)
ErrorCountHonest ==
  [][Len(results') > Len(results) =>
       results'[Len(results')].errorCount =
         LET frame == plan[sent]
         IN  Cardinality(frame.hits \ frame.fades) + Cardinality(frame.fades \ m_txbuf)]_vars
=============================================================================
