------------------------ MODULE TelemetryLinkProofs ------------------------
(***************************************************************************)
(* Proofs about TelemetryLink for every size of block, every codec and     *)
(* every number of frames.                                                 *)
(***************************************************************************)
EXTENDS TelemetryLink, FiniteSetTheorems, TLAPS

(* Where the columns' symbols are, in a block of any size.                 *)
LEMMA SizeFacts ==
  /\ SYMPBLOCK \in Nat /\ SYMPBLOCK >= 2
  /\ \A i \in 1 .. COLUMNS : (i - 1) * ROWS \in Symbol
<1>1. ROWS \in Nat /\ ROWS >= 2 /\ COLUMNS \in Nat /\ COLUMNS >= 1
  BY InterleaverAssumption
<1>2. SYMPBLOCK = ROWS * (COLUMNS - 1) + ROWS BY <1>1 DEF SYMPBLOCK
<1>3. ASSUME NEW a \in Nat PROVE ROWS * a \in Nat BY <1>1
<1>4. SYMPBLOCK \in Nat /\ SYMPBLOCK >= 2 BY <1>1, <1>2, <1>3
<1>5. ASSUME NEW i \in 1 .. COLUMNS PROVE (i - 1) * ROWS \in Symbol
  <2>1. i - 1 \in Nat /\ COLUMNS - i \in Nat BY <1>1
  <2>2. SYMPBLOCK = (i - 1) * ROWS + ROWS * (COLUMNS - i) + ROWS
    BY <1>1 DEF SYMPBLOCK
  <2>3. ROWS * (COLUMNS - i) \in Nat /\ (i - 1) * ROWS \in Nat BY <1>1, <2>1
  <2> QED BY <1>1, <1>4, <2>2, <2>3 DEF Symbol
<1> QED BY <1>4, <1>5

LEMMA SizeNat == SYMPBLOCK \in Nat /\ SYMPBLOCK >= 2
BY SizeFacts

(* A register of the receiver after a symbol was shifted in.               *)
LEMMA Shifted ==
  ASSUME NEW S, NEW s \in Seq(S), NEW x \in S, Len(s) > 0
  PROVE  /\ Append(Tail(s), x) \in Seq(S)
         /\ Len(Append(Tail(s), x)) = Len(s)
         /\ Append(Tail(s), x)[Len(s)] = x
         /\ \A i \in 1 .. Len(s) - 1 : Append(Tail(s), x)[i] = s[i + 1]
<1>1. Tail(s) \in Seq(S) /\ Len(Tail(s)) = Len(s) - 1 /\ Len(s) \in Nat OBVIOUS
<1>2. \A i \in 1 .. Len(s) - 1 : Tail(s)[i] = s[i + 1] OBVIOUS
<1> QED BY <1>1, <1>2

(* The sync vector's last bit is a one, what the receiver looks for is     *)
(* plus or minus one.                                                      *)
LEMMA SyncTables ==
  /\ \A i \in 1 .. SyncVectorBits : SYNC_VECTOR[i] \in {0, 1}
  /\ SYNC_VECTOR[SyncVectorBits] = 1
  /\ \A i \in 1 .. 65 : SYNC_VECTOR_VALUES[i] \in {-1, 1}
<1>1. \A i \in 1 .. SyncVectorBits : SYNC_VECTOR[i] \in {0, 1}
  BY DEF SyncVectorBits, SYNC_VECTOR
<1>2. SYNC_VECTOR[SyncVectorBits] = 1 BY DEF SyncVectorBits, SYNC_VECTOR
<1>3. \A i \in 1 .. 65 : SYNC_VECTOR_VALUES[i] \in {-1, 1}
  BY SMTT(60) DEF SYNC_VECTOR_VALUES
<1> QED BY <1>1, <1>2, <1>3

-----------------------------------------------------------------------------
(* One bit through modulator, air, demodulator and receiver.               *)

(* What the level of a symbol says of its sign, and of its bit the level.  *)
Hard(level) == IF level = One THEN 1 ELSE -1
Level(bitValue, hit, fade) ==
  IF fade THEN Lost ELSE IF (bitValue = 1) # hit THEN One ELSE Zero

Window  == [p \in Symbol |-> m_softBits[p + 1]]
Decodes == Correlation(m_hardBits) > 37 /\ Decoded(Window).ok

LEMMA TransmitFacts ==
  ASSUME NEW bitValue \in {0, 1}, NEW hit \in BOOLEAN, NEW fade \in BOOLEAN,
         TypeOK, Transmit(bitValue, hit, fade)
  PROVE  /\ bitState' \in {0, 1} /\ lastPhase' = bitState'
         /\ Level(bitValue, hit, fade) \in {Zero, Lost, One}
         /\ Receive(Hard(Level(bitValue, hit, fade)), Level(bitValue, hit, fade))
<1>1. bitState \in {0, 1} /\ lastPhase = bitState BY DEF TypeOK
<1>2. bitState' \in {0, 1} /\ lastPhase' = bitState' BY <1>1 DEF Transmit
<1>3. Level(bitValue, hit, fade) \in {Zero, Lost, One} BY DEF Level
<1>4. Hard(Lost) = -1 /\ Hard(Zero) = -1 /\ Hard(One) = 1 BY DEF Hard, Lost, Zero, One
<1>5. CASE fade
  <2>1. Receive(-1, Lost) BY <1>5 DEF Transmit
  <2> QED BY <1>2, <1>3, <1>4, <1>5, <2>1 DEF Level, Receive
<1>6. CASE ~fade /\ ((bitValue = 1) # hit)
  <2>1. Level(bitValue, hit, fade) = One BY <1>6 DEF Level
  <2>2. Receive(1, One)
    <3>1. CASE bitValue = 1 /\ hit = FALSE BY <1>1, <1>6, <3>1 DEF Transmit
    <3>2. CASE bitValue = 0 /\ hit = TRUE
      <4>1. 1 - bitState # lastPhase BY <1>1
      <4> QED BY <1>6, <3>2, <4>1 DEF Transmit
    <3> QED BY <1>6, <3>1, <3>2
  <2> QED BY <1>2, <1>3, <1>4, <2>1, <2>2 DEF Receive
<1>7. CASE ~fade /\ ((bitValue = 1) = hit)
  <2>1. Level(bitValue, hit, fade) = Zero BY <1>7 DEF Level
  <2>2. Receive(-1, Zero)
    <3>1. CASE bitValue = 1 /\ hit = TRUE BY <1>1, <1>7, <3>1 DEF Transmit
    <3>2. CASE bitValue = 0 /\ hit = FALSE
      <4>1. 1 - bitState # lastPhase BY <1>1
      <4> QED BY <1>7, <3>2, <4>1 DEF Transmit
    <3> QED BY <1>7, <3>1, <3>2
  <2> QED BY <1>2, <1>3, <1>4, <2>1, <2>2 DEF Receive
<1> QED BY <1>2, <1>3, <1>5, <1>6, <1>7

(* The registers after it, and whether the application hears of it.        *)
LEMMA ReceiveFacts ==
  ASSUME NEW level \in {Zero, Lost, One}, TypeOK, Receive(Hard(level), level)
  PROVE  /\ m_hardBits' \in Seq({-1, 0, 1}) /\ Len(m_hardBits') = SYMPBLOCK
         /\ m_softBits' \in Seq({Zero, Lost, One}) /\ Len(m_softBits') = SYMPBLOCK
         /\ m_hardBits'[SYMPBLOCK] = Hard(level) /\ m_softBits'[SYMPBLOCK] = level
         /\ \A i \in 1 .. SYMPBLOCK - 1 : /\ m_hardBits'[i] = m_hardBits[i + 1]
                                          /\ m_softBits'[i] = m_softBits[i + 1]
         /\ Decodes'  => OnDecodeSuccess(Decoded(Window'))
         /\ ~Decodes' => UNCHANGED <<lastResult, results>>
<1>1. Hard(level) \in {-1, 0, 1} BY DEF Hard
<1>2. /\ m_hardBits \in Seq({-1, 0, 1}) /\ Len(m_hardBits) = SYMPBLOCK
      /\ m_softBits \in Seq({Zero, Lost, One}) /\ Len(m_softBits) = SYMPBLOCK
  BY DEF TypeOK
<1>3. /\ m_hardBits' = Append(Tail(m_hardBits), Hard(level))
      /\ m_softBits' = Append(Tail(m_softBits), level)
  BY DEF Receive
<1>4. SYMPBLOCK > 0 BY SizeNat
<1>5. Decodes'  => OnDecodeSuccess(Decoded(Window'))
  BY DEF Receive, Decodes, Window
<1>6. ~Decodes' => UNCHANGED <<lastResult, results>>
  BY DEF Receive, Decodes, Window
<1>7. /\ m_hardBits' \in Seq({-1, 0, 1}) /\ Len(m_hardBits') = SYMPBLOCK
      /\ m_hardBits'[SYMPBLOCK] = Hard(level)
      /\ \A i \in 1 .. SYMPBLOCK - 1 : m_hardBits'[i] = m_hardBits[i + 1]
  BY <1>1, <1>2, <1>3, <1>4, Shifted
<1>8. /\ m_softBits' \in Seq({Zero, Lost, One}) /\ Len(m_softBits') = SYMPBLOCK
      /\ m_softBits'[SYMPBLOCK] = level
      /\ \A i \in 1 .. SYMPBLOCK - 1 : m_softBits'[i] = m_softBits[i + 1]
  BY <1>2, <1>3, <1>4, Shifted
<1> QED BY <1>5, <1>6, <1>7, <1>8

(* Both: what a bit sent does to everything but the encoder's state.       *)
LEMMA BitSent ==
  ASSUME NEW bitValue \in {0, 1}, NEW hit \in BOOLEAN, NEW fade \in BOOLEAN,
         TypeOK, Transmit(bitValue, hit, fade)
  PROVE  /\ bitState' \in {0, 1} /\ lastPhase' = bitState'
         /\ m_hardBits' \in Seq({-1, 0, 1}) /\ Len(m_hardBits') = SYMPBLOCK
         /\ m_softBits' \in Seq({Zero, Lost, One}) /\ Len(m_softBits') = SYMPBLOCK
         /\ m_hardBits'[SYMPBLOCK] = Hard(Level(bitValue, hit, fade))
         /\ m_softBits'[SYMPBLOCK] = Level(bitValue, hit, fade)
         /\ \A i \in 1 .. SYMPBLOCK - 1 : /\ m_hardBits'[i] = m_hardBits[i + 1]
                                          /\ m_softBits'[i] = m_softBits[i + 1]
         /\ Decodes'  => OnDecodeSuccess(Decoded(Window'))
         /\ ~Decodes' => UNCHANGED <<lastResult, results>>
BY TransmitFacts, ReceiveFacts

(* Every step that sends a bit sends one of these.                         *)
SendBit ==
  \E bitValue \in {0, 1}, hit \in BOOLEAN, fade \in BOOLEAN : Transmit(bitValue, hit, fade)

LEMMA EachSends ==
  TypeOK /\ (SendPreamble \/ SendSync \/ SendFec \/ SendPostamble) => SendBit
<1> SUFFICES ASSUME TypeOK, SendPreamble \/ SendSync \/ SendFec \/ SendPostamble
             PROVE  SendBit
  OBVIOUS
<1>1. CASE SendPreamble BY <1>1 DEF SendPreamble, SendBit
<1>2. CASE SendSync
  <2>1. SyncVectorBits - bitsRemaining + 1 \in 1 .. SyncVectorBits
    BY <1>2 DEF SendSync, TypeOK, SyncVectorBits
  <2>2. SYNC_VECTOR[SyncVectorBits - bitsRemaining + 1] \in {0, 1} BY <2>1, SyncTables
  <2> QED BY <1>2, <2>2 DEF SendSync, SendBit
<1>3. CASE SendFec
  <2>1. PICK bitValue \in TxBits(SendIndex) :
          Transmit(bitValue, SendIndex \in plan[sent].hits, SendIndex \in plan[sent].fades)
    BY <1>3 DEF SendFec
  <2>2. bitValue \in {0, 1} BY DEF TxBits
  <2>3. /\ (SendIndex \in plan[sent].hits) \in BOOLEAN
        /\ (SendIndex \in plan[sent].fades) \in BOOLEAN
    OBVIOUS
  <2> QED BY <2>1, <2>2, <2>3 DEF SendBit
<1>4. CASE SendPostamble BY <1>4 DEF SendPostamble, SendBit
<1> QED BY <1>1, <1>2, <1>3, <1>4

-----------------------------------------------------------------------------
LEMMA TypeInit == Init => TypeOK
<1> SUFFICES ASSUME Init PROVE TypeOK OBVIOUS
<1>1. SYMPBLOCK \in Nat BY SizeNat
<1>2. /\ m_hardBits \in Seq({-1, 0, 1}) /\ Len(m_hardBits) = SYMPBLOCK
      /\ m_softBits \in Seq({Zero, Lost, One}) /\ Len(m_softBits) = SYMPBLOCK
  BY <1>1 DEF Init
<1>3. plan \in Plans /\ sent \in 0 .. Len(plan) /\ sent = 0 BY PlansAssumption DEF Init
<1>4. /\ m_encodeState = "esComplete" /\ bitsRemaining = 0
      /\ bitState = 0 /\ lastPhase = 0
  BY DEF Init
<1> QED BY <1>2, <1>3, <1>4 DEF TypeOK, EncodeStates

(* The receiver's half of the type. *)
LEMMA TypeReceiver ==
  ASSUME TypeOK, SendBit
  PROVE  /\ bitState' \in {0, 1} /\ lastPhase' = bitState'
         /\ m_hardBits' \in Seq({-1, 0, 1}) /\ Len(m_hardBits') = SYMPBLOCK
         /\ m_softBits' \in Seq({Zero, Lost, One}) /\ Len(m_softBits') = SYMPBLOCK
BY BitSent DEF SendBit

LEMMA TypeNext == TypeOK /\ [Next]_vars => TypeOK'
<1> SUFFICES ASSUME TypeOK, [Next]_vars PROVE TypeOK' OBVIOUS
<1>1. plan \in Plans /\ Len(plan) \in Nat /\ sent \in 0 .. Len(plan)
  BY PlansAssumption DEF TypeOK
<1>2. CASE SetInputBuffer
  <2>1. sent + 1 \in 0 .. Len(plan) /\ sent + 1 > 0 BY <1>1, <1>2 DEF SetInputBuffer
  <2> QED BY <1>1, <1>2, <2>1 DEF SetInputBuffer, TypeOK, receiver, EncodeStates
<1>3. CASE SendPreamble \/ SendSync \/ SendFec \/ SendPostamble
  <2>1. SendBit BY <1>3, EachSends
  <2>2. /\ m_encodeState' \in EncodeStates /\ bitsRemaining' \in Nat
        /\ m_encodeState' = "esPreamble"  => bitsRemaining' \in 1 .. PreambleBits
        /\ m_encodeState' = "esSync"      => bitsRemaining' \in 1 .. SyncVectorBits
        /\ m_encodeState' = "esFec"       => bitsRemaining' \in 1 .. SYMPBLOCK
        /\ m_encodeState' = "esPostamble" => bitsRemaining' \in 1 .. PostambleBits
        /\ m_encodeState # "esComplete"
    <3>1. CASE SendPreamble
      BY <3>1, LinkAssumption DEF SendPreamble, TypeOK, EncodeStates, SyncVectorBits
    <3>2. CASE SendSync
      <4>1. m_encodeState = "esSync" /\ bitsRemaining \in 1 .. SyncVectorBits
        BY <3>2 DEF SendSync, TypeOK
      <4>2. CASE bitsRemaining = 1
        BY <3>2, <4>1, <4>2, SizeNat DEF SendSync, EncodeStates
      <4>3. CASE bitsRemaining # 1
        <5>1. bitsRemaining - 1 \in 1 .. SyncVectorBits
          BY <4>1, <4>3 DEF SyncVectorBits
        <5> QED BY <3>2, <4>1, <4>3, <5>1 DEF SendSync, EncodeStates
      <4> QED BY <4>2, <4>3
    <3>3. CASE SendFec
      BY <3>3, SizeNat, LinkAssumption DEF SendFec, TypeOK, EncodeStates
    <3>4. CASE SendPostamble
      BY <3>4, LinkAssumption DEF SendPostamble, TypeOK, EncodeStates
    <3> QED BY <1>3, <3>1, <3>2, <3>3, <3>4
  <2>3. UNCHANGED <<m_txbuf, plan, sent>>
    BY <1>3 DEF SendPreamble, SendSync, SendFec, SendPostamble
  <2> QED BY <1>1, <2>1, <2>2, <2>3, TypeReceiver DEF TypeOK
<1>4. CASE AllSent \/ UNCHANGED vars
  BY <1>4 DEF AllSent, vars, encoder, receiver, TypeOK
<1> QED BY <1>2, <1>3, <1>4 DEF Next

(* Every variable keeps its type: the two shift registers always hold a    *)
(* whole frame, each phase of the encoder is counted down within its own   *)
(* length, and from when a block is taken m_txbuf is that block's frame.   *)
THEOREM TypeCorrect == Spec => []TypeOK
BY TypeInit, TypeNext, PTL DEF Spec

-----------------------------------------------------------------------------
(* The window.  While a frame is sent, the registers end in what was heard *)
(* of it so far.                                                           *)

RegisterHolds ==
  m_encodeState = "esFec" =>
    \A p \in 0 .. SYMPBLOCK - bitsRemaining :
      /\ m_softBits[bitsRemaining + p] = Heard(plan[sent])[p]
      /\ m_hardBits[bitsRemaining + p] = Hard(Heard(plan[sent])[p])

LEMMA FrameFacts ==
  ASSUME TypeOK, sent > 0
  PROVE  /\ sent \in 1 .. Len(plan) /\ Len(plan) \in Nat
         /\ m_txbuf = Encoded(plan[sent].block) /\ m_txbuf \subseteq Symbol
         /\ 0 \in m_txbuf
         /\ plan[sent].hits \subseteq Air /\ plan[sent].fades \subseteq Air
<1>1. plan \in Plans /\ Len(plan) \in Nat /\ sent \in 1 .. Len(plan)
  BY PlansAssumption DEF TypeOK
<1> QED BY <1>1, PlansAssumption, EncodedAssumption DEF TypeOK

(* The sync vector's last bit is the frame's first symbol, the others are  *)
(* m_txbuf's, and what the air does to them.                               *)
LEMMA HeardLevel ==
  ASSUME TypeOK, sent > 0, NEW p \in Symbol
  PROVE  Heard(plan[sent])[p] =
           IF p = 0 THEN One
           ELSE Level(IF p \in m_txbuf THEN 1 ELSE 0,
                      p \in plan[sent].hits, p \in plan[sent].fades)
<1>1. 0 \notin plan[sent].fades BY FrameFacts DEF Air
<1>2. m_txbuf = Encoded(plan[sent].block) BY FrameFacts
<1>3. Heard(plan[sent])[p] =
        IF p \in plan[sent].fades THEN Lost
        ELSE IF p = 0 \/ (p \in m_txbuf) # (p \in plan[sent].hits) THEN One ELSE Zero
  BY <1>2 DEF Heard
<1>4. CASE p = 0 BY <1>1, <1>3, <1>4
<1>5. CASE p # 0 /\ p \in m_txbuf BY <1>3, <1>5 DEF Level
<1>6. CASE p # 0 /\ p \notin m_txbuf BY <1>3, <1>6 DEF Level
<1> QED BY <1>4, <1>5, <1>6

LEMMA RegisterFirst ==
  ASSUME TypeOK, SendSync PROVE RegisterHolds'
<1>1. CASE bitsRemaining # 1 BY <1>1 DEF SendSync, RegisterHolds
<1>2. CASE bitsRemaining = 1
  <2>1. SYNC_VECTOR[SyncVectorBits - bitsRemaining + 1] = 1
    BY <1>2, SyncTables DEF SyncVectorBits
  <2>2. Transmit(1, FALSE, FALSE) BY <2>1 DEF SendSync
  <2>3. Level(1, FALSE, FALSE) = One BY DEF Level
  <2>4. m_softBits'[SYMPBLOCK] = One /\ m_hardBits'[SYMPBLOCK] = Hard(One)
    BY <2>2, <2>3, BitSent
  <2>5. sent > 0 BY DEF SendSync, TypeOK
  <2>6. 0 \in Symbol BY SizeNat DEF Symbol
  <2>7. Heard(plan[sent])[0] = One BY <2>5, <2>6, HeardLevel
  <2>8. bitsRemaining' = SYMPBLOCK /\ plan' = plan /\ sent' = sent
    BY <1>2 DEF SendSync
  <2>9. Heard(plan'[sent'])[0] = One BY <2>7, <2>8
  <2> QED BY <2>4, <2>8, <2>9, SizeNat DEF RegisterHolds
<1> QED BY <1>1, <1>2

LEMMA RegisterGrows ==
  ASSUME TypeOK, RegisterHolds, SendFec PROVE RegisterHolds'
<1>1. CASE bitsRemaining = 1 BY <1>1 DEF SendFec, RegisterHolds
<1>2. CASE bitsRemaining # 1
  <2>1. /\ bitsRemaining \in 2 .. SYMPBLOCK /\ SYMPBLOCK \in Nat
        /\ bitsRemaining' = bitsRemaining - 1 /\ sent > 0
        /\ m_encodeState = "esFec"
    BY <1>2, SizeNat DEF SendFec, TypeOK
  <2>2. /\ SendIndex = SYMPBLOCK - bitsRemaining + 1
        /\ SendIndex \in Symbol /\ SendIndex # 0
    BY <2>1 DEF SendIndex, Symbol
  <2> DEFINE bitValue == IF SendIndex \in m_txbuf THEN 1 ELSE 0
             hit  == SendIndex \in plan[sent].hits
             fade == SendIndex \in plan[sent].fades
  <2>3. Transmit(bitValue, hit, fade) BY <2>2 DEF SendFec, TxBits
  <2>4. bitValue \in {0, 1} /\ hit \in BOOLEAN /\ fade \in BOOLEAN OBVIOUS
  <2>5. Heard(plan[sent])[SendIndex] = Level(bitValue, hit, fade)
    BY <2>1, <2>2, HeardLevel
  <2> HIDE DEF bitValue, hit, fade
  <2>6. /\ m_hardBits'[SYMPBLOCK] = Hard(Heard(plan[sent])[SendIndex])
        /\ m_softBits'[SYMPBLOCK] = Heard(plan[sent])[SendIndex]
        /\ \A i \in 1 .. SYMPBLOCK - 1 : /\ m_hardBits'[i] = m_hardBits[i + 1]
                                         /\ m_softBits'[i] = m_softBits[i + 1]
    BY <2>3, <2>4, <2>5, BitSent
  <2>7. plan' = plan /\ sent' = sent BY DEF SendFec
  <2>8. ASSUME NEW p \in 0 .. SYMPBLOCK - bitsRemaining'
        PROVE  /\ m_softBits'[bitsRemaining' + p] = Heard(plan[sent])[p]
               /\ m_hardBits'[bitsRemaining' + p] = Hard(Heard(plan[sent])[p])
    <3>1. CASE p = SendIndex
      <4>1. bitsRemaining' + p = SYMPBLOCK BY <2>1, <2>2, <3>1
      <4> QED BY <2>6, <3>1, <4>1
    <3>2. CASE p # SendIndex
      <4>1. /\ p \in 0 .. SYMPBLOCK - bitsRemaining
            /\ bitsRemaining' + p \in 1 .. SYMPBLOCK - 1
            /\ bitsRemaining' + p + 1 = bitsRemaining + p
        BY <2>1, <2>2, <3>2
      <4>2. /\ m_softBits[bitsRemaining + p] = Heard(plan[sent])[p]
            /\ m_hardBits[bitsRemaining + p] = Hard(Heard(plan[sent])[p])
        BY <2>1, <4>1 DEF RegisterHolds
      <4> QED BY <2>6, <4>1, <4>2
    <3> QED BY <3>1, <3>2
  <2> QED BY <2>7, <2>8 DEF RegisterHolds
<1> QED BY <1>1, <1>2

LEMMA RegisterNext == TypeOK /\ RegisterHolds /\ [Next]_vars => RegisterHolds'
<1> SUFFICES ASSUME TypeOK, RegisterHolds, [Next]_vars PROVE RegisterHolds' OBVIOUS
<1>1. CASE SetInputBuffer BY <1>1 DEF SetInputBuffer, RegisterHolds
<1>2. CASE SendPreamble BY <1>2 DEF SendPreamble, RegisterHolds
<1>3. CASE SendSync BY <1>3, RegisterFirst
<1>4. CASE SendFec BY <1>4, RegisterGrows
<1>5. CASE SendPostamble BY <1>5 DEF SendPostamble, RegisterHolds
<1>6. CASE AllSent \/ UNCHANGED vars
  BY <1>6 DEF AllSent, vars, encoder, receiver, RegisterHolds
<1> QED BY <1>1, <1>2, <1>3, <1>4, <1>5, <1>6 DEF Next

(* One symbol before the encoder is done with a frame, the registers hold  *)
(* that frame and nothing else.                                            *)
LEMMA WindowIsFrame ==
  ASSUME TypeOK, RegisterHolds, FrameEnd
  PROVE  /\ Window = Heard(plan[sent])
         /\ \A p \in Symbol : m_hardBits[p + 1] = Hard(Heard(plan[sent])[p])
<1>1. \A p \in Symbol : /\ m_softBits[p + 1] = Heard(plan[sent])[p]
                        /\ m_hardBits[p + 1] = Hard(Heard(plan[sent])[p])
  <2>1. m_encodeState = "esFec" /\ bitsRemaining = 1 BY DEF FrameEnd
  <2>2. Symbol = 0 .. SYMPBLOCK - bitsRemaining BY <2>1 DEF Symbol
  <2>3. \A p \in Symbol : p + 1 = bitsRemaining + p BY <2>1, SizeNat DEF Symbol
  <2> QED BY <2>1, <2>2, <2>3 DEF RegisterHolds
<1>2. Window = [p \in Symbol |-> Heard(plan[sent])[p]] BY <1>1 DEF Window
<1>3. Heard(plan[sent]) = [p \in Symbol |-> Heard(plan[sent])[p]] BY DEF Heard
<1> QED BY <1>1, <1>2, <1>3

(* The correlation counts the sync symbols that agree less those that do   *)
(* not; of a whole frame, none is neither.                                 *)
LEMMA CorrelationOfFrame ==
  ASSUME TypeOK, RegisterHolds, FrameEnd
  PROVE  Correlation(m_hardBits) =
           COLUMNS - 2 * Cardinality(SyncDamage(Heard(plan[sent])))
<1> DEFINE heard    == Heard(plan[sent])
           Sync(i)  == m_hardBits[(i - 1) * ROWS + 1]
           agree    == {i \in 1 .. COLUMNS : Sync(i) = SYNC_VECTOR_VALUES[i]}
           opposite == {i \in 1 .. COLUMNS : Sync(i) = -SYNC_VECTOR_VALUES[i]}
<1>1. ASSUME NEW i \in 1 .. COLUMNS
      PROVE  /\ Sync(i) = (IF heard[(i - 1) * ROWS] = One THEN 1 ELSE -1)
             /\ SYNC_VECTOR_VALUES[i] \in {-1, 1}
  <2>1. (i - 1) * ROWS \in Symbol BY SizeFacts
  <2>2. Sync(i) = Hard(heard[(i - 1) * ROWS]) BY <2>1, WindowIsFrame
  <2>3. i \in 1 .. 65 BY LinkAssumption
  <2> QED BY <2>2, <2>3, SyncTables DEF Hard
<1> HIDE DEF Sync
<1>2. opposite = SyncDamage(heard) BY <1>1 DEF SyncDamage
<1>3. agree = (1 .. COLUMNS) \ opposite BY <1>1
<1>4. IsFiniteSet(1 .. COLUMNS) /\ Cardinality(1 .. COLUMNS) = COLUMNS
  BY InterleaverAssumption, FS_Interval
<1>5. opposite \subseteq 1 .. COLUMNS OBVIOUS
<1>6. /\ IsFiniteSet(opposite) /\ Cardinality(opposite) \in Nat
      /\ Cardinality(agree) = COLUMNS - Cardinality(opposite)
  <2>1. IsFiniteSet(opposite) BY <1>4, <1>5, FS_Subset
  <2>2. (1 .. COLUMNS) \cap opposite = opposite BY <1>5
  <2> HIDE DEF opposite, agree
  <2>3. Cardinality(opposite) \in Nat BY <2>1, FS_CardinalityType
  <2>4. Cardinality((1 .. COLUMNS) \ opposite) =
          Cardinality(1 .. COLUMNS) - Cardinality((1 .. COLUMNS) \cap opposite)
    BY <1>4, FS_Difference
  <2> QED BY <1>3, <1>4, <2>1, <2>2, <2>3, <2>4
<1>7. Correlation(m_hardBits) = Cardinality(agree) - Cardinality(opposite)
  BY DEF Correlation, Sync
<1> HIDE DEF agree, opposite, heard
<1>8. COLUMNS \in Int BY InterleaverAssumption
<1>9. Cardinality(opposite) = Cardinality(SyncDamage(heard)) BY <1>2
<1>10. Correlation(m_hardBits) = COLUMNS - 2 * Cardinality(SyncDamage(heard))
  BY <1>6, <1>7, <1>8, <1>9
<1> QED BY <1>10 DEF heard

-----------------------------------------------------------------------------
(* How far the transmitter is: the frames whose last symbol is in.         *)

Ended ==
  IF FrameEnd \/ m_encodeState \in {"esPostamble", "esComplete"} THEN sent ELSE sent - 1

LEMMA EndedType ==
  ASSUME TypeOK PROVE Ended \in 0 .. Len(plan) /\ Len(plan) \in Nat /\ Ended <= sent
BY PlansAssumption DEF TypeOK, Ended, EncodeStates

LEMMA Progress ==
  ASSUME TypeOK, [Next]_vars
  PROVE  /\ plan' = plan
         /\ \/ Ended' = Ended /\ UNCHANGED <<lastResult, results>>
            \/ Ended' = Ended /\ SendBit /\ ~FrameEnd'
            \/ /\ Ended' = Ended + 1 /\ Ended' = sent /\ sent \in 1 .. Len(plan)
               /\ SendBit /\ FrameEnd' /\ sent' = sent /\ m_txbuf' = m_txbuf
<1> USE DEF Ended, FrameEnd
<1>0. Len(plan) \in Nat /\ sent \in 0 .. Len(plan) BY PlansAssumption DEF TypeOK
<1>1. CASE SetInputBuffer BY <1>0, <1>1 DEF SetInputBuffer, receiver
<1>2. CASE SendPreamble
  <2>1. SendBit BY <1>2, EachSends
  <2>2. /\ m_encodeState \in {"esInit", "esPreamble"}
        /\ m_encodeState' \in {"esSync", "esPreamble"} /\ plan' = plan /\ sent' = sent
    BY <1>2 DEF SendPreamble
  <2> QED BY <2>1, <2>2
<1>3. CASE SendSync
  <2>1. SendBit BY <1>3, EachSends
  <2>2. /\ m_encodeState = "esSync" /\ m_encodeState' \in {"esSync", "esFec"}
        /\ m_encodeState' = "esFec" => bitsRemaining' # 1
        /\ plan' = plan /\ sent' = sent
    BY <1>3, SizeNat DEF SendSync
  <2> QED BY <2>1, <2>2
<1>4. CASE SendFec
  <2>1. SendBit BY <1>4, EachSends
  <2>2. /\ m_encodeState = "esFec" /\ bitsRemaining \in 1 .. SYMPBLOCK /\ sent > 0
        /\ plan' = plan /\ sent' = sent /\ m_txbuf' = m_txbuf
    BY <1>4 DEF SendFec, TypeOK
  <2>3. CASE bitsRemaining = 1
    <3>1. m_encodeState' = "esPostamble" BY <1>4, <2>3 DEF SendFec
    <3> QED BY <2>1, <2>2, <2>3, <3>1
  <2>4. CASE bitsRemaining # 1
    <3>1. m_encodeState' = "esFec" /\ bitsRemaining' = bitsRemaining - 1
      BY <1>4, <2>2, <2>4 DEF SendFec
    <3> QED BY <1>0, <2>1, <2>2, <2>4, <3>1
  <2> QED BY <2>3, <2>4
<1>5. CASE SendPostamble
  <2>1. SendBit BY <1>5, EachSends
  <2>2. /\ m_encodeState = "esPostamble" /\ m_encodeState' \in {"esPostamble", "esComplete"}
        /\ plan' = plan /\ sent' = sent
    BY <1>5 DEF SendPostamble
  <2> QED BY <2>1, <2>2
<1>6. CASE AllSent \/ UNCHANGED vars BY <1>6 DEF AllSent, vars, encoder, receiver
<1> QED BY <1>1, <1>2, <1>3, <1>4, <1>5, <1>6 DEF Next

-----------------------------------------------------------------------------
(* What the application hears of a step. *)

(* CodecBears, of the plan and so for good.                                *)
AllPutRight == \A i \in 1 .. Len(plan) : Bearable(plan[i]) => PutRight(plan[i])

Outcome(f) == [data |-> plan[f].block, errorCount |-> Cardinality(HeardWrong(plan[f]))]

(* It hears of a frame that can be borne when its last symbol is in, and   *)
(* of nothing else.                                                        *)
Hears(f) ==
  IF Bearable(plan[f])
  THEN /\ lastResult' = plan[f].block
       /\ results' = IF plan[f].block = lastResult THEN results
                                                   ELSE Append(results, Outcome(f))
  ELSE UNCHANGED <<lastResult, results>>

WillHear == RegisterHolds /\ AllPutRight /\ FrameEnd /\ Bearable(plan[sent])
IsHeard  == /\ Decodes
            /\ Decoded(Window).data = plan[sent].block
            /\ Decoded(Window).errorCount = Cardinality(HeardWrong(plan[sent]))

LEMMA FrameDecodes == TypeOK /\ WillHear => IsHeard
<1> SUFFICES ASSUME TypeOK, RegisterHolds, AllPutRight, FrameEnd, Bearable(plan[sent])
             PROVE  IsHeard
  BY DEF WillHear
<1>1. sent > 0 BY DEF TypeOK, FrameEnd
<1>2. sent \in 1 .. Len(plan) BY <1>1, FrameFacts
<1>3. PutRight(plan[sent]) BY <1>2 DEF AllPutRight
<1>4. Window = Heard(plan[sent]) BY WindowIsFrame
<1>5. Correlation(m_hardBits) = COLUMNS - 2 * Cardinality(SyncDamage(Heard(plan[sent])))
  BY CorrelationOfFrame
<1>6. /\ COLUMNS - 2 * Cardinality(SyncDamage(Heard(plan[sent]))) > 37
      /\ Decoded(Heard(plan[sent])).ok
      /\ Decoded(Heard(plan[sent])).data = plan[sent].block
      /\ Decoded(Heard(plan[sent])).errorCount = Cardinality(HeardWrong(plan[sent]))
  BY <1>3 DEF PutRight
<1>7. Correlation(m_hardBits) > 37 BY <1>5, <1>6
<1> QED BY <1>4, <1>6, <1>7 DEF Decodes, IsHeard

LEMMA Effect ==
  ASSUME TypeOK, TypeOK', RegisterHolds', AllPutRight, OnlyFramesDecode', [Next]_vars
  PROVE  /\ plan' = plan
         /\ \/ Ended' = Ended /\ UNCHANGED <<lastResult, results>>
            \/ /\ Ended' = Ended + 1 /\ Ended' = sent /\ sent \in 1 .. Len(plan)
               /\ m_txbuf' = m_txbuf /\ sent' = sent /\ Hears(sent)
<1>1. plan' = plan BY Progress
<1>2. Decodes' => FrameEnd' /\ Bearable(plan'[sent'])
  BY DEF OnlyFramesDecode, Decodes, Window
<1>3. CASE Ended' = Ended /\ UNCHANGED <<lastResult, results>> BY <1>1, <1>3
<1>4. CASE Ended' = Ended /\ SendBit /\ ~FrameEnd'
  <2>1. UNCHANGED <<lastResult, results>> BY <1>2, <1>4, BitSent DEF SendBit
  <2> QED BY <1>1, <1>4, <2>1
<1>5. CASE /\ Ended' = Ended + 1 /\ Ended' = sent /\ sent \in 1 .. Len(plan)
           /\ SendBit /\ FrameEnd' /\ sent' = sent /\ m_txbuf' = m_txbuf
  <2>1. /\ Decodes'  => OnDecodeSuccess(Decoded(Window'))
        /\ ~Decodes' => UNCHANGED <<lastResult, results>>
    BY <1>5, BitSent DEF SendBit
  <2>2. CASE Bearable(plan[sent])
    <3>1. AllPutRight' BY <1>1 DEF AllPutRight
    <3>2. Bearable(plan[sent])' BY <1>1, <1>5, <2>2 DEF Bearable
    <3>3. /\ Decodes' /\ Decoded(Window').data = plan[sent].block
          /\ Decoded(Window').errorCount = Cardinality(HeardWrong(plan[sent]))
      <4>1. WillHear' BY <1>5, <3>1, <3>2 DEF WillHear
      <4>2. IsHeard' BY <4>1, FrameDecodes, PTL
      <4> QED BY <1>1, <1>5, <4>2 DEF IsHeard
    <3>4. OnDecodeSuccess(Decoded(Window')) BY <2>1, <3>3
    <3>5. /\ lastResult' = plan[sent].block
          /\ results' = IF plan[sent].block = lastResult THEN results
                                                   ELSE Append(results, Outcome(sent))
      BY <3>3, <3>4 DEF OnDecodeSuccess, Tell, Outcome
    <3> QED BY <1>1, <1>5, <2>2, <3>5 DEF Hears
  <2>3. CASE ~Bearable(plan[sent])
    <3>1. ~Decodes' BY <1>1, <1>2, <1>5, <2>3
    <3> QED BY <1>1, <1>5, <2>1, <2>3, <3>1 DEF Hears
  <2> QED BY <2>2, <2>3
<1> QED BY <1>3, <1>4, <1>5, Progress

-----------------------------------------------------------------------------
(* What the application was told. *)

Good(n)  == {f \in 1 .. n : Bearable(plan[f])}

(* The frame differs from the good one before it, if there is one.         *)
Fresh(f) == \A e \in Good(f - 1) : (\A d \in Good(f - 1) : d <= e) => plan[e].block # plan[f].block

Told(n)    == {f \in Good(n) : Fresh(f)}
Rank(f, n) == Cardinality({g \in Told(n) : g <= f})

LastKnown ==
  IF Good(Ended) = {} THEN lastResult = Zeros /\ results = <<>>
  ELSE \E m \in Good(Ended) : /\ \A e \in Good(Ended) : e <= m
                              /\ lastResult = plan[m].block
                              /\ results # <<>>
                              /\ results[Len(results)].data = plan[m].block

ToldInOrder ==
  /\ results \in Seq({Outcome(f) : f \in 1 .. Len(plan)})
  /\ Len(results) = Cardinality(Told(Ended))
  /\ \A r \in 1 .. Len(results) :
       \E f \in Told(Ended) : Rank(f, Ended) = r /\ results[r] = Outcome(f)

LEMMA ToldFinite ==
  ASSUME NEW n \in Nat PROVE IsFiniteSet(Told(n)) /\ Cardinality(Told(n)) \in Nat
<1>1. IsFiniteSet(1 .. n) BY FS_Interval
<1>2. Told(n) \subseteq 1 .. n BY DEF Told, Good
<1> QED BY <1>1, <1>2, FS_Subset, FS_CardinalityType

(* One frame more.                                                         *)
LEMMA OneMore ==
  ASSUME NEW n \in Nat
  PROVE  /\ Good(n + 1) = IF Bearable(plan[n + 1]) THEN Good(n) \cup {n + 1} ELSE Good(n)
         /\ Told(n + 1) = IF Bearable(plan[n + 1]) /\ Fresh(n + 1)
                          THEN Told(n) \cup {n + 1} ELSE Told(n)
         /\ n + 1 \notin Told(n)
         /\ \A f \in Told(n) : f \in 1 .. n
<1>1. 1 .. n + 1 = (1 .. n) \cup {n + 1} OBVIOUS
<1>2. Good(n + 1) = IF Bearable(plan[n + 1]) THEN Good(n) \cup {n + 1} ELSE Good(n)
  BY <1>1 DEF Good
<1>3. \A f \in Told(n) : f \in 1 .. n BY DEF Told, Good
<1>4. Told(n + 1) = IF Bearable(plan[n + 1]) /\ Fresh(n + 1)
                    THEN Told(n) \cup {n + 1} ELSE Told(n)
  BY <1>2 DEF Told
<1> QED BY <1>2, <1>3, <1>4

(* CDecodeManager's comparison with the last result tells a fresh frame    *)
(* from a repeated one, the very first included.                           *)
LEMMA FreshIsDifferent ==
  ASSUME TypeOK, LastKnown, NEW n \in 1 .. Len(plan), Ended = n - 1, Bearable(plan[n])
  PROVE  Fresh(n) <=> plan[n].block # lastResult
<1>1. plan \in Plans BY DEF TypeOK
<1>2. CASE Good(n - 1) = {}
  <2>1. lastResult = Zeros BY <1>2 DEF LastKnown
  <2>2. \A e \in 1 .. n - 1 : ~plan[e].bearable BY <1>2 DEF Good, Bearable
  <2>3. plan[n].block # Zeros BY <1>1, <2>2, FirstNotZeros DEF Bearable
  <2>4. Fresh(n) BY <1>2 DEF Fresh
  <2> QED BY <2>1, <2>3, <2>4
<1>3. CASE Good(n - 1) # {}
  <2>1. PICK m \in Good(n - 1) : /\ \A e \in Good(n - 1) : e <= m
                                 /\ lastResult = plan[m].block
    BY <1>3 DEF LastKnown
  <2>2. \A e \in Good(n - 1) : e \in Int BY DEF Good
  <2>3. \A e \in Good(n - 1) : (\A d \in Good(n - 1) : d <= e) <=> e = m
    BY <2>1, <2>2
  <2>4. Fresh(n) <=> plan[m].block # plan[n].block BY <2>1, <2>3 DEF Fresh
  <2> QED BY <2>1, <2>4
<1> QED BY <1>2, <1>3

LEMMA Ranks ==
  ASSUME NEW n \in Nat, n + 1 \in Told(n + 1)
  PROVE  /\ Cardinality(Told(n + 1)) = Cardinality(Told(n)) + 1
         /\ Rank(n + 1, n + 1) = Cardinality(Told(n)) + 1
         /\ \A f \in Told(n) : Rank(f, n + 1) = Rank(f, n)
<1>1. n + 1 \notin Told(n) /\ \A f \in Told(n) : f \in 1 .. n BY OneMore
<1>2. Told(n + 1) = Told(n) \cup {n + 1} BY <1>1, OneMore
<1>3. Cardinality(Told(n + 1)) = Cardinality(Told(n)) + 1
  BY <1>1, <1>2, ToldFinite, FS_AddElement
<1>4. {g \in Told(n + 1) : g <= n + 1} = Told(n + 1) BY <1>1, <1>2
<1>5. Rank(n + 1, n + 1) = Cardinality(Told(n)) + 1 BY <1>3, <1>4 DEF Rank
<1>6. ASSUME NEW f \in Told(n) PROVE Rank(f, n + 1) = Rank(f, n)
  <2>1. {g \in Told(n + 1) : g <= f} = {g \in Told(n) : g <= f} BY <1>1, <1>2
  <2> QED BY <2>1 DEF Rank
<1> QED BY <1>3, <1>5, <1>6

-----------------------------------------------------------------------------
LEMMA ToldInit == TypeOK /\ Init => LastKnown /\ ToldInOrder
<1> SUFFICES ASSUME TypeOK, Init PROVE LastKnown /\ ToldInOrder OBVIOUS
<1>1. Ended = 0 BY DEF Init, Ended, FrameEnd
<1>2. Good(0) = {} /\ Told(0) = {} BY DEF Good, Told
<1>3. results = <<>> /\ lastResult = Zeros BY DEF Init
<1>4. Cardinality(Told(0)) = 0 BY <1>2, FS_EmptySet
<1> QED BY <1>1, <1>2, <1>3, <1>4 DEF LastKnown, ToldInOrder

(* All of this is of the plan, which stays the same, and of Ended.         *)
LEMMA SamePlan ==
  ASSUME plan' = plan, NEW n \in Nat, Ended' = n
  PROVE  /\ Good(Ended)' = Good(n) /\ Told(Ended)' = Told(n)
         /\ \A f : Rank(f, Ended)' = Rank(f, n)
         /\ \A f : Outcome(f)' = Outcome(f)
<1>1. Good(Ended)' = Good(n) BY DEF Good, Bearable
<1>2. Told(Ended)' = Told(n) BY DEF Told, Fresh, Good, Bearable
<1>3. \A f : Rank(f, Ended)' = Rank(f, n) BY <1>2 DEF Rank
<1>4. \A f : Outcome(f)' = Outcome(f) BY DEF Outcome, HeardWrong, Heard
<1> QED BY <1>1, <1>2, <1>3, <1>4

(* A step in which the plan does not move on tells nothing, and changes    *)
(* none of this.                                                           *)
LEMMA ToldStays ==
  ASSUME TypeOK, LastKnown, ToldInOrder, plan' = plan, Ended' = Ended,
         UNCHANGED <<lastResult, results>>
  PROVE  LastKnown' /\ ToldInOrder'
<1>1. PICK n \in Nat : n = Ended BY EndedType
<1>2. /\ Good(Ended)' = Good(Ended) /\ Told(Ended)' = Told(Ended)
      /\ \A f : Rank(f, Ended)' = Rank(f, Ended)
      /\ \A f : Outcome(f)' = Outcome(f)
  BY <1>1, SamePlan
<1>3. LastKnown' BY <1>2 DEF LastKnown
<1>4. {Outcome(f) : f \in 1 .. Len(plan)}' = {Outcome(f) : f \in 1 .. Len(plan)} BY <1>2
<1>5. ToldInOrder' BY <1>2, <1>4 DEF ToldInOrder
<1> QED BY <1>3, <1>5

(* A frame that could not be borne changes nothing.                        *)
LEMMA ToldPasses ==
  ASSUME TypeOK, LastKnown, ToldInOrder, plan' = plan, NEW n \in Nat, Ended = n,
         Ended' = n + 1, ~Bearable(plan[n + 1]), UNCHANGED <<lastResult, results>>
  PROVE  LastKnown' /\ ToldInOrder'
<1>1. Good(n + 1) = Good(n) /\ Told(n + 1) = Told(n) BY OneMore
<1>2. /\ Good(Ended)' = Good(n + 1) /\ Told(Ended)' = Told(n + 1)
      /\ \A f : Rank(f, Ended)' = Rank(f, n + 1)
      /\ \A f : Outcome(f)' = Outcome(f)
  BY SamePlan
<1>3. \A f : Rank(f, n + 1) = Rank(f, n) BY <1>1 DEF Rank
<1>4. LastKnown' BY <1>1, <1>2 DEF LastKnown
<1>5. {Outcome(f) : f \in 1 .. Len(plan)}' = {Outcome(f) : f \in 1 .. Len(plan)} BY <1>2
<1>6. ToldInOrder' BY <1>1, <1>2, <1>3, <1>5 DEF ToldInOrder
<1> QED BY <1>4, <1>6

(* A frame that could is told, or was.                                     *)
LEMMA ToldGrows ==
  ASSUME TypeOK, LastKnown, ToldInOrder, plan' = plan, NEW n \in Nat, Ended = n,
         Ended' = n + 1, n + 1 \in 1 .. Len(plan), Bearable(plan[n + 1]), Hears(n + 1)
  PROVE  LastKnown' /\ ToldInOrder'
<1> DEFINE block == plan[n + 1].block
           Kinds == {Outcome(f) : f \in 1 .. Len(plan)}
<1>1. /\ Good(Ended)' = Good(n + 1) /\ Told(Ended)' = Told(n + 1)
      /\ \A f : Rank(f, Ended)' = Rank(f, n + 1)
      /\ \A f : Outcome(f)' = Outcome(f)
  BY SamePlan
<1>2. /\ Good(n + 1) = Good(n) \cup {n + 1} /\ \A e \in Good(n + 1) : e <= n + 1
      /\ Told(n + 1) = IF Fresh(n + 1) THEN Told(n) \cup {n + 1} ELSE Told(n)
  <2>1. \A e \in Good(n + 1) : e <= n + 1 BY DEF Good
  <2> QED BY <2>1, OneMore
<1>3. Fresh(n + 1) <=> block # lastResult
  <2>1. Ended = (n + 1) - 1 OBVIOUS
  <2> QED BY <2>1, FreshIsDifferent
<1>4. /\ lastResult' = block
      /\ results' = IF block = lastResult THEN results ELSE Append(results, Outcome(n + 1))
  BY DEF Hears
<1>5. Outcome(n + 1).data = block BY DEF Outcome
<1>6. results \in Seq(Kinds) /\ Outcome(n + 1) \in Kinds /\ Len(results) \in Nat
  <2>1. results \in Seq(Kinds) BY DEF ToldInOrder
  <2>2. Outcome(n + 1) \in Kinds OBVIOUS
  <2> HIDE DEF Kinds
  <2> QED BY <2>1, <2>2
<1>7. Kinds' = Kinds BY <1>1
<1>8. results' # <<>> /\ results'[Len(results')].data = block
  <2>1. CASE block = lastResult
    <3>1. Good(n) # {}
      <4>1. CASE Good(n) = {}
        <5>1. Good((n + 1) - 1) = {} BY <4>1
        <5>2. Fresh(n + 1) BY <5>1 DEF Fresh
        <5> QED BY <1>3, <2>1, <5>2
      <4> QED BY <4>1
    <3>2. results # <<>> /\ results[Len(results)].data = lastResult BY <3>1 DEF LastKnown
    <3> QED BY <1>4, <2>1, <3>2
  <2>2. CASE block # lastResult
    <3>1. results' = Append(results, Outcome(n + 1)) BY <1>4, <2>2
    <3> HIDE DEF Kinds
    <3>2. /\ results' # <<>> /\ Len(results') = Len(results) + 1
          /\ results'[Len(results')] = Outcome(n + 1)
      BY <1>6, <3>1
    <3> QED BY <1>5, <3>2
  <2> QED BY <2>1, <2>2
<1>9. LastKnown'
  <2>1. n + 1 \in Good(n + 1) BY <1>2
  <2> QED BY <1>1, <1>2, <1>4, <1>8, <2>1 DEF LastKnown
<1>10. ToldInOrder'
  <2>1. CASE block = lastResult
    <3>1. Told(n + 1) = Told(n) /\ results' = results BY <1>2, <1>3, <1>4, <2>1
    <3>2. \A f : Rank(f, n + 1) = Rank(f, n) BY <3>1 DEF Rank
    <3> QED BY <1>1, <1>7, <3>1, <3>2 DEF ToldInOrder
  <2>2. CASE block # lastResult
    <3>1. n + 1 \in Told(n + 1) /\ Told(n) \subseteq Told(n + 1) BY <1>2, <1>3, <2>2
    <3>2. /\ Cardinality(Told(n + 1)) = Cardinality(Told(n)) + 1
          /\ Rank(n + 1, n + 1) = Cardinality(Told(n)) + 1
          /\ \A f \in Told(n) : Rank(f, n + 1) = Rank(f, n)
      BY <3>1, Ranks
    <3>3. results' = Append(results, Outcome(n + 1)) BY <1>4, <2>2
    <3>4. Len(results) = Cardinality(Told(n)) BY DEF ToldInOrder
    <3> HIDE DEF Kinds
    <3>5. /\ results' \in Seq(Kinds) /\ Len(results') = Len(results) + 1
          /\ results'[Len(results) + 1] = Outcome(n + 1)
          /\ \A r \in 1 .. Len(results) : results'[r] = results[r]
      BY <1>6, <3>3
    <3>6. ASSUME NEW r \in 1 .. Len(results')
          PROVE  \E f \in Told(n + 1) : Rank(f, n + 1) = r /\ results'[r] = Outcome(f)
      <4>1. CASE r = Len(results) + 1 BY <3>1, <3>2, <3>4, <3>5, <4>1
      <4>2. CASE r # Len(results) + 1
        <5>1. r \in 1 .. Len(results) BY <1>6, <3>5, <4>2
        <5>2. PICK f \in Told(n) : Rank(f, n) = r /\ results[r] = Outcome(f)
          BY <5>1 DEF ToldInOrder
        <5> QED BY <3>1, <3>2, <3>5, <5>1, <5>2
      <4> QED BY <4>1, <4>2
    <3>7. results' \in Seq(Kinds') BY <1>7, <3>5
    <3>8. Len(results') = Cardinality(Told(n + 1)) BY <3>2, <3>4, <3>5
    <3>9. \A r \in 1 .. Len(results') :
            \E f \in Told(Ended)' : Rank(f, Ended)' = r /\ results'[r] = Outcome(f)'
      BY <1>1, <3>6
    <3> QED BY <1>1, <3>7, <3>8, <3>9 DEF ToldInOrder, Kinds
  <2> QED BY <2>1, <2>2
<1> QED BY <1>9, <1>10

(* The invariant, and the steps that hold it.                              *)
LinkInv == RegisterHolds /\ AllPutRight /\ LastKnown /\ ToldInOrder

LEMMA LinkInit == TypeOK /\ CodecBears /\ Init => LinkInv
<1> SUFFICES ASSUME TypeOK, CodecBears, Init PROVE LinkInv OBVIOUS
<1>1. RegisterHolds BY DEF Init, RegisterHolds
<1>2. AllPutRight BY DEF Init, CodecBears, AllPutRight
<1> QED BY <1>1, <1>2, ToldInit DEF LinkInv

LEMMA LinkNext ==
  TypeOK /\ TypeOK' /\ LinkInv /\ OnlyFramesDecode' /\ [Next]_vars => LinkInv'
<1> SUFFICES ASSUME TypeOK, TypeOK', LinkInv, OnlyFramesDecode', [Next]_vars
             PROVE  LinkInv'
  OBVIOUS
<1> USE DEF LinkInv
<1>1. RegisterHolds' BY RegisterNext
<1>2. /\ plan' = plan
      /\ \/ Ended' = Ended /\ UNCHANGED <<lastResult, results>>
         \/ /\ Ended' = Ended + 1 /\ Ended' = sent /\ sent \in 1 .. Len(plan)
            /\ Hears(sent)
  BY <1>1, Effect
<1>3. AllPutRight'
  <2>1. \A i : PutRight(plan[i])' <=> PutRight(plan[i])
    BY <1>2 DEF PutRight, HeardWrong, Heard, SyncDamage
  <2> QED BY <1>2, <2>1 DEF AllPutRight, Bearable
<1>4. LastKnown' /\ ToldInOrder'
  <2>1. CASE Ended' = Ended /\ UNCHANGED <<lastResult, results>> BY <1>2, <2>1, ToldStays
  <2>2. CASE /\ Ended' = Ended + 1 /\ Ended' = sent /\ sent \in 1 .. Len(plan)
             /\ Hears(sent)
    <3>1. PICK n \in Nat : n = Ended BY EndedType
    <3>2. sent = n + 1 /\ Ended' = n + 1 /\ n + 1 \in 1 .. Len(plan) BY <2>2, <3>1
    <3>3. Hears(n + 1) BY <2>2, <3>2 DEF Hears, Outcome
    <3>4. CASE Bearable(plan[n + 1]) BY <1>2, <3>1, <3>2, <3>3, <3>4, ToldGrows
    <3>5. CASE ~Bearable(plan[n + 1])
      <4>1. UNCHANGED <<lastResult, results>> BY <3>3, <3>5 DEF Hears
      <4> QED BY <1>2, <3>1, <3>2, <3>5, <4>1, ToldPasses
    <3> QED BY <3>4, <3>5
  <2> QED BY <1>2, <2>1, <2>2
<1> QED BY <1>1, <1>3, <1>4

LEMMA LinkInvariant ==
  Spec /\ CodecBears /\ []OnlyFramesDecode => []LinkInv
BY TypeInit, TypeNext, LinkInit, LinkNext, PTL DEF Spec

-----------------------------------------------------------------------------
(* What of a state of the invariant the properties say.                    *)

LEMMA ArrivesFromInv == TypeOK /\ LinkInv => FrameArrives
<1> SUFFICES ASSUME TypeOK, LastKnown, m_encodeState \in {"esPostamble", "esComplete"},
                    sent > 0, Bearable(plan[sent])
             PROVE  results # <<>> /\ results[Len(results)].data = plan[sent].block
  BY DEF LinkInv, FrameArrives
<1>1. Ended = sent BY DEF Ended
<1>2. sent \in 1 .. Len(plan) /\ Len(plan) \in Nat BY FrameFacts
<1>3. sent \in Good(Ended) BY <1>1, <1>2 DEF Good
<1>4. PICK m \in Good(Ended) : /\ \A e \in Good(Ended) : e <= m
                               /\ results # <<>>
                               /\ results[Len(results)].data = plan[m].block
  BY <1>3 DEF LastKnown
<1>5. m = sent BY <1>1, <1>2, <1>3, <1>4 DEF Good
<1> QED BY <1>4, <1>5

(* A frame the code can bear is what the application was told last, once   *)
(* its last bit is sent: for every block size, every codec that bears what *)
(* is called bearable, and any number of frames before it.                 *)
THEOREM BearableFrameArrives ==
  Spec /\ CodecBears /\ []OnlyFramesDecode => []FrameArrives
BY LinkInvariant, TypeCorrect, ArrivesFromInv, PTL

LEMMA InventedFromInv == TypeOK /\ LinkInv => NothingInvented
<1> SUFFICES ASSUME TypeOK, ToldInOrder PROVE NothingInvented
  BY DEF LinkInv
<1> DEFINE good   == {f \in 1 .. sent : Bearable(plan[f])}
           New(f) == \A e \in good : (e < f /\ \A d \in good : d < f => d <= e)
                                       => plan[e].block # plan[f].block
           begun  == {f \in good : \/ f < sent
                                   \/ m_encodeState \in {"esFec", "esPostamble", "esComplete"}}
           told   == {f \in begun : New(f)}
<1>1. /\ Ended \in Nat /\ sent \in Nat
      /\ Ended = sent \/ Ended = sent - 1
      /\ Ended = sent => m_encodeState \in {"esFec", "esPostamble", "esComplete"}
  BY EndedType, PlansAssumption DEF Ended, FrameEnd, TypeOK
<1>2. ASSUME NEW f \in good PROVE New(f) <=> Fresh(f)
  <2>1. {d \in good : d < f} = Good(f - 1) BY <1>1 DEF Good
  <2> QED BY <2>1 DEF Fresh
<1>3. Told(Ended) = {f \in good : f <= Ended /\ Fresh(f)} BY <1>1 DEF Told, Good
<1>4. \A f \in good : f <= Ended => f \in begun BY <1>1
<1> HIDE DEF New
<1>5. Told(Ended) \subseteq told BY <1>2, <1>3, <1>4
<1>6. \A g \in told : g <= Ended => g \in Told(Ended) BY <1>2, <1>3
<1>7. /\ \A g \in told : g \in 1 .. sent
      /\ \A g \in Told(Ended) : g \in 1 .. Ended
  BY <1>3
<1>8. IsFiniteSet(told) /\ Cardinality(Told(Ended)) <= Cardinality(told)
  <2>1. IsFiniteSet(1 .. sent) BY <1>1, FS_Interval
  <2>2. told \subseteq 1 .. sent BY <1>7
  <2> HIDE DEF told
  <2>3. IsFiniteSet(told) BY <2>1, <2>2, FS_Subset
  <2> QED BY <1>5, <2>3, FS_Subset
<1>9. ASSUME NEW f \in Told(Ended)
      PROVE  Cardinality({g \in told : g <= f}) = Rank(f, Ended)
  <2>1. {g \in told : g <= f} = {g \in Told(Ended) : g <= f}
    BY <1>1, <1>5, <1>6, <1>7
  <2> HIDE DEF told
  <2> QED BY <2>1 DEF Rank
<1>10. Len(results) <= Cardinality(told) BY <1>8 DEF ToldInOrder
<1>11. ASSUME NEW r \in 1 .. Len(results)
       PROVE  \E f \in told : /\ Cardinality({g \in told : g <= f}) = r
                              /\ results[r].data = plan[f].block
  <2>1. PICK f \in Told(Ended) : Rank(f, Ended) = r /\ results[r] = Outcome(f)
    BY DEF ToldInOrder
  <2>2. results[r].data = plan[f].block BY <2>1 DEF Outcome
  <2> HIDE DEF told
  <2> QED BY <1>5, <1>9, <2>1, <2>2
<1> QED BY <1>10, <1>11 DEF NothingInvented, New

(* What the application is told, in order and once each, are frames that   *)
(* were sent and could be borne, whatever the air does to the others.      *)
THEOREM NothingIsInvented ==
  Spec /\ CodecBears /\ []OnlyFramesDecode => []NothingInvented
BY LinkInvariant, TypeCorrect, InventedFromInv, PTL

-----------------------------------------------------------------------------
(* The errors counted.                                                     *)

(* A symbol reads wrong when it was turned, or lost and a zero.            *)
LEMMA WrongSymbols ==
  ASSUME TypeOK, sent > 0
  PROVE  Cardinality(HeardWrong(plan[sent])) =
           Cardinality(plan[sent].hits \ plan[sent].fades)
             + Cardinality(plan[sent].fades \ m_txbuf)
<1> DEFINE turned == plan[sent].hits \ plan[sent].fades
           lost   == plan[sent].fades \ m_txbuf
<1>1. /\ m_txbuf = Encoded(plan[sent].block) /\ 0 \in m_txbuf
      /\ plan[sent].hits \subseteq Air /\ plan[sent].fades \subseteq Air
  BY FrameFacts
<1>2. 0 \notin Air /\ Air \subseteq Symbol BY SizeNat DEF Air, Symbol
<1>3. ASSUME NEW p \in Symbol
      PROVE  (p \in m_txbuf) # (Heard(plan[sent])[p] >= Lost) <=> p \in turned \/ p \in lost
  <2>1. Heard(plan[sent])[p] =
          IF p \in plan[sent].fades THEN Lost
          ELSE IF p = 0 \/ (p \in m_txbuf) # (p \in plan[sent].hits) THEN One ELSE Zero
    BY <1>1 DEF Heard
  <2>2. Lost >= Lost /\ One >= Lost /\ ~(Zero >= Lost) BY DEF Lost, One, Zero
  <2>3. CASE p \in plan[sent].fades BY <2>1, <2>2, <2>3
  <2>4. CASE p \notin plan[sent].fades /\ p = 0
    BY <1>1, <1>2, <2>1, <2>2, <2>4
  <2>5. CASE p \notin plan[sent].fades /\ p # 0 /\ (p \in m_txbuf) # (p \in plan[sent].hits)
    BY <2>1, <2>2, <2>5
  <2>6. CASE p \notin plan[sent].fades /\ p # 0 /\ (p \in m_txbuf) = (p \in plan[sent].hits)
    BY <2>1, <2>2, <2>6
  <2> QED BY <2>3, <2>4, <2>5, <2>6
<1>4. turned \subseteq Symbol /\ lost \subseteq Symbol /\ turned \cap lost = {}
  BY <1>1, <1>2
<1>5. HeardWrong(plan[sent]) = turned \cup lost
  <2>1. HeardWrong(plan[sent]) =
          {p \in Symbol : (p \in m_txbuf) # (Heard(plan[sent])[p] >= Lost)}
    BY <1>1 DEF HeardWrong
  <2> HIDE DEF turned, lost
  <2> QED BY <1>3, <1>4, <2>1
<1> HIDE DEF turned, lost
<1>6. IsFiniteSet(turned) /\ IsFiniteSet(lost)
  <2>1. IsFiniteSet(Symbol) BY SizeNat, FS_Interval DEF Symbol
  <2> QED BY <1>4, <2>1, FS_Subset
<1>7. Cardinality(turned \cup lost) = Cardinality(turned) + Cardinality(lost)
  <2>1. Cardinality(turned) \in Nat /\ Cardinality(lost) \in Nat
    BY <1>6, FS_CardinalityType
  <2>2. Cardinality(turned \cup lost)
          = Cardinality(turned) + Cardinality(lost) - Cardinality(turned \cap lost)
    BY <1>6, FS_Union
  <2>3. Cardinality(turned \cap lost) = 0 BY <1>4, FS_EmptySet
  <2> QED BY <2>1, <2>2, <2>3
<1> QED BY <1>5, <1>7 DEF turned, lost

HonestStep ==
  Len(results') > Len(results) =>
    results'[Len(results')].errorCount =
      LET frame == plan[sent]
      IN  Cardinality(frame.hits \ frame.fades) + Cardinality(frame.fades \ m_txbuf)

LEMMA HonestNext ==
  TypeOK /\ TypeOK' /\ LinkInv /\ LinkInv' /\ OnlyFramesDecode' /\ [Next]_vars
    => HonestStep
<1> SUFFICES ASSUME TypeOK, TypeOK', LinkInv, LinkInv', OnlyFramesDecode', [Next]_vars,
                    Len(results') > Len(results)
             PROVE  results'[Len(results')].errorCount =
                      Cardinality(plan[sent].hits \ plan[sent].fades)
                        + Cardinality(plan[sent].fades \ m_txbuf)
  BY DEF HonestStep
<1>0. results \in Seq({Outcome(f) : f \in 1 .. Len(plan)}) BY DEF LinkInv, ToldInOrder
<1>1. Len(results) \in Nat BY <1>0
<1>2. sent \in 1 .. Len(plan) /\ Hears(sent)
  BY <1>1, Effect DEF LinkInv
<1>3. results' = Append(results, Outcome(sent)) BY <1>1, <1>2 DEF Hears
<1>4. results'[Len(results')] = Outcome(sent)
  <2>1. Outcome(sent) \in {Outcome(f) : f \in 1 .. Len(plan)} BY <1>2
  <2> QED BY <1>0, <1>3, <2>1
<1>5. sent > 0 BY <1>2, PlansAssumption DEF TypeOK
<1> QED BY <1>4, <1>5, WrongSymbols DEF Outcome

(* The error count that goes with a block is the number of symbols the air *)
(* turned, or lost where there was a zero: it counts no symbol of another  *)
(* frame, and the sync symbol that never went out is not an error.         *)
THEOREM ErrorsCounted ==
  Spec /\ CodecBears /\ []OnlyFramesDecode => ErrorCountHonest
<1>1. TypeOK /\ TypeOK' /\ LinkInv /\ LinkInv' /\ OnlyFramesDecode' /\ [Next]_vars
        => [Len(results') > Len(results) =>
              results'[Len(results')].errorCount =
                LET frame == plan[sent]
                IN  Cardinality(frame.hits \ frame.fades)
                      + Cardinality(frame.fades \ m_txbuf)]_vars
  BY HonestNext DEF HonestStep
<1> QED BY <1>1, LinkInvariant, TypeCorrect, PTL DEF Spec, ErrorCountHonest
=============================================================================
